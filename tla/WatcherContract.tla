--------------------------- MODULE WatcherContract ---------------------------
(***************************************************************************)
(* The runner implements WaitContract: the versions are those of the       *)
(* server's history, the version last looked at is the one the cache       *)
(* reflects, and the verdict held is the tracker's, once it is not pending. *)
(***************************************************************************)
EXTENDS Watcher

verdictOf == [i \in 1 .. Len(hist) |-> Verdict(s, hist[i].objs)]

heldVerdict ==
    IF HasDeadline(tracker) THEN [verdict |-> tracker.state, since |-> tracker.since]
    ELSE [verdict |-> "pending", since |-> 0]

Contract == INSTANCE WaitContract WITH
    clock <- now, window <- s.Settle, budget <- s.Timeout,
    verdicts <- verdictOf, abandoned <- ctxDone,
    seen <- pos, held <- heldVerdict,
    outcome <- [kind |-> result.kind, verdict |-> result.verdict]

(* Every step of the runner, its environment and the clock is one of the    *)
(* contract or changes nothing it speaks of: through lists, watch events,   *)
(* re-lists, errors, retries, sleeps and heartbeats a wait reads versions   *)
(* forward only, starts the settle clock at the very look that gave the     *)
(* verdict, settles it at the first look at which its window is over, and   *)
(* ends in no other way than those README names.                            *)
ImplementsContract == Contract!Spec
==============================================================================
