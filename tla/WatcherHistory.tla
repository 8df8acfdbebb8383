--------------------------- MODULE WatcherHistory ---------------------------
(***************************************************************************)
(* What a wait promises, as properties of Watcher.  The promises speak of  *)
(* what happened earlier, so this module adds one history variable, h,     *)
(* which every step updates and no step reads.                             *)
(***************************************************************************)
EXTENDS Watcher

VARIABLE h

hvars == <<vars, h>>

History == [erredAt : Int,      \* when the runner last met an error that is
                                \* retried with backoff, or -1
            unseen : BOOLEAN,   \* it has met an error of any kind, or the end of
                                \* its watch, and seen no snapshot since
            quietSince : Nat,   \* when the server or the cluster last changed
                                \* (kept when Prompt: the timed properties use it)
            served : BOOLEAN,   \* what the last resolve the runner read said
            unauth : Nat,       \* 401 answers to resolve and list in a row
            watchUnauth : Nat]  \* 401 answers to watch in a row

HInit ==
    /\ Init
    /\ h = [erredAt |-> -1, unseen |-> TRUE, quietSince |-> 0, served |-> TRUE, unauth |-> 0, watchUnauth |-> 0]

Failed == pc \in Requesting /\ call.st = "failed" /\ pc' # pc

(* The errors retried with backoff, of a request and of a watch.  The 401   *)
(* that is retried and the expired version of a watch are not among them:   *)
(* the runner goes on to the next list at once, and observes nothing.       *)
MeetsError ==
    \/ /\ Failed
       /\ call.err = "other" \/ (call.err = "gone" /\ pc # "watch")
    \/ pc = "select" /\ SelectError("other")

(* Any error, and any end of the watch. *)
Interrupted ==
    \/ Failed
    \/ SelectClosed \/ SelectGone \/ \E e \in ErrKinds \ {"gone"} : SelectError(e)

(* A fresh snapshot is read: a list, or that the kind is not served. *)
SeesSnapshot == call.st = "ok" /\ pc' # pc /\ (pc = "list" \/ (pc = "resolve" /\ ~call.served))

Disturbed == hist' # hist \/ served' # served \/ faults' # faults \/ ctxDone' # ctxDone

Answered(ps, st) == pc \in ps /\ call.st = "waiting" /\ call'.st = st

(* A cycle whose snapshot was read: the list answered, or the kind is not   *)
(* served and there is nothing to list.                                     *)
Listed == Answered({"list"}, "ok") \/ (Answered({"resolve"}, "ok") /\ ~call'.served)

InARow(n, ps, ok) ==
    IF Answered(ps, "failed") /\ call'.err = "unauthorized" THEN n + 1
    ELSE IF ok THEN 0 ELSE n

HNext ==
    /\ Next
    /\ h' = [erredAt |-> IF MeetsError THEN now ELSE h.erredAt,
             unseen |-> Interrupted \/ (h.unseen /\ ~SeesSnapshot),
             quietSince |-> IF Prompt /\ Disturbed THEN now ELSE h.quietSince,
             served |-> IF pc = "resolve" /\ call.st = "ok" /\ pc' # pc
                        THEN call.served ELSE h.served,
             unauth |-> InARow(h.unauth, {"resolve", "list"}, Listed),
             watchUnauth |-> InARow(h.watchUnauth, {"watch"}, Answered({"watch"}, "ok"))]

HSpec == HInit /\ [][HNext]_hvars

------------------------------------------------------------------------------
(* No settle window reaches back across an error that is retried with       *)
(* backoff, at discovery, list, watch request or watch event: the verdict   *)
(* was first seen after it (apiError's pending observation).  A 401 that is *)
(* retried and a 410 of a watch do not restart the window.                  *)
ErrorResetsSettle == HasDeadline(tracker) => h.erredAt < tracker.since

(* ... but after any error, those two included, and after any end of a      *)
(* watch, nothing settles before a fresh snapshot has been read: a verdict  *)
(* is held through a watch only while that watch is alive.                  *)
SettlesOnSight == result.kind = "settled" => ~h.unseen

(* A success carries the "not served" warning exactly when the kind was not *)
(* served at the snapshot that settled it: a CRD established mid-wait takes *)
(* the warning away, a success over no kind never goes without it.          *)
VacuousSuccessWarned ==
    result.kind = "settled" /\ result.verdict = "success" => (result.warn <=> ~h.served)

(* Credentials the server keeps rejecting get one immediate retry: the      *)
(* second 401 in a row to resolve or list ends the wait.                    *)
OneUnauthorizedRetry == h.unauth >= 2 => call.st = "failed" \/ result.kind = "fatal"

------------------------------------------------------------------------------
(* With a prompt runner and immediate answers: a wait times out only if its *)
(* verdict was not there to be seen in time.  Once the cluster and the      *)
(* server are quiet, one poll_interval (or one minCycle pause) and settle   *)
(* are enough, whatever errors, closed watches and retries went before.     *)
Max2(a, b) == IF a > b THEN a ELSE b

NoMissedVerdict ==
    /\ result.kind = "timeout"
    /\ Verdict(s, hist[Len(hist)].objs) # "pending"
    => s.Timeout <= h.quietSince + Max2(s.PollInterval, MinCycle) + s.Settle

(* With a prompt runner and immediate answers a verdict settles when its    *)
(* window ends; only the pause after a closed watch can delay it, and by    *)
(* less than minCycle.                                                      *)
SettlesOnTime ==
    pc # "done" /\ HasDeadline(tracker) => now < Deadline(tracker, s.Settle) + MinCycle

(* README: "Progress goes out on every verdict change, every                *)
(* progress_interval".  With a prompt runner and immediate answers no       *)
(* silence is longer than that: heartbeats go on through re-lists, pauses   *)
(* and backoff, whose timers know nothing of each other.                    *)
NeverSilent ==
    pc # "done" /\ progress.emitted => now <= progress.lastEmit + s.ProgressInterval

------------------------------------------------------------------------------
(* What the repository says of the program and the code does not do.        *)

(* README: "timeout is required, and its expiry is a failure": no success   *)
(* is returned once the deadline has passed.                                *)
NoSuccessAfterDeadline ==
    result.kind = "settled" /\ result.verdict = "success" => now <= s.Timeout

(* README: "401 fails after one immediate retry", of a Watch request too. *)
WatchUnauthorizedEnds == h.watchUnauth >= 2 => call.st = "failed" \/ pc = "done"

(* runner.go, on settling a watched verdict: "no event since, so the        *)
(* verdict has held".                                                       *)
NoUnreadEventAtSettle ==
    [][WaitSettleByWatch => pos = arrived]_hvars
==============================================================================
