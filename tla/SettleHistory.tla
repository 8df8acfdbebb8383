---------------------------- MODULE SettleHistory ----------------------------
(***************************************************************************)
(* The settle clock against the history it stands for.  The tracker keeps  *)
(* three fields; what it promises is about everything that was observed.   *)
(* This module feeds one tracker arbitrary verdicts at arbitrary times     *)
(* (never going back: the runner reads one clock) and keeps the whole log. *)
(***************************************************************************)
EXTENDS SettleClock, Sequences

CONSTANTS Settle,       \* the settle window
          Horizon,      \* bound: the last instant of the model
          MaxLog        \* bound: how many observations are made

ASSUME HistoryAssumption == Settle \in Nat /\ Horizon \in Nat /\ MaxLog \in Nat

VARIABLES now, tracker, log

vars == <<now, tracker, log>>

Observation == [at : Nat, v : Verdicts]

TypeOK ==
    /\ now \in Nat
    /\ tracker \in Tracker
    /\ log \in Seq(Observation)

Init ==
    /\ now = 0
    /\ tracker = NewTracker
    /\ log = << >>

Tick ==
    /\ now < Horizon
    /\ now' = now + 1
    /\ UNCHANGED <<tracker, log>>

See(v) ==
    /\ Len(log) < MaxLog
    /\ tracker' = Observe(tracker, now, v)
    /\ log' = Append(log, [at |-> now, v |-> v])
    /\ UNCHANGED now

Next == Tick \/ \E v \in Verdicts : See(v)

Spec == Init /\ [][Next]_vars

------------------------------------------------------------------------------
(* Every observation from the i-th on saw v, and the i-th is at least the   *)
(* settle window old: what "held continuously for settle" means.            *)
HeldSince(i, v) ==
    /\ log[i].at + Settle <= now
    /\ \A j \in i .. Len(log) : log[j].v = v

HeldContinuously(v) == \E i \in 1 .. Len(log) : HeldSince(i, v)

(* The tracker (Observe and Settled in settle.go) settles exactly when the  *)
(* log shows one success or failure held for the window.  A detour through  *)
(* pending, or a flip between two equal verdicts, restarts the wait.        *)
SettledIffHeld ==
    Settled(tracker, Settle, now)
        <=> (tracker.state # "pending" /\ HeldContinuously(tracker.state))

(* No other verdict than the tracker's can have held: at every instant at   *)
(* most one verdict is settled, and it is the one last observed.            *)
OnlyTheLastVerdictHolds ==
    \A v \in Verdicts : HeldContinuously(v) => v = tracker.state

------------------------------------------------------------------------------
(* The strengthening that makes SettledIffHeld inductive: since is the time *)
(* of the first observation of the log's last run of equal verdicts.        *)
RunStartsAt(i) ==
    /\ i \in 1 .. Len(log)
    /\ log[i].at = tracker.since
    /\ \A j \in i .. Len(log) : log[j].v = tracker.state
    /\ i > 1 => log[i - 1].v # tracker.state

LogOrdered ==
    /\ \A i \in 1 .. Len(log) : log[i].at <= now
    /\ \A i, j \in 1 .. Len(log) : i <= j => log[i].at <= log[j].at

TrackerIsLastRun ==
    IF log = << >> THEN tracker = NewTracker
    ELSE tracker.started /\ \E i \in 1 .. Len(log) : RunStartsAt(i)

IInv == TypeOK /\ LogOrdered /\ TrackerIsLastRun
==============================================================================
