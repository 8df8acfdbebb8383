----------------------------- MODULE SettleClock -----------------------------
(***************************************************************************)
(* The settle clock of internal/wait/settle.go: a success or a failure     *)
(* counts only once it has held continuously for the settle window.        *)
(*                                                                         *)
(* Times and durations are natural numbers of one unit.  A tracker is the  *)
(* record of the Go struct's mutable fields; its settle window is passed   *)
(* to the operators that read it.                                          *)
(***************************************************************************)
EXTENDS Integers

Verdicts == {"pending", "success", "failure"}

Tracker == [started : BOOLEAN, state : Verdicts, since : Nat]

NewTracker == [started |-> FALSE, state |-> "pending", since |-> 0]

(***************************************************************************)
(* Mutants: a detour through pending does not restart the clock; a change  *)
(* of verdict keeps the old start; the window is compared strictly.        *)
(***************************************************************************)
ObserveThroughPending(t, now, v) ==
    IF ~t.started \/ (v # t.state /\ v # "pending")
    THEN [started |-> TRUE, state |-> v, since |-> now]
    ELSE t

ObserveKeepsSince(t, now, v) ==
    IF t.started THEN [t EXCEPT !.state = v]
    ELSE [started |-> TRUE, state |-> v, since |-> now]

SettledStrictly(t, settle, now) ==
    /\ t.started
    /\ t.state # "pending"
    /\ now - t.since > settle

(***************************************************************************)
(* Observe records the verdict seen at now: a verdict that differs from    *)
(* the previous one restarts the clock, the same one leaves it running.    *)
(* Whether it settles is Settled of the tracker this returns.              *)
(***************************************************************************)
Observe(t, now, v) ==
    IF ~t.started \/ v # t.state
    THEN [started |-> TRUE, state |-> v, since |-> now]
    ELSE t

Settled(t, settle, now) ==
    /\ t.started
    /\ t.state # "pending"
    /\ now - t.since >= settle

(* Deadline is defined only when there is a verdict to settle. *)
HasDeadline(t) == t.started /\ t.state # "pending"

Deadline(t, settle) == t.since + settle
==============================================================================
