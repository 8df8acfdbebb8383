------------------------------ MODULE MCWatcher ------------------------------
(***************************************************************************)
(* Instances of Watcher for TLC.  The selection holds at most one object,  *)
(* which passes or fails (a selection without it is pending, except for a  *)
(* drain); CEL errors and objects that do neither are the business of      *)
(* MCEvaluate.  A configuration of each kind a wait comes in:              *)
(*   WatchedSet     a set with failure predicate, watched, with settle     *)
(*   PolledSet      the same, polled                                       *)
(*   PolledDrain    succeeds on no objects, an unserved kind included      *)
(*   WatchedSingle  one named object, settled by a single observation      *)
(*   WrongScope     one object of a namespaced kind, without namespace     *)
(***************************************************************************)
EXTENDS WatcherContract

x == [ns |-> "a", name |-> "x"]
MCKeys == {x}
MCObjects == {"passing", "failing"}

Is(o) == [p \in MCObjects |-> IF p = o THEN "true" ELSE "false"]

WatchedSet ==
    [Name |-> "", Namespace |-> "a", Absent |-> "pending",
     Filter |-> NoProgram, Expression |-> Is("passing"), FailureExpression |-> Is("failing"),
     SetExpression |-> NoProgram, SuccessConditions |-> {}, FailureConditions |-> {},
     MinMatching |-> 1, MaxMatching |-> -1, RequireAll |-> FALSE,
     Timeout |-> 3, Settle |-> 1, PollInterval |-> 2, ProgressInterval |-> 2, Watch |-> TRUE]

PolledSet == [WatchedSet EXCEPT !.Watch = FALSE]

PolledDrain ==
    [PolledSet EXCEPT !.Expression = NoProgram, !.FailureExpression = NoProgram,
                      !.MinMatching = 0, !.MaxMatching = 0]

WatchedSingle == [WatchedSet EXCEPT !.Name = "x", !.Settle = 0]

WrongScope == [WatchedSingle EXCEPT !.Namespace = ""]

(* A longer budget, with room for backoff to double and settle to restart. *)
Longer(sp) == [sp EXCEPT !.Timeout = 8, !.Settle = 2, !.PollInterval = 4, !.ProgressInterval = 5]

AllSpecs == {WatchedSet, PolledDrain, WatchedSingle, WrongScope}
LongerSpecs == {Longer(WatchedSet), Longer(PolledSet), Longer(PolledDrain)}
OneSpec == {WatchedSet}
==============================================================================
