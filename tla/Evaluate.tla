------------------------------- MODULE Evaluate -------------------------------
(***************************************************************************)
(* The pure evaluator of internal/wait: conditions.go, the evaluation half *)
(* of cel.go, and evaluate.go.                                             *)
(*                                                                         *)
(* A snapshot maps every object reference [ns, name] to the object under   *)
(* it, or to NoObject.  (The Go code gets a list and sorts it by reference *)
(* for its messages.  The order could decide a verdict only in single mode *)
(* without a namespace; the runner's scopeError lets that through only for *)
(* a cluster-scoped kind, where the name is unique.)  An object is         *)
(* a record whose field conditions is its status.conditions list; a string *)
(* the Go code fails to read is "".  A compiled CEL program is a function  *)
(* from its input to "true", "false" or "error" (a runtime error, the cost *)
(* limit, a result that is not a bool); NoProgram is an attribute left     *)
(* out.                                                                    *)
(* Reasons and counts, which only messages show, are left out.             *)
(***************************************************************************)
EXTENDS Integers, FiniteSets, Sequences

CONSTANTS NoObject,     \* the value of a snapshot at a reference not in it
          NoProgram     \* a CEL attribute that is not configured

Results == {"true", "false", "error"}

Single(s) == s.Name # ""

hasSuccessPredicates(s) == s.SuccessConditions # {} \/ s.Expression # NoProgram

Drain(s) == s.MaxMatching = 0 /\ ~hasSuccessPredicates(s)

(* What Parse guarantees of the durations of a Spec. *)
ValidDurations(s) ==
    /\ s.Timeout \in Nat /\ s.Settle \in Nat /\ s.PollInterval \in Nat /\ s.ProgressInterval \in Nat
    /\ s.Settle < s.Timeout
    /\ s.PollInterval > 0
    /\ s.ProgressInterval > 0

(* What the runner takes for granted of the Spec it is given: the           *)
(* assumption on the configurations of Watcher.                             *)
RunnerRules(s) ==
    /\ ValidDurations(s)
    /\ s.Absent \in {"pending", "success", "failure"}
    /\ s.Watch \in BOOLEAN

(* ... and the evaluator: the assumption on those of EvaluateCheck.         *)
EvaluatorRules(s) ==
    s.MinMatching \in Int /\ s.MaxMatching \in Int /\ s.RequireAll \in BOOLEAN

Present(objs) == {k \in DOMAIN objs : objs[k] # NoObject}

------------------------------------------------------------------------------
(* The first status.conditions entry of the type counts; a later entry of   *)
(* the same type is never looked at.                                        *)
conditionEntry(o, typ, i) ==
    /\ i \in DOMAIN o.conditions
    /\ o.conditions[i].type = typ
    /\ \A j \in 1 .. i - 1 : o.conditions[j].type # typ

(* Mutant: any entry of the type may satisfy the condition. *)
holdsAnyEntry(c, o) ==
    \E i \in DOMAIN o.conditions :
        /\ o.conditions[i].type = c.Type
        /\ o.conditions[i].status = c.Status
        /\ c.HasReason => o.conditions[i].reason = c.Reason

holds(c, o) ==
    \E i \in DOMAIN o.conditions :
        /\ conditionEntry(o, c.Type, i)
        /\ o.conditions[i].status = c.Status
        /\ c.HasReason => o.conditions[i].reason = c.Reason

------------------------------------------------------------------------------
(* judge: one object's standing against the per-object predicates.  A       *)
(* failure condition that holds hides the failure expression, an unmet      *)
(* success condition hides the expression; an error is kept only for an     *)
(* object no failure is proven of.                                          *)
failsByCondition(s, o) == \E c \in s.FailureConditions : holds(c, o)

fails(s, o) ==
    \/ failsByCondition(s, o)
    \/ s.FailureExpression # NoProgram /\ s.FailureExpression[o] = "true"

unmet(s, o) == {c \in s.SuccessConditions : ~holds(c, o)}

passes(s, o) ==
    /\ unmet(s, o) = {}
    /\ s.Expression # NoProgram => s.Expression[o] = "true"

failureError(s, o) ==
    /\ ~failsByCondition(s, o)
    /\ s.FailureExpression # NoProgram
    /\ s.FailureExpression[o] = "error"

passError(s, o) ==
    /\ unmet(s, o) = {}
    /\ s.Expression # NoProgram
    /\ s.Expression[o] = "error"

(* Mutant: an erring failure expression counts as false. *)
judgeSkipsFailureError(s, o) ==
    [fails |-> fails(s, o), passes |-> passes(s, o),
     err |-> ~fails(s, o) /\ passError(s, o)]

judge(s, o) ==
    [fails |-> fails(s, o), passes |-> passes(s, o),
     err |-> ~fails(s, o) /\ (failureError(s, o) \/ passError(s, o))]

------------------------------------------------------------------------------
(* Single mode: the named object, in the named namespace when there is one. *)
named(s, objs) ==
    {k \in Present(objs) : k.name = s.Name /\ (s.Namespace = "" \/ k.ns = s.Namespace)}

(* Mutant: a pass is reported before the evaluation error is looked at. *)
evaluateSinglePassFirst(s, objs) ==
    IF named(s, objs) = {} THEN s.Absent
    ELSE LET j == judge(s, objs[CHOOSE k \in named(s, objs) : TRUE])
         IN CASE j.fails -> "failure"
              [] ~j.fails /\ j.passes -> "success"
              [] OTHER -> "pending"

evaluateSingle(s, objs) ==
    IF named(s, objs) = {} THEN s.Absent
    ELSE LET j == judge(s, objs[CHOOSE k \in named(s, objs) : TRUE])
         IN CASE j.fails -> "failure"
              [] ~j.fails /\ j.err -> "pending"
              [] ~j.fails /\ ~j.err /\ j.passes -> "success"
              [] OTHER -> "pending"

------------------------------------------------------------------------------
(* Set mode. *)
filtered(s, o) == IF s.Filter = NoProgram THEN "true" ELSE s.Filter[o]

matched(s, objs) == {k \in Present(objs) : filtered(s, objs[k]) = "true"}

matchedObjects(s, objs) == [k \in matched(s, objs) |-> objs[k]]

failing(s, objs) == {k \in matched(s, objs) : judge(s, objs[k]).fails}

passing(s, objs) == {k \in matched(s, objs) : judge(s, objs[k]).passes}

EvalErrors(s, objs) ==
    {k \in Present(objs) :
        \/ filtered(s, objs[k]) = "error"
        \/ filtered(s, objs[k]) = "true" /\ judge(s, objs[k]).err}

(* The counts are met: a drain leaves nothing, the number of passing        *)
(* objects lies between min_matching and max_matching, and with require_all *)
(* every matched object passes.                                             *)
countsMet(s, objs) ==
    LET n == Cardinality(passing(s, objs))
    IN /\ Drain(s) => n = 0
       /\ s.MaxMatching >= 0 => n <= s.MaxMatching
       /\ n >= s.MinMatching
       /\ s.RequireAll => passing(s, objs) = matched(s, objs)

setHolds(s, objs) ==
    s.SetExpression # NoProgram => s.SetExpression[matchedObjects(s, objs)] = "true"

(* Mutants: the errors are never looked at; they are looked at before a     *)
(* failure.                                                                 *)
evaluateSetDropsErrors(s, objs) ==
    CASE failing(s, objs) # {} -> "failure"
      [] failing(s, objs) = {} /\ countsMet(s, objs) /\ setHolds(s, objs) -> "success"
      [] OTHER -> "pending"

evaluateSetErrorsFirst(s, objs) ==
    CASE EvalErrors(s, objs) # {} -> "pending"
      [] EvalErrors(s, objs) = {} /\ failing(s, objs) # {} -> "failure"
      [] EvalErrors(s, objs) = {} /\ failing(s, objs) = {}
           /\ countsMet(s, objs) /\ setHolds(s, objs) -> "success"
      [] OTHER -> "pending"

(* Failure wins ties, and a proven failure beats an evaluation error; an    *)
(* error keeps everything else pending.                                     *)
evaluateSet(s, objs) ==
    CASE failing(s, objs) # {} -> "failure"
      [] /\ failing(s, objs) = {}
         /\ EvalErrors(s, objs) = {}
         /\ countsMet(s, objs)
         /\ setHolds(s, objs) -> "success"
      [] OTHER -> "pending"

Verdict(s, objs) == IF Single(s) THEN evaluateSingle(s, objs) ELSE evaluateSet(s, objs)
==============================================================================
