---------------------------- MODULE EvaluateCheck ----------------------------
(***************************************************************************)
(* The evaluator against what it promises.  A case fixes a configuration;  *)
(* the snapshot starts empty and objects come, change and go one at a      *)
(* time, so that every snapshot over Keys and Objects is judged.           *)
(***************************************************************************)
EXTENDS Evaluate, SequencesExt

CONSTANTS Keys,         \* the references the selection may hold
          Objects,      \* what an object may look like
          Cases,        \* the configurations checked
          SpecOf(_)     \* the parsed Spec of a case

VARIABLES case, objs

vars == <<case, objs>>

Snapshots == [Keys -> Objects \cup {NoObject}]

(* What the evaluator reads of a Spec. *)
Fields == {"Name", "Namespace", "Absent", "Filter", "Expression", "FailureExpression",
           "SetExpression", "SuccessConditions", "FailureConditions", "MinMatching",
           "MaxMatching", "RequireAll"}

(* What the per-object programs and set_expression are asked about.         *)
Inputs(snap) == {snap[k] : k \in Present(snap)}
SetInputs(snap) == {[k \in K |-> snap[k]] : K \in SUBSET Present(snap)}
Answers == {"true", "false"}

(* The objects of a cluster-scoped kind have no namespace, and their names  *)
(* are unique; those of a namespaced kind are unique in their namespace.    *)
ASSUME KeysAssumption ==
    /\ IsFiniteSet(Keys)
    /\ \A k, l \in Keys : k.name = l.name /\ k.ns \in {"", l.ns} => k = l

ASSUME ObjectsAssumption ==
    /\ NoObject \notin Objects
    /\ \A o \in Objects : /\ Len(o.conditions) \in Nat
                          /\ DOMAIN o.conditions = 1 .. Len(o.conditions)

(* Parse makes the counts integers; the runner's scopeError lets a single   *)
(* Spec through only when its name, and its namespace if it has one, leave  *)
(* one reference.                                                           *)
ASSUME CasesAssumption ==
    \A c \in Cases :
        LET s == SpecOf(c)
        IN /\ DOMAIN s = Fields
           /\ EvaluatorRules(s)
           /\ Single(s) =>
                 \A k, l \in Keys :
                    k.name = s.Name /\ l.name = s.Name /\ s.Namespace \in {"", k.ns} \cap {"", l.ns}
                    => k = l

(* An attribute left out is no program. *)
ASSUME NoProgramAssumption ==
    \A snap \in Snapshots :
        NoProgram \notin [Inputs(snap) -> Answers] \cup [SetInputs(snap) -> Answers]

Init ==
    /\ case \in Cases
    /\ objs = [k \in Keys |-> NoObject]

Appear(k, o) ==
    /\ objs[k] # o
    /\ objs' = [objs EXCEPT ![k] = o]
    /\ UNCHANGED case

Vanish(k) ==
    /\ objs[k] # NoObject
    /\ objs' = [objs EXCEPT ![k] = NoObject]
    /\ UNCHANGED case

Next == \E k \in Keys : Vanish(k) \/ \E o \in Objects : Appear(k, o)

Spec == Init /\ [][Next]_vars

------------------------------------------------------------------------------
(* The promise, for programs that never err, in the words of the README's   *)
(* list: written from what the configuration means, not from the code.      *)
ConditionMet(c, o) ==
    LET i == SelectInSeq(o.conditions, LAMBDA e : e.type = c.Type)
    IN /\ i > 0
       /\ o.conditions[i].status = c.Status
       /\ ~c.HasReason \/ o.conditions[i].reason = c.Reason

True(p, x) == p = NoProgram \/ p[x] = "true"

MeansFailure(s, o) ==
    \/ \E c \in s.FailureConditions : ConditionMet(c, o)
    \/ s.FailureExpression # NoProgram /\ True(s.FailureExpression, o)

MeansPass(s, o) ==
    (\A c \in s.SuccessConditions : ConditionMet(c, o)) /\ True(s.Expression, o)

Meaning(s, snap) ==
    LET M == {k \in Present(snap) : True(s.Filter, snap[k])}
        P == {k \in M : MeansPass(s, snap[k])}
        max == IF s.MaxMatching < 0 THEN Cardinality(Keys) ELSE s.MaxMatching
    IN IF \E k \in M : MeansFailure(s, snap[k]) THEN "failure"
       ELSE IF /\ Cardinality(P) \in s.MinMatching .. max
               /\ s.RequireAll => M \subseteq P
               /\ True(s.SetExpression, [k \in M |-> snap[k]])
            THEN "success" ELSE "pending"

SingleMeaning(s, snap) ==
    LET K == {k \in Present(snap) : k.name = s.Name /\ s.Namespace \in {"", k.ns}}
    IN IF K = {} THEN s.Absent
       ELSE Meaning([s EXCEPT !.Filter = NoProgram, !.SetExpression = NoProgram,
                              !.RequireAll = FALSE, !.MinMatching = 1, !.MaxMatching = -1],
                    [k \in K |-> snap[k]])

SpecMeaning(s, snap) == IF Single(s) THEN SingleMeaning(s, snap) ELSE Meaning(s, snap)

------------------------------------------------------------------------------
(* An erring result could turn out true or false once the object gains the  *)
(* field the expression reads: the completions of a program over inputs D.  *)
Completions(p, D) ==
    IF p = NoProgram THEN {NoProgram}
    ELSE {q \in [D -> Answers] : \A x \in D : p[x] # "error" => q[x] = p[x]}

WithPrograms(s, f, e, x, y) ==
    [s EXCEPT !.Filter = f, !.Expression = e, !.FailureExpression = x, !.SetExpression = y]

SpecCompletions(s, snap) ==
    LET D == Inputs(snap)
    IN {WithPrograms(s, f, e, x, y) :
            f \in Completions(s.Filter, D), e \in Completions(s.Expression, D),
            x \in Completions(s.FailureExpression, D),
            y \in Completions(s.SetExpression, SetInputs(snap))}

(* A CEL error never decides: the success or failure Evaluate returns is    *)
(* the meaning of the configuration whatever the erring expressions would   *)
(* have said.  A filter error cannot let a drain pass, and an error about   *)
(* one object neither hides a failure nor invents one.                      *)
ErrorsNeverDecide ==
    LET s == SpecOf(case)
        v == Verdict(s, objs)
    IN v # "pending" => \A c \in SpecCompletions(s, objs) : SpecMeaning(c, objs) = v

ErrorFree(s, snap) ==
    /\ \A p \in {s.Filter, s.Expression, s.FailureExpression} \ {NoProgram} :
           \A o \in Inputs(snap) : p[o] # "error"
    /\ s.SetExpression = NoProgram \/ \A m \in SetInputs(snap) : s.SetExpression[m] # "error"

(* Without an error the verdict is exactly the meaning of the               *)
(* configuration: Evaluate does not stay pending when it could decide.      *)
DecidesWithoutErrors ==
    LET s == SpecOf(case)
    IN ErrorFree(s, objs) => Verdict(s, objs) = SpecMeaning(s, objs)

(* Failure wins ties and errors: one observed object that surely matches    *)
(* and surely fails makes the verdict failure, whatever errs and whatever   *)
(* else passes.                                                             *)
ProvenFailureWins ==
    LET s == SpecOf(case)
        Observed == IF Single(s)
                    THEN {k \in Present(objs) : k.name = s.Name /\ s.Namespace \in {"", k.ns}}
                    ELSE {k \in Present(objs) : True(s.Filter, objs[k])}
    IN (\E k \in Observed : MeansFailure(s, objs[k])) => Verdict(s, objs) = "failure"

(* A single-object wait is the set wait over that object alone: evaluate.go *)
(* writes the two paths separately, with their own order of checks.         *)
SingleAgreesWithSet ==
    LET s == SpecOf(case)
    IN \A k \in Present(objs) :
          LET one == [x \in {k} |-> objs[x]]
              sSingle == [s EXCEPT !.Name = k.name, !.Namespace = k.ns]
              sSet == [s EXCEPT !.Name = "", !.Filter = NoProgram, !.SetExpression = NoProgram,
                                !.RequireAll = FALSE, !.MinMatching = 1, !.MaxMatching = -1]
          IN evaluateSingle(sSingle, objs) = evaluateSet(sSet, one)
==============================================================================
