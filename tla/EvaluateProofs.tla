---------------------------- MODULE EvaluateProofs ----------------------------
(***************************************************************************)
(* Proofs about the evaluator, for every finite set of references, every   *)
(* set of objects, every program and every configuration.                  *)
(***************************************************************************)
EXTENDS EvaluateCheck, FiniteSetTheorems, WellFoundedInduction, TLAPS

------------------------------------------------------------------------------
(* One object: the code's judgement is what the configuration means.        *)

LEMMA LeastIndex ==
    ASSUME NEW S \in SUBSET Nat, S # {}
    PROVE  Min(S) \in S /\ \A j \in S : Min(S) <= j
  <1> DEFINE R == OpToRel(<, Nat)
  <1>1. IsWellFoundedOn(R, Nat)
    BY NatLessThanWellFounded
  <1>2. PICK i \in S : \A j \in S : <<j, i>> \notin R
    <2> HIDE DEF R
    <2> QED BY <1>1, WFMin
  <1>3. \A j \in S : ~(j < i)
    BY <1>2 DEF OpToRel
  <1> HIDE DEF R
  <1>4. \E m \in S : \A j \in S : m <= j
    BY <1>3
  <1> QED BY <1>4 DEF Min

(* The first entry of the type, found by the code's search from the front,  *)
(* is the one the meaning selects.                                          *)
LEMMA HoldsIsMet ==
    ASSUME NEW o \in Objects, NEW c
    PROVE  holds(c, o) <=> ConditionMet(c, o)
  <1> DEFINE I == {j \in 1 .. Len(o.conditions) : o.conditions[j].type = c.Type}
             i == SelectInSeq(o.conditions, LAMBDA e : e.type = c.Type)
  <1>1. Len(o.conditions) \in Nat /\ DOMAIN o.conditions = 1 .. Len(o.conditions)
    BY ObjectsAssumption
  <1>2. i = IF I # {} THEN Min(I) ELSE 0
    BY DEF SelectInSeq
  <1>3. ConditionMet(c, o) <=>
           i > 0 /\ o.conditions[i].status = c.Status
                 /\ (~c.HasReason \/ o.conditions[i].reason = c.Reason)
    BY DEF ConditionMet
  <1> HIDE DEF i
  <1>4. I \in SUBSET Nat /\ (I # {} => Min(I) \in I /\ \A j \in I : Min(I) <= j)
    <2>1. I \in SUBSET Nat
      BY <1>1
    <2> HIDE DEF I
    <2> QED BY <2>1, LeastIndex
  <1>5. ASSUME NEW j \in DOMAIN o.conditions
        PROVE  conditionEntry(o, c.Type, j) <=> i > 0 /\ j = i
    <2>1. CASE I = {}
      BY <1>1, <1>2, <1>5, <2>1 DEF conditionEntry
    <2>2. CASE I # {}
      <3>1. i \in I /\ i \in 1 .. Len(o.conditions) /\ \A m \in I : i <= m
        BY <1>2, <1>4, <2>2
      <3>2. o.conditions[i].type = c.Type
        BY <3>1
      <3>3. ASSUME conditionEntry(o, c.Type, j) PROVE j = i
        BY <1>1, <1>5, <3>1, <3>2, <3>3 DEF conditionEntry
      <3>4. ASSUME j = i PROVE conditionEntry(o, c.Type, j)
        <4>1. \A m \in 1 .. i - 1 : m \in 1 .. Len(o.conditions) /\ ~(i <= m)
          BY <1>1, <3>1
        <4> QED BY <1>1, <3>1, <3>2, <3>4, <4>1 DEF conditionEntry
      <3> QED BY <1>1, <3>1, <3>3, <3>4
    <2> QED BY <2>1, <2>2
  <1>6. i > 0 => i \in DOMAIN o.conditions
    BY <1>1, <1>2, <1>4
  <1> HIDE DEF I
  <1> QED BY <1>3, <1>5, <1>6 DEF holds

LEMMA FailsMeans ==
    ASSUME NEW o \in Objects, NEW s
    PROVE  fails(s, o) <=> MeansFailure(s, o)
  BY HoldsIsMet DEF fails, failsByCondition, MeansFailure, True

LEMMA PassesMeans ==
    ASSUME NEW o \in Objects, NEW s
    PROVE  passes(s, o) <=> MeansPass(s, o)
  BY HoldsIsMet DEF passes, unmet, MeansPass, True

LEMMA JudgeMeans ==
    ASSUME NEW o \in Objects, NEW s
    PROVE  /\ judge(s, o).fails <=> MeansFailure(s, o)
           /\ judge(s, o).passes <=> MeansPass(s, o)
           /\ judge(s, o).err <=> ~fails(s, o) /\ (failureError(s, o) \/ passError(s, o))
  BY FailsMeans, PassesMeans DEF judge

------------------------------------------------------------------------------
(* A set: up to errors, the verdict is the meaning.                         *)

(* A snapshot of some of the references. *)
Snaps == UNION {[K -> Objects \cup {NoObject}] : K \in SUBSET Keys}

LEMMA PresentObjects ==
    ASSUME NEW snap \in Snaps
    PROVE  /\ Present(snap) \subseteq Keys
           /\ \A k \in Present(snap) : snap[k] \in Objects
  BY DEF Snaps, Present

LEMMA Counted ==
    ASSUME NEW K \in SUBSET Keys
    PROVE  Cardinality(K) \in Nat /\ Cardinality(Keys) \in Nat /\ Cardinality(K) <= Cardinality(Keys)
           /\ (Cardinality(K) = 0 <=> K = {})
  BY KeysAssumption, FS_Subset, FS_CardinalityType, FS_EmptySet

IsSpec(s) ==
    /\ DOMAIN s = Fields
    /\ s.MinMatching \in Int /\ s.MaxMatching \in Int /\ s.RequireAll \in BOOLEAN

LEMMA SetMeaning ==
    ASSUME NEW s, s.MinMatching \in Int, s.MaxMatching \in Int, NEW snap \in Snaps
    PROVE  evaluateSet(s, snap) = IF Meaning(s, snap) = "failure" \/ EvalErrors(s, snap) = {}
                                  THEN Meaning(s, snap) ELSE "pending"
  <1> DEFINE M == {k \in Present(snap) : True(s.Filter, snap[k])}
             P == {k \in M : MeansPass(s, snap[k])}
             max == IF s.MaxMatching < 0 THEN Cardinality(Keys) ELSE s.MaxMatching
             Enough == /\ Cardinality(P) \in s.MinMatching .. max
                       /\ s.RequireAll => M \subseteq P
                       /\ True(s.SetExpression, [k \in M |-> snap[k]])
  <1>1. Meaning(s, snap) = IF \E k \in M : MeansFailure(s, snap[k]) THEN "failure"
                           ELSE IF Enough THEN "success" ELSE "pending"
    BY DEF Meaning
  <1>2. matched(s, snap) = M
    BY DEF matched, filtered, True
  <1>3. \A k \in M : snap[k] \in Objects
    BY PresentObjects
  <1>4. passing(s, snap) = P
    BY <1>2, <1>3, JudgeMeans DEF passing
  <1>5. failing(s, snap) = {k \in M : MeansFailure(s, snap[k])}
    BY <1>2, <1>3, JudgeMeans DEF failing
  <1>6. setHolds(s, snap) <=> True(s.SetExpression, [k \in M |-> snap[k]])
    BY <1>2 DEF setHolds, True, matchedObjects
  <1>7. countsMet(s, snap) <=> Cardinality(P) \in s.MinMatching .. max /\ (s.RequireAll => M \subseteq P)
    <2>1. P \in SUBSET Keys /\ P \subseteq M
      BY PresentObjects
    <2>2. (s.RequireAll => P = M) <=> (s.RequireAll => M \subseteq P)
      BY <2>1
    <2> DEFINE n == Cardinality(P)
               all == Cardinality(Keys)
    <2>3. n \in Nat /\ all \in Nat /\ n <= all
      BY <2>1, Counted
    <2>4. countsMet(s, snap) <=> /\ Drain(s) => n = 0
                                 /\ s.MaxMatching >= 0 => n <= s.MaxMatching
                                 /\ n >= s.MinMatching
                                 /\ s.RequireAll => P = M
      BY <1>2, <1>4 DEF countsMet
    <2>5. Drain(s) => s.MaxMatching = 0
      BY DEF Drain
    <2> HIDE DEF P, M, n, all
    <2>6. n \in s.MinMatching .. (IF s.MaxMatching < 0 THEN all ELSE s.MaxMatching) <=>
             /\ Drain(s) => n = 0
             /\ s.MaxMatching >= 0 => n <= s.MaxMatching
             /\ n >= s.MinMatching
      BY <2>3, <2>5
    <2> QED BY <2>2, <2>4, <2>6 DEF n, all
  <1>8. evaluateSet(s, snap) =
           CASE failing(s, snap) # {} -> "failure"
             [] failing(s, snap) = {} /\ EvalErrors(s, snap) = {} /\ Enough -> "success"
             [] OTHER -> "pending"
    BY <1>6, <1>7 DEF evaluateSet
  <1> HIDE DEF Enough, M, P
  <1> QED BY <1>1, <1>5, <1>8

------------------------------------------------------------------------------
(* One object alone: the single path is the set path over that object.      *)

(* What two configurations share when they judge an object alike. *)
SamePredicates(s, t) ==
    /\ t.SuccessConditions = s.SuccessConditions
    /\ t.FailureConditions = s.FailureConditions
    /\ t.Expression = s.Expression
    /\ t.FailureExpression = s.FailureExpression

(* The set wait a single wait amounts to: one object, to be found. *)
OneToFind(t) ==
    /\ t.Filter = NoProgram /\ t.SetExpression = NoProgram
    /\ t.RequireAll = FALSE /\ t.MinMatching = 1 /\ t.MaxMatching = -1

LEMMA JudgedAlike ==
    ASSUME NEW s, NEW t, SamePredicates(s, t), NEW o
    PROVE  judge(t, o) = judge(s, o)
  BY DEF SamePredicates, judge, fails, passes, failureError, passError, failsByCondition, unmet

LEMMA SingleSet ==
    ASSUME NEW s, NEW t, SamePredicates(s, t), OneToFind(t),
           NEW snap, NEW k \in Present(snap), named(s, snap) = {k}
    PROVE  evaluateSingle(s, snap) = evaluateSet(t, [x \in {k} |-> snap[x]])
  <1> DEFINE one == [x \in {k} |-> snap[x]]
             j == judge(s, snap[k])
  <1>1. DOMAIN one = {k} /\ one[k] = snap[k] /\ Present(one) = {k}
    BY DEF Present
  <1> HIDE DEF one
  <1>2. matched(t, one) = {k}
    BY <1>1 DEF matched, filtered, OneToFind
  <1>3. judge(t, one[k]) = j
    BY <1>1, JudgedAlike
  <1>4. evaluateSingle(s, snap) = CASE j.fails -> "failure"
                                    [] ~j.fails /\ j.err -> "pending"
                                    [] ~j.fails /\ ~j.err /\ j.passes -> "success"
                                    [] OTHER -> "pending"
    <2>1. \A m \in named(s, snap) : m = k
      OBVIOUS
    <2>2. (CHOOSE m \in named(s, snap) : TRUE) = k /\ named(s, snap) # {}
      OBVIOUS
    <2> QED BY <2>2 DEF evaluateSingle
  <1> HIDE DEF j
  <1>5. /\ failing(t, one) = IF j.fails THEN {k} ELSE {}
        /\ passing(t, one) = IF j.passes THEN {k} ELSE {}
        /\ EvalErrors(t, one) = IF j.err THEN {k} ELSE {}
    BY <1>1, <1>2, <1>3 DEF failing, passing, EvalErrors, filtered, OneToFind
  <1>6. countsMet(t, one) <=> j.passes
    <2>1. CASE j.passes
      <3>1. Cardinality(passing(t, one)) = 1
        BY <1>5, <2>1, FS_Singleton
      <3> QED BY <3>1, <2>1 DEF countsMet, Drain, OneToFind
    <2>2. CASE ~j.passes
      <3>1. Cardinality(passing(t, one)) = 0
        BY <1>5, <2>2, FS_EmptySet
      <3> QED BY <3>1, <2>2 DEF countsMet, Drain, OneToFind
    <2> QED BY <2>1, <2>2
  <1>7. setHolds(t, one)
    BY DEF setHolds, OneToFind
  <1>8. evaluateSet(t, one) = CASE j.fails -> "failure"
                                [] ~j.fails /\ ~j.err /\ j.passes -> "success"
                                [] OTHER -> "pending"
    BY <1>5, <1>6, <1>7 DEF evaluateSet
  <1> QED BY <1>4, <1>8 DEF one

(* The configuration under which SingleMeaning reads the one object. *)
Alone(s) == [s EXCEPT !.Filter = NoProgram, !.SetExpression = NoProgram,
                      !.RequireAll = FALSE, !.MinMatching = 1, !.MaxMatching = -1]

LEMMA AloneFields ==
    ASSUME NEW s, DOMAIN s = Fields
    PROVE  OneToFind(Alone(s)) /\ SamePredicates(s, Alone(s))
  BY DEF Alone, OneToFind, SamePredicates, Fields

LEMMA OneToFindCounts ==
    ASSUME NEW t, OneToFind(t)
    PROVE  t.MinMatching \in Int /\ t.MaxMatching \in Int
  BY DEF OneToFind

LEMMA NamedIsObserved ==
    ASSUME NEW s, NEW snap
    PROVE  named(s, snap) = {k \in Present(snap) : k.name = s.Name /\ s.Namespace \in {"", k.ns}}
  BY DEF named

(* In a single wait the name leaves at most one object, and its verdict and *)
(* its meaning are those of the set wait for that object alone.             *)
LEMMA SingleIsAlone ==
    ASSUME NEW c \in Cases, Single(SpecOf(c)), NEW snap \in Snapshots,
           NEW k \in named(SpecOf(c), snap)
    PROVE  LET s == SpecOf(c)
               one == [x \in {k} |-> snap[x]]
           IN /\ named(s, snap) = {k}
              /\ one \in Snaps /\ Present(one) = {k} /\ one[k] = snap[k]
              /\ Verdict(s, snap) = evaluateSet(Alone(s), one)
              /\ SpecMeaning(s, snap) = Meaning(Alone(s), one)
  <1> DEFINE s == SpecOf(c)
             one == [x \in {k} |-> snap[x]]
  <1>1. k \in Present(snap) /\ Present(snap) \subseteq Keys /\ snap[k] \in Objects
    BY DEF named, Present, Snapshots
  <1>2. named(s, snap) = {k}
    <2>1. ASSUME NEW m \in named(s, snap) PROVE m = k
      <3>1. k \in Keys /\ m \in Keys /\ k.name = s.Name /\ m.name = s.Name
        BY <1>1, <2>1 DEF named
      <3>2. s.Namespace \in {"", m.ns} \cap {"", k.ns}
        BY <2>1 DEF named
      <3> QED BY <3>1, <3>2, CasesAssumption
    <2> QED BY <2>1
  <1>3. DOMAIN s = Fields
    BY CasesAssumption
  <1>4. one \in Snaps /\ Present(one) = {k} /\ one[k] = snap[k]
    <2>1. {k} \in SUBSET Keys /\ one \in [{k} -> Objects \cup {NoObject}]
      BY <1>1
    <2>2. one \in Snaps
      BY <2>1 DEF Snaps
    <2>3. snap[k] # NoObject
      BY <1>1 DEF Present
    <2> QED BY <2>2, <2>3 DEF Present
  <1>5. Verdict(s, snap) = evaluateSet(Alone(s), one)
    <2>1. OneToFind(Alone(s)) /\ SamePredicates(s, Alone(s))
      BY <1>3, AloneFields
    <2>2. Single(s)
      OBVIOUS
    <2> HIDE DEF s
    <2>3. evaluateSingle(s, snap) = evaluateSet(Alone(s), [x \in {k} |-> snap[x]])
      BY <1>1, <1>2, <2>1, SingleSet
    <2> QED BY <2>2, <2>3 DEF Verdict
  <1>6. SpecMeaning(s, snap) = Meaning(Alone(s), one)
    <2>1. {x \in Present(snap) : x.name = s.Name /\ s.Namespace \in {"", x.ns}} = {k}
      BY <1>2, NamedIsObserved
    <2>2. SingleMeaning(s, snap) = Meaning(Alone(s), one)
      BY <2>1 DEF SingleMeaning, Alone
    <2> QED BY <2>2 DEF SpecMeaning
  <1> QED BY <1>2, <1>4, <1>5, <1>6

LEMMA NoneNamed ==
    ASSUME NEW s, Single(s), NEW snap, named(s, snap) = {}
    PROVE  Verdict(s, snap) = s.Absent /\ SpecMeaning(s, snap) = s.Absent
  BY NamedIsObserved DEF Verdict, evaluateSingle, SpecMeaning, SingleMeaning

------------------------------------------------------------------------------
(* Errors: what a completed program may change, and what it may not.        *)

(* q answers whatever p answers, and answers where p errs. *)
Completed(q, p, D) ==
    /\ q = NoProgram <=> p = NoProgram
    /\ p # NoProgram => \A x \in D : p[x] # "error" => q[x] = p[x]

(* c is s with every erring answer over snap made up. *)
CompletedSpec(c, s, snap) ==
    /\ Completed(c.Filter, s.Filter, Inputs(snap))
    /\ Completed(c.Expression, s.Expression, Inputs(snap))
    /\ Completed(c.FailureExpression, s.FailureExpression, Inputs(snap))
    /\ Completed(c.SetExpression, s.SetExpression, SetInputs(snap))
    /\ c.SuccessConditions = s.SuccessConditions /\ c.FailureConditions = s.FailureConditions
    /\ c.MinMatching = s.MinMatching /\ c.MaxMatching = s.MaxMatching
    /\ c.RequireAll = s.RequireAll

LEMMA TrueStaysTrue ==
    ASSUME NEW p, NEW q, NEW D, Completed(q, p, D), NEW x \in D
    PROVE  /\ True(p, x) => True(q, x)
           /\ (p # NoProgram => p[x] # "error") => (True(q, x) <=> True(p, x))
  BY DEF Completed, True

LEMMA MeaningCompleted ==
    ASSUME NEW s, NEW c, NEW snap \in Snaps, CompletedSpec(c, s, snap),
           s.MinMatching \in Int, s.MaxMatching \in Int, evaluateSet(s, snap) # "pending"
    PROVE  Meaning(c, snap) = evaluateSet(s, snap)
  <1> DEFINE M(t) == {k \in Present(snap) : True(t.Filter, snap[k])}
             P(t) == {k \in M(t) : MeansPass(t, snap[k])}
             max(t) == IF t.MaxMatching < 0 THEN Cardinality(Keys) ELSE t.MaxMatching
             Bad(t) == \E k \in M(t) : MeansFailure(t, snap[k])
             Enough(t) == /\ Cardinality(P(t)) \in t.MinMatching .. max(t)
                          /\ t.RequireAll => M(t) \subseteq P(t)
                          /\ True(t.SetExpression, [k \in M(t) |-> snap[k]])
  <1>1. ASSUME NEW t
        PROVE  Meaning(t, snap) = IF Bad(t) THEN "failure" ELSE IF Enough(t) THEN "success" ELSE "pending"
    BY DEF Meaning
  <1>2. ASSUME NEW k \in Present(snap)
        PROVE  snap[k] \in Inputs(snap) /\ snap[k] \in Objects
    BY PresentObjects DEF Inputs
  <1>3. evaluateSet(s, snap) = IF Meaning(s, snap) = "failure" \/ EvalErrors(s, snap) = {}
                               THEN Meaning(s, snap) ELSE "pending"
    BY SetMeaning
  <1>4. CASE Bad(s)
    <2>1. PICK k \in M(s) : MeansFailure(s, snap[k])
      BY <1>4
    <2>2. True(c.Filter, snap[k])
      BY <1>2, TrueStaysTrue DEF CompletedSpec
    <2>3. MeansFailure(c, snap[k])
      BY <1>2, <2>1, TrueStaysTrue DEF CompletedSpec, MeansFailure, Completed
    <2>4. Bad(c)
      BY <2>2, <2>3
    <2> HIDE DEF Bad, Enough
    <2> QED BY <1>1, <1>3, <1>4, <2>4
  <1>5. CASE ~Bad(s)
    <2>1. EvalErrors(s, snap) = {} /\ Enough(s)
      <3> HIDE DEF Bad, Enough
      <3> QED BY <1>1, <1>3, <1>5
    <2>2. M(c) = M(s)
      <3>1. ASSUME NEW k \in Present(snap)
            PROVE  True(c.Filter, snap[k]) <=> True(s.Filter, snap[k])
        <4>1. s.Filter # NoProgram => s.Filter[snap[k]] # "error"
          BY <2>1 DEF EvalErrors, filtered
        <4> QED BY <4>1, <1>2, TrueStaysTrue DEF CompletedSpec
      <3> QED BY <3>1
    <2>3. ASSUME NEW k \in M(s)
          PROVE  /\ MeansFailure(c, snap[k]) <=> MeansFailure(s, snap[k])
                 /\ MeansPass(c, snap[k]) <=> MeansPass(s, snap[k])
      <3> DEFINE o == snap[k]
      <3>1. ~judge(s, o).err /\ ~MeansFailure(s, o)
        BY <1>5, <2>1 DEF EvalErrors, filtered, True
      <3>2. o \in Objects /\ o \in Inputs(snap)
        BY <1>2
      <3> HIDE DEF o
      <3>3. ~failureError(s, o) /\ ~passError(s, o) /\ ~failsByCondition(s, o)
        BY <3>1, <3>2, JudgeMeans, FailsMeans DEF fails
      <3>4. s.FailureExpression # NoProgram => s.FailureExpression[o] # "error"
        BY <3>3 DEF failureError
      <3>5. MeansFailure(c, o) <=> MeansFailure(s, o)
        BY <3>2, <3>4, TrueStaysTrue DEF CompletedSpec, MeansFailure, Completed
      <3>6. MeansPass(c, o) <=> MeansPass(s, o)
        <4>1. CASE unmet(s, o) = {}
          <5>1. s.Expression # NoProgram => s.Expression[o] # "error"
            BY <3>3, <4>1 DEF passError
          <5> QED BY <5>1, <3>2, TrueStaysTrue DEF CompletedSpec, MeansPass
        <4>2. CASE unmet(s, o) # {}
          BY <4>2, <3>2, HoldsIsMet DEF unmet, MeansPass, CompletedSpec
        <4> QED BY <4>1, <4>2
      <3> QED BY <3>5, <3>6 DEF o
    <2>4. P(c) = P(s) /\ ~Bad(c)
      BY <1>5, <2>2, <2>3
    <2>5. True(c.SetExpression, [k \in M(s) |-> snap[k]])
      <3>1. M(s) \in SUBSET Present(snap)
        OBVIOUS
      <3> DEFINE m == [k \in M(s) |-> snap[k]]
      <3>2. True(s.SetExpression, m)
        BY <2>1
      <3> HIDE DEF M
      <3>3. m \in SetInputs(snap)
        BY <3>1 DEF SetInputs
      <3> HIDE DEF m
      <3>4. True(c.SetExpression, m)
        BY <3>2, <3>3, TrueStaysTrue DEF CompletedSpec
      <3> QED BY <3>4 DEF m
    <2>6. Enough(c)
      <3> HIDE DEF M, P
      <3> QED BY <2>1, <2>2, <2>4, <2>5 DEF CompletedSpec
    <2> HIDE DEF Bad, Enough
    <2> QED BY <1>1, <1>3, <1>5, <2>1, <2>4, <2>6
  <1> QED BY <1>4, <1>5

LEMMA CompletionsComplete ==
    ASSUME NEW p, NEW D, NEW q \in Completions(p, D), NoProgram \notin [D -> Answers]
    PROVE  Completed(q, p, D)
  BY DEF Completions, Completed

LEMMA SpecCompletionsComplete ==
    ASSUME NEW s, DOMAIN s = Fields, NEW snap \in Snapshots, NEW c \in SpecCompletions(s, snap)
    PROVE  /\ CompletedSpec(c, s, snap) /\ DOMAIN c = Fields
           /\ c.Name = s.Name /\ c.Namespace = s.Namespace /\ c.Absent = s.Absent
  <1> DEFINE D == Inputs(snap)
             DD == SetInputs(snap)
  <1>1. NoProgram \notin [D -> Answers] /\ NoProgram \notin [DD -> Answers]
    BY NoProgramAssumption
  <1>2. PICK f \in Completions(s.Filter, D), e \in Completions(s.Expression, D),
             x \in Completions(s.FailureExpression, D), y \in Completions(s.SetExpression, DD) :
           c = WithPrograms(s, f, e, x, y)
    BY DEF SpecCompletions
  <1> HIDE DEF D, DD
  <1>3. /\ DOMAIN c = Fields
        /\ c.Filter = f /\ c.Expression = e /\ c.FailureExpression = x /\ c.SetExpression = y
        /\ c.SuccessConditions = s.SuccessConditions /\ c.FailureConditions = s.FailureConditions
        /\ c.MinMatching = s.MinMatching /\ c.MaxMatching = s.MaxMatching
        /\ c.RequireAll = s.RequireAll
        /\ c.Name = s.Name /\ c.Namespace = s.Namespace /\ c.Absent = s.Absent
    BY <1>2 DEF Fields, WithPrograms
  <1>4. /\ Completed(f, s.Filter, D) /\ Completed(e, s.Expression, D)
        /\ Completed(x, s.FailureExpression, D) /\ Completed(y, s.SetExpression, DD)
    BY <1>1, CompletionsComplete
  <1> QED BY <1>3, <1>4 DEF CompletedSpec, D, DD

(* A completion of the whole is a completion for one object of it. *)
LEMMA CompletedAlone ==
    ASSUME NEW s, NEW c, DOMAIN s = Fields, DOMAIN c = Fields, NEW snap, CompletedSpec(c, s, snap),
           NEW k \in Present(snap)
    PROVE  CompletedSpec(Alone(c), Alone(s), [x \in {k} |-> snap[x]])
  <1> DEFINE one == [x \in {k} |-> snap[x]]
  <1>1. Inputs(one) \subseteq Inputs(snap)
    BY DEF Inputs, Present
  <1>2. OneToFind(Alone(s)) /\ SamePredicates(s, Alone(s)) /\ OneToFind(Alone(c)) /\ SamePredicates(c, Alone(c))
    BY AloneFields
  <1> HIDE DEF one
  <1>3. /\ Completed(c.Expression, s.Expression, Inputs(one))
        /\ Completed(c.FailureExpression, s.FailureExpression, Inputs(one))
    BY <1>1 DEF CompletedSpec, Completed
  <1>4. CompletedSpec(Alone(c), Alone(s), one)
    BY <1>2, <1>3 DEF OneToFind, SamePredicates, CompletedSpec, Completed
  <1> QED BY <1>4 DEF one

LEMMA ErrorFreeObjects ==
    ASSUME NEW s, NEW snap \in Snaps,
           \A p \in {s.Filter, s.Expression, s.FailureExpression} \ {NoProgram} :
              \A o \in Inputs(snap) : p[o] # "error"
    PROVE  EvalErrors(s, snap) = {}
  <1> SUFFICES ASSUME NEW k \in EvalErrors(s, snap) PROVE FALSE
    OBVIOUS
  <1>1. snap[k] \in Inputs(snap) /\ snap[k] \in Objects
    BY PresentObjects DEF EvalErrors, Inputs
  <1>2. filtered(s, snap[k]) # "error"
    BY <1>1 DEF filtered
  <1>3. judge(s, snap[k]).err
    BY <1>2 DEF EvalErrors
  <1>4. failureError(s, snap[k]) \/ passError(s, snap[k])
    BY <1>1, <1>3, JudgeMeans
  <1> QED BY <1>1, <1>4 DEF failureError, passError

------------------------------------------------------------------------------
(* The four promises, state by state.                                       *)

TypeInv == case \in Cases /\ objs \in Snapshots

LEMMA SnapshotsAreSnaps == Snapshots \subseteq Snaps
  BY DEF Snapshots, Snaps

LEMMA SpecFields ==
    ASSUME NEW c \in Cases
    PROVE  IsSpec(SpecOf(c))
  BY CasesAssumption DEF IsSpec, EvaluatorRules

LEMMA NeverDecidedByErrors == TypeInv => ErrorsNeverDecide
  <1> DEFINE s == SpecOf(case)
             v == Verdict(s, objs)
  <1> SUFFICES ASSUME TypeInv, v # "pending", NEW c \in SpecCompletions(s, objs)
               PROVE  SpecMeaning(c, objs) = v
    BY DEF ErrorsNeverDecide
  <1>1. case \in Cases /\ objs \in Snapshots /\ objs \in Snaps
    BY SnapshotsAreSnaps DEF TypeInv
  <1>2. IsSpec(s)
    BY <1>1, SpecFields
  <1>3. /\ CompletedSpec(c, s, objs) /\ DOMAIN c = Fields
        /\ c.Name = s.Name /\ c.Namespace = s.Namespace /\ c.Absent = s.Absent
    BY <1>1, <1>2, SpecCompletionsComplete DEF IsSpec
  <1>4. named(c, objs) = named(s, objs) /\ (Single(c) <=> Single(s))
    BY <1>3 DEF named, Single
  <1>5. CASE Single(s) /\ named(s, objs) = {}
    BY <1>3, <1>4, <1>5, NoneNamed
  <1>6. CASE Single(s) /\ named(s, objs) # {}
    <2>1. PICK k \in named(s, objs) : TRUE
      BY <1>6
    <2> DEFINE one == [x \in {k} |-> objs[x]]
    <2>2. /\ named(s, objs) = {k} /\ one \in Snaps
          /\ v = evaluateSet(Alone(s), one)
      BY <1>1, <1>6, SingleIsAlone
    <2>3. {x \in Present(objs) : x.name = c.Name /\ c.Namespace \in {"", x.ns}} = {k}
      BY <1>4, <2>2, NamedIsObserved
    <2>4. SpecMeaning(c, objs) = Meaning(Alone(c), one)
      BY <1>4, <1>6, <2>3 DEF SpecMeaning, SingleMeaning, Alone
    <2>5. k \in Present(objs)
      BY DEF named
    <2>6. CompletedSpec(Alone(c), Alone(s), one)
      BY <1>2, <1>3, <2>5, CompletedAlone DEF IsSpec
    <2>7. Alone(s).MinMatching \in Int /\ Alone(s).MaxMatching \in Int
      BY <1>2, AloneFields, OneToFindCounts DEF IsSpec
    <2> HIDE DEF s, one, v
    <2>8. evaluateSet(Alone(s), one) # "pending"
      BY <2>2
    <2>9. Meaning(Alone(c), one) = evaluateSet(Alone(s), one)
      BY <2>2, <2>6, <2>7, <2>8, MeaningCompleted
    <2> QED BY <2>2, <2>4, <2>9
  <1>7. CASE ~Single(s)
    <2>1. v = evaluateSet(s, objs) /\ SpecMeaning(c, objs) = Meaning(c, objs)
      BY <1>4, <1>7 DEF Verdict, SpecMeaning
    <2> HIDE DEF s, v
    <2> QED BY <1>1, <1>2, <1>3, <2>1, MeaningCompleted DEF IsSpec
  <1> QED BY <1>5, <1>6, <1>7

LEMMA DecidedWithoutErrors == TypeInv => DecidesWithoutErrors
  <1> DEFINE s == SpecOf(case)
  <1> SUFFICES ASSUME TypeInv, ErrorFree(s, objs)
               PROVE  Verdict(s, objs) = SpecMeaning(s, objs)
    BY DEF DecidesWithoutErrors
  <1>1. case \in Cases /\ objs \in Snapshots /\ objs \in Snaps
    BY SnapshotsAreSnaps DEF TypeInv
  <1>2. IsSpec(s)
    BY <1>1, SpecFields
  <1>3. \A p \in {s.Filter, s.Expression, s.FailureExpression} \ {NoProgram} :
           \A o \in Inputs(objs) : p[o] # "error"
    BY DEF ErrorFree
  <1>4. CASE Single(s) /\ named(s, objs) = {}
    BY <1>4, NoneNamed
  <1>5. CASE Single(s) /\ named(s, objs) # {}
    <2>1. PICK k \in named(s, objs) : TRUE
      BY <1>5
    <2> DEFINE one == [x \in {k} |-> objs[x]]
    <2>2. /\ one \in Snaps
          /\ Verdict(s, objs) = evaluateSet(Alone(s), one)
          /\ SpecMeaning(s, objs) = Meaning(Alone(s), one)
      BY <1>1, <1>5, SingleIsAlone
    <2>3. OneToFind(Alone(s)) /\ SamePredicates(s, Alone(s))
      BY <1>2, AloneFields DEF IsSpec
    <2>4. Inputs(one) \subseteq Inputs(objs)
      BY DEF Inputs, Present, named
    <2> HIDE DEF s, one
    <2> DEFINE a == Alone(s)
    <2>5. \A p \in {a.Filter, a.Expression, a.FailureExpression} \ {NoProgram} :
             \A o \in Inputs(one) : p[o] # "error"
      BY <1>3, <2>3, <2>4 DEF OneToFind, SamePredicates
    <2>6. a.MinMatching \in Int /\ a.MaxMatching \in Int
      BY <2>3, OneToFindCounts
    <2> HIDE DEF a
    <2>7. evaluateSet(a, one) = Meaning(a, one)
      BY <2>2, <2>5, <2>6, ErrorFreeObjects, SetMeaning
    <2> QED BY <2>2, <2>7 DEF a
  <1>6. CASE ~Single(s)
    <2>1. Verdict(s, objs) = evaluateSet(s, objs) /\ SpecMeaning(s, objs) = Meaning(s, objs)
      BY <1>6 DEF Verdict, SpecMeaning
    <2> HIDE DEF s
    <2>2. EvalErrors(s, objs) = {}
      BY <1>1, <1>3, ErrorFreeObjects
    <2> QED BY <1>1, <1>2, <2>1, <2>2, SetMeaning DEF IsSpec
  <1> QED BY <1>4, <1>5, <1>6

LEMMA FailureWins == TypeInv => ProvenFailureWins
  <1> DEFINE s == SpecOf(case)
             Observed == IF Single(s)
                         THEN {k \in Present(objs) : k.name = s.Name /\ s.Namespace \in {"", k.ns}}
                         ELSE {k \in Present(objs) : True(s.Filter, objs[k])}
  <1> SUFFICES ASSUME TypeInv, NEW k \in Observed, MeansFailure(s, objs[k])
               PROVE  Verdict(s, objs) = "failure"
    BY DEF ProvenFailureWins
  <1>1. case \in Cases /\ objs \in Snapshots /\ objs \in Snaps
    BY SnapshotsAreSnaps DEF TypeInv
  <1>2. IsSpec(s)
    BY <1>1, SpecFields
  <1>3. ASSUME NEW t, t.MinMatching \in Int, t.MaxMatching \in Int, NEW snap \in Snaps,
               NEW m \in Present(snap), True(t.Filter, snap[m]), MeansFailure(t, snap[m])
        PROVE  evaluateSet(t, snap) = "failure"
    <2>1. Meaning(t, snap) = "failure"
      BY <1>3 DEF Meaning
    <2> QED BY <1>3, <2>1, SetMeaning
  <1>4. CASE Single(s)
    <2>1. k \in named(s, objs)
      BY <1>4, NamedIsObserved
    <2> DEFINE one == [x \in {k} |-> objs[x]]
    <2>2. /\ one \in Snaps /\ Present(one) = {k} /\ one[k] = objs[k]
          /\ Verdict(s, objs) = evaluateSet(Alone(s), one)
      BY <1>1, <1>4, <2>1, SingleIsAlone
    <2>3. OneToFind(Alone(s)) /\ SamePredicates(s, Alone(s))
      BY <1>2, AloneFields DEF IsSpec
    <2> HIDE DEF s, one
    <2>4. MeansFailure(Alone(s), one[k])
      BY <2>2, <2>3 DEF MeansFailure, SamePredicates
    <2>5. True(Alone(s).Filter, one[k])
      BY <2>3 DEF True, OneToFind
    <2>6. Alone(s).MinMatching \in Int /\ Alone(s).MaxMatching \in Int
      BY <2>3, OneToFindCounts
    <2> QED BY <1>3, <2>2, <2>4, <2>5, <2>6
  <1>5. CASE ~Single(s)
    <2>1. Verdict(s, objs) = evaluateSet(s, objs)
      BY <1>5 DEF Verdict
    <2>2. k \in Present(objs) /\ True(s.Filter, objs[k])
      BY <1>5
    <2> HIDE DEF s, Observed
    <2> QED BY <1>1, <1>2, <1>3, <2>1, <2>2 DEF IsSpec
  <1> QED BY <1>4, <1>5

LEMMA SingleIsSet == TypeInv => SingleAgreesWithSet
  <1> DEFINE s == SpecOf(case)
             one(k) == [x \in {k} |-> objs[x]]
             sSingle(k) == [s EXCEPT !.Name = k.name, !.Namespace = k.ns]
             sSet == [s EXCEPT !.Name = "", !.Filter = NoProgram, !.SetExpression = NoProgram,
                               !.RequireAll = FALSE, !.MinMatching = 1, !.MaxMatching = -1]
  <1> SUFFICES ASSUME TypeInv, NEW k \in Present(objs)
               PROVE  evaluateSingle(sSingle(k), objs) = evaluateSet(sSet, one(k))
    BY DEF SingleAgreesWithSet
  <1>1. DOMAIN s = Fields /\ Present(objs) \subseteq Keys
    BY SpecFields DEF TypeInv, IsSpec, Present, Snapshots
  <1>2. OneToFind(sSet) /\ SamePredicates(s, sSet)
    BY <1>1 DEF OneToFind, SamePredicates, Fields
  <1>3. /\ SamePredicates(s, sSingle(k))
        /\ sSingle(k).Name = k.name /\ sSingle(k).Namespace = k.ns
    BY <1>1 DEF SamePredicates, Fields
  <1> HIDE DEF s, sSet, sSingle
  <1>4. named(sSingle(k), objs) = {k}
    <2>1. ASSUME NEW m \in named(sSingle(k), objs) PROVE m = k
      BY <1>1, <1>3, <2>1, KeysAssumption DEF named
    <2>2. k \in named(sSingle(k), objs)
      BY <1>3 DEF named
    <2> QED BY <2>1, <2>2
  <1>5. SamePredicates(sSingle(k), sSet)
    BY <1>2, <1>3 DEF SamePredicates
  <1> QED BY <1>2, <1>4, <1>5, SingleSet

------------------------------------------------------------------------------
(* Along every behaviour of the snapshot.                                   *)

LEMMA TypeInvariant == Spec => []TypeInv
  <1>1. Init => TypeInv
    BY DEF Init, TypeInv, Snapshots
  <1>2. TypeInv /\ [Next]_vars => TypeInv'
    BY DEF TypeInv, Next, Appear, Vanish, vars, Snapshots
  <1> QED BY <1>1, <1>2, PTL DEF Spec

(* A CEL error never decides: whatever success or failure Evaluate returns  *)
(* is what the configuration means however the erring expressions would     *)
(* have come out (the err fields of evaluate.go, and their place in the     *)
(* order of its checks).                                                    *)
THEOREM NoVerdictFromErrors == Spec => []ErrorsNeverDecide
  BY NeverDecidedByErrors, TypeInvariant, PTL

(* Where nothing errs, Evaluate returns exactly the meaning of the          *)
(* configuration, pending included.                                         *)
THEOREM VerdictIsMeaning == Spec => []DecidesWithoutErrors
  BY DecidedWithoutErrors, TypeInvariant, PTL

(* One observed object that matches and fails makes the verdict failure,    *)
(* whatever errs and whatever else passes.                                  *)
THEOREM OneFailureDecides == Spec => []ProvenFailureWins
  BY FailureWins, TypeInvariant, PTL

(* evaluateSingle and evaluateSet, written separately, agree over any one   *)
(* object.                                                                  *)
THEOREM SinglePathIsSetPath == Spec => []SingleAgreesWithSet
  BY SingleIsSet, TypeInvariant, PTL
==============================================================================
