----------------------------- MODULE MCEvaluate -----------------------------
(***************************************************************************)
(* EvaluateCheck for TLC.  An object carries, next to its conditions, what *)
(* each per-object program answers on it; the programs project that        *)
(* answer, so the snapshots reach every combination of answers.            *)
(***************************************************************************)
EXTENDS EvaluateCheck

MCKeys == {[ns |-> "a", name |-> "x"], [ns |-> "b", name |-> "x"]}

Entry(typ, st, why) == [type |-> typ, status |-> st, reason |-> why]

(* absent, true, false for one of two reasons, and a duplicated type *)
ConditionLists ==
    {<<Entry("Ready", "True", "")>>,
     <<Entry("Ready", "False", "Lost")>>,
     <<Entry("Synced", "True", ""), Entry("Ready", "False", "Slow"), Entry("Ready", "True", "")>>}

Object(conds, f, e, x) == [conditions |-> conds, filter |-> f, expr |-> e, fail |-> x]

MCObjects ==
    {Object(<< >>, f, e, x) : f \in Results, e \in Results, x \in Results}
        \cup {Object(l, "true", e, x) : l \in ConditionLists,
                                        e \in {"true", "error"}, x \in {"false", "error"}}

Ready(st) == [Type |-> "Ready", Status |-> st, HasReason |-> FALSE, Reason |-> ""]
Lost == [Type |-> "Ready", Status |-> "False", HasReason |-> TRUE, Reason |-> "Lost"]

Matched == UNION {[K -> MCObjects] : K \in SUBSET MCKeys}

(* true of two matched objects, false of one, erring on none *)
PairProgram == [m \in Matched |->
    CASE Cardinality(DOMAIN m) = 2 -> "true"
      [] Cardinality(DOMAIN m) = 1 -> "false"
      [] OTHER -> "error"]

MCSpecOf(c) ==
    [Name |-> c.name,
     Namespace |-> IF c.name = "" THEN "" ELSE "a",
     Absent |-> c.absent,
     Filter |-> IF c.filter THEN [o \in MCObjects |-> o.filter] ELSE NoProgram,
     Expression |-> IF c.expr THEN [o \in MCObjects |-> o.expr] ELSE NoProgram,
     FailureExpression |-> IF c.fail THEN [o \in MCObjects |-> o.fail] ELSE NoProgram,
     SetExpression |-> IF c.pair THEN PairProgram ELSE NoProgram,
     SuccessConditions |-> IF c.conds THEN {Ready("True")} ELSE {},
     FailureConditions |-> IF c.conds THEN {Lost} ELSE {},
     MinMatching |-> c.counts[1], MaxMatching |-> c.counts[2],
     RequireAll |-> c.all]

Case(name, absent, f, e, x, p, conds, counts, all) ==
    [name |-> name, absent |-> absent, filter |-> f, expr |-> e, fail |-> x, pair |-> p,
     conds |-> conds, counts |-> counts, all |-> all]

(* Parse refuses success predicates next to max_matching = 0. *)
Valid(c) == c.counts[2] = 0 => ~c.expr /\ ~c.conds

MCCases ==
    {c \in {Case("", "pending", f, e, x, p, conds, counts, all) :
               f \in BOOLEAN, e \in BOOLEAN, x \in BOOLEAN, p \in BOOLEAN, conds \in BOOLEAN,
               counts \in {<<1, -1>>, <<0, 0>>, <<1, 1>>}, all \in BOOLEAN} : Valid(c)}
    \cup {Case("x", a, FALSE, e, x, FALSE, conds, <<1, -1>>, FALSE) :
               a \in {"pending", "success", "failure"},
               e \in BOOLEAN, x \in BOOLEAN, conds \in BOOLEAN}
==============================================================================
