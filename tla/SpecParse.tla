------------------------------ MODULE SpecParse ------------------------------
(***************************************************************************)
(* The configuration parser: Parse of internal/wait/spec.go, reached       *)
(* through parseConfig of internal/provider/condition_model.go.            *)
(*                                                                         *)
(* A configuration maps each attribute to Null, to Unknown, or to its      *)
(* value: a whole number for counts and durations, a program for CEL       *)
(* (NoProgram aside), a text otherwise.  Bad is any value the attribute's  *)
(* own parser refuses: a selector or CEL that does not compile, a fraction *)
(* or a number beyond int64, a malformed duration or field path, an        *)
(* api_version without a version, another word for absent.  A list is a    *)
(* sequence whose items, and whose items' fields, may themselves be        *)
(* Unknown or Null.                                                        *)
(*                                                                         *)
(* A problem is <<attribute, item, rule>>, item 0 standing for the         *)
(* attribute as a whole.  cfg.Get never fails: Terraform has converted the *)
(* configuration to the schema's types.                                    *)
(***************************************************************************)
EXTENDS Evaluate, SettleClock

CONSTANTS Null, Unknown, Bad,
          NoSpec        \* the nil Spec

ASSUME TokensAssumption ==
    /\ Null # Unknown /\ Bad \notin {Null, Unknown}
    /\ \A t \in {Null, Unknown, Bad} : t # "" /\ t \notin Int

Selectors == {"label_selector", "field_selector"}
Programs == {"filter", "expression", "failure_expression", "set_expression"}
Counts == {"min_matching", "max_matching"}
Intervals == {"poll_interval", "progress_interval"}
CondLists == {"success_conditions", "failure_conditions"}
Lists == CondLists \cup {"progress_fields"}
CondFields == {"type", "status", "reason"}

Attributes ==
    {"api_version", "kind", "namespace", "name", "require_all", "absent", "timeout", "settle",
     "watch"} \cup Selectors \cup Programs \cup Counts \cup Intervals \cup Lists

DefaultMinMatching == 1
DefaultPollInterval == 10
DefaultProgressInterval == 60

known(v) == v # Unknown
set(v) == v \notin {Null, Unknown}
otherwise(v, default) == IF set(v) THEN v ELSE default

Whole(A) == {<<a, 0, "invalid">> : a \in A}

------------------------------------------------------------------------------
(* conds: one condition that is unknown as a whole makes its list unknown;  *)
(* one that is null cannot be converted, and parseConfig then returns       *)
(* before Parse.  The conversion stops at the first unknown one.            *)
condsKnown(v) == known(v) /\ (set(v) => \A i \in DOMAIN v : known(v[i]))

items(v) == IF set(v) /\ condsKnown(v) THEN v ELSE << >>

conversionErrors(raw) ==
    UNION {{<<a, i, "null">> : i \in {i \in DOMAIN otherwise(raw[a], << >>) :
                                        /\ raw[a][i] = Null
                                        /\ \A j \in 1 .. i - 1 : known(raw[a][j])}} :
           a \in CondLists}

------------------------------------------------------------------------------
(* Parse, rule by rule.  A check that involves an unknown value is skipped. *)
kindErrors(raw) ==
    IF ~(known(raw.api_version) /\ known(raw.kind)) THEN {}
    ELSE IF raw.api_version \in {Null, Bad} THEN Whole({"api_version"})
    ELSE Whole({a \in {"kind"} : otherwise(raw[a], "") = ""})

emptyErrors(raw) == Whole({a \in {"name", "namespace"} : raw[a] = ""})

(* What the attribute's own parser refuses; rule 4, CEL, among them. *)
badErrors(raw) == Whole({a \in Selectors \cup Programs \cup {"absent"} : raw[a] = Bad})

(* Rule 1: name together with a selector. *)
conflictErrors(raw) ==
    {<<a, 0, "conflict">> : a \in {a \in Selectors : set(raw.name) /\ set(raw[a])}}

(* parseConds: a type or status that is set must not be empty. *)
emptyField(raw, a, f) == {i \in DOMAIN items(raw[a]) : raw[a][i][f] = ""}

condErrors(raw) ==
    UNION {{<<a, i, "type">> : i \in emptyField(raw, a, "type")}
              \cup {<<a, i, "status">> : i \in emptyField(raw, a, "status")} : a \in CondLists}

(* count.  Rules 2 and 5 look only at bounds that are known and valid;      *)
(* -1 is no maximum.                                                        *)
validCount(v) == v # Bad /\ v >= 0

(* Mutant: a bound that is not known yet stands for its default. *)
countKnownUnlessBad(v) == set(v) => validCount(v)

countKnown(v) == known(v) /\ (set(v) => validCount(v))

minMatching(raw) == otherwise(raw.min_matching, DefaultMinMatching)
maxMatching(raw) == otherwise(raw.max_matching, -1)

countErrors(raw) == Whole({a \in Counts : set(raw[a]) /\ ~validCount(raw[a])})

(* Rule 2: min_matching > max_matching. *)
rangeErrors(raw) ==
    {<<a, 0, "range">> : a \in {a \in {"min_matching"} :
        /\ countKnown(raw.min_matching) /\ countKnown(raw.max_matching)
        /\ maxMatching(raw) >= 0
        /\ minMatching(raw) > maxMatching(raw)}}

(* Rule 5: a drain with success predicates. *)
predicateSet(raw, a) ==
    CASE a = "expression" -> set(raw.expression)
      [] a = "success_conditions" -> DOMAIN items(raw.success_conditions) # {}

drainErrors(raw) ==
    {<<a, 0, "drain">> : a \in {a \in {"success_conditions", "expression"} :
        /\ set(raw.max_matching) /\ countKnown(raw.max_matching)
        /\ raw.max_matching = 0
        /\ predicateSet(raw, a)}}

(* duration.  timeout is required: a null one does not parse. *)
validDuration(v, positive) == v \notin {Null, Bad} /\ v >= 0 /\ (positive => v > 0)

durationErrors(raw) ==
    Whole({a \in {"timeout"} : known(raw[a]) /\ ~validDuration(raw[a], TRUE)})
    \cup Whole({a \in {"settle"} : set(raw[a]) /\ ~validDuration(raw[a], FALSE)})
    \cup Whole({a \in Intervals : set(raw[a]) /\ ~validDuration(raw[a], TRUE)})

timeoutOK(raw) == known(raw.timeout) /\ validDuration(raw.timeout, TRUE)
settleOK(raw) == known(raw.settle) /\ (set(raw.settle) => validDuration(raw.settle, FALSE))

(* Mutant: settle may last as long as timeout. *)
settleErrorsStrict(raw) ==
    {<<a, 0, "settle">> : a \in {a \in {"settle"} :
        timeoutOK(raw) /\ settleOK(raw) /\ otherwise(raw.settle, 0) > raw.timeout}}

(* Rule 3: settle >= timeout. *)
settleErrors(raw) ==
    {<<a, 0, "settle">> : a \in {a \in {"settle"} :
        timeoutOK(raw) /\ settleOK(raw) /\ otherwise(raw.settle, 0) >= raw.timeout}}

(* A null item is read as an empty path. *)
fieldErrors(raw) ==
    {<<"progress_fields", i, "invalid">> :
        i \in {i \in DOMAIN otherwise(raw.progress_fields, << >>) :
                  raw.progress_fields[i] \in {Null, Bad}}}

parseErrors(raw) ==
    UNION {kindErrors(raw), emptyErrors(raw), badErrors(raw), conflictErrors(raw),
           condErrors(raw), countErrors(raw), rangeErrors(raw), drainErrors(raw),
           durationErrors(raw), settleErrors(raw), fieldErrors(raw)}

------------------------------------------------------------------------------
(* Mutant: the mode test is inverted. *)
ignoredInOtherMode(raw) ==
    CASE ~known(raw.name) -> {}
      [] raw.name = Null -> {a \in {"filter", "set_expression", "min_matching", "max_matching",
                                    "require_all"} : set(raw[a])}
      [] OTHER -> {a \in {"absent"} : set(raw[a])}

(* Mutant: a name that is not known yet is none. *)
ignoredUnknownName(raw) ==
    CASE ~set(raw.name) -> {a \in {"absent"} : set(raw[a])}
      [] OTHER -> {a \in {"filter", "set_expression", "min_matching", "max_matching",
                          "require_all"} : set(raw[a])}

(* The attributes that do nothing in the chosen mode: a warning each. *)
ignored(raw) ==
    CASE ~known(raw.name) -> {}
      [] raw.name = Null -> {a \in {"absent"} : set(raw[a])}
      [] OTHER -> {a \in {"filter", "set_expression", "min_matching", "max_matching",
                          "require_all"} : set(raw[a])}

complete(raw) ==
    /\ \A a \in Attributes : known(raw[a])
    /\ \A a \in Lists : set(raw[a]) => \A i \in DOMAIN raw[a] : known(raw[a][i])
    /\ \A a \in CondLists : \A i \in DOMAIN items(raw[a]) :
           \A f \in CondFields : known(raw[a][i][f])

condition(c) ==
    [Type |-> otherwise(c.type, ""), Status |-> otherwise(c.status, ""),
     Reason |-> otherwise(c.reason, ""), HasReason |-> set(c.reason)]

conditions(v) == {condition(items(v)[i]) : i \in DOMAIN items(v)}

(* The Spec of a complete configuration without errors, defaults applied.   *)
specOf(raw) ==
    [Kind |-> raw.kind, Name |-> otherwise(raw.name, ""),
     Namespace |-> otherwise(raw.namespace, ""),
     LabelSelector |-> otherwise(raw.label_selector, ""),
     FieldSelector |-> otherwise(raw.field_selector, ""),
     Filter |-> otherwise(raw.filter, NoProgram),
     Expression |-> otherwise(raw.expression, NoProgram),
     FailureExpression |-> otherwise(raw.failure_expression, NoProgram),
     SetExpression |-> otherwise(raw.set_expression, NoProgram),
     SuccessConditions |-> conditions(raw.success_conditions),
     FailureConditions |-> conditions(raw.failure_conditions),
     MinMatching |-> minMatching(raw), MaxMatching |-> maxMatching(raw),
     RequireAll |-> otherwise(raw.require_all, FALSE),
     Absent |-> otherwise(raw.absent, "pending"),
     Timeout |-> raw.timeout, Settle |-> otherwise(raw.settle, 0),
     PollInterval |-> otherwise(raw.poll_interval, DefaultPollInterval),
     ProgressInterval |-> otherwise(raw.progress_interval, DefaultProgressInterval),
     Watch |-> otherwise(raw.watch, TRUE),
     ProgressFields |-> otherwise(raw.progress_fields, << >>)]

------------------------------------------------------------------------------
(* parseConfig: its errors, its warnings, and the Spec or NoSpec.           *)
errors(raw) ==
    IF conversionErrors(raw) # {} THEN conversionErrors(raw) ELSE parseErrors(raw)

warnings(raw) == IF conversionErrors(raw) # {} THEN {} ELSE ignored(raw)

parsed(raw) == IF errors(raw) = {} /\ complete(raw) THEN specOf(raw) ELSE NoSpec
==============================================================================
