------------------------ MODULE ConditionActionProofs ------------------------
(***************************************************************************)
(* Theorems of ConditionAction: for every set of configurations and        *)
(* attribute values, every environment and kubeconfig file, and every      *)
(* order in which values become known and files are written.               *)
(***************************************************************************)
EXTENDS ConditionAction, TLAPS

(* What Invoke does: it returns with a diagnostic of one of its checks, or   *)
(* it waits for the cluster the connection stands for.                      *)
LEMMA InvokeCases ==
    ASSUME NEW clients, Invoke(clients)
    PROVE  LET cfg == RESTConfig(conn, files, pod)
           IN /\ submitted /\ ~invoked /\ invoked' = TRUE
              /\ said' = said \cup errors(raw)
              /\ UNCHANGED <<raw, edits, submitted, provider, env, pod, files, conn, warned>>
              /\ \/ /\ UNCHANGED <<ran, verdict, cluster>>
                    /\ \A d \in diags' :
                          \/ d \in errors(raw)
                          \/ \E what : d = <<"config", 0, what>> \/ d = <<"client", 0, what>>
                          \/ d = <<"provider", 0, "unconfigured">>
                          \/ conn # Null /\ d = <<"provider", 0, cfg.err>>
                 \/ /\ parsed(raw) # NoSpec /\ conn # Null /\ cfg.err = "none"
                    /\ ran' = parsed(raw) /\ cluster' = cfg /\ verdict' \in Verdicts
                    /\ \A d \in diags' : \E what : d = <<"result", 0, what>>
<1> DEFINE cfg == RESTConfig(conn, files, pod)
<1> USE DEF asked
<1> HIDE DEF cfg
<1>1. /\ submitted /\ ~invoked /\ invoked' = TRUE
      /\ said' = said \cup errors(raw)
      /\ UNCHANGED <<raw, edits, submitted, provider, env, pod, files, conn, warned>>
  BY DEF Invoke, process
<1> DEFINE Returns ==
             /\ UNCHANGED <<ran, verdict, cluster>>
             /\ \A d \in diags' :
                   \/ d \in errors(raw)
                   \/ \E what : d = <<"config", 0, what>> \/ d = <<"client", 0, what>>
                   \/ d = <<"provider", 0, "unconfigured">>
                   \/ conn # Null /\ d = <<"provider", 0, cfg.err>>
           Waits ==
             /\ parsed(raw) # NoSpec /\ conn # Null /\ cfg.err = "none"
             /\ ran' = parsed(raw) /\ cluster' = cfg /\ verdict' \in Verdicts
             /\ \A d \in diags' : \E what : d = <<"result", 0, what>>
<1>2. ASSUME RefuseInvalid PROVE Returns
  BY <1>2 DEF RefuseInvalid, Refused
<1>3. ASSUME RefuseUnknown PROVE Returns
  BY <1>3 DEF RefuseUnknown, Refused
<1>4. ASSUME RefuseUnconfigured PROVE Returns
  BY <1>4 DEF RefuseUnconfigured, Refused
<1>5. ASSUME RefuseCluster PROVE Returns
  BY <1>5 DEF RefuseCluster, Refused, cfg
<1>6. ASSUME RefuseClient(clients) PROVE Returns
  BY <1>6 DEF RefuseClient, Refused
<1>7. ASSUME NEW v \in Verdicts, Wait(v) PROVE Waits
  BY <1>7 DEF Wait, checked, specKnown, cfg
<1>8. Returns \/ Waits
  <2> HIDE DEF Returns, Waits
  <2>1. RefuseInvalid \/ RefuseUnknown \/ RefuseUnconfigured \/ RefuseCluster
        \/ RefuseClient(clients) \/ \E v \in Verdicts : Wait(v)
    BY Zenon DEF Invoke
  <2>2. QED
    BY <1>2, <1>3, <1>4, <1>5, <1>6, <1>7, <2>1
<1>9. QED
  BY <1>1, <1>8 DEF cfg

(* Every step leaves a well-typed state: an edit and a value that becomes   *)
(* known come from Values, Run returns a verdict.                           *)
LEMMA TypeStep == TypeOK /\ [Next]_vars => TypeOK'
<1> SUFFICES ASSUME TypeOK, [Next]_vars PROVE TypeOK'
  OBVIOUS
<1> USE ValuesAssumption DEF TypeOK, Configuration, ProviderConfiguration, process, outcome
<1>1. ASSUME NEW a \in Attributes, NEW v \in Values[a], Edit(a, v) PROVE TypeOK'
  BY <1>1 DEF Edit, report
<1>2. ASSUME NEW a \in Attributes, NEW v \in Values[a], Learn(a, v) PROVE TypeOK'
  BY <1>2 DEF Learn, report
<1>3. CASE Submit
  BY <1>3 DEF Submit, report
<1>4. CASE Configure
  BY <1>4 DEF Configure, report
<1>5. CASE ValidateConfig
  BY <1>5 DEF ValidateConfig
<1>6. CASE ModifyPlan
  BY <1>6 DEF ModifyPlan
<1>7. ASSUME NEW clients \in ClientOutcomes, Invoke(clients) PROVE TypeOK'
  BY <1>7, InvokeCases
<1>8. ASSUME NEW a \in ProviderAttributes, NEW v \in ProviderValues[a], LearnProvider(a, v)
      PROVE  TypeOK'
  BY <1>8 DEF LearnProvider, report
<1>9. ASSUME NEW f \in DOMAIN files, NEW k \in Kubeconfigs, WriteFile(f, k) PROVE TypeOK'
  BY <1>9 DEF WriteFile, report
<1>10. CASE UNCHANGED vars
  BY <1>10 DEF vars, report
<1>11. QED
  BY <1>1, <1>2, <1>3, <1>4, <1>5, <1>6, <1>7, <1>8, <1>9, <1>10 DEF Next

LEMMA TypeInit == Init => TypeOK
<1> SUFFICES ASSUME Init PROVE TypeOK
  OBVIOUS
<1>1. Configuration(raw) /\ ProviderConfiguration(provider)
  BY ValuesAssumption DEF Init
<1>2. edits \in 0 .. MaxEdits /\ pod \in BOOLEAN
  BY ValuesAssumption DEF Init
<1>3. QED
  BY <1>1, <1>2 DEF Init, TypeOK, Verdicts

(* The state variables keep their types. *)
THEOREM ActionTypeCorrect == Spec => []TypeOK
  BY TypeInit, TypeStep, PTL DEF Spec

------------------------------------------------------------------------------
(* What Parse returns is valid: each conjunct of ValidSpec is kept by a     *)
(* rule that has found nothing.                                             *)
LEMMA ParsedIsValid ==
    ASSUME NEW r, Configuration(r), parsed(r) # NoSpec
    PROVE  ValidSpec(parsed(r))
<1> DEFINE sp == specOf(r)
<1>1. /\ parsed(r) = sp
      /\ complete(r)
      /\ parseErrors(r) = {}
  BY DEF parsed, errors
<1>2. /\ rangeErrors(r) = {} /\ drainErrors(r) = {} /\ durationErrors(r) = {}
      /\ settleErrors(r) = {} /\ countErrors(r) = {} /\ badErrors(r) = {}
  BY <1>1 DEF parseErrors
<1>3. \A a \in Attributes : known(r[a]) /\ r[a] \in Values[a]
  BY <1>1 DEF complete, Configuration
<1>4. \A a \in Counts : set(r[a]) => r[a] \in Int /\ r[a] >= 0
  <2>1. \A a \in Counts : ~(set(r[a]) /\ ~validCount(r[a]))
    BY <1>2 DEF countErrors, Whole
  <2>2. Counts \subseteq Attributes
    BY DEF Attributes
  <2>3. QED
    BY <1>3, <2>1, <2>2, ValuesAssumption DEF validCount, set
<1>5. \A a \in Intervals : set(r[a]) => r[a] \in Int /\ r[a] > 0
  <2>1. \A a \in Intervals : ~(set(r[a]) /\ ~validDuration(r[a], TRUE))
    BY <1>2 DEF durationErrors, Whole
  <2>2. Intervals \subseteq Attributes
    BY DEF Attributes
  <2>3. QED
    BY <1>3, <2>1, <2>2, ValuesAssumption DEF validDuration, set
<1>6. timeoutOK(r) /\ r.timeout \in Int /\ r.timeout > 0
  <2>1. known(r.timeout) /\ validDuration(r.timeout, TRUE)
    BY <1>2, <1>3 DEF durationErrors, Whole, Attributes
  <2>2. r.timeout \in Values["timeout"]
    BY <1>3 DEF Attributes
  <2>3. QED
    BY <2>1, <2>2, ValuesAssumption DEF timeoutOK, validDuration, known
<1>7. settleOK(r) /\ (set(r.settle) => r.settle \in Int /\ r.settle >= 0)
  <2>1. known(r.settle) /\ (set(r.settle) => validDuration(r.settle, FALSE))
    BY <1>2, <1>3 DEF durationErrors, Whole, Attributes
  <2>2. r.settle \in Values["settle"]
    BY <1>3 DEF Attributes
  <2>3. QED
    BY <2>1, <2>2, ValuesAssumption DEF settleOK, validDuration, set
<1>8. ValidDurations(sp)
  <2>1. ~(otherwise(r.settle, 0) >= r.timeout)
    BY <1>2, <1>6, <1>7 DEF settleErrors
  <2>2. sp.Timeout \in Nat /\ sp.Settle \in Nat /\ sp.Settle < sp.Timeout
    BY <1>6, <1>7, <2>1 DEF specOf, otherwise
  <2>3. sp.PollInterval \in Nat /\ sp.PollInterval > 0
    BY <1>5 DEF specOf, otherwise, Intervals, DefaultPollInterval
  <2>4. sp.ProgressInterval \in Nat /\ sp.ProgressInterval > 0
    BY <1>5 DEF specOf, otherwise, Intervals, DefaultProgressInterval
  <2>5. QED
    BY <2>2, <2>3, <2>4 DEF ValidDurations
<1>9. sp.Absent \in Verdicts
  <2>1. r.absent # Bad /\ r.absent \in Values["absent"]
    BY <1>2, <1>3 DEF badErrors, Whole, Attributes
  <2>2. QED
    BY <2>1, ValuesAssumption DEF specOf, otherwise, set, Verdicts
<1>10. sp.Watch \in BOOLEAN /\ sp.RequireAll \in BOOLEAN
  <2>1. r.watch \in Values["watch"] /\ r.require_all \in Values["require_all"]
    BY <1>3 DEF Attributes
  <2>2. QED
    BY <2>1, ValuesAssumption DEF specOf, otherwise, set
<1>11. /\ countKnown(r.min_matching) /\ countKnown(r.max_matching)
       /\ minMatching(r) \in Int /\ minMatching(r) >= 0
       /\ maxMatching(r) \in Int
  <2>1. \A a \in Counts : countKnown(r[a])
    <3>1. Counts \subseteq Attributes
      BY DEF Attributes
    <3>2. QED
      BY <1>2, <1>3, <3>1 DEF countErrors, Whole, countKnown
  <2>2. QED
    BY <1>4, <2>1 DEF Counts, minMatching, maxMatching, otherwise, DefaultMinMatching
<1>12. maxMatching(r) >= 0 => minMatching(r) <= maxMatching(r)
  <2>1. ~(/\ countKnown(r.min_matching) /\ countKnown(r.max_matching)
          /\ maxMatching(r) >= 0
          /\ minMatching(r) > maxMatching(r))
    BY <1>2 DEF rangeErrors
  <2>2. QED
    BY <1>11, <2>1
<1>13. maxMatching(r) = 0 => Drain(sp)
  <2> SUFFICES ASSUME maxMatching(r) = 0 PROVE Drain(sp)
    OBVIOUS
  <2>1. set(r.max_matching) /\ r.max_matching = 0
    BY DEF maxMatching, otherwise
  <2>2. ~predicateSet(r, "success_conditions") /\ ~predicateSet(r, "expression")
    BY <1>2, <1>11, <2>1 DEF drainErrors
  <2>3. DOMAIN items(r.success_conditions) = {} /\ ~set(r.expression)
    BY <2>2 DEF predicateSet
  <2>4. sp.SuccessConditions = {} /\ sp.Expression = NoProgram /\ sp.MaxMatching = 0
    BY <2>3 DEF specOf, conditions, otherwise
  <2>5. QED
    BY <2>4 DEF Drain, hasSuccessPredicates
<1>14. sp.MinMatching = minMatching(r) /\ sp.MaxMatching = maxMatching(r)
  BY DEF specOf
<1>15. RunnerRules(sp)
  BY <1>8, <1>9, <1>10 DEF RunnerRules, Verdicts
<1>16. EvaluatorRules(sp)
  BY <1>10, <1>11, <1>14 DEF EvaluatorRules
<1>17. QED
  BY <1>1, <1>11, <1>12, <1>13, <1>14, <1>15, <1>16 DEF ValidSpec

(* Invoke hands Run a Spec, and only one that keeps the rules the runner and the     *)
(* evaluator rely on.  SpecsAssumption of Watcher and the types in          *)
(* CasesAssumption of EvaluateCheck are among them (RunnerRules,            *)
(* EvaluatorRules), so what is proved of a wait and of a verdict holds of   *)
(* every wait an invocation starts.                                         *)
THEOREM OnlyValidSpecsRun == Spec => []RunsOnlyValidSpecs
<1>1. Init => RunsOnlyValidSpecs
  BY DEF Init, RunsOnlyValidSpecs
<1>2. TypeOK /\ RunsOnlyValidSpecs /\ [Next]_vars => RunsOnlyValidSpecs'
  <2> SUFFICES ASSUME TypeOK, RunsOnlyValidSpecs, [Next]_vars PROVE RunsOnlyValidSpecs'
    OBVIOUS
  <2>1. ASSUME UNCHANGED <<ran, cluster>> PROVE RunsOnlyValidSpecs'
    BY <2>1 DEF RunsOnlyValidSpecs
  <2>2. ASSUME ran' = parsed(raw), parsed(raw) # NoSpec PROVE RunsOnlyValidSpecs'
    BY <2>2, ParsedIsValid DEF RunsOnlyValidSpecs, TypeOK
  <2>3. ASSUME NEW clients \in ClientOutcomes, Invoke(clients) PROVE RunsOnlyValidSpecs'
    BY <2>1, <2>2, <2>3, InvokeCases
  <2>4. QED
    BY <2>1, <2>3 DEF Next, Edit, Learn, Submit, LearnProvider, WriteFile, Configure,
                      ValidateConfig, ModifyPlan, outcome, vars
<1>3. QED
  BY <1>1, <1>2, ActionTypeCorrect, PTL DEF Spec

------------------------------------------------------------------------------
(* ErrorsStand: making a value known keeps every error.  r becomes q by     *)
(* making values of attribute b known.                                      *)
Learns(r, q, b) ==
    /\ Configuration(r) /\ Configuration(q)
    /\ b \in Attributes /\ Fills(b, r[b], q[b])
    /\ \A a \in Attributes \ {b} : q[a] = r[a]

LEMMA LearnsValue ==
    ASSUME NEW r, NEW q, NEW b, Learns(r, q, b)
    PROVE  /\ \A a \in Attributes \ Lists : known(r[a]) => q[a] = r[a]
           /\ \A a \in Lists : Fills(a, r[a], q[a])
<1>1. \A a \in Attributes : Fills(a, r[a], q[a])
  BY DEF Learns, Fills
<1>2. Lists \subseteq Attributes
  BY DEF Attributes
<1>3. QED
  BY <1>1, <1>2 DEF Fills, known

(* The items of a list: the same places, and known ones stay known. *)
LEMMA LearnsItems ==
    ASSUME NEW a \in Lists, NEW u, NEW v, Fills(a, u, v), set(u), v \in Values[a]
    PROVE  /\ set(v) /\ DOMAIN v = DOMAIN u
           /\ \A i \in DOMAIN u : known(u[i]) => known(v[i])
           /\ \A i \in DOMAIN u : u[i] = Null => v[i] = Null
           /\ a \notin CondLists => \A i \in DOMAIN u : known(u[i]) => v[i] = u[i]
<1>1. known(u)
  BY DEF set, known
<1>2. u = v \/ (set(v) /\ DOMAIN u = DOMAIN v /\ \A i \in DOMAIN u : FillsItem(a, u[i], v[i]))
  BY <1>1 DEF Fills, known
<1>3. QED
  BY <1>2, TokensAssumption DEF FillsItem, set, known

LEMMA ConversionErrorsStand ==
    ASSUME NEW r, NEW q, NEW b, Learns(r, q, b)
    PROVE  conversionErrors(r) \subseteq conversionErrors(q)
<1> SUFFICES ASSUME NEW a \in CondLists, NEW i \in DOMAIN otherwise(r[a], << >>),
                    r[a][i] = Null, \A j \in 1 .. i - 1 : known(r[a][j])
             PROVE  /\ i \in DOMAIN otherwise(q[a], << >>)
                    /\ q[a][i] = Null
                    /\ \A j \in 1 .. i - 1 : known(q[a][j])
  BY DEF conversionErrors
<1>1. a \in Lists /\ a \in Attributes
  BY DEF Lists, Attributes
<1>2. set(r[a]) /\ i \in DOMAIN r[a]
  BY DEF otherwise
<1>3. Fills(a, r[a], q[a]) /\ q[a] \in Values[a] /\ r[a] \in Values[a]
  BY <1>1, LearnsValue DEF Learns, Configuration
<1>4. /\ set(q[a]) /\ DOMAIN q[a] = DOMAIN r[a] /\ q[a][i] = Null
      /\ \A j \in DOMAIN r[a] : known(r[a][j]) => known(q[a][j])
  BY <1>1, <1>2, <1>3, LearnsItems
<1>5. 1 .. i - 1 \subseteq DOMAIN r[a]
  <2>1. Len(r[a]) \in Nat /\ DOMAIN r[a] = 1 .. Len(r[a])
    BY <1>1, <1>2, <1>3, ValuesAssumption
  <2>2. QED
    BY <1>2, <2>1
<1>6. QED
  BY <1>2, <1>4, <1>5 DEF otherwise

(* A list of conditions all of which are known keeps its places. *)
LEMMA ItemsStand ==
    ASSUME NEW r, NEW q, NEW b, Learns(r, q, b), NEW a \in CondLists
    PROVE  /\ DOMAIN items(r[a]) \subseteq DOMAIN items(q[a])
           /\ \A i \in DOMAIN items(r[a]) : FillsItem(a, r[a][i], q[a][i])
<1>1. a \in Lists /\ a \in Attributes
  BY DEF Lists, Attributes
<1>2. Fills(a, r[a], q[a]) /\ q[a] \in Values[a]
  BY <1>1, LearnsValue DEF Learns, Configuration
<1>3. CASE set(r[a]) /\ condsKnown(r[a])
  <2>1. /\ set(q[a]) /\ DOMAIN q[a] = DOMAIN r[a]
        /\ \A i \in DOMAIN r[a] : known(r[a][i]) => known(q[a][i])
    BY <1>1, <1>2, <1>3, LearnsItems
  <2>2. condsKnown(q[a])
    BY <1>3, <2>1 DEF condsKnown, set, known
  <2>3. \A i \in DOMAIN r[a] : FillsItem(a, r[a][i], q[a][i])
    BY <1>2, <1>3 DEF Fills, FillsItem, set, known, condsKnown
  <2>4. QED
    BY <1>3, <2>1, <2>2, <2>3 DEF items
<1>4. CASE ~(set(r[a]) /\ condsKnown(r[a]))
  BY <1>4 DEF items
<1>5. QED
  BY <1>3, <1>4

(* Rule by rule: the value an error is about was known, so it is still the  *)
(* same.                                                                    *)
LEMMA ParseErrorsStand ==
    ASSUME NEW r, NEW q, NEW b, Learns(r, q, b)
    PROVE  parseErrors(r) \subseteq parseErrors(q)
<1>1. \A a \in Attributes \ Lists : known(r[a]) => q[a] = r[a]
  BY LearnsValue
<1> DEFINE Plain == {"api_version", "kind", "namespace", "name", "absent", "timeout", "settle",
                     "min_matching", "max_matching", "poll_interval", "progress_interval",
                     "label_selector", "field_selector", "filter", "expression",
                     "failure_expression", "set_expression"}
<1>2. \A a \in Plain : known(r[a]) => q[a] = r[a]
  <2>1. Plain \subseteq Attributes \ Lists
    BY DEF Attributes, Lists, CondLists, Selectors, Programs, Counts, Intervals
  <2>2. QED
    BY <1>1, <2>1
<1>3. \A a \in Plain : set(r[a]) => q[a] = r[a]
  BY <1>2 DEF set, known
<1>4. Null # Unknown /\ Bad \notin {Null, Unknown} /\ "" \notin {Null, Unknown, Bad}
  BY TokensAssumption
<1>5. kindErrors(r) \subseteq kindErrors(q)
  <2>1. CASE known(r.api_version) /\ known(r.kind)
    BY <1>2, <2>1 DEF kindErrors, known
  <2>2. CASE ~(known(r.api_version) /\ known(r.kind))
    BY <2>2 DEF kindErrors
  <2>3. QED
    BY <2>1, <2>2
<1>6. emptyErrors(r) \subseteq emptyErrors(q)
  <2>1. \A a \in {"name", "namespace"} : r[a] = "" => q[a] = ""
    BY <1>2, <1>4 DEF known
  <2>2. QED
    BY <2>1 DEF emptyErrors, Whole
<1>7. badErrors(r) \subseteq badErrors(q)
  <2>1. \A a \in Selectors \cup Programs \cup {"absent"} : r[a] = Bad => q[a] = Bad
    BY <1>2, <1>4 DEF Selectors, Programs, known
  <2>2. QED
    BY <2>1 DEF badErrors, Whole
<1>8. conflictErrors(r) \subseteq conflictErrors(q)
  BY <1>3 DEF conflictErrors, Selectors, set
<1>9. condErrors(r) \subseteq condErrors(q)
  <2>1. ASSUME NEW a \in CondLists, NEW f \in {"type", "status"}, NEW i \in emptyField(r, a, f)
        PROVE  i \in emptyField(q, a, f)
    <3>1. i \in DOMAIN items(r[a]) /\ r[a][i][f] = ""
      BY DEF emptyField
    <3>2. i \in DOMAIN items(q[a]) /\ FillsItem(a, r[a][i], q[a][i])
      BY <3>1, ItemsStand
    <3>3. set(r[a]) /\ condsKnown(r[a])
      <4>1. SUFFICES ASSUME ~(set(r[a]) /\ condsKnown(r[a])) PROVE FALSE
        BY DEF set, condsKnown
      <4>2. items(r[a]) = << >>
        BY <4>1 DEF items
      <4>3. DOMAIN << >> = {}
        OBVIOUS
      <4>4. QED
        BY <3>1, <4>2, <4>3, Zenon
    <3>4. known(r[a][i])
      BY <3>1, <3>3 DEF items, condsKnown
    <3>5. QED
      BY <1>4, <3>1, <3>2, <3>4 DEF FillsItem, known, CondFields, emptyField
  <2>2. QED
    BY <2>1 DEF condErrors
<1>10. countErrors(r) \subseteq countErrors(q)
  BY <1>3 DEF countErrors, Whole, Counts
<1>11. rangeErrors(r) \subseteq rangeErrors(q)
  <2>1. CASE known(r.min_matching) /\ known(r.max_matching)
    BY <1>2, <2>1 DEF rangeErrors, minMatching, maxMatching
  <2>2. CASE ~(known(r.min_matching) /\ known(r.max_matching))
    BY <2>2 DEF rangeErrors, countKnown
  <2>3. QED
    BY <2>1, <2>2
<1>12. drainErrors(r) \subseteq drainErrors(q)
  <2>1. DOMAIN items(r.success_conditions) \subseteq DOMAIN items(q.success_conditions)
    BY ItemsStand DEF CondLists
  <2>2. \A a \in {"success_conditions", "expression"} : predicateSet(r, a) => predicateSet(q, a)
    BY <1>3, <2>1 DEF predicateSet
  <2>3. set(r.max_matching) => q.max_matching = r.max_matching
    BY <1>3
  <2>4. QED
    BY <2>2, <2>3 DEF drainErrors
<1>13. durationErrors(r) \subseteq durationErrors(q)
  <2>1. known(r.timeout) => q.timeout = r.timeout
    BY <1>2
  <2>2. \A a \in Intervals \cup {"settle"} : set(r[a]) => q[a] = r[a]
    BY <1>3 DEF Intervals
  <2>3. QED
    BY <2>1, <2>2 DEF durationErrors, Whole
<1>14. settleErrors(r) \subseteq settleErrors(q)
  <2>1. CASE known(r.timeout) /\ known(r.settle)
    BY <1>2, <2>1 DEF settleErrors, timeoutOK, settleOK
  <2>2. CASE ~(known(r.timeout) /\ known(r.settle))
    BY <2>2 DEF settleErrors, timeoutOK, settleOK
  <2>3. QED
    BY <2>1, <2>2
<1>15. fieldErrors(r) \subseteq fieldErrors(q)
  <2> SUFFICES ASSUME NEW i \in DOMAIN otherwise(r.progress_fields, << >>),
                      r.progress_fields[i] \in {Null, Bad}
               PROVE  /\ i \in DOMAIN otherwise(q.progress_fields, << >>)
                      /\ q.progress_fields[i] \in {Null, Bad}
    BY DEF fieldErrors
  <2>1. set(r.progress_fields) /\ i \in DOMAIN r.progress_fields
    BY DEF otherwise
  <2>2. /\ "progress_fields" \in Lists \ CondLists
        /\ Fills("progress_fields", r.progress_fields, q.progress_fields)
        /\ q.progress_fields \in Values["progress_fields"]
    BY LearnsValue DEF Lists, CondLists, Learns, Configuration, Attributes
  <2>3. /\ set(q.progress_fields) /\ DOMAIN q.progress_fields = DOMAIN r.progress_fields
        /\ known(r.progress_fields[i]) => q.progress_fields[i] = r.progress_fields[i]
    BY <2>1, <2>2, LearnsItems
  <2>4. QED
    BY <1>4, <2>1, <2>3 DEF otherwise, known
<1>16. QED
  BY <1>5, <1>6, <1>7, <1>8, <1>9, <1>10, <1>11, <1>12, <1>13, <1>14, <1>15 DEF parseErrors

LEMMA ErrorsStandStep ==
    ASSUME NEW r, NEW q, NEW b, Learns(r, q, b)
    PROVE  /\ errors(r) # {} => errors(q) # {}
           /\ conversionErrors(q) = {} => errors(r) \subseteq errors(q)
           /\ conversionErrors(q) = {} => conversionErrors(r) = {}
  BY ConversionErrorsStand, ParseErrorsStand DEF errors

(* An attribute that is ignored in the mode of a known name is set and stays *)
(* so.                                                                      *)
LEMMA WarningsStandStep ==
    ASSUME NEW r, NEW q, NEW b, Learns(r, q, b), conversionErrors(q) = {}
    PROVE  warnings(r) \subseteq warnings(q)
<1> DEFINE Both == {"name", "absent", "filter", "set_expression", "min_matching",
                    "max_matching", "require_all"}
<1>1. \A a \in Both : known(r[a]) => q[a] = r[a]
  <2>1. Both \subseteq Attributes \ Lists
    BY DEF Attributes, Lists, CondLists, Programs, Counts
  <2>2. QED
    BY <2>1, LearnsValue
<1>2. \A a \in Both : set(r[a]) => set(q[a])
  BY <1>1 DEF set, known
<1>3. ignored(r) \subseteq ignored(q)
  <2>1. CASE ~known(r.name)
    <3>1. ignored(r) = {}
      BY <2>1, TokensAssumption DEF ignored, known
    <3>2. QED
      BY <3>1
  <2>2. CASE known(r.name)
    <3>1. q.name = r.name
      BY <1>1, <2>2
    <3>2. QED
      BY <1>2, <2>2, <3>1 DEF ignored
  <2>3. QED
    BY <2>1, <2>2
<1>4. QED
  BY <1>3, ConversionErrorsStand DEF warnings

(* Before the configuration is submitted nothing has been said; from then   *)
(* on it only becomes more known.                                           *)
StandInv ==
    /\ TypeOK
    /\ ~submitted => said = {} /\ warned = {}
    /\ ErrorsStand
    /\ WarningsStand

LEMMA StandStep == StandInv /\ [Next]_vars => StandInv'
<1> SUFFICES ASSUME StandInv, [Next]_vars PROVE StandInv'
  OBVIOUS
<1>1. TypeOK'
  BY TypeStep DEF StandInv
<1>2. ASSUME NEW a \in Attributes, NEW v \in Values[a], Edit(a, v) PROVE StandInv'
  BY <1>1, <1>2 DEF StandInv, ErrorsStand, WarningsStand, Edit, report
<1>3. ASSUME NEW a \in Attributes, NEW v \in Values[a], Learn(a, v) PROVE StandInv'
  <2>1. Learns(raw, raw', a)
    BY <1>1, <1>3 DEF Learns, Learn, StandInv, TypeOK, Configuration
  <2>2. said' = said /\ warned' = warned /\ submitted' /\ submitted
    BY <1>3 DEF Learn, report
  <2>3. /\ errors(raw) # {} => errors(raw') # {}
        /\ conversionErrors(raw') = {} => errors(raw) \subseteq errors(raw')
        /\ conversionErrors(raw') = {} => conversionErrors(raw) = {}
        /\ conversionErrors(raw') = {} => warnings(raw) \subseteq warnings(raw')
    BY <2>1, ErrorsStandStep, WarningsStandStep
  <2>4. ErrorsStand' /\ WarningsStand'
    BY <2>2, <2>3 DEF StandInv, ErrorsStand, WarningsStand
  <2>5. QED
    BY <1>1, <2>2, <2>4 DEF StandInv
<1>4. ASSUME raw' = raw, submitted', said' = said \cup errors(raw),
             warned' \in {warned, warned \cup warnings(raw)}
      PROVE  StandInv'
  <2>1. ErrorsStand'
    BY <1>4 DEF StandInv, ErrorsStand, errors
  <2>2. WarningsStand'
    BY <1>4 DEF StandInv, WarningsStand
  <2>3. QED
    BY <1>1, <1>4, <2>1, <2>2 DEF StandInv
<1>5. ASSUME raw' = raw, said' = said, warned' = warned, submitted' = submitted \/ submitted'
      PROVE  StandInv'
  BY <1>1, <1>5 DEF StandInv, ErrorsStand, WarningsStand
<1>6. CASE ValidateConfig \/ ModifyPlan
  BY <1>4, <1>6 DEF ValidateConfig, ModifyPlan
<1>7. ASSUME NEW clients \in ClientOutcomes, Invoke(clients) PROVE StandInv'
  <2>1. submitted'
    BY <1>1, <1>7, InvokeCases DEF TypeOK
  <2>2. QED
    BY <1>4, <1>7, <2>1, InvokeCases
<1>8. CASE Submit \/ Configure \/ UNCHANGED vars
  BY <1>5, <1>8 DEF Submit, Configure, report, vars
<1>9. ASSUME NEW a \in ProviderAttributes, NEW v \in ProviderValues[a], LearnProvider(a, v)
      PROVE  StandInv'
  BY <1>5, <1>9 DEF LearnProvider, report
<1>10. ASSUME NEW f \in DOMAIN files, NEW k \in Kubeconfigs, WriteFile(f, k) PROVE StandInv'
  BY <1>5, <1>10 DEF WriteFile, report
<1>11. QED
  BY <1>2, <1>3, <1>6, <1>7, <1>8, <1>9, <1>10 DEF Next

LEMMA StandInvariant == Spec => []StandInv
<1>1. Init => StandInv
  BY TypeInit DEF Init, StandInv, ErrorsStand, WarningsStand
<1>2. QED
  BY <1>1, StandStep, PTL DEF Spec

(* No stage reports an error that a value still to come would cure. *)
THEOREM ErrorsAreFinal == Spec => []ErrorsStand
  BY StandInvariant, PTL DEF StandInv

(* No attribute is called ignored that a value still to come would make     *)
(* count.                                                                   *)
THEOREM WarningsAreFinal == Spec => []WarningsStand
  BY StandInvariant, PTL DEF StandInv

------------------------------------------------------------------------------
(* Merging kubeconfig files: none defines nothing. *)

LEMMA NothingMerged ==
    ASSUME NEW paths, DOMAIN paths = {}, NEW fs, NEW part
    PROVE  DOMAIN merged(paths, fs, part) = {}
  BY DEF merged

------------------------------------------------------------------------------
(* The outcome of clientcmd. *)

ContextOf(ov, paths, fs) ==
    LET contexts == merged(paths, fs, "contexts")
        name == firstOf(ov.context, currentContext(paths, fs))
    IN IF name \in DOMAIN contexts THEN contexts[name] ELSE NoContext

ClusterOf(ov, paths, fs) == firstOf(ov.cluster, ContextOf(ov, paths, fs).cluster)

ServerOf(ov, paths, fs) ==
    LET clusters == merged(paths, fs, "clusters")
        c == ClusterOf(ov, paths, fs)
    IN firstOf(ov.server, IF c \in DOMAIN clusters THEN clusters[c] ELSE "")

LEMMA ClientOutcome ==
    ASSUME NEW ov, NEW paths, NEW fs, NEW inPod
    PROVE  LET cfg == clientConfig(ov, paths, fs, inPod)
               server == ServerOf(ov, paths, fs)
           IN /\ cfg.err \in {"none", "kubeconfig", "empty"}
              /\ cfg.err = "none" =>
                    /\ \/ server # "" /\ cfg.host = server
                       \/ server = "" /\ inPod /\ cfg.host = PodHost
                    /\ Len(paths) = 1 => fs[paths[1]] # Null
                    /\ ov.token # "" => cfg.token \in {"", ov.token}
<1> DEFINE absent == Len(paths) = 1 /\ fs[paths[1]] = Null
           users == merged(paths, fs, "users")
           user == firstOf(ov.user, ContextOf(ov, paths, fs).user)
           token == firstOf(ov.token, IF user \in DOMAIN users THEN users[user] ELSE "")
           server == ServerOf(ov, paths, fs)
           cfg == clientConfig(ov, paths, fs, inPod)
<1>1. \/ cfg = Failed("kubeconfig")
      \/ cfg = Failed("empty")
      \/ ~absent /\ server # "" /\ cfg = Resolved(server, IF server \in Secure THEN token ELSE "")
      \/ ~absent /\ server = "" /\ inPod /\ cfg = inCluster(ov)
  BY DEF clientConfig, ServerOf, ClusterOf, ContextOf
<1>2. ov.token # "" => token = ov.token
  BY DEF firstOf
<1> DEFINE Good == /\ cfg.err \in {"none", "kubeconfig", "empty"}
                   /\ cfg.err = "none" =>
                         /\ \/ server # "" /\ cfg.host = server
                            \/ server = "" /\ inPod /\ cfg.host = PodHost
                         /\ ~absent
                         /\ ov.token # "" => cfg.token \in {"", ov.token}
<1> SUFFICES Good
  OBVIOUS
<1> HIDE DEF absent, users, user, token, server, cfg
<1>3. ASSUME NEW e \in {"kubeconfig", "empty"}, cfg = Failed(e) PROVE Good
  <2>1. cfg.err = e
    BY <1>3 DEF Failed
  <2>2. QED
    BY <2>1
<1>4. CASE ~absent /\ server # "" /\ cfg = Resolved(server, IF server \in Secure THEN token ELSE "")
  BY <1>2, <1>4 DEF Resolved
<1>5. CASE ~absent /\ server = "" /\ inPod /\ cfg = inCluster(ov)
  <2>1. /\ cfg.err = "none" /\ cfg.host = PodHost
        /\ cfg.token = firstOf(ov.token, PodToken)
    BY <1>5 DEF Resolved, inCluster
  <2>2. QED
    BY <1>5, <2>1 DEF firstOf
<1>6. QED
  BY <1>1, <1>3, <1>4, <1>5

------------------------------------------------------------------------------
(* The settings of a configuration that is known. *)

LEMMA TextIsSetting ==
    ASSUME NEW a \in Texts
    PROVE  settingsOf(provider, env)[a] = text(a)
<1>1. a \in ProviderAttributes
  BY DEF ProviderAttributes
<1>2. settingsOf(provider, env)[a] = envDefaults(provider, env, a)
  BY <1>1 DEF settingsOf, Texts
<1>3. QED
  BY <1>2, TokensAssumption DEF envDefaults, text, firstOf, ValueString, otherwise

LEMMA PathsAreSetting == settingsOf(provider, env).config_paths = ConfigPaths(provider, env)
  BY DEF settingsOf, Texts, ProviderAttributes

(* A list is a sequence: without places it is empty. *)
IsList(v) == Len(v) \in Nat /\ v = [i \in 1 .. Len(v) |-> v[i]]

LEMMA ListDomain ==
    ASSUME NEW v, IsList(v)
    PROVE  DOMAIN v \subseteq Nat /\ (DOMAIN v = {} => v = << >>)
<1> DEFINE n == Len(v)
<1>1. n \in Nat /\ v = [i \in 1 .. n |-> v[i]]
  BY DEF IsList
<1> HIDE DEF n
<1>2. DOMAIN v = 1 .. n
  <2>1. DOMAIN [i \in 1 .. n |-> v[i]] = 1 .. n
    OBVIOUS
  <2>2. QED
    BY <1>1, <2>1, Zenon
<1>3. 1 .. n \subseteq Nat
  BY <1>1
<1>4. ASSUME 1 .. n = {} PROVE v = << >>
  <2>1. \A f, S : f = [i \in S |-> f[i]] /\ S = {} => f = << >>
    OBVIOUS
  <2>2. QED
    BY <1>1, <1>4, <2>1, Zenon
<1>5. QED
  BY <1>2, <1>3, <1>4

LEMMA PathsDomain ==
    ASSUME ProviderConfiguration(provider), \E w \in Written : env = w.env
    PROVE  LET ps == ConfigPaths(provider, env)
           IN DOMAIN ps \subseteq Nat /\ (DOMAIN ps = {} => ps = << >>)
<1>1. provider.config_paths \in ProviderValues["config_paths"]
  BY DEF ProviderConfiguration, ProviderAttributes
<1>2. set(provider.config_paths) => IsList(provider.config_paths)
  BY <1>1, ConnectionAssumption DEF IsList
<1>3. \A x : DOMAIN <<x>> = {1}
  OBVIOUS
<1>4. IsList(env.config_paths)
  BY ConnectionAssumption DEF IsList
<1>5. otherwise(provider.config_paths, << >>) # << >> => set(provider.config_paths)
  BY DEF otherwise
<1>6. \/ \E x : ConfigPaths(provider, env) = <<x>>
      \/ ConfigPaths(provider, env) = provider.config_paths /\ set(provider.config_paths)
      \/ ConfigPaths(provider, env) = env.config_paths
  <2> DEFINE c1 == ValueString(provider.config_path) # ""
             c2 == otherwise(provider.config_paths, << >>) # << >>
             c3 == env.config_path # ""
  <2>1. ConfigPaths(provider, env) =
            IF c1 THEN <<provider.config_path>>
            ELSE IF c2 THEN provider.config_paths
            ELSE IF c3 THEN <<env.config_path>>
            ELSE env.config_paths
    BY DEF ConfigPaths
  <2>2. c2 => set(provider.config_paths)
    BY <1>5
  <2> HIDE DEF c1, c2, c3
  <2>3. QED
    BY <2>1, <2>2
<1> DEFINE ps == ConfigPaths(provider, env)
<1> HIDE DEF ps
<1>7. ASSUME NEW x, ps = <<x>> PROVE DOMAIN ps \subseteq Nat /\ DOMAIN ps # {}
  BY <1>3, <1>7
<1>8. IsList(ps) \/ \E x : ps = <<x>>
  BY <1>2, <1>4, <1>6 DEF ps
<1>9. DOMAIN ps \subseteq Nat /\ (DOMAIN ps = {} => ps = << >>)
  BY <1>7, <1>8, ListDomain
<1>10. QED
  BY <1>9 DEF ps

------------------------------------------------------------------------------
(* What resolution yields for the settings of a known configuration. *)

(* The connection holds the settings of a configuration that was and is     *)
(* wholly known.                                                            *)
ConnInv ==
    /\ TypeOK
    /\ \E w \in Written : env = w.env
    /\ conn # Null /\ conn.Settings # Null =>
          fullyKnown(provider) /\ conn.Settings = settingsOf(provider, env)

LEMMA Resolves ==
    ASSUME ConnInv, conn # Null, RESTConfig(conn, files, pod).err = "none"
    PROVE  LET cfg == RESTConfig(conn, files, pod)
               st == settingsOf(provider, env)
           IN /\ fullyKnown(provider)
              /\ st.host # Bad
              /\ cfg = clientConfig(overrides(st), namedPaths, files, pod)
<1> DEFINE cc == clientConfig(overrides(conn.Settings),
                              [i \in DOMAIN conn.Settings.config_paths |->
                                  expandHome(conn.Settings.config_paths[i])], files, pod)
           cfg == RESTConfig(conn, files, pod)
           st == settingsOf(provider, env)
<1>1. /\ conn.Settings # Null /\ conn.Settings.host # Bad
      /\ cfg = cc
  <2>1. cfg = IF conn.Settings = Null THEN Failed("unknown")
              ELSE IF conn.Settings.host = Bad THEN Failed("host")
              ELSE IF cc.err = "empty" \/ (cc.err = "none" /\ cc.host = "") THEN Failed("noCluster")
              ELSE cc
    BY DEF RESTConfig
  <2>2. cfg.err = "none"
    OBVIOUS
  <2>3. \A e : Failed(e).err = e
    BY DEF Failed
  <2> HIDE DEF cfg, cc
  <2>4. QED
    BY <2>1, <2>2, <2>3
<1>2. fullyKnown(provider) /\ conn.Settings = st
  BY <1>1 DEF ConnInv
<1>3. namedPaths = [i \in DOMAIN st.config_paths |-> expandHome(st.config_paths[i])]
  BY PathsAreSetting DEF namedPaths
<1>4. QED
  BY <1>1, <1>2, <1>3

(* The server clientcmd is led to. *)
LEMMA ServerIsNamed ==
    ASSUME ConnInv, fullyKnown(provider)
    PROVE  LET st == settingsOf(provider, env)
               server == ServerOf(overrides(st), namedPaths, files)
           IN /\ text("host") # "" /\ st.host # Bad
                    => \E tls \in BOOLEAN : server = URL[text("host")][tls] /\ server # ""
              /\ text("host") = "" => server = selectedServer
<1> DEFINE st == settingsOf(provider, env)
           ov == overrides(st)
           server == ServerOf(ov, namedPaths, files)
           clusters == merged(namedPaths, files, "clusters")
           contexts == merged(namedPaths, files, "contexts")
           tls == defaultTLS(st)
<1>1. st.host = text("host")
  BY TextIsSetting DEF Texts
<1>2. ov.server = IF text("host") = "" THEN "" ELSE URL[text("host")][tls]
  BY <1>1 DEF overrides, overridesWith
<1>3. tls \in BOOLEAN
  BY DEF defaultTLS
<1>4. ASSUME text("host") # "", st.host # Bad
      PROVE  server = URL[text("host")][tls] /\ server # ""
  <2>1. text("host") \in (ProviderValues["host"] \cup {w.env.host : w \in Written})
                            \ {Null, Unknown, Bad, ""}
    <3>1. provider.host \in ProviderValues["host"] /\ provider.host # Unknown
      BY DEF ConnInv, TypeOK, ProviderConfiguration, fullyKnown, ProviderAttributes, Texts, known
    <3>2. env.host \in {w.env.host : w \in Written} /\ env.host \notin {Null, Unknown}
      BY ConnectionAssumption DEF ConnInv
    <3>3. QED
      BY <1>1, <1>4, <3>1, <3>2 DEF text, firstOf, ValueString, otherwise, set
  <2>2. URL[text("host")][tls] # ""
    BY <1>3, <2>1, ConnectionAssumption
  <2>3. QED
    BY <1>2, <1>4, <2>2 DEF ServerOf, firstOf
<1>5. ASSUME text("host") = "" PROVE server = selectedServer
  <2> DEFINE c == ClusterOf(ov, namedPaths, files)
             context == firstOf(text("config_context"), currentContext(namedPaths, files))
             inContext == IF context \in DOMAIN contexts THEN contexts[context].cluster ELSE ""
             selected == firstOf(text("config_context_cluster"), inContext)
  <2>1. server = IF c \in DOMAIN clusters THEN clusters[c] ELSE ""
    BY <1>2, <1>5 DEF ServerOf, firstOf
  <2>2. selectedServer = IF selected \in DOMAIN clusters THEN clusters[selected] ELSE ""
    BY DEF selectedServer
  <2>3. CASE st.config_paths = << >>
    <3>1. DOMAIN namedPaths = {}
      BY <2>3, PathsAreSetting DEF namedPaths
    <3>2. DOMAIN clusters = {}
      BY <3>1, NothingMerged
    <3> HIDE DEF server, c, selected, clusters
    <3>3. QED
      BY <2>1, <2>2, <3>2
  <2>4. CASE st.config_paths # << >>
    <3>1. ov.context = st.config_context /\ ov.cluster = st.config_context_cluster
      BY <2>4 DEF overrides, overridesWith
    <3>2. ov.context = text("config_context") /\ ov.cluster = text("config_context_cluster")
      BY <3>1, TextIsSetting DEF Texts
    <3>3. ContextOf(ov, namedPaths, files).cluster = inContext
      BY <3>2 DEF ContextOf, NoContext
    <3>4. c = selected
      BY <3>2, <3>3 DEF ClusterOf
    <3> HIDE DEF server, c, selected, clusters
    <3>5. QED
      BY <2>1, <2>2, <3>4
  <2>5. QED
    BY <2>3, <2>4
<1>6. QED
  BY <1>3, <1>4, <1>5

(* A resolution that succeeds names the cluster the configuration names.    *)
LEMMA ResolutionIsNamed ==
    ASSUME ConnInv, conn # Null, RESTConfig(conn, files, pod).err = "none"
    PROVE  LET cfg == RESTConfig(conn, files, pod)
           IN /\ fullyKnown(provider)
              /\ text("host") # "" => \E tls \in BOOLEAN : cfg.host = URL[text("host")][tls]
              /\ text("host") = "" /\ selectedServer # "" => cfg.host = selectedServer
              /\ text("host") = "" /\ selectedServer = "" => cfg.host = PodHost /\ pod
              /\ Len(namedPaths) = 1 => files[namedPaths[1]] # Null
              /\ text("token") # "" => cfg.token \in {"", text("token")}
<1> DEFINE cfg == RESTConfig(conn, files, pod)
           st == settingsOf(provider, env)
           ov == overrides(st)
           server == ServerOf(ov, namedPaths, files)
<1>1. fullyKnown(provider) /\ st.host # Bad /\ cfg = clientConfig(ov, namedPaths, files, pod)
  BY Resolves
<1>2. ov.token = text("token")
  <2>1. ov.token = st.token
    BY DEF overrides, overridesWith
  <2>2. QED
    BY <2>1, TextIsSetting DEF Texts
<1>3. /\ \/ server # "" /\ cfg.host = server
         \/ server = "" /\ pod /\ cfg.host = PodHost
      /\ Len(namedPaths) = 1 => files[namedPaths[1]] # Null
      /\ ov.token # "" => cfg.token \in {"", ov.token}
  <2>1. clientConfig(ov, namedPaths, files, pod).err = "none"
    BY <1>1
  <2> HIDE DEF ov
  <2>2. QED
    BY <1>1, <2>1, ClientOutcome
<1>4. /\ text("host") # "" => \E tls \in BOOLEAN : server = URL[text("host")][tls] /\ server # ""
      /\ text("host") = "" => server = selectedServer
  BY <1>1, ServerIsNamed
<1> HIDE DEF cfg, st, ov, server
<1>5. /\ fullyKnown(provider)
      /\ text("host") # "" => \E tls \in BOOLEAN : cfg.host = URL[text("host")][tls]
      /\ text("host") = "" /\ selectedServer # "" => cfg.host = selectedServer
      /\ text("host") = "" /\ selectedServer = "" => cfg.host = PodHost /\ pod
      /\ Len(namedPaths) = 1 => files[namedPaths[1]] # Null
      /\ text("token") # "" => cfg.token \in {"", text("token")}
  BY <1>1, <1>2, <1>3, <1>4
<1>6. QED
  BY <1>5 DEF cfg

------------------------------------------------------------------------------
(* The life of the action. *)

LEMMA KnownStaysKnown ==
    ASSUME TypeOK, fullyKnown(provider),
           NEW a \in ProviderAttributes, NEW v \in ProviderValues[a], LearnProvider(a, v)
    PROVE  FALSE
<1>1. v # provider[a] /\ FillsProvider(a, provider[a], v)
  BY DEF LearnProvider
<1>2. provider[a] # Unknown
  BY DEF fullyKnown, known
<1>3. /\ a = "config_paths" /\ set(provider[a]) /\ set(v) /\ DOMAIN provider[a] = DOMAIN v
      /\ \A i \in DOMAIN provider[a] : provider[a][i] \in {Unknown, v[i]}
  BY <1>1, <1>2 DEF FillsProvider
<1>4. \A i \in DOMAIN provider[a] : provider[a][i] = v[i]
  BY <1>3 DEF fullyKnown, known
<1>5. provider[a] \in ProviderValues[a]
  BY DEF TypeOK, ProviderConfiguration
<1>6. \A u \in {provider[a], v} : Len(u) \in Nat /\ u = [i \in 1 .. Len(u) |-> u[i]]
  BY <1>3, <1>5, ConnectionAssumption
<1>7. \A f, g, m, n :
          /\ f = [i \in 1 .. m |-> f[i]] /\ g = [i \in 1 .. n |-> g[i]]
          /\ DOMAIN f = DOMAIN g /\ \A i \in DOMAIN f : f[i] = g[i]
          => f = g
  OBVIOUS
<1>8. QED
  BY <1>1, <1>3, <1>4, <1>6, <1>7, Zenon

LEMMA ConnInit == Init => ConnInv
<1> SUFFICES ASSUME Init PROVE ConnInv
  OBVIOUS
<1>1. TypeOK
  BY TypeInit
<1>2. conn = Null /\ \E w \in Written : env = w.env
  BY DEF Init
<1>3. QED
  BY <1>1, <1>2 DEF ConnInv

LEMMA ConnStep == ConnInv /\ [Next]_vars => ConnInv'
<1> SUFFICES ASSUME ConnInv, [Next]_vars PROVE ConnInv'
  OBVIOUS
<1>1. TypeOK'
  BY TypeStep DEF ConnInv
<1>2. env' = env
  BY DEF Next, Edit, Learn, Submit, LearnProvider, WriteFile, Configure, ValidateConfig,
         ModifyPlan, Invoke, process, vars
<1>3. ASSUME conn' = conn, provider' = provider PROVE ConnInv'
  BY <1>1, <1>2, <1>3 DEF ConnInv
<1>4. CASE Configure
  <2>1. conn' = [Settings |-> Settings(provider, env)] /\ provider' = provider
    BY <1>4 DEF Configure
  <2>2. conn'.Settings # Null =>
           fullyKnown(provider) /\ conn'.Settings = settingsOf(provider, env)
    BY <2>1 DEF Settings
  <2>3. QED
    BY <1>1, <1>2, <2>1, <2>2 DEF ConnInv
<1>5. ASSUME NEW a \in ProviderAttributes, NEW v \in ProviderValues[a], LearnProvider(a, v)
      PROVE  ConnInv'
  <2>1. ~fullyKnown(provider)
    BY <1>5, KnownStaysKnown DEF ConnInv
  <2>2. conn' = conn
    BY <1>5 DEF LearnProvider
  <2>3. QED
    BY <1>1, <1>2, <2>1, <2>2 DEF ConnInv
<1>6. QED
  BY <1>3, <1>4, <1>5 DEF Next, Edit, Learn, Submit, WriteFile, ValidateConfig, ModifyPlan,
                         Invoke, vars

LEMMA ConnInvariant == Spec => []ConnInv
  BY ConnInit, ConnStep, PTL DEF Spec

(* The cluster is chosen by Invoke, after which nothing changes. *)
ChosenInv ==
    /\ cluster # Null => invoked
    /\ NeverGuessed

(* A wait observes the cluster host or the kubeconfig files select, or the  *)
(* pod's when these give no server, or none.                                *)
THEOREM ClusterNeverGuessed == Spec => []NeverGuessed
<1>1. Init => ChosenInv
  BY DEF Init, ChosenInv, NeverGuessed
<1>2. ConnInv /\ ChosenInv /\ [Next]_vars => ChosenInv'
  <2> SUFFICES ASSUME ConnInv, ChosenInv, [Next]_vars PROVE ChosenInv'
    OBVIOUS
  <2>1. ASSUME cluster' = cluster, cluster = Null PROVE ChosenInv'
    BY <2>1 DEF ChosenInv, NeverGuessed
  <2>2. CASE UNCHANGED vars
    <3>1. UNCHANGED <<provider, env, pod, files, cluster, invoked>>
      BY <2>2 DEF vars, process, outcome
    <3>2. /\ text("host")' = text("host") /\ text("token")' = text("token")
          /\ namedPaths' = namedPaths /\ selectedServer' = selectedServer
      BY <3>1 DEF text, selectedServer, namedPaths
    <3>3. QED
      BY <3>1, <3>2 DEF ChosenInv, NeverGuessed
  <2>3. ASSUME NEW clients \in ClientOutcomes, Invoke(clients) PROVE ChosenInv'
    <3>1. ~invoked /\ invoked' /\ UNCHANGED <<provider, env, pod, files>>
      BY <2>3, InvokeCases
    <3>2. CASE cluster' = cluster
      <4>1. cluster = Null
        BY <3>1 DEF ChosenInv
      <4>2. QED
        BY <2>1, <3>2, <4>1
    <3>3. CASE /\ conn # Null /\ RESTConfig(conn, files, pod).err = "none"
               /\ cluster' = RESTConfig(conn, files, pod)
      <4>1. /\ fullyKnown(provider)
            /\ text("host") # "" => \E tls \in BOOLEAN : cluster'.host = URL[text("host")][tls]
            /\ text("host") = "" /\ selectedServer # "" => cluster'.host = selectedServer
            /\ text("host") = "" /\ selectedServer = "" => cluster'.host = PodHost /\ pod
            /\ Len(namedPaths) = 1 => files[namedPaths[1]] # Null
            /\ text("token") # "" => cluster'.token \in {"", text("token")}
        BY <3>3, ResolutionIsNamed
      <4>2. /\ text("host")' = text("host") /\ text("token")' = text("token")
            /\ namedPaths' = namedPaths /\ selectedServer' = selectedServer
            /\ fullyKnown(provider)' = fullyKnown(provider)
        BY <3>1 DEF text, selectedServer, namedPaths
      <4>3. NeverGuessed'
        BY <3>1, <4>1, <4>2 DEF NeverGuessed
      <4>4. QED
        BY <3>1, <4>3 DEF ChosenInv
    <3>4. QED
      BY <2>3, <3>2, <3>3, InvokeCases
  <2>4. ASSUME cluster' = cluster, submitted /\ invoked => FALSE PROVE ChosenInv'
    <3>1. cluster = Null
      BY <2>4 DEF ChosenInv, ConnInv, TypeOK
    <3>2. QED
      BY <2>1, <2>4, <3>1
  <2>5. QED
    BY <2>2, <2>3, <2>4 DEF Next, Edit, Learn, Submit, LearnProvider, WriteFile, Configure,
                            ValidateConfig, ModifyPlan, outcome
<1>3. QED
  BY <1>1, <1>2, ConnInvariant, PTL DEF Spec, ChosenInv

------------------------------------------------------------------------------
(* NoFalseRefusal: what a refusal of the provider's says of the             *)
(* configuration.                                                           *)

(* The errors of a configuration are about its own attributes. *)
LEMMA WholeAbout ==
    ASSUME NEW A, NEW x \in Whole(A)
    PROVE  x[1] \in A
  BY DEF Whole

LEMMA ErrorsAreOfAttributes ==
    ASSUME NEW r, NEW e \in errors(r)
    PROVE  e[1] # "provider"
<1>1. \A x \in conversionErrors(r) : x[1] # "provider"
  BY DEF conversionErrors, CondLists
<1>2. \A x \in kindErrors(r) : x[1] # "provider"
  BY WholeAbout DEF kindErrors
<1>3. \A x \in emptyErrors(r) : x[1] # "provider"
  BY WholeAbout DEF emptyErrors
<1>4. \A x \in badErrors(r) : x[1] # "provider"
  BY DEF badErrors, Whole, Selectors, Programs
<1>5. \A x \in conflictErrors(r) : x[1] # "provider"
  BY DEF conflictErrors, Selectors
<1>6. \A x \in condErrors(r) : x[1] # "provider"
  BY DEF condErrors, CondLists
<1>7. \A x \in countErrors(r) : x[1] # "provider"
  BY DEF countErrors, Whole, Counts
<1>8. \A x \in rangeErrors(r) : x[1] # "provider"
  BY DEF rangeErrors
<1>9. \A x \in drainErrors(r) : x[1] # "provider"
  BY DEF drainErrors
<1>10. \A x \in durationErrors(r) : x[1] # "provider"
  BY WholeAbout DEF durationErrors, Intervals
<1>11. \A x \in settleErrors(r) : x[1] # "provider"
  BY DEF settleErrors
<1>12. \A x \in fieldErrors(r) : x[1] # "provider"
  BY DEF fieldErrors
<1>13. QED
  BY <1>1, <1>2, <1>3, <1>4, <1>5, <1>6, <1>7, <1>8, <1>9, <1>10, <1>11, <1>12
     DEF errors, parseErrors

(* What RESTConfig fails with: no server and no pod, or what clientcmd      *)
(* refuses.                                                                 *)
LEMMA ResolutionFails ==
    ASSUME ConnInv, conn # Null
    PROVE  LET cfg == RESTConfig(conn, files, pod)
               st == settingsOf(provider, env)
               cc == clientConfig(overrides(st), namedPaths, files, pod)
           IN cfg.err \in {"noCluster", "kubeconfig"} =>
                 /\ fullyKnown(provider) /\ conn.Settings = st /\ st.host # Bad
                 /\ cfg.err = "noCluster" =>
                       cc.err = "empty" \/ (cc.err = "none" /\ cc.host = "")
                 /\ cfg.err = "kubeconfig" => cc.err = "kubeconfig"
<1> DEFINE raw_cc == clientConfig(overrides(conn.Settings),
                                  [i \in DOMAIN conn.Settings.config_paths |->
                                      expandHome(conn.Settings.config_paths[i])], files, pod)
           cfg == RESTConfig(conn, files, pod)
           st == settingsOf(provider, env)
<1> SUFFICES ASSUME cfg.err \in {"noCluster", "kubeconfig"}
             PROVE  /\ fullyKnown(provider) /\ conn.Settings = st /\ st.host # Bad
                    /\ raw_cc = clientConfig(overrides(st), namedPaths, files, pod)
                    /\ cfg.err = "noCluster" =>
                          raw_cc.err = "empty" \/ (raw_cc.err = "none" /\ raw_cc.host = "")
                    /\ cfg.err = "kubeconfig" => raw_cc.err = "kubeconfig"
  BY Zenon
<1>1. /\ conn.Settings # Null /\ conn.Settings.host # Bad
      /\ cfg.err = "noCluster" => raw_cc.err = "empty" \/ (raw_cc.err = "none" /\ raw_cc.host = "")
      /\ cfg.err = "kubeconfig" => raw_cc.err = "kubeconfig"
  <2>1. cfg = IF conn.Settings = Null THEN Failed("unknown")
              ELSE IF conn.Settings.host = Bad THEN Failed("host")
              ELSE IF raw_cc.err = "empty" \/ (raw_cc.err = "none" /\ raw_cc.host = "")
                   THEN Failed("noCluster")
              ELSE raw_cc
    BY DEF RESTConfig
  <2>2. raw_cc.err # "noCluster"
    <3>1. \A ov, paths : clientConfig(ov, paths, files, pod).err \in {"none", "kubeconfig", "empty"}
      BY ClientOutcome
    <3>2. raw_cc.err \in {"none", "kubeconfig", "empty"}
      BY <3>1
    <3>3. QED
      BY <3>2
  <2>3. \A e : Failed(e).err = e
    BY DEF Failed
  <2> HIDE DEF cfg, raw_cc
  <2>4. QED
    BY <2>1, <2>2, <2>3
<1>2. fullyKnown(provider) /\ conn.Settings = st
  BY <1>1 DEF ConnInv
<1>3. namedPaths = [i \in DOMAIN st.config_paths |-> expandHome(st.config_paths[i])]
  BY PathsAreSetting DEF namedPaths
<1>4. QED
  BY <1>1, <1>2, <1>3

(* clientcmd's two ways to fail. *)
LEMMA ClientFails ==
    ASSUME NEW ov, NEW paths, NEW fs, NEW inPod
    PROVE  LET cfg == clientConfig(ov, paths, fs, inPod)
               clusters == merged(paths, fs, "clusters")
               users == merged(paths, fs, "users")
               contexts == merged(paths, fs, "contexts")
               name == firstOf(ov.context, currentContext(paths, fs))
               user == firstOf(ov.user, ContextOf(ov, paths, fs).user)
               token == firstOf(ov.token, IF user \in DOMAIN users THEN users[user] ELSE "")
           IN /\ cfg.err = "empty" => ServerOf(ov, paths, fs) = "" /\ ~inPod
              /\ cfg.err = "kubeconfig" =>
                    \/ Len(paths) = 1
                    \/ name # "" \/ ov.cluster # "" \/ ov.user # ""
                    \/ token # "" /\ ov.basic
                    \/ ov.keyless
                    \/ ServerOf(ov, paths, fs) = "" /\ ov.clusterInfo
<1> DEFINE clusters == merged(paths, fs, "clusters")
           users == merged(paths, fs, "users")
           contexts == merged(paths, fs, "contexts")
           name == firstOf(ov.context, currentContext(paths, fs))
           user == firstOf(ov.user, ContextOf(ov, paths, fs).user)
           token == firstOf(ov.token, IF user \in DOMAIN users THEN users[user] ELSE "")
           server == ServerOf(ov, paths, fs)
           cfg == clientConfig(ov, paths, fs, inPod)
           missing == \/ Len(paths) = 1 /\ fs[paths[1]] = Null
                      \/ name # "" /\ name \notin DOMAIN contexts
                      \/ ov.cluster # "" /\ ov.cluster \notin DOMAIN clusters
                      \/ ov.user # "" /\ ov.user \notin DOMAIN users
           badAuth == (token # "" /\ ov.basic) \/ ov.keyless
<1>1. cfg = IF missing \/ badAuth THEN Failed("kubeconfig")
            ELSE IF server # "" THEN Resolved(server, IF server \in Secure THEN token ELSE "")
            ELSE IF ov.clusterInfo THEN Failed("kubeconfig")
            ELSE IF inPod THEN inCluster(ov)
            ELSE Failed("empty")
  BY DEF clientConfig, ServerOf, ClusterOf, ContextOf
<1>2. /\ \A e : Failed(e).err = e
      /\ \A h, k : Resolved(h, k).err = "none"
      /\ inCluster(ov).err = "none"
  BY DEF Failed, Resolved, inCluster
<1>3. missing => Len(paths) = 1 \/ name # "" \/ ov.cluster # "" \/ ov.user # ""
  OBVIOUS
<1>4. badAuth <=> (token # "" /\ ov.basic) \/ ov.keyless
  OBVIOUS
<1> HIDE DEF clusters, users, contexts, name, user, token, server, cfg, missing, badAuth
<1>5. /\ cfg.err = "empty" => server = "" /\ ~inPod
      /\ cfg.err = "kubeconfig" =>
            \/ Len(paths) = 1
            \/ name # "" \/ ov.cluster # "" \/ ov.user # ""
            \/ token # "" /\ ov.basic
            \/ ov.keyless
            \/ server = "" /\ ov.clusterInfo
  BY <1>1, <1>2, <1>3, <1>4
<1>6. QED
  BY <1>5 DEF name, user, users, token, server, cfg

(* Refused for want of a cluster: no server is given, and there is no pod. *)
LEMMA NoClusterMeans ==
    ASSUME ConnInv, conn # Null, RESTConfig(conn, files, pod).err = "noCluster"
    PROVE  ~pod /\ text("host") = "" /\ selectedServer = ""
<1> DEFINE st == settingsOf(provider, env)
           ov == overrides(st)
           cc == clientConfig(ov, namedPaths, files, pod)
           server == ServerOf(ov, namedPaths, files)
<1>1. /\ fullyKnown(provider) /\ st.host # Bad
      /\ cc.err = "empty" \/ (cc.err = "none" /\ cc.host = "")
  BY ResolutionFails
<1>2. cc.err = "none" => \/ server # "" /\ cc.host = server
                         \/ server = "" /\ pod /\ cc.host = PodHost
  BY ClientOutcome
<1>3. cc.err = "empty" => server = "" /\ ~pod
  BY ClientFails
<1>4. PodHost # ""
  BY ConnectionAssumption
<1>5. /\ text("host") # "" => \E tls \in BOOLEAN : server = URL[text("host")][tls] /\ server # ""
      /\ text("host") = "" => server = selectedServer
  BY <1>1, ServerIsNamed
<1> HIDE DEF st, ov, cc, server
<1>6. server = "" /\ ~pod
  BY <1>1, <1>2, <1>3, <1>4
<1>7. QED
  BY <1>5, <1>6

(* Refused for the kubeconfig: there is one, or the attributes clash. *)
LEMMA KubeconfigMeans ==
    ASSUME ConnInv, conn # Null, RESTConfig(conn, files, pod).err = "kubeconfig"
    PROVE  \/ namedPaths # << >>
           \/ text("host") = "" /\ clusterInfo(conn.Settings)
           \/ text("token") # "" /\ \E a \in {"username", "password"} : text(a) # ""
           \/ text("client_certificate") # "" /\ text("client_key") = ""
<1> SUFFICES ASSUME namedPaths = << >>
             PROVE  \/ text("host") = "" /\ clusterInfo(conn.Settings)
                    \/ text("token") # "" /\ \E a \in {"username", "password"} : text(a) # ""
                    \/ text("client_certificate") # "" /\ text("client_key") = ""
  OBVIOUS
<1> DEFINE st == settingsOf(provider, env)
           ov == overrides(st)
           cc == clientConfig(ov, namedPaths, files, pod)
           server == ServerOf(ov, namedPaths, files)
           users == merged(namedPaths, files, "users")
           name == firstOf(ov.context, currentContext(namedPaths, files))
           user == firstOf(ov.user, ContextOf(ov, namedPaths, files).user)
           token == firstOf(ov.token, IF user \in DOMAIN users THEN users[user] ELSE "")
<1>1. fullyKnown(provider) /\ conn.Settings = st /\ st.host # Bad /\ cc.err = "kubeconfig"
  BY ResolutionFails
<1>2. \/ Len(namedPaths) = 1
      \/ name # "" \/ ov.cluster # "" \/ ov.user # ""
      \/ token # "" /\ ov.basic
      \/ ov.keyless
      \/ server = "" /\ ov.clusterInfo
  BY <1>1, ClientFails
<1>3. DOMAIN namedPaths = {} /\ Len(namedPaths) # 1
  OBVIOUS
<1>4. st.config_paths = << >>
  <2>1. DOMAIN ConfigPaths(provider, env) = {}
    BY <1>3 DEF namedPaths
  <2>2. QED
    BY <2>1, PathsDomain, PathsAreSetting DEF ConnInv, TypeOK
<1>5. /\ ov.context = "" /\ ov.cluster = "" /\ ov.user = ""
      /\ ov.token = st.token
      /\ ov.basic <=> st.username # "" \/ st.password # ""
      /\ ov.keyless <=> st.client_certificate # "" /\ st.client_key = ""
      /\ ov.clusterInfo <=> clusterInfo(st)
  <2>1. ov = overridesWith(st, "", "", "")
    BY <1>4 DEF overrides
  <2> HIDE DEF ov, st
  <2>2. QED
    BY <2>1 DEF overridesWith
<1>6. name = ""
  <2>1. currentContext(namedPaths, files) = ""
    BY <1>3 DEF currentContext
  <2>2. QED
    BY <1>5, <2>1 DEF firstOf
<1>7. token = text("token")
  <2>1. DOMAIN users = {}
    BY <1>3, NothingMerged
  <2>2. token = ov.token
    BY <2>1 DEF firstOf
  <2>3. st.token = text("token")
    BY TextIsSetting DEF Texts
  <2>4. QED
    BY <1>5, <2>2, <2>3
<1>8. /\ st.username = text("username") /\ st.password = text("password")
      /\ st.client_certificate = text("client_certificate")
      /\ st.client_key = text("client_key")
  BY TextIsSetting DEF Texts
<1>9. server = "" => text("host") = ""
  BY <1>1, ServerIsNamed
<1> HIDE DEF st, ov, cc, server, users, name, user, token
<1>10. CASE token # "" /\ ov.basic
  <2>1. text("username") # "" \/ text("password") # ""
    BY <1>5, <1>8, <1>10
  <2>2. \E a \in {"username", "password"} : text(a) # ""
    BY <2>1
  <2>3. QED
    BY <1>7, <1>10, <2>2
<1>11. CASE ov.keyless
  BY <1>5, <1>8, <1>11
<1>12. CASE server = "" /\ ov.clusterInfo
  BY <1>1, <1>5, <1>9, <1>12
<1>13. (token # "" /\ ov.basic) \/ ov.keyless \/ (server = "" /\ ov.clusterInfo)
  BY <1>2, <1>3, <1>5, <1>6, Zenon
<1>14. QED
  BY <1>10, <1>11, <1>12, <1>13, Zenon

(* Invoke's diagnostics are its last: nothing happens after it. *)
RefusedInv ==
    /\ ~invoked => diags = {}
    /\ NoFalseRefusal

(* A wait is not refused for want of a cluster when it was told one. *)
THEOREM RefusalsAreTrue == Spec => []NoFalseRefusal
<1>1. Init => RefusedInv
  BY DEF Init, RefusedInv, NoFalseRefusal
<1>2. ConnInv /\ RefusedInv /\ [Next]_vars => RefusedInv'
  <2> SUFFICES ASSUME ConnInv, RefusedInv, [Next]_vars PROVE RefusedInv'
    OBVIOUS
  <2>1. ASSUME diags' = diags, diags = {} PROVE RefusedInv'
    BY <2>1 DEF RefusedInv, NoFalseRefusal
  <2>2. CASE UNCHANGED vars
    <3>1. UNCHANGED <<provider, env, pod, files, conn, diags, invoked>>
      BY <2>2 DEF vars, process, outcome
    <3>2. /\ \A a \in Texts : text(a)' = text(a)
          /\ namedPaths' = namedPaths /\ selectedServer' = selectedServer
      BY <3>1 DEF text, selectedServer, namedPaths
    <3>3. QED
      BY <3>1, <3>2 DEF RefusedInv, NoFalseRefusal, Texts
  <2>3. ASSUME NEW clients \in ClientOutcomes, Invoke(clients) PROVE RefusedInv'
    <3>1. ~invoked /\ invoked' /\ UNCHANGED <<provider, env, pod, files, conn>>
      BY <2>3, InvokeCases
    <3>2. /\ \A a \in Texts : text(a)' = text(a)
          /\ namedPaths' = namedPaths /\ selectedServer' = selectedServer
      BY <3>1 DEF text, selectedServer, namedPaths
    <3>3. ASSUME NEW e \in {"noCluster", "kubeconfig"}, <<"provider", 0, e>> \in diags'
          PROVE  conn # Null /\ RESTConfig(conn, files, pod).err = e
      <4>1. <<"provider", 0, e>> \notin errors(raw)
        BY ErrorsAreOfAttributes
      <4> DEFINE err == RESTConfig(conn, files, pod).err
      <4>2. conn # Null /\ <<"provider", 0, e>> = <<"provider", 0, err>>
        BY <2>3, <3>3, <4>1, InvokeCases
      <4> HIDE DEF err
      <4>3. err = e
        BY <4>2
      <4>4. QED
        BY <4>2, <4>3 DEF err
    <3>4. <<"provider", 0, "noCluster">> \in diags' =>
             ~pod /\ text("host") = "" /\ selectedServer = ""
      BY <3>3, NoClusterMeans
    <3>5. <<"provider", 0, "kubeconfig">> \in diags' =>
             \/ namedPaths # << >>
             \/ text("host") = "" /\ clusterInfo(conn.Settings)
             \/ text("token") # "" /\ \E a \in {"username", "password"} : text(a) # ""
             \/ text("client_certificate") # "" /\ text("client_key") = ""
      BY <3>3, KubeconfigMeans
    <3>6. NoFalseRefusal'
      BY <3>1, <3>2, <3>4, <3>5 DEF NoFalseRefusal, Texts
    <3>7. QED
      BY <3>1, <3>6 DEF RefusedInv
  <2>4. ASSUME diags' = diags, submitted /\ invoked => FALSE PROVE RefusedInv'
    <3>1. diags = {}
      BY <2>4 DEF RefusedInv, ConnInv, TypeOK
    <3>2. QED
      BY <2>1, <2>4, <3>1
  <2>5. QED
    BY <2>2, <2>3, <2>4 DEF Next, Edit, Learn, Submit, LearnProvider, WriteFile, Configure,
                            ValidateConfig, ModifyPlan, outcome
<1>3. QED
  BY <1>1, <1>2, ConnInvariant, PTL DEF Spec, RefusedInv

------------------------------------------------------------------------------
(* IgnoredMeansIgnored: what the evaluator reads of a Spec in each mode.    *)

SameObjectTests(s, q) ==
    /\ q.SuccessConditions = s.SuccessConditions
    /\ q.FailureConditions = s.FailureConditions
    /\ q.Expression = s.Expression
    /\ q.FailureExpression = s.FailureExpression

LEMMA JudgeReads ==
    ASSUME NEW s, NEW q, SameObjectTests(s, q), NEW o
    PROVE  judge(q, o) = judge(s, o)
  BY DEF SameObjectTests, judge, fails, passes, failureError, passError, failsByCondition, unmet

LEMMA SingleReads ==
    ASSUME NEW s, NEW q, SameObjectTests(s, q), NEW snap,
           q.Name = s.Name, q.Namespace = s.Namespace, q.Absent = s.Absent
    PROVE  evaluateSingle(q, snap) = evaluateSingle(s, snap)
<1>1. named(q, snap) = named(s, snap)
  BY DEF named
<1> DEFINE o == snap[CHOOSE k \in named(s, snap) : TRUE]
<1>2. judge(q, o) = judge(s, o)
  BY JudgeReads
<1>3. QED
  BY <1>1, <1>2 DEF evaluateSingle

LEMMA SetReads ==
    ASSUME NEW s, NEW q, SameObjectTests(s, q), NEW snap,
           q.Filter = s.Filter, q.SetExpression = s.SetExpression, q.RequireAll = s.RequireAll,
           q.MinMatching = s.MinMatching, q.MaxMatching = s.MaxMatching
    PROVE  evaluateSet(q, snap) = evaluateSet(s, snap)
<1>1. \A o : filtered(q, o) = filtered(s, o) /\ judge(q, o) = judge(s, o)
  BY JudgeReads DEF filtered
<1>2. matched(q, snap) = matched(s, snap)
  BY <1>1 DEF matched
<1>3. failing(q, snap) = failing(s, snap) /\ passing(q, snap) = passing(s, snap)
  BY <1>1, <1>2 DEF failing, passing
<1>4. EvalErrors(q, snap) = EvalErrors(s, snap)
  BY <1>1 DEF EvalErrors
<1>5. Drain(q) <=> Drain(s)
  BY DEF SameObjectTests, Drain, hasSuccessPredicates
<1>6. countsMet(q, snap) <=> countsMet(s, snap)
  BY <1>2, <1>3, <1>5 DEF countsMet
<1>7. setHolds(q, snap) <=> setHolds(s, snap)
  BY <1>2 DEF setHolds, matchedObjects
<1>8. QED
  BY <1>3, <1>4, <1>6, <1>7 DEF evaluateSet

(* Leaving an ignored attribute out of a configuration that parses.         *)
LEMMA WithoutIgnored ==
    ASSUME NEW r, Configuration(r), parsed(r) # NoSpec, NEW a \in ignored(r), NEW snap
    PROVE  Verdict(parsed(r), snap) = Verdict(specOf([r EXCEPT ![a] = Null]), snap)
<1> DEFINE q == [r EXCEPT ![a] = Null]
           s == specOf(r)
           t == specOf(q)
<1>1. parsed(r) = s /\ complete(r) /\ emptyErrors(r) = {}
  BY DEF parsed, errors, parseErrors
<1>2. known(r.name) /\ r.name # ""
  <2>1. known(r.name)
    BY <1>1 DEF complete, Attributes
  <2>2. r.name # ""
    BY <1>1 DEF emptyErrors, Whole
  <2>3. QED
    BY <2>1, <2>2
<1>3. a \in {"absent", "filter", "set_expression", "min_matching", "max_matching", "require_all"}
  BY DEF ignored
<1>4. \A b \in Attributes \ {a} : q[b] = r[b]
  BY DEF Configuration
<1> HIDE DEF q
<1>5. /\ q.name = r.name /\ q.namespace = r.namespace
      /\ q.expression = r.expression /\ q.failure_expression = r.failure_expression
      /\ q.success_conditions = r.success_conditions
      /\ q.failure_conditions = r.failure_conditions
  BY <1>3, <1>4 DEF Attributes, Programs, Lists, CondLists
<1>6. SameObjectTests(s, t) /\ t.Name = s.Name /\ t.Namespace = s.Namespace
  BY <1>5 DEF SameObjectTests, specOf
<1>7. CASE r.name = Null
  <2>1. a = "absent"
    BY <1>2, <1>7 DEF ignored
  <2>2. /\ q.filter = r.filter /\ q.set_expression = r.set_expression
        /\ q.min_matching = r.min_matching /\ q.max_matching = r.max_matching
        /\ q.require_all = r.require_all
    BY <1>4, <2>1 DEF Attributes, Programs, Counts
  <2>3. /\ t.Filter = s.Filter /\ t.SetExpression = s.SetExpression
        /\ t.RequireAll = s.RequireAll
        /\ t.MinMatching = s.MinMatching /\ t.MaxMatching = s.MaxMatching
    BY <2>2 DEF specOf, minMatching, maxMatching
  <2>4. s.Name = ""
    BY <1>7 DEF specOf, otherwise, set
  <2> HIDE DEF s, t
  <2>5. evaluateSet(t, snap) = evaluateSet(s, snap)
    BY <1>6, <2>3, SetReads
  <2>6. QED
    BY <1>1, <1>6, <2>4, <2>5 DEF Verdict, Single, t, q
<1>8. CASE r.name # Null
  <2>1. a # "absent"
    BY <1>2, <1>8 DEF ignored
  <2>2. q.absent = r.absent
    BY <1>4, <2>1 DEF Attributes
  <2>3. t.Absent = s.Absent
    BY <2>2 DEF specOf
  <2>4. s.Name # ""
    BY <1>2, <1>8 DEF specOf, otherwise, set, known
  <2> HIDE DEF s, t
  <2>5. evaluateSingle(t, snap) = evaluateSingle(s, snap)
    BY <1>6, <2>3, SingleReads
  <2>6. QED
    BY <1>1, <1>6, <2>4, <2>5 DEF Verdict, Single, t, q
<1>9. QED
  BY <1>7, <1>8

(* The Spec that ran is that of the configuration as it stands. *)
RanInv == ran # NoSpec => invoked /\ ran = parsed(raw)

(* An attribute Parse warns about as ignored is ignored. *)
THEOREM WarnedIsIgnored == Spec => []IgnoredMeansIgnored
<1>1. Init => RanInv
  BY DEF Init, RanInv
<1>2. TypeOK /\ RanInv /\ [Next]_vars => RanInv'
  <2> SUFFICES ASSUME TypeOK, RanInv, [Next]_vars PROVE RanInv'
    OBVIOUS
  <2>1. ASSUME ran' = ran, ran = NoSpec PROVE RanInv'
    BY <2>1 DEF RanInv
  <2>2. CASE UNCHANGED vars
    BY <2>2 DEF RanInv, vars, outcome
  <2>3. ASSUME NEW clients \in ClientOutcomes, Invoke(clients) PROVE RanInv'
    <3>1. invoked' /\ raw' = raw
      BY <2>3, InvokeCases
    <3>2. (ran' = ran /\ ran = NoSpec) \/ ran' = parsed(raw)
      BY <2>3, InvokeCases DEF RanInv
    <3>3. QED
      BY <3>1, <3>2 DEF RanInv
  <2>4. ASSUME ran' = ran, submitted /\ invoked => FALSE PROVE RanInv'
    <3>1. ran = NoSpec
      BY <2>4 DEF RanInv, TypeOK
    <3>2. QED
      BY <2>1, <2>4, <3>1
  <2>5. QED
    BY <2>2, <2>3, <2>4 DEF Next, Edit, Learn, Submit, LearnProvider, WriteFile, Configure,
                            ValidateConfig, ModifyPlan, outcome
<1>3. TypeOK /\ RanInv => IgnoredMeansIgnored
  <2> SUFFICES ASSUME TypeOK, RanInv, ran # NoSpec, NEW a \in ignored(raw), NEW snap \in Snapshots
               PROVE  Verdict(ran, snap) = Verdict(specOf([raw EXCEPT ![a] = Null]), snap)
    BY DEF IgnoredMeansIgnored
  <2>1. ran = parsed(raw) /\ parsed(raw) # NoSpec /\ Configuration(raw)
    BY DEF RanInv, TypeOK
  <2>2. QED
    BY <2>1, WithoutIgnored
<1>4. QED
  BY <1>1, <1>2, <1>3, ActionTypeCorrect, PTL DEF Spec
==============================================================================
