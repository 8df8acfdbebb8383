--------------------------- MODULE ConditionAction ---------------------------
(***************************************************************************)
(* The action kubewait_condition through its life: someone writes a        *)
(* configuration and the provider's, the engine configures the provider,   *)
(* validates, plans and invokes the action, and between these calls values *)
(* that were unknown become known and kubeconfig files are written.  The   *)
(* engine is external: it may leave out or repeat a stage, and may invoke  *)
(* with values still unknown.  The wait itself is module Watcher; here it  *)
(* returns some verdict.                                                   *)
(***************************************************************************)
EXTENDS Connection

CONSTANTS Written,      \* the configurations writing starts from, each with its
                        \* provider's and the process's, and the edits it may get
          Values,       \* Values[a]: the values attribute a may have
          ProviderValues,  \* the same, for the attributes of the provider
          Kubeconfigs,  \* what a file written meanwhile may say
          MaxEdits,     \* bound: attributes changed while writing
          Snapshots     \* the snapshots on which configurations are compared

VARIABLES
    raw,                \* the configuration, as far as it is known
    edits, submitted,   \* the edits left, and whether the engine has it
    provider,           \* the provider's configuration, as far as it is known
    env, pod, files,    \* the process: environment, in a pod, kubeconfig files
    conn,               \* a.conn, or Null
    cluster,            \* the cluster of the wait: its host and the token used
    said, warned,       \* errors and warnings any stage has reported
    invoked, diags,     \* whether Invoke has run, and its error diagnostics
    ran, verdict        \* the Spec handed to Run, and the verdict it returned

process == <<env, pod>>
report == <<said, warned>>
outcome == <<cluster, invoked, diags, ran, verdict>>
vars == <<raw, edits, submitted, provider, process, files, conn, report, outcome>>

Configuration(r) == DOMAIN r = Attributes /\ \A a \in Attributes : r[a] \in Values[a]

ProviderConfiguration(p) ==
    DOMAIN p = ProviderAttributes /\ \A a \in ProviderAttributes : p[a] \in ProviderValues[a]

ASSUME ValuesAssumption ==
    /\ MaxEdits \in Nat
    /\ \A w \in Written : /\ Configuration(w.raw) /\ ProviderConfiguration(w.provider)
                           /\ w.edits \in 0 .. MaxEdits /\ w.pod \in BOOLEAN
    /\ \A a \in Counts \cup Intervals \cup {"timeout", "settle"} :
           \A v \in Values[a] : v \in {Null, Unknown, Bad} \/ v \in Int
    /\ \A v \in Values["absent"] : v \in {Null, Unknown, Bad} \/ v \in Verdicts
    /\ \A a \in {"watch", "require_all"} :
           \A v \in Values[a] : v \in {Null, Unknown} \/ v \in BOOLEAN
    /\ \A a \in Lists : \A v \in Values[a] :
           set(v) => Len(v) \in Nat /\ DOMAIN v = 1 .. Len(v)

ASSUME ConnectionAssumption ==
    /\ \A v \in ProviderValues["config_paths"] :
           set(v) => Len(v) \in Nat /\ v = [i \in 1 .. Len(v) |-> v[i]]
    /\ \A w \in Written :
           /\ LET v == w.env.config_paths IN Len(v) \in Nat /\ v = [i \in 1 .. Len(v) |-> v[i]]
           /\ w.env.host \notin {Null, Unknown}
    /\ PodHost # ""
    /\ \A h \in (ProviderValues["host"] \cup {w.env.host : w \in Written}) \ {Null, Unknown, Bad, ""} :
           \A tls \in BOOLEAN : URL[h][tls] # ""

Init ==
    /\ \E w \in Written :
          /\ raw = w.raw /\ edits = w.edits
          /\ provider = w.provider /\ env = w.env /\ pod = w.pod /\ files = w.files
    /\ submitted = FALSE /\ conn = Null /\ cluster = Null
    /\ said = {} /\ warned = {}
    /\ invoked = FALSE /\ diags = {} /\ ran = NoSpec /\ verdict = "pending"

------------------------------------------------------------------------------
(* The user and the engine. *)
Edit(a, v) ==
    /\ ~submitted /\ edits > 0
    /\ v # raw[a]
    /\ raw' = [raw EXCEPT ![a] = v]
    /\ edits' = edits - 1
    /\ UNCHANGED <<submitted, provider, process, files, conn, report, outcome>>

Submit ==
    /\ ~submitted
    /\ submitted' = TRUE
    /\ UNCHANGED <<raw, edits, provider, process, files, conn, report, outcome>>

(* v is u with some of its unknown parts known. *)
FillsItem(a, u, v) ==
    \/ u \in {Unknown, v}
    \/ /\ a \in CondLists /\ set(u) /\ set(v)
       /\ \A f \in CondFields : u[f] \in {Unknown, v[f]}

Fills(a, u, v) ==
    \/ u \in {Unknown, v}
    \/ /\ a \in Lists /\ set(u) /\ set(v)
       /\ DOMAIN u = DOMAIN v
       /\ \A i \in DOMAIN u : FillsItem(a, u[i], v[i])

FillsProvider(a, u, v) ==
    \/ u \in {Unknown, v}
    \/ /\ a = "config_paths" /\ set(u) /\ set(v) /\ DOMAIN u = DOMAIN v
       /\ \A i \in DOMAIN u : u[i] \in {Unknown, v[i]}

Learn(a, v) ==
    /\ submitted /\ ~invoked
    /\ v # raw[a] /\ Fills(a, raw[a], v)
    /\ raw' = [raw EXCEPT ![a] = v]
    /\ UNCHANGED <<edits, submitted, provider, process, files, conn, report, outcome>>

LearnProvider(a, v) ==
    /\ submitted /\ ~invoked
    /\ v # provider[a] /\ FillsProvider(a, provider[a], v)
    /\ provider' = [provider EXCEPT ![a] = v]
    /\ UNCHANGED <<raw, edits, submitted, process, files, conn, report, outcome>>

(* The kubeconfig of a cluster that is created in the same run. *)
WriteFile(f, k) ==
    /\ submitted /\ ~invoked
    /\ files[f] = Null
    /\ files' = [files EXCEPT ![f] = k]
    /\ UNCHANGED <<raw, edits, submitted, provider, process, conn, report, outcome>>

------------------------------------------------------------------------------
(* The provider's Configure and, with what it hands out, the action's.  An  *)
(* engine may do without, and may configure again.                          *)
Configure ==
    /\ submitted /\ ~invoked
    /\ conn' = [Settings |-> Settings(provider, env)]
    /\ UNCHANGED <<raw, edits, submitted, provider, process, files, report, outcome>>

ValidateConfig ==
    /\ submitted /\ ~invoked
    /\ said' = said \cup errors(raw)
    /\ warned' = warned \cup warnings(raw)
    /\ UNCHANGED <<raw, edits, submitted, provider, process, files, conn, outcome>>

(* Its warnings are dropped. *)
ModifyPlan ==
    /\ submitted /\ ~invoked
    /\ said' = said \cup errors(raw)
    /\ UNCHANGED <<raw, edits, submitted, provider, process, files, conn, warned, outcome>>

(* parseConfig has returned a Spec: every value is known. *)
specKnown == parsed(raw) # NoSpec

(* The configuration has passed; the cluster asked for. *)
checked == errors(raw) = {} /\ specKnown
asked == RESTConfig(conn, files, pod)

(* Error diagnostics and a return, before any wait. *)
Refused(problems) ==
    /\ diags' = problems
    /\ UNCHANGED <<ran, verdict, cluster>>

(* The returns of Invoke, in their order.                                   *)
RefuseInvalid ==
    /\ errors(raw) # {}
    /\ Refused(errors(raw))

RefuseUnknown ==
    /\ errors(raw) = {} /\ ~specKnown
    /\ Refused({<<"config", 0, "unknown">>})

RefuseUnconfigured ==
    /\ checked /\ conn = Null
    /\ Refused({<<"provider", 0, "unconfigured">>})

RefuseCluster ==
    /\ checked /\ conn # Null
    /\ asked.err # "none"
    /\ Refused({<<"provider", 0, asked.err>>})

RefuseClient(clients) ==
    /\ checked /\ conn # Null /\ asked.err = "none"
    /\ clients # "ok"
    /\ Refused({<<"client", 0, clients>>})

(* r.Run returns v.  The warning of a vacuous success is in Watcher.        *)
Wait(v) ==
    /\ checked /\ conn # Null /\ asked.err = "none"
    /\ ran' = parsed(raw) /\ cluster' = asked
    /\ verdict' = v
    /\ diags' = {<<"result", 0, d>> : d \in {v} \ {"success"}}

(* clients: whether the clients of the cluster can be built. *)
Invoke(clients) ==
    /\ submitted /\ ~invoked
    /\ invoked' = TRUE
    /\ said' = said \cup errors(raw)
    /\ \/ RefuseInvalid
       \/ RefuseUnknown
       \/ RefuseUnconfigured
       \/ RefuseCluster
       \/ RefuseClient(clients)
       \/ clients = "ok" /\ \E v \in Verdicts : Wait(v)
    /\ UNCHANGED <<raw, edits, submitted, provider, process, files, conn, warned>>

ClientOutcomes == {"ok", "dynamic", "discovery"}

Next ==
    \/ \E a \in Attributes : \E v \in Values[a] : Edit(a, v) \/ Learn(a, v)
    \/ Submit
    \/ \E a \in ProviderAttributes : \E v \in ProviderValues[a] : LearnProvider(a, v)
    \/ \E f \in DOMAIN files : \E k \in Kubeconfigs : WriteFile(f, k)
    \/ Configure
    \/ ValidateConfig
    \/ ModifyPlan
    \/ \E clients \in ClientOutcomes : Invoke(clients)

Spec == Init /\ [][Next]_vars

------------------------------------------------------------------------------
(* The types. *)
TypeOK ==
    /\ Configuration(raw)
    /\ edits \in 0 .. MaxEdits
    /\ submitted \in BOOLEAN /\ invoked \in BOOLEAN
    /\ ProviderConfiguration(provider) /\ pod \in BOOLEAN
    /\ verdict \in Verdicts
    /\ invoked => submitted

(* Parse skips the checks that involve an unknown value.  What it reports   *)
(* without it stands: no stage refuses a configuration for an error that    *)
(* a value still to come would have cured.  (Only a condition that turns    *)
(* out null hides the other errors, since parseConfig then returns before   *)
(* Parse; the configuration is still refused.)                              *)
ErrorsStand ==
    /\ said # {} => errors(raw) # {}
    /\ conversionErrors(raw) = {} => said \subseteq errors(raw)

(* The same of the warnings: an attribute ValidateConfig calls ignored is   *)
(* still ignored when every value is known.                                 *)
WarningsStand == conversionErrors(raw) = {} => warned \subseteq warnings(raw)

(* The rules the runner and the evaluator rely on, which the modules about  *)
(* them assume: the durations allow a verdict to settle in time, and the    *)
(* counts are numbers; besides, they can be met, and max_matching = 0 is a  *)
(* drain.                                                                   *)
ValidSpec(s) ==
    /\ RunnerRules(s) /\ EvaluatorRules(s)
    /\ s.MinMatching >= 0
    /\ s.MaxMatching >= 0 => s.MinMatching <= s.MaxMatching
    /\ s.MaxMatching = 0 => Drain(s)

(* Whatever was written and however its values became known, Invoke hands   *)
(* Run a Spec, never nil, and a valid one.                                  *)
RunsOnlyValidSpecs == cluster # Null => ran # NoSpec /\ ValidSpec(ran)

(* What the attribute says, or else the environment. *)
text(a) == firstOf(ValueString(provider[a]), env[a])

namedPaths == LET ps == ConfigPaths(provider, env) IN [i \in DOMAIN ps |-> expandHome(ps[i])]

(* The server the kubeconfig files give the cluster the attributes or the   *)
(* current context select; "" when the files are missing, do not define     *)
(* that cluster or give it no server, or when nothing is selected.          *)
selectedServer ==
    LET contexts == merged(namedPaths, files, "contexts")
        clusters == merged(namedPaths, files, "clusters")
        context == firstOf(text("config_context"), currentContext(namedPaths, files))
        inContext == IF context \in DOMAIN contexts THEN contexts[context].cluster ELSE ""
        selected == firstOf(text("config_context_cluster"), inContext)
    IN IF selected \in DOMAIN clusters THEN clusters[selected] ELSE ""

(* A wait observes the cluster it was told to or none: the one of host when *)
(* it is set, else exactly the one selected in the kubeconfig files, and    *)
(* the pod's only when neither gives a server.  (That something was named   *)
(* and gives none does not keep the pod's cluster away: that is             *)
(* InClusterOnlyUnconfigured.)  Never one picked while a provider attribute *)
(* was unknown or the only kubeconfig file named was missing, never         *)
(* localhost.  It goes there with no other token than the one it was told   *)
(* to use.                                                                  *)
NeverGuessed ==
    cluster # Null =>
        /\ fullyKnown(provider)
        /\ IF text("host") # "" THEN \E tls \in BOOLEAN : cluster.host = URL[text("host")][tls]
           ELSE IF selectedServer # "" THEN cluster.host = selectedServer
           ELSE cluster.host = PodHost /\ pod
        /\ Len(namedPaths) = 1 => files[namedPaths[1]] # Null
        /\ text("token") # "" => cluster.token \in {"", text("token")}

(* The README and the comment on RESTConfig: in-cluster credentials are     *)
(* used with nothing configured, no host and no kubeconfig files.           *)
InClusterOnlyUnconfigured ==
    cluster # Null /\ cluster.host = PodHost => text("host") = "" /\ namedPaths = << >>

(* ... and a wait is not refused for want of a cluster when it was told     *)
(* one: without kubeconfig files the context overrides are no obstacle, in  *)
(* a pod nothing at all is needed.                                          *)
NoFalseRefusal ==
    /\ <<"provider", 0, "noCluster">> \in diags =>
          ~pod /\ text("host") = "" /\ selectedServer = ""
    /\ <<"provider", 0, "kubeconfig">> \in diags =>
          \/ namedPaths # << >>
          \/ text("host") = "" /\ clusterInfo(conn.Settings)
          \/ text("token") # "" /\ \E a \in {"username", "password"} : text(a) # ""
          \/ text("client_certificate") # "" /\ text("client_key") = ""

(* An attribute Parse warns about as ignored in the chosen mode is ignored: *)
(* without it the evaluator gives the same verdict on every snapshot.       *)
IgnoredMeansIgnored ==
    ran # NoSpec =>
        \A a \in ignored(raw), snap \in Snapshots :
            Verdict(ran, snap) = Verdict(specOf([raw EXCEPT ![a] = Null]), snap)
==============================================================================
