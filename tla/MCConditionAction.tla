-------------------------- MODULE MCConditionAction --------------------------
(***************************************************************************)
(* ConditionAction for TLC.  Writing starts from a valid configuration of  *)
(* each mode and changes up to MaxEdits attributes of a set, or one more   *)
(* of one object and of a drain (their mode is an edit of a set already),  *)
(* to values that are null, unknown, refused by their parser, at a         *)
(* boundary, or valid.  From a valid configuration, the provider's goes    *)
(* through the combinations of a few values, in processes with and without *)
(* environment, kubeconfig files and a pod.                                *)
(***************************************************************************)
EXTENDS ConditionAction

x == [ns |-> "a", name |-> "x"]
Ready(st) == [conditions |-> <<[type |-> "Ready", status |-> st, reason |-> "Seen"]>>]
MCObjects == {Ready("True"), Ready("False")}
MCSnapshots == [{x} -> MCObjects \cup {NoObject}]

Is(st) == [o \in MCObjects |-> IF o = Ready(st) THEN "true" ELSE "false"]
SetProgram == [m \in UNION {[K -> MCObjects] : K \in SUBSET {x}} |->
                  IF m = << >> THEN "true" ELSE "false"]

Cond(typ, st, why) == [type |-> typ, status |-> st, reason |-> why]

CondValues ==
    {Null, Unknown, << >>, <<Unknown>>, <<Null>>,
     <<Cond("Ready", "True", Null), Unknown>>}
    \cup {<<Cond(typ, "True", Null)>> : typ \in {Null, Unknown, "", "Ready"}}
    \cup {<<Cond("Ready", st, Unknown)>> : st \in {"", "True"}}
    \cup {<<Cond("Ready", "True", Null), Cond("Ready", "False", "Seen")>>}

MCValues == [a \in Attributes |->
    CASE a = "api_version" -> {Null, Unknown, Bad, "v1"}
      [] a = "kind" -> {Null, Unknown, "", "Node"}
      [] a = "namespace" -> {Null, Unknown, "", "a"}
      [] a = "name" -> {Null, Unknown, "", "x"}
      [] a \in Selectors -> {Null, Unknown, Bad, "selected"}
      [] a \in {"filter", "expression"} -> {Null, Unknown, Bad, Is("True")}
      [] a = "failure_expression" -> {Null, Unknown, Bad, Is("False")}
      [] a = "set_expression" -> {Null, Unknown, Bad, SetProgram}
      [] a \in Counts -> {Null, Unknown, Bad, -1, 0, 2}
      [] a \in {"require_all", "watch"} -> {Null, Unknown, FALSE, TRUE}
      [] a = "absent" -> {Null, Unknown, Bad, "success", "failure"}
      [] a = "timeout" -> {Null, Unknown, Bad, 0, 1, 2}
      [] a = "settle" -> {Null, Unknown, Bad, -1, 0, 1, 2}
      [] a \in Intervals -> {Null, Unknown, Bad, 0, 1}
      [] a = "progress_fields" -> {Null, Unknown, << >>, <<Bad>>, <<"status", Unknown>>,
                                   <<"status", Null>>, <<"status", "spec">>}
      [] a \in CondLists -> CondValues]

WrittenSet ==
    [a \in Attributes |->
        CASE a = "api_version" -> "v1" [] a = "kind" -> "Node"
          [] a = "success_conditions" -> <<Cond("Ready", "True", Null)>>
          [] a = "timeout" -> 2 [] a = "settle" -> 1
          [] OTHER -> Null]

WrittenSingle == [WrittenSet EXCEPT !["name"] = "x", !["failure_expression"] = Is("False")]

WrittenDrain ==
    [WrittenSet EXCEPT !["success_conditions"] = Null, !["min_matching"] = 0,
                       !["max_matching"] = 0]

------------------------------------------------------------------------------
(* The provider. *)
MCHome == [p \in {"~/f"} |-> "f"]
MCURL == [h \in {"bare", "https://u"} |->
             [tls \in BOOLEAN |-> IF h = "https://u" THEN h
                                  ELSE IF tls THEN "https://bare" ELSE "http://bare"]]
MCSecure == {"https://bare", "https://u", "https://a", "https://b", "https://c"}

FileAB == [current |-> "one",
           contexts |-> [n \in {"one", "two"} |->
                            IF n = "one" THEN [cluster |-> "a", user |-> "ua"]
                            ELSE [cluster |-> "b", user |-> "ub"]],
           clusters |-> [n \in {"a", "b"} |-> IF n = "a" THEN "https://a" ELSE "https://b"],
           users |-> [n \in {"ua", "ub"} |-> IF n = "ua" THEN "token-a" ELSE "token-b"]]
FileC == [current |-> "",
          contexts |-> [n \in {"two"} |-> [cluster |-> "c", user |-> "uc"]],
          clusters |-> [n \in {"c"} |-> "https://c"], users |-> [n \in {"uc"} |-> "token-c"]]
Dangling == [FileAB EXCEPT !.clusters = << >>]
MCKubeconfigs == {FileAB}

NoProvider == [a \in ProviderAttributes |-> Null]
NoEnv == [a \in ProviderAttributes |->
             IF a = "insecure" THEN Null ELSE IF a = "config_paths" THEN << >> ELSE ""]
NoFiles == [f \in {"f", "g"} |-> Null]

MCProviderValues == [a \in ProviderAttributes |->
    CASE a = "host" -> {Null, Unknown, Bad, "bare", "https://u"}
      [] a = "config_path" -> {Null, Unknown, "~/f"}
      [] a = "config_paths" -> {Null, Unknown, << >>, <<"f", "g">>, <<"f", Unknown>>, <<"f", Null>>}
      [] a = "config_context" -> {Null, "two"}
      [] a = "config_context_cluster" -> {Null, "b"}
      [] a = "insecure" -> {Null, Unknown, TRUE, FALSE}
      [] a = "exec" -> {Null, "aws"}
      [] OTHER -> {Null, "set"}]

Told(p, e, fs, inPod) ==
    [raw |-> WrittenSet, edits |-> 0, provider |-> p, env |-> e, files |-> fs, pod |-> inPod]

(* Environments that name a cluster, and that say how to reach one. *)
NamingEnvs ==
    {NoEnv, [NoEnv EXCEPT !["host"] = "https://u"],
     [NoEnv EXCEPT !["config_path"] = "g", !["config_paths"] = <<"f", "g">>, !["token"] = "env"],
     [NoEnv EXCEPT !["config_paths"] = <<"g", "f">>, !["config_context"] = "two"]}

ReachingEnvs == {[NoEnv EXCEPT !["insecure"] = i] : i \in {Null, TRUE, Bad}}

(* What is there at first; FileAB appears meanwhile. *)
FileSets == {NoFiles, [NoFiles EXCEPT !["g"] = FileC],
             [f \in {"f", "g"} |-> IF f = "f" THEN Dangling ELSE FileC]}

(* Which cluster: the attributes that name one, or a context of one. *)
Naming ==
    LET told(h, c, cs, over) ==
            [NoProvider EXCEPT !["host"] = h, !["config_path"] = c, !["config_paths"] = cs,
                               !["config_context"] = over[1],
                               !["config_context_cluster"] = over[2]]
    IN {told(h, c, cs, <<Null, Null>>) :
            h \in {Null, Unknown, "bare"}, c \in {Null, "~/f"},
            cs \in {Null, <<"f", "g">>, <<"f", Unknown>>}}
       \cup {told(h, p[1], p[2], over) :
            h \in {Null, "bare"},
            p \in {<<Null, Null>>, <<"~/f", Null>>, <<Null, <<"f", "g">>>>},
            over \in {<<"two", Null>>, <<Null, "b">>}}

(* How to reach it and as whom: one further attribute, or two that clash.   *)
Reaching ==
    LET with(h, a, v, b) ==
            {[NoProvider EXCEPT !["host"] = h, ![a] = v, ![b] = w] : w \in {Null, "set"}}
    IN UNION {with(h, "username", "set", b) \cup with(h, "client_certificate", "set", b)
              \cup with(h, "insecure", TRUE, b) :
                h \in {Null, Bad, "bare", "https://u"},
                b \in {"token", "client_key", "cluster_ca_certificate", "proxy_url"}}

MCSetups ==
    {Told(p, e, fs, inPod) : p \in Naming, e \in NamingEnvs, fs \in FileSets, inPod \in BOOLEAN}
    \cup {Told(p, e, NoFiles, inPod) : p \in Reaching, e \in ReachingEnvs, inPod \in BOOLEAN}

MCWritten ==
    MCSetups
    \cup {[raw |-> r, edits |-> IF r = WrittenSet THEN MaxEdits ELSE 1, env |-> NoEnv,
           files |-> << >>, pod |-> FALSE,
           provider |-> [NoProvider EXCEPT !["host"] = "https://u"]] :
             r \in {WrittenSet, WrittenSingle, WrittenDrain}}
==============================================================================
