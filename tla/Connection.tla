------------------------------ MODULE Connection ------------------------------
(***************************************************************************)
(* The connection of the provider: its Configure, and the resolution of    *)
(* its settings to a cluster when a wait runs (connection.go).             *)
(*                                                                         *)
(* A provider configuration p maps each attribute to Null, Unknown or its  *)
(* value; env maps the same names to the KUBE_* variables, a text being "" *)
(* when unset, KUBE_INSECURE Null when unset and Bad when it is no         *)
(* boolean.  files maps a path to Null when there is no file, or to what   *)
(* the kubeconfig says: its current context, the cluster and user of each  *)
(* context, the server of each cluster and the token of each user.  pod    *)
(* says whether the process runs in a pod, with its credentials.  Null is  *)
(* also Go's nil.                                                          *)
(***************************************************************************)
EXTENDS SpecParse, FiniteSets

CONSTANTS Home,         \* the path each path with a leading ~ stands for
          URL,          \* URL[h][tls]: the URL of host h, tls telling the scheme
                        \* of a host without one
          Secure,       \* the URLs with scheme https
          Localhost, PodHost, PodToken

(* The attributes whose default is an environment variable's text. *)
Texts == {"host", "username", "password", "tls_server_name", "client_certificate",
          "client_key", "cluster_ca_certificate", "config_context",
          "config_context_auth_info", "config_context_cluster", "token", "proxy_url"}

ProviderAttributes == Texts \cup {"insecure", "config_path", "config_paths", "exec"}

------------------------------------------------------------------------------
(* Configure: the settings of a provider configuration.                     *)

fullyKnown(p) ==
    /\ \A a \in ProviderAttributes : known(p[a])
    /\ set(p.config_paths) => \A i \in DOMAIN p.config_paths : known(p.config_paths[i])

ValueString(v) == otherwise(v, "")

(* A null path cannot be converted; KUBE_INSECURE counts when there is no   *)
(* insecure attribute.                                                      *)
configureErrors(p, env) ==
    Whole({a \in {"config_paths"} :
             /\ ValueString(p.config_path) = "" /\ set(p[a])
             /\ \E i \in DOMAIN p[a] : p[a][i] = Null})
    \cup Whole({a \in {"insecure"} : p[a] = Null /\ env[a] = Bad})

insecureFromEnv(env) == otherwise(env.insecure, FALSE)

envDefaults(p, env, a) == IF ValueString(p[a]) # "" THEN p[a] ELSE env[a]

(* config_path, config_paths, KUBE_CONFIG_PATH, KUBE_CONFIG_PATHS: the      *)
(* first that is not empty.                                                 *)
ConfigPaths(p, env) ==
    IF ValueString(p.config_path) # "" THEN <<p.config_path>>
    ELSE IF otherwise(p.config_paths, << >>) # << >> THEN p.config_paths
    ELSE IF env.config_path # "" THEN <<env.config_path>>
    ELSE env.config_paths

settingsOf(p, env) ==
    [a \in ProviderAttributes |->
        CASE a \in Texts -> envDefaults(p, env, a)
          [] a = "insecure" -> IF p[a] = Null THEN insecureFromEnv(env) ELSE p[a]
          [] a = "config_paths" -> ConfigPaths(p, env)
          [] a = "exec" -> p[a]
          [] OTHER -> Null]

(* The Settings Configure leaves in the connection, or nil. *)
Settings(p, env) ==
    IF fullyKnown(p) /\ configureErrors(p, env) = {} THEN settingsOf(p, env) ELSE Null

------------------------------------------------------------------------------
(* clientcmd, as RESTConfig calls it (external).  A single path must name a *)
(* file; of several, the missing are ignored and the first to define a name *)
(* wins.                                                                    *)
NoContext == [cluster |-> "", user |-> ""]

definers(paths, files, part, n) ==
    {i \in DOMAIN paths : files[paths[i]] # Null /\ n \in DOMAIN files[paths[i]][part]}

merged(paths, files, part) ==
    LET names == UNION {DOMAIN files[paths[i]][part] : i \in {i \in DOMAIN paths : files[paths[i]] # Null}}
        first(n) == CHOOSE i \in definers(paths, files, part, n) :
                        \A j \in definers(paths, files, part, n) : i <= j
    IN [n \in names |-> files[paths[first(n)]][part][n]]

currentContext(paths, files) ==
    LET setting == {i \in DOMAIN paths : files[paths[i]] # Null /\ files[paths[i]].current # ""}
    IN IF setting = {} THEN ""
       ELSE files[paths[CHOOSE i \in setting : \A j \in setting : i <= j]].current

firstOf(o, default) == IF o # "" THEN o ELSE default

Failed(err) == [err |-> err, host |-> "", token |-> ""]
Resolved(host, token) == [err |-> "none", host |-> host, token |-> token]

(* Credentials of the pod; of the overrides only the token replaces one.    *)
inCluster(ov) == Resolved(PodHost, firstOf(ov.token, PodToken))

(* A configuration without any cluster information, and otherwise valid, is *)
(* empty: only then are the pod's credentials tried.                        *)
clientConfig(ov, paths, files, pod) ==
    LET contexts == merged(paths, files, "contexts")
        clusters == merged(paths, files, "clusters")
        users == merged(paths, files, "users")
        name == firstOf(ov.context, currentContext(paths, files))
        ctx == IF name \in DOMAIN contexts THEN contexts[name] ELSE NoContext
        cluster == firstOf(ov.cluster, ctx.cluster)
        user == firstOf(ov.user, ctx.user)
        server == firstOf(ov.server, IF cluster \in DOMAIN clusters THEN clusters[cluster] ELSE "")
        token == firstOf(ov.token, IF user \in DOMAIN users THEN users[user] ELSE "")
        missing == \/ Len(paths) = 1 /\ files[paths[1]] = Null
                   \/ name # "" /\ name \notin DOMAIN contexts
                   \/ ov.cluster # "" /\ ov.cluster \notin DOMAIN clusters
                   \/ ov.user # "" /\ ov.user \notin DOMAIN users
        badAuth == (token # "" /\ ov.basic) \/ ov.keyless
    IN IF missing \/ badAuth THEN Failed("kubeconfig")
       ELSE IF server # "" THEN Resolved(server, IF server \in Secure THEN token ELSE "")
       ELSE IF ov.clusterInfo THEN Failed("kubeconfig")
       ELSE IF pod THEN inCluster(ov)
       ELSE Failed("empty")

------------------------------------------------------------------------------
(* RESTConfig: overrides from the settings, then clientcmd.                 *)
expandHome(p) == IF p \in DOMAIN Home THEN Home[p] ELSE p

(* A host without a scheme is https when there is TLS material, unless      *)
(* insecure.                                                                *)
defaultTLS(st) ==
    (st.cluster_ca_certificate # "" \/ st.client_certificate # "") /\ ~st.insecure

clusterInfo(st) ==
    \/ st.insecure
    \/ \E a \in {"tls_server_name", "cluster_ca_certificate", "proxy_url"} : st[a] # ""

overridesWith(st, context, clusterName, user) ==
    [context |-> context, cluster |-> clusterName, user |-> user,
     server |-> IF st.host = "" THEN "" ELSE URL[st.host][defaultTLS(st)],
     clusterInfo |-> clusterInfo(st),
     token |-> st.token,
     basic |-> st.username # "" \/ st.password # "",
     keyless |-> st.client_certificate # "" /\ st.client_key = ""]

(* Mutant: the context overrides count without kubeconfig files as well. *)
overridesAlways(st) ==
    overridesWith(st, st.config_context, st.config_context_cluster, st.config_context_auth_info)

(* The context overrides count only together with kubeconfig files. *)
overrides(st) ==
    IF st.config_paths = << >> THEN overridesWith(st, "", "", "")
    ELSE overridesWith(st, st.config_context, st.config_context_cluster,
                       st.config_context_auth_info)

(* Mutant: an empty configuration is the cluster of this machine, as in the *)
(* kubernetes provider.                                                     *)
RESTConfigLocalhost(conn, files, pod) ==
    LET st == conn.Settings
        cfg == clientConfig(overrides(st),
                            [i \in DOMAIN st.config_paths |-> expandHome(st.config_paths[i])],
                            files, pod)
    IN IF st = Null THEN Failed("unknown")
       ELSE IF st.host = Bad THEN Failed("host")
       ELSE IF cfg.err = "empty" THEN Resolved(Localhost, "")
       ELSE cfg

(* The cluster a connection stands for, at the moment a wait asks for it.   *)
RESTConfig(conn, files, pod) ==
    LET st == conn.Settings
        cfg == clientConfig(overrides(st),
                            [i \in DOMAIN st.config_paths |-> expandHome(st.config_paths[i])],
                            files, pod)
    IN IF st = Null THEN Failed("unknown")
       ELSE IF st.host = Bad THEN Failed("host")
       ELSE IF cfg.err = "empty" \/ (cfg.err = "none" /\ cfg.host = "") THEN Failed("noCluster")
       ELSE cfg
==============================================================================
