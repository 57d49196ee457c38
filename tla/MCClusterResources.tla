---------------------------- MODULE MCClusterResources ----------------------------
(* Instances of ClusterResources for TLC. *)
EXTENDS ClusterResources

NoPlugins == {}
AllPlugins == AdditionalPlugins
SinglePlugins == {{p} : p \in AdditionalPlugins}

\* Each plugin alone, all, and none; each source of certificates and of credentials.
SomePlugins == SinglePlugins \cup {NoPlugins, AllPlugins}
SomeFiles == {{}, {"advanced.config"}, {"rabbitmq-env.conf", "advanced.config"}}

Created(tls, vault, disabled, names, type) ==
    [tls |-> tls, vault |-> vault, disableNonTLSListeners |-> disabled, plugins |-> names,
     type |-> type, files |-> {"advanced.config"}, updater |-> TRUE, override |-> NoOverride]

Override(env, mounts, sidecarFirst) ==
    [env |-> env, mounts |-> mounts, sidecarFirst |-> sidecarFirst]

\* Each order of two variables, one of them the user's, and two orders of three.
SomeEnvs ==
    LET names == {"MY_POD_NAME", "K8S_SERVICE_NAME", "RABBITMQ_NODENAME", "LOG_PREFIX"}
    IN  {<<a>> : a \in names} \cup {e \in names \X names : e[1] # e[2]}
        \cup {<<"LOG_PREFIX", "K8S_SERVICE_NAME", "MY_POD_NAMESPACE">>,
              <<"K8S_SERVICE_NAME", "LOG_PREFIX", "MY_POD_NAME">>}

\* Volumes of the operator and of the user at paths of the operator and of the user.
SomeMounts ==
    LET mounts == {"rabbitmq-erlang-cookie", "backup"}
                      \X {"/var/lib/rabbitmq/", "/var/lib/rabbitmq/mnesia/", "/backup/"}
    IN  {<<m>> : m \in mounts}
        \cup {<<m, DataMounts[1]>> : m \in {n \in mounts : n[2] # DataMounts[1][2]}}

SomeOverrides ==
    {Override(env, <<>>, FALSE) : env \in SomeEnvs}
    \cup {Override(<<>>, mounts, FALSE) : mounts \in SomeMounts}
    \cup {Override(<<"LOG_PREFIX">>, <<DataMounts[2], DataMounts[1]>>, sidecar) : sidecar \in BOOLEAN}

NewClusters ==
    {Created(tls, vault, disabled, names, "NodePort") :
        tls \in {"none", "server", "mutual", "single"},
        vault \in {{}, {"agent", "user"}, {"agent", "tls"}, {"agent", "user", "tls"}},
        disabled \in BOOLEAN, names \in SomePlugins} \cap SpecType

OverriddenClusters ==
    {[Created("none", {}, FALSE, NoPlugins, "ClusterIP") EXCEPT !.override = o] : o \in SomeOverrides}

AllClusters == NewClusters \cup OverriddenClusters
NoOverrides == {}
=============================================================================
