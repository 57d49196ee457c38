---------------------------- MODULE ClusterResources ----------------------------
(***************************************************************************)
(* The child resources that the operator derives from a RabbitmqCluster:   *)
(* the Service, the default user Secret, the ConfigMaps of the plugins and *)
(* of rabbitmq.conf, and the pod template of the StatefulSet.  Each        *)
(* builder decides for itself, from TLS, Vault and the plugins, which      *)
(* ports and which files there are; clients and pods need them to agree.   *)
(*                                                                         *)
(* A reconcile applies the builders one after the other, each in a call of *)
(* its own, to what the earlier reconciles left behind, and it may fail at *)
(* each call.                                                              *)
(*                                                                         *)
(* Ports are their numbers, and a port of the Service stands for its name  *)
(* too.  Files and volumes have the names of the code where it has one.    *)
(***************************************************************************)
EXTENDS Integers, SequencesExt

CONSTANTS
    InitialSpecs,   \* what a cluster is created with
    PluginSets,     \* the additionalPlugins that users ask for
    ExtraFiles,     \* sets of envConfig and advancedConfig that users give
    Overrides,      \* what users put over the containers of the StatefulSet
    MaxEdits,       \* bound on changes of the spec
    MaxFaults,      \* bound on failed calls and crashes
    None            \* no object

VARIABLES
    cr,             \* the spec in the API server
    work,           \* the reconcile that runs: its copy of the spec, its builders
    applied,        \* the spec that the last reconcile has applied in full
    service,        \* the node port of each port of the Service
    secret,         \* the ports in the default user Secret
    plugins,        \* the plugins in enabled_plugins
    conf,           \* the data of the server ConfigMap
    sts,            \* the pod template of the StatefulSet
    nodePort,       \* the last node port that the API server has given out
    edits,          \* number of changes of the spec
    faults          \* number of failed calls and crashes

vars == <<cr, work, applied, service, secret, plugins, conf, sts, nodePort, edits, faults>>

AdditionalPlugins ==
    {"rabbitmq_mqtt", "rabbitmq_stomp", "rabbitmq_stream", "rabbitmq_web_mqtt",
     "rabbitmq_web_stomp", "rabbitmq_multi_dc_replication"}

\* tls: which secrets spec.tls names, "single" when they are the same;
\* vault: what spec.secretBackend.vault asks of Vault, "agent" for its presence.
\* A cluster with two sources of certificates is left out.
\* override: what override.statefulSet says of the container rabbitmq, the names in its
\* env and its volumeMounts, and whether it lists a container of the user's before it.
NoOverride == [env |-> <<>>, mounts |-> <<>>, sidecarFirst |-> FALSE]

SpecType ==
    {s \in [tls: {"none", "server", "mutual", "single"},
            vault: {{}} \cup {{"agent"} \cup uses : uses \in SUBSET {"user", "tls"}},
            disableNonTLSListeners: BOOLEAN, plugins: PluginSets, type: {"ClusterIP", "NodePort"},
            files: ExtraFiles, updater: BOOLEAN,
            override: Overrides \cup {NoOverride}] :
        s.tls = "none" \/ "tls" \notin s.vault}

ASSUME ConstantsAssumption ==
    /\ InitialSpecs \subseteq SpecType
    /\ PluginSets \subseteq SUBSET AdditionalPlugins
    /\ ExtraFiles \subseteq SUBSET {"rabbitmq-env.conf", "advanced.config"}
    /\ Overrides \subseteq
           [env: Seq(STRING), mounts: Seq(STRING \X STRING), sidecarFirst: BOOLEAN]
    /\ MaxEdits \in Nat /\ MaxFaults \in Nat

-----------------------------------------------------------------------------
(* What a spec asks for. *)

SecretTLSEnabled(s) == s.tls # "none"
VaultTLSEnabled(s) == "tls" \in s.vault
TLSEnabled(s) == SecretTLSEnabled(s) \/ VaultTLSEnabled(s)
MutualTLSEnabled(s) == s.tls \in {"mutual", "single"} \/ VaultTLSEnabled(s)
VaultDefaultUserSecretEnabled(s) == "user" \in s.vault
AdditionalPluginEnabled(s, plugin) == plugin \in s.plugins
StreamNeeded(s) ==
    \/ AdditionalPluginEnabled(s, "rabbitmq_stream")
    \/ AdditionalPluginEnabled(s, "rabbitmq_multi_dc_replication")

\* The plugins of the ports tables that the spec names, and the same with the
\* stream plugin that another one brings along.
Named(s) == {p \in AdditionalPlugins : AdditionalPluginEnabled(s, p)}
Needed(s) == Named(s) \cup (IF StreamNeeded(s) THEN {"rabbitmq_stream"} ELSE {})

WebPlugins == {"rabbitmq_web_mqtt", "rabbitmq_web_stomp"}
OtherPlugins == {"rabbitmq_mqtt", "rabbitmq_stomp", "rabbitmq_stream"}

PlainPort ==
    [rabbitmq_mqtt |-> 1883, rabbitmq_stomp |-> 61613, rabbitmq_stream |-> 5552,
     rabbitmq_web_mqtt |-> 15675, rabbitmq_web_stomp |-> 15674]
TLSPort ==
    [rabbitmq_mqtt |-> 8883, rabbitmq_stomp |-> 61614, rabbitmq_stream |-> 5551,
     rabbitmq_web_mqtt |-> 15676, rabbitmq_web_stomp |-> 15673]

PlainPortsOf(ps) == {PlainPort[p] : p \in ps \cap DOMAIN PlainPort}
TLSPortsOf(ps) == {TLSPort[p] : p \in ps \cap DOMAIN TLSPort}
When(condition, set) == IF condition THEN set ELSE {}

-----------------------------------------------------------------------------
(* The builders. *)

\* The ports of the Service.
ServicePorts(s) ==
    When(~s.disableNonTLSListeners, {5672, 15672} \cup PlainPortsOf(Needed(s)))
    \cup When(TLSEnabled(s), {5671, 15671, 15691} \cup TLSPortsOf(Needed(s) \cap OtherPlugins))
    \cup When(~TLSEnabled(s), {15692})
    \cup When(MutualTLSEnabled(s), TLSPortsOf(Named(s) \cap WebPlugins))

\* Mutant: the ports are made anew.
ForgetNodePorts(s, old) == [p \in ServicePorts(s) |-> 0]

\* The Service after an update: a port that it has keeps its node port, a new one has none.
KeepNodePorts(s, old) ==
    [p \in ServicePorts(s) |->
        IF s.type # "ClusterIP" /\ old # None /\ p \in DOMAIN old THEN old[p] ELSE 0]

\* The API server gives the ports of such a Service that have none a node port.
AssignNodePorts(s, ports) ==
    [p \in DOMAIN ports |->
        IF s.type = "NodePort" /\ ports[p] = 0 THEN nodePort + 1 ELSE ports[p]]

\* Mutant: TLS changes the ports of the plugins only.
SecretPortsOfPlugins(s) ==
    {5672} \cup (IF SecretTLSEnabled(s) THEN TLSPortsOf(Named(s)) ELSE PlainPortsOf(Named(s)))

\* The ports in the default user Secret, that of AMQP and one of each plugin.
\* Their choice looks at spec.tls.secretName.
SecretPorts(s) ==
    IF SecretTLSEnabled(s)
    THEN {5671} \cup TLSPortsOf(Named(s))
    ELSE {5672} \cup PlainPortsOf(Named(s))

\* Mutant: the web plugins are forgotten.
PluginsWithTLSButWeb(s) == When(TLSEnabled(s), Named(s) \cap OtherPlugins)

\* The plugins that rabbitmq.conf gives a TLS listener.
PluginsWithTLS(s) ==
    When(TLSEnabled(s), Named(s) \cap OtherPlugins)
    \cup When(MutualTLSEnabled(s), Named(s) \cap WebPlugins)

\* rabbitmq.conf: the TLS listeners, the plain ones that it asks for, and the
\* protocols whose plain listener it turns off; and the other files of the ConfigMap.
ServerConf(s) ==
    LET closed == TLSEnabled(s) /\ s.disableNonTLSListeners
    IN  [tls |-> When(TLSEnabled(s), {5671, 15671, 15691} \cup TLSPortsOf(PluginsWithTLS(s))),
         tcp |-> When(TLSEnabled(s) /\ ~closed, {15672, 15692}),
         off |-> When(closed, {"amqp"} \cup PluginsWithTLS(s)),
         files |-> s.files]

\* The container ports of the pods.
ContainerPorts(s) ==
    {4369}
    \cup When(~s.disableNonTLSListeners, {5672, 15672, 15692} \cup PlainPortsOf(Needed(s)))
    \cup When(TLSEnabled(s) \/ s.disableNonTLSListeners,
              {5671, 15671, 15691} \cup TLSPortsOf(Needed(s) \cap OtherPlugins)
                  \cup When(MutualTLSEnabled(s), TLSPortsOf(Named(s) \cap WebPlugins)))

\* Mutant: the probe does not know of disabled listeners.
ReadinessProbePlain(s) == 5672

\* The port that the readiness probe connects to.
ReadinessProbePort(s) == IF s.disableNonTLSListeners THEN 5671 ELSE 5672

\* The ports that the sidecar which follows Vault's password calls.
UpdaterPorts(s) ==
    When(VaultDefaultUserSecretEnabled(s) /\ s.updater, {IF TLSEnabled(s) THEN 15671 ELSE 15672})

\* The volumes of a pod; "persistence" is an empty directory or a claim.
Volumes(s) ==
    {"plugins-conf", "rabbitmq-confd", "rabbitmq-erlang-cookie", "erlang-cookie-secret",
     "rabbitmq-plugins", "pod-info", "persistence"}
    \cup When(s.files # {}, {"server-conf"})
    \cup When(SecretTLSEnabled(s), {"rabbitmq-tls"})

\* Mutant: the operator's Secret is mounted even when Vault has the credentials.
VolumeMountsOfSecret(s) ==
    {<<"rabbitmq-confd", "11-default_user.conf">>} \cup {<<"server-conf", file>> : file \in s.files}
    \cup When(SecretTLSEnabled(s), {<<"rabbitmq-tls", "/etc/rabbitmq-tls/">>})

\* Where the node finds the files that depend on the spec: pairs of a volume and a path.
VolumeMounts(s) ==
    When(~VaultDefaultUserSecretEnabled(s), {<<"rabbitmq-confd", "11-default_user.conf">>})
    \cup {<<"server-conf", file>> : file \in s.files}
    \cup When(SecretTLSEnabled(s), {<<"rabbitmq-tls", "/etc/rabbitmq-tls/">>})

\* The Secrets that the volumes project besides those of the operator's own.
ProjectedSecrets(s) ==
    When(~VaultDefaultUserSecretEnabled(s), {"default-user"})
    \cup When(SecretTLSEnabled(s), {"tls"})
    \cup When(s.tls = "mutual", {"ca"})

\* The annotations are merged into those of the present template: none is removed.
VaultAnnotations(s, old) ==
    s.vault \cup (IF old = None THEN {} ELSE old.vault)

\* "No object" is no spec and none of the objects that are made from one.
ASSUME NoneAssumption ==
    \A s \in SpecType :
        None # s /\ None # s.plugins /\ None # SecretPorts(s) /\ None # ServerConf(s)

-----------------------------------------------------------------------------
(* What the override does to the lists of the container rabbitmq. *)

\* Variables that refer to none, and those of the operator that refer to all of these.
K8sObjects == <<"MY_POD_NAME", "MY_POD_NAMESPACE", "K8S_SERVICE_NAME">>
EnvVars == K8sObjects \o <<"RABBITMQ_NODENAME", "K8S_HOSTNAME_SUFFIX">>

\* The directories that lie one in the other; mounts are pairs of a volume and a path.
DataMounts ==
    <<<<"rabbitmq-erlang-cookie", "/var/lib/rabbitmq/">>,
      <<"persistence", "/var/lib/rabbitmq/mnesia/">>>>

Precedes(x, y, list) ==
    \E i, j \in DOMAIN list : i < j /\ list[i] = x /\ list[j] = y

\* The elements of the list that are in the set, in the order of the list.
Only(list, set) ==
    LET taken[i \in 0..Len(list)] ==
            IF i = 0 THEN <<>>
            ELSE IF list[i] \in set THEN Append(taken[i - 1], list[i]) ELSE taken[i - 1]
    IN  taken[Len(list)]

\* The order of the keys of a merged list: those of the patch keep theirs, and in front of
\* each go the original's others that precede it there.  A key that the patch repeats
\* stays where it comes first.
MergedKeys(original, patch) ==
    LET others == ToSet(original) \ ToSet(patch)
        merged[i \in 0..Len(patch)] ==
            IF i = 0 THEN <<>>
            ELSE LET before == merged[i - 1]
                     front == {k \in others \ ToSet(before) : Precedes(k, patch[i], original)}
                 IN  IF patch[i] \in ToSet(before) THEN before
                     ELSE before \o Only(original, front) \o <<patch[i]>>
        keys == merged[Len(patch)]
    IN  keys \o Only(original, others \ ToSet(keys))

Paths(mounts) == [i \in DOMAIN mounts |-> mounts[i][2]]

\* The last mount of a path.
MountAt(path, mounts) == mounts[Max({i \in DOMAIN mounts : mounts[i][2] = path})]

\* The mounts, of which those of the patch replace those with the same path.
MergedMounts(original, patch) ==
    LET paths == MergedKeys(Paths(original), Paths(patch))
        mount(path) == MountAt(path, IF path \in ToSet(Paths(patch)) THEN patch ELSE original)
    IN  [i \in DOMAIN paths |-> <<mount(paths[i])[1], paths[i]>>]

Swap(list, i, j) == [list EXCEPT ![i] = list[j], ![j] = list[i]]

\* One pass over the list that swaps each element that has a slot to that place; what
\* lands behind the pass is not looked at again.
SwapToSlots(list, slot) ==
    LET swapped[i \in 0..Len(list)] ==
            IF i = 0 THEN list
            ELSE LET element == swapped[i - 1][i]
                 IN  IF slot[element] = 0 THEN swapped[i - 1]
                     ELSE Swap(swapped[i - 1], i, slot[element])
    IN  swapped[Len(list)]

EnvSlot(name) ==
    CASE name = "MY_POD_NAME" -> 1
      [] name = "MY_POD_NAMESPACE" -> 2
      [] name = "K8S_SERVICE_NAME" -> 3
      [] OTHER -> 0

MountSlot(mount) ==
    CASE mount[1] = "rabbitmq-erlang-cookie" -> 1
      [] mount[1] = "persistence" -> 2
      [] OTHER -> 0

sortEnvVar(env) == SwapToSlots(env, [name \in ToSet(env) |-> EnvSlot(name)])

sortVolumeMounts(mounts) == SwapToSlots(mounts, [m \in ToSet(mounts) |-> MountSlot(m)])

\* Mutants: the lists stay as they were merged.
EnvAsMerged(override) == MergedKeys(EnvVars, override.env)
MountsAsMerged(override) == MergedMounts(DataMounts, override.mounts)

\* The lists are sorted only if the override has them, and only of the first container:
\* a container that the override lists before rabbitmq takes its place.
Env(override) ==
    LET merged == MergedKeys(EnvVars, override.env)
    IN  IF override.env = <<>> \/ override.sidecarFirst THEN merged ELSE sortEnvVar(merged)

MountOrder(override) ==
    LET merged == MergedMounts(DataMounts, override.mounts)
    IN  IF override.mounts = <<>> \/ override.sidecarFirst THEN merged
        ELSE sortVolumeMounts(merged)

PodTemplate(s, old) ==
    [ports |-> ContainerPorts(s), probe |-> ReadinessProbePort(s), updater |-> UpdaterPorts(s),
     volumes |-> Volumes(s), mounts |-> VolumeMounts(s), secrets |-> ProjectedSecrets(s),
     vault |-> VaultAnnotations(s, old), env |-> Env(s.override),
     order |-> MountOrder(s.override)]

-----------------------------------------------------------------------------
(* RabbitMQ and the Vault agent injector, which read all this. *)

\* The ports that a node listens on which has these ConfigMaps.  A plugin has a plain
\* listener by default; those of management and of prometheus give way to a TLS one.
Listeners(config, names) ==
    LET enabled == names \cup When("rabbitmq_multi_dc_replication" \in names, {"rabbitmq_stream"})
    IN  When("amqp" \notin config.off, {5672})
        \cup When(15671 \notin config.tls, {15672}) \cup When(15691 \notin config.tls, {15692})
        \cup config.tcp \cup config.tls \cup PlainPortsOf(enabled \ config.off)

\* The injector mounts what the annotations of a pod name.
InjectedMounts(annotations) ==
    When("user" \in annotations, {<<"vault", "11-default_user.conf">>})
    \cup When("tls" \in annotations, {<<"vault", "/etc/rabbitmq-tls/">>})

-----------------------------------------------------------------------------
(* The reconcile. *)

Init ==
    /\ cr \in InitialSpecs
    /\ work = None /\ applied = None
    /\ service = None /\ secret = None /\ plugins = None /\ conf = None /\ sts = None
    /\ nodePort = 0 /\ edits = 0 /\ faults = 0

\* Mutant: the StatefulSet before what its pods mount.
StatefulSetFirst(s) ==
    <<"Service", "StatefulSet">>
        \o (IF VaultDefaultUserSecretEnabled(s) THEN <<>> ELSE <<"DefaultUserSecret">>)
        \o <<"RabbitmqPluginsConfigMap", "ServerConfigMap">>

\* In the order in which they are applied.
ResourceBuilders(s) ==
    IF VaultDefaultUserSecretEnabled(s)
    THEN <<"Service", "RabbitmqPluginsConfigMap", "ServerConfigMap", "StatefulSet">>
    ELSE <<"Service", "DefaultUserSecret", "RabbitmqPluginsConfigMap", "ServerConfigMap",
           "StatefulSet">>

\* reconcileTLS lets no spec pass that would leave no listener at all.
Accepted(s) == s.disableNonTLSListeners => TLSEnabled(s)

StartReconcile ==
    /\ work = None /\ Accepted(cr)
    /\ work' = [spec |-> cr, builders |-> ResourceBuilders(cr)]
    /\ applied' = None
    /\ UNCHANGED <<cr, service, secret, plugins, conf, sts, nodePort, edits, faults>>

\* Mutant: the last builder does not end the reconcile.
ApplyNextForever(builder) ==
    /\ work # None
    /\ work.builders # <<>> /\ Head(work.builders) = builder
    /\ work' = [work EXCEPT !.builders = Tail(@)]
    /\ UNCHANGED <<cr, applied, edits, faults>>

\* The builder that comes next, and the reconcile without it.
ApplyNext(builder) ==
    /\ work # None
    /\ Head(work.builders) = builder
    /\ work' = IF Len(work.builders) = 1 THEN None
               ELSE [work EXCEPT !.builders = Tail(@)]
    /\ applied' = IF Len(work.builders) = 1 THEN work.spec ELSE applied
    /\ UNCHANGED <<cr, edits, faults>>

UpdateService ==
    LET ports == KeepNodePorts(work.spec, service) IN
    /\ ApplyNext("Service")
    /\ service' = AssignNodePorts(work.spec, ports)
    /\ nodePort' = IF AssignNodePorts(work.spec, ports) = ports THEN nodePort ELSE nodePort + 1
    /\ UNCHANGED <<secret, plugins, conf, sts>>

UpdateDefaultUserSecret ==
    /\ ApplyNext("DefaultUserSecret")
    /\ secret' = SecretPorts(work.spec)
    /\ UNCHANGED <<service, plugins, conf, sts, nodePort>>

UpdatePlugins ==
    /\ ApplyNext("RabbitmqPluginsConfigMap")
    /\ plugins' = work.spec.plugins
    /\ UNCHANGED <<service, secret, conf, sts, nodePort>>

UpdateServerConf ==
    /\ ApplyNext("ServerConfigMap")
    /\ conf' = ServerConf(work.spec)
    /\ UNCHANGED <<service, secret, plugins, sts, nodePort>>

UpdateStatefulSet ==
    /\ ApplyNext("StatefulSet")
    /\ sts' = PodTemplate(work.spec, sts)
    /\ UNCHANGED <<service, secret, plugins, conf, nodePort>>

\* A call fails or the operator crashes: the reconcile ends, another one follows.
Fail ==
    /\ work # None /\ faults < MaxFaults
    /\ work' = None /\ faults' = faults + 1
    /\ UNCHANGED <<cr, applied, service, secret, plugins, conf, sts, nodePort, edits>>

\* The user changes one part of the spec, or the source of the certificates.
Changes(s) ==
    {[s EXCEPT !.tls = t] : t \in {"none", "server", "mutual", "single"}}
    \cup {[s EXCEPT !.vault = v] : v \in {{}, {"agent"}, {"agent", "user"}}}
    \cup {[s EXCEPT !.tls = t, !.vault = v] : t \in {"none", "mutual"}, v \in {{}, {"agent", "tls"}}}
    \cup {[s EXCEPT !.disableNonTLSListeners = ~@], [s EXCEPT !.updater = ~@]}
    \cup {[s EXCEPT !.plugins = ps] : ps \in PluginSets}
    \cup {[s EXCEPT !.type = t] : t \in {"ClusterIP", "NodePort"}}
    \cup {[s EXCEPT !.files = fs] : fs \in ExtraFiles}
    \cup {[s EXCEPT !.override = NoOverride]}

Edit ==
    /\ edits < MaxEdits
    /\ cr' \in (Changes(cr) \cap SpecType) \ {cr}
    /\ edits' = edits + 1
    /\ UNCHANGED <<work, applied, service, secret, plugins, conf, sts, nodePort, faults>>

Next ==
    \/ StartReconcile \/ UpdateService \/ UpdateDefaultUserSecret \/ UpdatePlugins
    \/ UpdateServerConf \/ UpdateStatefulSet \/ Fail \/ Edit

Spec == Init /\ [][Next]_vars
-----------------------------------------------------------------------------
(* Properties. *)

TypeOK ==
    /\ cr \in SpecType
    /\ applied \in SpecType \cup {None}
    /\ work = None \/ (work.spec \in SpecType /\ work.builders # <<>>)
    /\ service = None \/ \A p \in DOMAIN service : service[p] \in 0..nodePort
    /\ sts = None \/ sts.vault \subseteq {"agent", "user", "tls"}
    /\ nodePort \in Nat /\ edits \in 0..MaxEdits /\ faults \in 0..MaxFaults

\* All builders have run for the present spec, the nodes run what they made.
Settled == applied = cr

NodeListeners == Listeners(conf, plugins)

\* The stream plugin that multi_dc_replication brings along is in the ports of the
\* Service and of the pods, but no part of rabbitmq.conf: it has its plain listener only.
StreamIsOverlooked(s) == StreamNeeded(s) /\ ~AdditionalPluginEnabled(s, "rabbitmq_stream")

\* Once reconciled, each port of the Service is a port of the pods, and each of these but
\* that of epmd is one that the nodes listen on, except the TLS port of an overlooked
\* stream plugin: the Service, the pod template and rabbitmq.conf are made by three
\* builders that each repeat the conditions (service.go:115-269, statefulset.go:863-1033,
\* configmap.go:84-213).
PortsAnswer ==
    Settled =>
        /\ DOMAIN service \subseteq sts.ports
        /\ sts.ports \ {4369} \subseteq
               NodeListeners \cup When(StreamIsOverlooked(cr), TLSPortsOf({"rabbitmq_stream"}))

\* Once reconciled, whoever connects to the ports in the default user Secret finds them in
\* the Service, except where the Secret's builder takes TLS for something else than the
\* Service's does: certificates of Vault with the plain listeners disabled, and web plugins
\* under TLS without a CA certificate (default_user_secret.go:124-145).
SecretPortsAreServed ==
    Settled /\ ~VaultDefaultUserSecretEnabled(cr) =>
        \/ VaultTLSEnabled(cr) /\ cr.disableNonTLSListeners
        \/ secret \ DOMAIN service \subseteq When(~MutualTLSEnabled(cr), TLSPortsOf(WebPlugins))

\* Once reconciled, the port that the readiness probe tries is a port of the pods that the
\* node listens on, and so is the one that the sidecar calls; a probe of a port that is not
\* served keeps each pod out of the Service for ever (statefulset.go:336-339, 633-640).
PodsAnswerThemselves ==
    Settled => {sts.probe} \cup sts.updater \subseteq sts.ports \cap NodeListeners

\* Once reconciled, each file is mounted from one volume of the pod, and those of the
\* certificates and of the default user's credentials are there.  Annotations that Vault's
\* part of an earlier spec left in the template break this: the injector mounts the same
\* paths once more (statefulset.go:328-560, 797-861, annotation.go:15-37).
FilesHaveOneSource ==
    LET mounts == sts.mounts \cup InjectedMounts(sts.vault)
        paths == {m[2] : m \in mounts}
    IN  Settled =>
            /\ {m[1] : m \in sts.mounts} \subseteq sts.volumes
            /\ "11-default_user.conf" \in paths
            /\ TLSEnabled(cr) => "/etc/rabbitmq-tls/" \in paths
            /\ sts.vault \subseteq cr.vault => \A m, n \in mounts : m[2] = n[2] => m = n

\* Whenever pods may start, during a reconcile, after a failed one or between two edits,
\* the objects that their template names exist: those of the operator's own are made before
\* the StatefulSet is, and a file of the ConfigMap goes missing only until the reconcile that
\* drops it reaches the StatefulSet (rabbitmq_resource_builder.go:31-49).
TemplateIsBacked ==
    sts # None =>
        /\ plugins # None /\ conf # None
        /\ "default-user" \in sts.secrets => secret # None
        /\ {m[2] : m \in {n \in sts.mounts : n[1] = "server-conf"}} \subseteq conf.files
               \/ applied = None

\* Once reconciled, a variable of the rabbitmq container that refers to the names of the pod,
\* of its namespace and of the Service comes after all three: Kubernetes resolves references
\* to what is defined before.  Broken where the override names MY_POD_NAME after another
\* variable, because sortEnvVar then swaps one of the other two to a place that its pass
\* has left behind or is about to leave, and where a container of the user's comes first
\* (statefulset.go:266-273, 294-310).
ReferencesResolve ==
    LET patch == cr.override.env
    IN  Settled /\ ("MY_POD_NAME" \in ToSet(patch) => Head(patch) = "MY_POD_NAME")
                /\ ~cr.override.sidecarFirst =>
            \A name \in ToSet(sts.env) \ ToSet(K8sObjects), object \in ToSet(K8sObjects) :
                Precedes(object, name, sts.env)

\* Once reconciled, the directory that holds the nodes' data is mounted after the one it lies
\* in, else it is hidden from the node.  Broken where the override gives the volume of
\* the outer one to another path too, or gives its path another volume, and where a
\* container of the user's comes first (statefulset.go:274-277, 312-327).
DataIsNotShadowed ==
    Settled /\ {m \in ToSet(sts.order) : m[1] = "rabbitmq-erlang-cookie"} = {DataMounts[1]}
            /\ ~cr.override.sidecarFirst =>
        Precedes(DataMounts[1][2], DataMounts[2][2], Paths(sts.order))

\* A port that stays in a Service that has node ports keeps its own, whatever else changes
\* in the spec: clients outside the cluster have it in their configuration
\* (service.go:271-289).
NodePortsAreKept ==
    [][service # None =>
           \A p \in DOMAIN service \cap DOMAIN service' :
               service[p] # 0 /\ service'[p] # 0 => service'[p] = service[p]]_<<service>>

\* The claim of the CRD's description: "When set to true, the RabbitmqCluster disables
\* non-TLS listeners for RabbitMQ, management plugin and for any enabled plugins in the
\* following list: stomp, mqtt, web_stomp, web_mqtt.  Only TLS-enabled clients will be able
\* to connect." (rabbitmqcluster_types.go:333-334).
OnlyTLSClientsConnect ==
    Settled /\ cr.disableNonTLSListeners =>
        NodeListeners \cap ({5672, 15672}
            \cup PlainPortsOf({"rabbitmq_mqtt", "rabbitmq_stomp"} \cup WebPlugins)) = {}
=============================================================================
