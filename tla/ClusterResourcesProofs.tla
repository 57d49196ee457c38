------------------------- MODULE ClusterResourcesProofs -------------------------
(***************************************************************************)
(* Theorems about ClusterResources for all sets of specs, plugins, files   *)
(* and overrides, and every number of edits and failures.                  *)
(***************************************************************************)
EXTENDS ClusterResources, TLAPS

(* The builders that are left of a reconcile. *)

FromStatefulSet == <<"StatefulSet">>
FromServerConf == <<"ServerConfigMap", "StatefulSet">>
FromPlugins == <<"RabbitmqPluginsConfigMap", "ServerConfigMap", "StatefulSet">>
FromSecret == <<"DefaultUserSecret", "RabbitmqPluginsConfigMap", "ServerConfigMap", "StatefulSet">>

LEMMA RestOfBuilders ==
    /\ Head(FromStatefulSet) = "StatefulSet" /\ Len(FromStatefulSet) = 1
    /\ Head(FromServerConf) = "ServerConfigMap" /\ Len(FromServerConf) = 2
    /\ Tail(FromServerConf) = FromStatefulSet
    /\ Head(FromPlugins) = "RabbitmqPluginsConfigMap" /\ Len(FromPlugins) = 3
    /\ Tail(FromPlugins) = FromServerConf
    /\ Head(FromSecret) = "DefaultUserSecret" /\ Len(FromSecret) = 4
    /\ Tail(FromSecret) = FromPlugins
BY DEF FromStatefulSet, FromServerConf, FromPlugins, FromSecret

LEMMA AllBuilders ==
    ASSUME NEW s
    PROVE  /\ Head(ResourceBuilders(s)) = "Service" /\ Len(ResourceBuilders(s)) # 1
           /\ Tail(ResourceBuilders(s)) =
                  IF VaultDefaultUserSecretEnabled(s) THEN FromPlugins ELSE FromSecret
BY DEF ResourceBuilders, FromPlugins, FromSecret

LEMMA SomeBuilders ==
    /\ FromStatefulSet # <<>> /\ FromServerConf # <<>> /\ FromPlugins # <<>> /\ FromSecret # <<>>
    /\ \A s : ResourceBuilders(s) # <<>>
BY DEF FromStatefulSet, FromServerConf, FromPlugins, FromSecret, ResourceBuilders

--------------------------------------------------------------------------------
(* What the builders make of one spec. *)

\* Both tables of ports follow the plugins.
LEMMA PortsOfPlugins ==
    ASSUME NEW ps, NEW qs, ps \subseteq qs
    PROVE  PlainPortsOf(ps) \subseteq PlainPortsOf(qs) /\ TLSPortsOf(ps) \subseteq TLSPortsOf(qs)
BY DEF PlainPortsOf, TLSPortsOf

LEMMA TLSNeedsASource ==
    ASSUME NEW s, Accepted(s)
    PROVE  /\ MutualTLSEnabled(s) => TLSEnabled(s)
           /\ s.disableNonTLSListeners => TLSEnabled(s)
BY DEF MutualTLSEnabled, TLSEnabled, SecretTLSEnabled, Accepted

\* The ports of the Service are ports of the pods.
LEMMA ServicePortsAreContainerPorts ==
    ASSUME NEW s, Accepted(s), s.disableNonTLSListeners \in BOOLEAN
    PROVE  ServicePorts(s) \subseteq ContainerPorts(s)
BY TLSNeedsASource DEF ServicePorts, ContainerPorts, When

\* Named plugins with a port of TLS are the web plugins and the other ones.
LEMMA NamedPlugins ==
    ASSUME NEW s
    PROVE  TLSPortsOf(Named(s)) \subseteq
               TLSPortsOf(Named(s) \cap OtherPlugins) \cup TLSPortsOf(Named(s) \cap WebPlugins)
BY DEF TLSPortsOf, TLSPort, OtherPlugins, WebPlugins

\* What the nodes listen on under TLS.
LEMMA TLSListeners ==
    ASSUME NEW s, TLSEnabled(s)
    PROVE  /\ {5671, 15671, 15691} \cup TLSPortsOf(Named(s) \cap OtherPlugins)
                  \subseteq Listeners(ServerConf(s), s.plugins)
           /\ MutualTLSEnabled(s) =>
                  TLSPortsOf(Named(s) \cap WebPlugins) \subseteq Listeners(ServerConf(s), s.plugins)
<1>1. /\ Named(s) \cap OtherPlugins \subseteq PluginsWithTLS(s)
      /\ MutualTLSEnabled(s) => Named(s) \cap WebPlugins \subseteq PluginsWithTLS(s)
  BY DEF PluginsWithTLS, When
<1>2. /\ TLSPortsOf(Named(s) \cap OtherPlugins) \subseteq TLSPortsOf(PluginsWithTLS(s))
      /\ MutualTLSEnabled(s) =>
             TLSPortsOf(Named(s) \cap WebPlugins) \subseteq TLSPortsOf(PluginsWithTLS(s))
  BY <1>1, PortsOfPlugins
<1>3. ServerConf(s).tls = {5671, 15671, 15691} \cup TLSPortsOf(PluginsWithTLS(s))
  BY DEF ServerConf, When
<1>4. ServerConf(s).tls \subseteq Listeners(ServerConf(s), s.plugins)
  BY DEF Listeners
<1> QED BY <1>2, <1>3, <1>4

\* Those of AMQP and of management, which the probe and the sidecar call.
LEMMA ManagementListener ==
    ASSUME NEW s, TLSEnabled(s)
    PROVE  {5671, 15671} \subseteq Listeners(ServerConf(s), s.plugins)
<1>1. {5671, 15671} \subseteq ServerConf(s).tls
  BY DEF ServerConf, When
<1> QED BY <1>1 DEF Listeners

\* What the nodes listen on unless the plain listeners are disabled.
LEMMA PlainListeners ==
    ASSUME NEW s, ~s.disableNonTLSListeners
    PROVE  {5672, 15672, 15692} \cup PlainPortsOf(Needed(s)) \subseteq
               Listeners(ServerConf(s), s.plugins)
<1> DEFINE enabled == s.plugins \cup
                          When("rabbitmq_multi_dc_replication" \in s.plugins, {"rabbitmq_stream"})
<1>1. /\ ServerConf(s).off = {}
      /\ ServerConf(s).tcp = When(TLSEnabled(s), {15672, 15692})
      /\ ~TLSEnabled(s) => ServerConf(s).tls = {}
  BY DEF ServerConf, When
<1>2. {5672, 15672, 15692} \subseteq Listeners(ServerConf(s), s.plugins)
  BY <1>1 DEF Listeners, When
<1>3. Needed(s) \subseteq enabled
  BY DEF Needed, Named, StreamNeeded, AdditionalPluginEnabled, When
<1>4. PlainPortsOf(Needed(s)) \subseteq PlainPortsOf(enabled)
  BY <1>3, PortsOfPlugins
<1>5. PlainPortsOf(enabled) \subseteq Listeners(ServerConf(s), s.plugins)
  <2>1. enabled \ ServerConf(s).off = enabled
    BY <1>1
  <2> QED BY <2>1 DEF Listeners
<1> QED BY <1>2, <1>4, <1>5

\* The ports of the pods are ports that the nodes listen on.
LEMMA ContainerPortsAreListeners ==
    ASSUME NEW s, Accepted(s), s.disableNonTLSListeners \in BOOLEAN
    PROVE  ContainerPorts(s) \ {4369} \subseteq
               Listeners(ServerConf(s), s.plugins)
                   \cup When(StreamIsOverlooked(s), TLSPortsOf({"rabbitmq_stream"}))
<1> DEFINE heard == Listeners(ServerConf(s), s.plugins)
           overlooked == When(StreamIsOverlooked(s), TLSPortsOf({"rabbitmq_stream"}))
<1>1. TLSPortsOf(Needed(s) \cap OtherPlugins) \subseteq
          TLSPortsOf(Named(s) \cap OtherPlugins) \cup overlooked
  <2>1. CASE StreamIsOverlooked(s)
    <3>1. Needed(s) \cap OtherPlugins \subseteq (Named(s) \cap OtherPlugins) \cup {"rabbitmq_stream"}
      BY DEF Needed
    <3>2. TLSPortsOf((Named(s) \cap OtherPlugins) \cup {"rabbitmq_stream"}) \subseteq
              TLSPortsOf(Named(s) \cap OtherPlugins) \cup TLSPortsOf({"rabbitmq_stream"})
      BY DEF TLSPortsOf
    <3> QED BY <2>1, <3>1, <3>2, PortsOfPlugins DEF When
  <2>2. CASE ~StreamIsOverlooked(s)
    <3>1. Needed(s) \subseteq Named(s)
      BY <2>2 DEF StreamIsOverlooked, Needed, Named, AdditionalPlugins
    <3>2. Needed(s) \cap OtherPlugins \subseteq Named(s) \cap OtherPlugins
      BY <3>1
    <3> QED BY <3>2, PortsOfPlugins
  <2> QED BY <2>1, <2>2
<1>2. TLSEnabled(s) => /\ {5671, 15671, 15691} \cup TLSPortsOf(Named(s) \cap OtherPlugins) \subseteq heard
                       /\ MutualTLSEnabled(s) => TLSPortsOf(Named(s) \cap WebPlugins) \subseteq heard
  BY TLSListeners
<1>3. ~s.disableNonTLSListeners => {5672, 15672, 15692} \cup PlainPortsOf(Needed(s)) \subseteq heard
  BY PlainListeners
<1> HIDE DEF heard, overlooked
<1>4. ContainerPorts(s) \ {4369} \subseteq heard \cup overlooked
  BY <1>1, <1>2, <1>3, TLSNeedsASource DEF ContainerPorts, When
<1> QED BY <1>4 DEF heard, overlooked

\* The ports in the Secret are ports of the Service, but for the builders' differences.
LEMMA SecretPortsAreServicePorts ==
    ASSUME NEW s, Accepted(s), s.disableNonTLSListeners \in BOOLEAN
    PROVE  \/ VaultTLSEnabled(s) /\ s.disableNonTLSListeners
           \/ SecretPorts(s) \ ServicePorts(s)
                  \subseteq When(~MutualTLSEnabled(s), TLSPortsOf(WebPlugins))
<1>1. CASE SecretTLSEnabled(s)
  <2>1. SecretPorts(s) = {5671} \cup TLSPortsOf(Named(s)) /\ TLSEnabled(s)
    BY <1>1 DEF SecretPorts, TLSEnabled
  <2>2. {5671} \cup TLSPortsOf(Needed(s) \cap OtherPlugins) \subseteq ServicePorts(s)
    BY <2>1 DEF ServicePorts, When
  <2>3. MutualTLSEnabled(s) => TLSPortsOf(Named(s) \cap WebPlugins) \subseteq ServicePorts(s)
    BY DEF ServicePorts, When
  <2>4. /\ Named(s) \cap OtherPlugins \subseteq Needed(s) \cap OtherPlugins
        /\ Named(s) \cap WebPlugins \subseteq WebPlugins
    BY DEF Needed
  <2>5. /\ TLSPortsOf(Named(s) \cap OtherPlugins) \subseteq TLSPortsOf(Needed(s) \cap OtherPlugins)
        /\ TLSPortsOf(Named(s) \cap WebPlugins) \subseteq TLSPortsOf(WebPlugins)
    BY <2>4, PortsOfPlugins
  <2>6. TLSPortsOf(Named(s)) \subseteq
            TLSPortsOf(Named(s) \cap OtherPlugins) \cup TLSPortsOf(Named(s) \cap WebPlugins)
    BY NamedPlugins
  <2>7. CASE MutualTLSEnabled(s)
    <3>1. TLSPortsOf(Named(s)) \subseteq ServicePorts(s)
      <4>1. TLSPortsOf(Named(s) \cap OtherPlugins) \subseteq ServicePorts(s)
        BY <2>2, <2>5, SMTT(30)
      <4>2. TLSPortsOf(Named(s) \cap WebPlugins) \subseteq ServicePorts(s)
        BY <2>3, <2>7
      <4> QED BY <2>6, <4>1, <4>2
    <3>2. SecretPorts(s) \ ServicePorts(s) = {}
      BY <2>1, <2>2, <3>1
    <3> QED BY <3>2
  <2>8. CASE ~MutualTLSEnabled(s)
    BY <2>1, <2>2, <2>5, <2>6, <2>8, SMTT(30) DEF When
  <2> QED BY <2>7, <2>8
<1>2. CASE ~SecretTLSEnabled(s) /\ ~s.disableNonTLSListeners
  <2>1. Named(s) \subseteq Needed(s)
    BY DEF Needed
  <2>2. PlainPortsOf(Named(s)) \subseteq PlainPortsOf(Needed(s))
    BY <2>1, PortsOfPlugins
  <2>3. SecretPorts(s) = {5672} \cup PlainPortsOf(Named(s))
    BY <1>2 DEF SecretPorts
  <2>4. {5672} \cup PlainPortsOf(Needed(s)) \subseteq ServicePorts(s)
    BY <1>2 DEF ServicePorts, When
  <2> QED BY <2>2, <2>3, <2>4
<1>3. CASE ~SecretTLSEnabled(s) /\ s.disableNonTLSListeners
  BY <1>3, TLSNeedsASource DEF TLSEnabled
<1> QED BY <1>1, <1>2, <1>3

\* The ports that the probe and the sidecar try are served by the pod itself.
LEMMA ProbesAreAnswered ==
    ASSUME NEW s, Accepted(s), s.disableNonTLSListeners \in BOOLEAN
    PROVE  {ReadinessProbePort(s)} \cup UpdaterPorts(s) \subseteq
               ContainerPorts(s) \cap Listeners(ServerConf(s), s.plugins)
<1>1. CASE s.disableNonTLSListeners
  <2>1. TLSEnabled(s)
    BY <1>1, TLSNeedsASource
  <2>2. {5671, 15671} \subseteq Listeners(ServerConf(s), s.plugins)
    BY <2>1, ManagementListener
  <2>3. {5671, 15671} \subseteq ContainerPorts(s)
    BY <2>1 DEF ContainerPorts, When
  <2> QED BY <1>1, <2>1, <2>2, <2>3 DEF ReadinessProbePort, UpdaterPorts, When
<1>2. CASE ~s.disableNonTLSListeners
  <2>1. {5672, 15672} \subseteq ContainerPorts(s) \cap Listeners(ServerConf(s), s.plugins)
    BY <1>2, PlainListeners DEF ContainerPorts, When
  <2>2. TLSEnabled(s) => {5671, 15671} \subseteq Listeners(ServerConf(s), s.plugins)
    BY ManagementListener
  <2>3. TLSEnabled(s) => 15671 \in ContainerPorts(s)
    BY DEF ContainerPorts, When
  <2> QED BY <1>2, <2>1, <2>2, <2>3 DEF ReadinessProbePort, UpdaterPorts, When
<1> QED BY <1>1, <1>2

\* Every mount is of a volume of the pod.
LEMMA MountsHaveVolumes ==
    ASSUME NEW s
    PROVE  {m[1] : m \in VolumeMounts(s)} \subseteq Volumes(s)
<1> SUFFICES ASSUME NEW m \in VolumeMounts(s) PROVE m[1] \in Volumes(s)
  OBVIOUS
<1>1. CASE m = <<"rabbitmq-confd", "11-default_user.conf">>
  BY <1>1 DEF Volumes
<1>2. CASE \E file \in s.files : m = <<"server-conf", file>>
  BY <1>2 DEF Volumes, When
<1>3. CASE SecretTLSEnabled(s) /\ m = <<"rabbitmq-tls", "/etc/rabbitmq-tls/">>
  BY <1>3 DEF Volumes, When
<1> QED BY <1>1, <1>2, <1>3 DEF VolumeMounts, When

\* The files of the ConfigMap are mounted, and no others are from there.
LEMMA ConfigFiles ==
    ASSUME NEW s
    PROVE  {m[2] : m \in {n \in VolumeMounts(s) : n[1] = "server-conf"}} \subseteq s.files
<1> SUFFICES ASSUME NEW m \in VolumeMounts(s), m[1] = "server-conf" PROVE m[2] \in s.files
  OBVIOUS
<1> QED BY DEF VolumeMounts, When

\* What is mounted, by the operator or by the injector, under the annotations of one spec.
LEMMA FilesAreThere ==
    ASSUME NEW s, NEW annotations, s.vault \subseteq annotations
    PROVE  LET mounts == VolumeMounts(s) \cup InjectedMounts(annotations)
               paths == {m[2] : m \in mounts}
           IN  /\ "11-default_user.conf" \in paths
               /\ TLSEnabled(s) => "/etc/rabbitmq-tls/" \in paths
<1> DEFINE mounts == VolumeMounts(s) \cup InjectedMounts(annotations)
           paths == {m[2] : m \in mounts}
<1>1. \E m \in mounts : m[2] = "11-default_user.conf"
  <2>1. CASE VaultDefaultUserSecretEnabled(s)
    <3>1. <<"vault", "11-default_user.conf">> \in mounts
      BY <2>1 DEF VaultDefaultUserSecretEnabled, InjectedMounts, When
    <3> QED BY <3>1
  <2>2. CASE ~VaultDefaultUserSecretEnabled(s)
    <3>1. <<"rabbitmq-confd", "11-default_user.conf">> \in mounts
      BY <2>2 DEF VolumeMounts, When
    <3> QED BY <3>1
  <2> QED BY <2>1, <2>2
<1>2. TLSEnabled(s) => \E m \in mounts : m[2] = "/etc/rabbitmq-tls/"
  <2>1. CASE SecretTLSEnabled(s)
    <3>1. <<"rabbitmq-tls", "/etc/rabbitmq-tls/">> \in mounts
      BY <2>1 DEF VolumeMounts, When
    <3> QED BY <3>1
  <2>2. CASE VaultTLSEnabled(s)
    <3>1. <<"vault", "/etc/rabbitmq-tls/">> \in mounts
      BY <2>2 DEF VaultTLSEnabled, InjectedMounts, When
    <3> QED BY <3>1
  <2> QED BY <2>1, <2>2 DEF TLSEnabled
<1> QED BY <1>1, <1>2

LEMMA FilesAreThereOnce ==
    ASSUME NEW s \in SpecType
    PROVE  \A m, n \in VolumeMounts(s) \cup InjectedMounts(s.vault) : m[2] = n[2] => m = n
<1> DEFINE Default(m) == \/ ~VaultDefaultUserSecretEnabled(s) /\ m = <<"rabbitmq-confd", "11-default_user.conf">>
                         \/ VaultDefaultUserSecretEnabled(s) /\ m = <<"vault", "11-default_user.conf">>
           File(m) == \E file \in s.files : m = <<"server-conf", file>>
           Certs(m) == \/ ~VaultTLSEnabled(s) /\ m = <<"rabbitmq-tls", "/etc/rabbitmq-tls/">>
                       \/ VaultTLSEnabled(s) /\ m = <<"vault", "/etc/rabbitmq-tls/">>
<1>1. s.files \subseteq {"rabbitmq-env.conf", "advanced.config"}
  BY ConstantsAssumption DEF SpecType
<1>2. ~(SecretTLSEnabled(s) /\ VaultTLSEnabled(s))
  BY DEF SpecType, SecretTLSEnabled, VaultTLSEnabled
<1>3. \A m \in VolumeMounts(s) \cup InjectedMounts(s.vault) : Default(m) \/ File(m) \/ Certs(m)
  BY <1>2 DEF VolumeMounts, InjectedMounts, When, VaultDefaultUserSecretEnabled, VaultTLSEnabled
<1>4. /\ \A m : Default(m) => m[2] = "11-default_user.conf"
      /\ \A m : Certs(m) => m[2] = "/etc/rabbitmq-tls/"
  OBVIOUS
<1>5. ASSUME NEW m, File(m)
      PROVE  m = <<"server-conf", m[2]>> /\ m[2] \in {"rabbitmq-env.conf", "advanced.config"}
  BY <1>1, <1>5
<1>6. \A m, n : Default(m) /\ Default(n) => m = n
  OBVIOUS
<1>7. \A m, n : Certs(m) /\ Certs(n) => m = n
  OBVIOUS
<1> HIDE DEF Default, File, Certs
<1>8. ASSUME NEW m, NEW n, m[2] = n[2], Default(m) \/ File(m) \/ Certs(m),
             Default(n) \/ File(n) \/ Certs(n)
      PROVE  m = n
  BY <1>4, <1>5, <1>6, <1>7, <1>8
<1> QED BY <1>3, <1>8

--------------------------------------------------------------------------------
(* What a reconcile has made so far. *)

ServiceMade(s) == DOMAIN service = ServicePorts(s)
SecretMade(s) == ~VaultDefaultUserSecretEnabled(s) => secret = SecretPorts(s)
PluginsMade(s) == plugins = s.plugins
ConfMade(s) == conf = ServerConf(s)
StatefulSetMade(s) ==
    /\ sts.ports = ContainerPorts(s) /\ sts.probe = ReadinessProbePort(s)
    /\ sts.updater = UpdaterPorts(s) /\ sts.volumes = Volumes(s)
    /\ sts.mounts = VolumeMounts(s) /\ sts.secrets = ProjectedSecrets(s)
    /\ s.vault \subseteq sts.vault
    /\ sts.env = Env(s.override) /\ sts.order = MountOrder(s.override)

\* The builders before the one that comes next have applied the reconcile's spec.
Reconciling ==
    work # None =>
        /\ applied = None
        /\ work = [spec |-> work.spec, builders |-> work.builders]
        /\ work.spec \in SpecType /\ Accepted(work.spec)
        /\ work.builders \in {ResourceBuilders(work.spec), FromSecret, FromPlugins,
                              FromServerConf, FromStatefulSet}
        /\ Head(work.builders) # "Service" => ServiceMade(work.spec)
        /\ Head(work.builders) \notin {"Service", "DefaultUserSecret"} => SecretMade(work.spec)
        /\ Head(work.builders) \in {"ServerConfigMap", "StatefulSet"} => PluginsMade(work.spec)
        /\ Head(work.builders) = "StatefulSet" => ConfMade(work.spec)

\* What was applied in full is still there, as only builders change it.
Applied ==
    applied # None =>
        /\ Accepted(applied) /\ ServiceMade(applied) /\ SecretMade(applied)
        /\ PluginsMade(applied) /\ ConfMade(applied) /\ StatefulSetMade(applied)

\* The StatefulSet is made after the objects it names, and those are never deleted.
Backed ==
    sts # None =>
        /\ plugins # None /\ conf # None
        /\ "default-user" \in sts.secrets => secret # None

ResourcesInv == TypeOK /\ Reconciling /\ Applied /\ Backed

\* A builder that is not the last hands over to the next.
LEMMA BuilderDone ==
    ASSUME Reconciling
    PROVE  /\ ApplyNext("Service") =>
                  /\ applied' = applied
                  /\ work' = [spec |-> work.spec,
                              builders |-> IF VaultDefaultUserSecretEnabled(work.spec)
                                           THEN FromPlugins ELSE FromSecret]
           /\ ApplyNext("DefaultUserSecret") =>
                  applied' = applied /\ work' = [spec |-> work.spec, builders |-> FromPlugins]
           /\ ApplyNext("RabbitmqPluginsConfigMap") =>
                  applied' = applied /\ work' = [spec |-> work.spec, builders |-> FromServerConf]
           /\ ApplyNext("ServerConfigMap") =>
                  applied' = applied /\ work' = [spec |-> work.spec, builders |-> FromStatefulSet]
           /\ ApplyNext("StatefulSet") =>
                  applied' = work.spec /\ work' = None
<1>1. ASSUME NEW b, ApplyNext(b)
      PROVE  /\ work # None /\ Head(work.builders) = b
             /\ Len(work.builders) = 1 => work' = None /\ applied' = work.spec
             /\ Len(work.builders) # 1 => /\ applied' = applied
                                          /\ work' = [work EXCEPT !.builders = Tail(work.builders)]
  <2>1. /\ work # None /\ Head(work.builders) = b
        /\ work' = IF Len(work.builders) = 1 THEN None ELSE [work EXCEPT !.builders = Tail(@)]
        /\ applied' = IF Len(work.builders) = 1 THEN work.spec ELSE applied
    BY <1>1 DEF ApplyNext
  <2>2. [work EXCEPT !.builders = Tail(@)] = [work EXCEPT !.builders = Tail(work.builders)]
    BY <2>1 DEF Reconciling
  <2> QED BY <2>1, <2>2
<1>2. ASSUME work # None, NEW rest
      PROVE  [work EXCEPT !.builders = rest] = [spec |-> work.spec, builders |-> rest]
  BY <1>2 DEF Reconciling
<1>3. ASSUME NEW b, ApplyNext(b)
      PROVE  \/ b = "Service" /\ work.builders = ResourceBuilders(work.spec)
             \/ b = "DefaultUserSecret" /\ work.builders = FromSecret
             \/ b = "RabbitmqPluginsConfigMap" /\ work.builders = FromPlugins
             \/ b = "ServerConfigMap" /\ work.builders = FromServerConf
             \/ b = "StatefulSet" /\ work.builders = FromStatefulSet
  BY <1>1, <1>3, AllBuilders, RestOfBuilders DEF Reconciling
<1>4. ApplyNext("Service") =>
          /\ applied' = applied
          /\ work' = [spec |-> work.spec,
                      builders |-> IF VaultDefaultUserSecretEnabled(work.spec)
                                   THEN FromPlugins ELSE FromSecret]
  <2> SUFFICES ASSUME ApplyNext("Service")
               PROVE  /\ applied' = applied
                      /\ work' = [spec |-> work.spec, builders |-> Tail(work.builders)]
    BY <1>3, AllBuilders
  <2> QED BY <1>1, <1>2, <1>3, AllBuilders
<1>5. ApplyNext("DefaultUserSecret") =>
          applied' = applied /\ work' = [spec |-> work.spec, builders |-> FromPlugins]
  <2> SUFFICES ASSUME ApplyNext("DefaultUserSecret")
               PROVE  applied' = applied /\ work' = [spec |-> work.spec, builders |-> FromPlugins]
    OBVIOUS
  <2>1. work.builders = FromSecret
    BY <1>3
  <2>2. Tail(work.builders) = FromPlugins /\ Len(work.builders) # 1
    BY <2>1, RestOfBuilders
  <2> QED BY <1>1, <1>2, <2>2
<1>6. ApplyNext("RabbitmqPluginsConfigMap") =>
          applied' = applied /\ work' = [spec |-> work.spec, builders |-> FromServerConf]
  <2> SUFFICES ASSUME ApplyNext("RabbitmqPluginsConfigMap")
               PROVE  applied' = applied /\ work' = [spec |-> work.spec, builders |-> FromServerConf]
    OBVIOUS
  <2>1. work.builders = FromPlugins
    BY <1>3
  <2>2. Tail(work.builders) = FromServerConf /\ Len(work.builders) # 1
    BY <2>1, RestOfBuilders
  <2> QED BY <1>1, <1>2, <2>2
<1>7. ApplyNext("ServerConfigMap") =>
          applied' = applied /\ work' = [spec |-> work.spec, builders |-> FromStatefulSet]
  <2> SUFFICES ASSUME ApplyNext("ServerConfigMap")
               PROVE  applied' = applied /\ work' = [spec |-> work.spec, builders |-> FromStatefulSet]
    OBVIOUS
  <2>1. work.builders = FromServerConf
    BY <1>3
  <2>2. Tail(work.builders) = FromStatefulSet /\ Len(work.builders) # 1
    BY <2>1, RestOfBuilders
  <2> QED BY <1>1, <1>2, <2>2
<1>8. ApplyNext("StatefulSet") => applied' = work.spec /\ work' = None
  BY <1>1, <1>3, RestOfBuilders
<1> QED BY <1>4, <1>5, <1>6, <1>7, <1>8

\* A node port is given out once, and one that was given out is kept.
LEMMA NodePortsAssigned ==
    ASSUME TypeOK, UpdateService
    PROVE  /\ DOMAIN service' = ServicePorts(work.spec)
           /\ nodePort' \in Nat /\ \A p \in DOMAIN service' : service'[p] \in 0..nodePort'
           /\ service # None =>
                  \A p \in DOMAIN service \cap DOMAIN service' :
                      service[p] # 0 /\ service'[p] # 0 => service'[p] = service[p]
<1> DEFINE ports == KeepNodePorts(work.spec, service)
           new == AssignNodePorts(work.spec, ports)
<1>1. /\ service' = new /\ nodePort' = (IF new = ports THEN nodePort ELSE nodePort + 1)
      /\ nodePort \in Nat
      /\ service = None \/ \A p \in DOMAIN service : service[p] \in 0..nodePort
  BY DEF UpdateService, TypeOK
<1>2. /\ DOMAIN ports = ServicePorts(work.spec)
      /\ \A p \in DOMAIN ports : ports[p] =
             IF work.spec.type # "ClusterIP" /\ service # None /\ p \in DOMAIN service
             THEN service[p] ELSE 0
  BY DEF KeepNodePorts
<1>3. /\ DOMAIN new = ServicePorts(work.spec)
      /\ \A p \in DOMAIN ports : new[p] =
             IF work.spec.type = "NodePort" /\ ports[p] = 0 THEN nodePort + 1 ELSE ports[p]
  BY <1>2 DEF AssignNodePorts
<1> HIDE DEF ports, new
<1>4. \A p \in DOMAIN ports : ports[p] \in 0..nodePort
  BY <1>1, <1>2
<1>5. nodePort' \in Nat
  BY <1>1
<1>6. ASSUME NEW p \in DOMAIN ports
      PROVE  new[p] \in 0..nodePort'
  <2>1. CASE new[p] = ports[p]
    BY <1>1, <1>4, <2>1
  <2>2. CASE new[p] # ports[p]
    <3>1. new # ports /\ new[p] = nodePort + 1
      BY <1>3, <2>2
    <3> QED BY <1>1, <3>1
  <2> QED BY <2>1, <2>2
<1>7. service # None =>
          \A p \in DOMAIN service \cap DOMAIN new :
              service[p] # 0 /\ new[p] # 0 => new[p] = service[p]
  BY <1>2, <1>3
<1> QED BY <1>1, <1>2, <1>3, <1>5, <1>6, <1>7

LEMMA SpecTyped ==
    ASSUME NEW s \in SpecType
    PROVE  /\ s.disableNonTLSListeners \in BOOLEAN
           /\ s.vault \subseteq {"agent", "user", "tls"}
BY DEF SpecType

\* The objects and the reconcile stay as they are.
LEMMA Untouched ==
    ASSUME Reconciling, Applied, Backed,
           UNCHANGED <<work, applied, service, secret, plugins, conf, sts>>
    PROVE  Reconciling' /\ Applied' /\ Backed'
BY DEF Reconciling, Applied, Backed, ServiceMade, SecretMade, PluginsMade, ConfMade, StatefulSetMade

LEMMA ResourcesInit == Init => ResourcesInv
BY ConstantsAssumption DEF Init, ResourcesInv, TypeOK, Reconciling, Applied, Backed

\* A builder that is not the last: nothing counts as applied.
LEMMA NotYetApplied ==
    ASSUME Reconciling, work # None, applied' = applied
    PROVE  Applied'
BY DEF Reconciling, Applied

LEMMA ResourcesNext == ResourcesInv /\ [Next]_vars => ResourcesInv'
<1> SUFFICES ASSUME ResourcesInv, [Next]_vars PROVE ResourcesInv'
  OBVIOUS
<1>0. /\ TypeOK /\ Reconciling /\ Applied /\ Backed
      /\ work # None => work.spec \in SpecType /\ applied = None
  BY DEF ResourcesInv, Reconciling
<1>1. CASE StartReconcile
  <2>1. /\ work = None /\ Accepted(cr) /\ cr \in SpecType /\ applied' = None
        /\ work' = [spec |-> cr, builders |-> ResourceBuilders(cr)]
        /\ UNCHANGED <<cr, service, secret, plugins, conf, sts, nodePort, edits, faults>>
    BY <1>0, <1>1 DEF StartReconcile, TypeOK
  <2>2. TypeOK'
    BY <1>0, <2>1, SomeBuilders DEF TypeOK
  <2>3. Reconciling'
    BY <2>1, AllBuilders DEF Reconciling
  <2>4. Applied' /\ Backed'
    BY <1>0, <2>1 DEF Applied, Backed
  <2> QED BY <2>2, <2>3, <2>4 DEF ResourcesInv
<1>2. CASE UpdateService
  <2>1. /\ ApplyNext("Service") /\ work # None
        /\ UNCHANGED <<cr, edits, faults, secret, plugins, conf, sts>>
    BY <1>2 DEF UpdateService, ApplyNext
  <2>2. /\ applied' = applied
        /\ work' = [spec |-> work.spec,
                    builders |-> IF VaultDefaultUserSecretEnabled(work.spec)
                                 THEN FromPlugins ELSE FromSecret]
    BY <1>0, <2>1, BuilderDone
  <2>3. TypeOK'
    BY <1>0, <1>2, <2>1, <2>2, NodePortsAssigned, SomeBuilders DEF TypeOK
  <2>4. Reconciling'
    <3>1. ServiceMade(work.spec)'
      BY <1>0, <1>2, <2>2, NodePortsAssigned DEF ServiceMade
    <3>2. CASE VaultDefaultUserSecretEnabled(work.spec)
      BY <1>0, <2>1, <2>2, <3>1, <3>2, RestOfBuilders DEF Reconciling, SecretMade
    <3>3. CASE ~VaultDefaultUserSecretEnabled(work.spec)
      BY <1>0, <2>1, <2>2, <3>1, <3>3, RestOfBuilders DEF Reconciling
    <3> QED BY <3>2, <3>3
  <2>5. Applied' /\ Backed'
    BY <1>0, <2>1, <2>2, NotYetApplied DEF Backed
  <2> QED BY <2>3, <2>4, <2>5 DEF ResourcesInv
<1>3. CASE UpdateDefaultUserSecret
  <2>1. /\ ApplyNext("DefaultUserSecret") /\ work # None /\ secret' = SecretPorts(work.spec)
        /\ Head(work.builders) = "DefaultUserSecret"
        /\ UNCHANGED <<cr, edits, faults, service, plugins, conf, sts, nodePort>>
    BY <1>3 DEF UpdateDefaultUserSecret, ApplyNext
  <2>2. applied' = applied /\ work' = [spec |-> work.spec, builders |-> FromPlugins]
    BY <1>0, <2>1, BuilderDone
  <2>3. TypeOK'
    BY <1>0, <2>1, <2>2, SomeBuilders DEF TypeOK
  <2>4. Reconciling'
    BY <1>0, <2>1, <2>2, RestOfBuilders DEF Reconciling, ServiceMade, SecretMade
  <2>5. Applied' /\ Backed'
    BY <1>0, <2>1, <2>2, NotYetApplied, NoneAssumption DEF Backed
  <2> QED BY <2>3, <2>4, <2>5 DEF ResourcesInv
<1>4. CASE UpdatePlugins
  <2>1. /\ ApplyNext("RabbitmqPluginsConfigMap") /\ work # None /\ plugins' = work.spec.plugins
        /\ Head(work.builders) = "RabbitmqPluginsConfigMap"
        /\ UNCHANGED <<cr, edits, faults, service, secret, conf, sts, nodePort>>
    BY <1>4 DEF UpdatePlugins, ApplyNext
  <2>2. applied' = applied /\ work' = [spec |-> work.spec, builders |-> FromServerConf]
    BY <1>0, <2>1, BuilderDone
  <2>3. TypeOK'
    BY <1>0, <2>1, <2>2, SomeBuilders DEF TypeOK
  <2>4. Reconciling'
    BY <1>0, <2>1, <2>2, RestOfBuilders DEF Reconciling, ServiceMade, SecretMade, PluginsMade
  <2>5. Applied' /\ Backed'
    BY <1>0, <2>1, <2>2, NotYetApplied, NoneAssumption DEF Backed
  <2> QED BY <2>3, <2>4, <2>5 DEF ResourcesInv
<1>5. CASE UpdateServerConf
  <2>1. /\ ApplyNext("ServerConfigMap") /\ work # None /\ conf' = ServerConf(work.spec)
        /\ Head(work.builders) = "ServerConfigMap"
        /\ UNCHANGED <<cr, edits, faults, service, secret, plugins, sts, nodePort>>
    BY <1>5 DEF UpdateServerConf, ApplyNext
  <2>2. applied' = applied /\ work' = [spec |-> work.spec, builders |-> FromStatefulSet]
    BY <1>0, <2>1, BuilderDone
  <2>3. TypeOK'
    BY <1>0, <2>1, <2>2, SomeBuilders DEF TypeOK
  <2>4. Reconciling'
    BY <1>0, <2>1, <2>2, RestOfBuilders
    DEF Reconciling, ServiceMade, SecretMade, PluginsMade, ConfMade
  <2>5. Applied' /\ Backed'
    BY <1>0, <2>1, <2>2, NotYetApplied, NoneAssumption DEF Backed
  <2> QED BY <2>3, <2>4, <2>5 DEF ResourcesInv
<1>6. CASE UpdateStatefulSet
  <2>1. /\ ApplyNext("StatefulSet") /\ work # None /\ sts' = PodTemplate(work.spec, sts)
        /\ Head(work.builders) = "StatefulSet"
        /\ UNCHANGED <<cr, edits, faults, service, secret, plugins, conf, nodePort>>
    BY <1>6 DEF UpdateStatefulSet, ApplyNext
  <2>2. applied' = work.spec /\ work' = None /\ work.spec \in SpecType
    BY <1>0, <2>1, BuilderDone
  <2>3. /\ sts'.ports = ContainerPorts(work.spec) /\ sts'.probe = ReadinessProbePort(work.spec)
        /\ sts'.updater = UpdaterPorts(work.spec) /\ sts'.volumes = Volumes(work.spec)
        /\ sts'.mounts = VolumeMounts(work.spec) /\ sts'.secrets = ProjectedSecrets(work.spec)
        /\ sts'.vault = work.spec.vault \cup (IF sts = None THEN {} ELSE sts.vault)
        /\ sts'.env = Env(work.spec.override) /\ sts'.order = MountOrder(work.spec.override)
    BY <2>1 DEF PodTemplate, VaultAnnotations
  <2>4. TypeOK'
    <3>1. sts'.vault \subseteq {"agent", "user", "tls"}
      BY <1>0, <2>2, <2>3, SpecTyped DEF TypeOK
    <3> QED BY <1>0, <2>1, <2>2, <3>1 DEF TypeOK
  <2>5. Reconciling'
    BY <2>2 DEF Reconciling
  <2>6. /\ Accepted(work.spec) /\ ServiceMade(work.spec) /\ SecretMade(work.spec)
        /\ PluginsMade(work.spec) /\ ConfMade(work.spec)
    BY <1>0, <2>1 DEF Reconciling
  <2>7. Applied'
    <3>1. /\ DOMAIN service' = ServicePorts(work.spec) /\ plugins' = work.spec.plugins
          /\ ~VaultDefaultUserSecretEnabled(work.spec) => secret' = SecretPorts(work.spec)
          /\ conf' = ServerConf(work.spec) /\ work.spec.vault \subseteq sts'.vault
      BY <2>1, <2>3, <2>6 DEF ServiceMade, SecretMade, PluginsMade, ConfMade
    <3> QED BY <2>2, <2>3, <2>6, <3>1
            DEF Applied, ServiceMade, SecretMade, PluginsMade, ConfMade, StatefulSetMade
  <2>8. Backed'
    <3>1. plugins # None /\ conf # None
      BY <2>2, <2>6, NoneAssumption DEF PluginsMade, ConfMade
    <3>2. "default-user" \in ProjectedSecrets(work.spec) => ~VaultDefaultUserSecretEnabled(work.spec)
      BY DEF ProjectedSecrets, When
    <3>3. "default-user" \in sts'.secrets => secret # None
      BY <2>2, <2>3, <2>6, <3>2, NoneAssumption DEF SecretMade
    <3> QED BY <2>1, <3>1, <3>3 DEF Backed
  <2> QED BY <2>4, <2>5, <2>7, <2>8 DEF ResourcesInv
<1>7. CASE Fail
  <2>1. /\ work # None /\ faults < MaxFaults /\ work' = None /\ faults' = faults + 1
        /\ UNCHANGED <<cr, applied, service, secret, plugins, conf, sts, nodePort, edits>>
    BY <1>7 DEF Fail
  <2>2. TypeOK'
    BY <1>0, <2>1, ConstantsAssumption DEF TypeOK
  <2>3. Reconciling' /\ Applied' /\ Backed'
    BY <1>0, <2>1, NotYetApplied DEF Reconciling, Backed
  <2> QED BY <2>2, <2>3 DEF ResourcesInv
<1>8. CASE Edit
  <2>1. /\ edits < MaxEdits /\ cr' \in SpecType /\ edits' = edits + 1
        /\ UNCHANGED <<work, applied, service, secret, plugins, conf, sts, nodePort, faults>>
    BY <1>8 DEF Edit
  <2>2. TypeOK'
    BY <1>0, <2>1, ConstantsAssumption DEF TypeOK
  <2> QED BY <1>0, <2>1, <2>2, Untouched DEF ResourcesInv
<1>9. CASE UNCHANGED vars
  <2>1. TypeOK'
    BY <1>0, <1>9 DEF TypeOK, vars
  <2> QED BY <1>0, <1>9, <2>1, Untouched DEF ResourcesInv, vars
<1> QED
  BY <1>1, <1>2, <1>3, <1>4, <1>5, <1>6, <1>7, <1>8, <1>9 DEF Next

--------------------------------------------------------------------------------
(* The theorems. *)

LEMMA SettledMeansMade ==
    ASSUME ResourcesInv, Settled
    PROVE  /\ cr \in SpecType /\ Accepted(cr) /\ cr.disableNonTLSListeners \in BOOLEAN
           /\ ServiceMade(cr) /\ SecretMade(cr) /\ StatefulSetMade(cr)
           /\ conf = ServerConf(cr) /\ plugins = cr.plugins
<1>1. cr \in SpecType /\ cr # None /\ applied = cr
  BY NoneAssumption DEF ResourcesInv, TypeOK, Settled
<1> QED BY <1>1, SpecTyped DEF ResourcesInv, Applied, PluginsMade, ConfMade

\* The variables keep their types: a reconcile always has a builder to go on with, and the
\* node ports in the Service are ports that were given out (Reconcile's loop over the
\* builders).
THEOREM TypeCorrect == Spec => []TypeOK
<1>1. ResourcesInv => TypeOK
  BY DEF ResourcesInv
<1> QED BY ResourcesInit, ResourcesNext, <1>1, PTL DEF Spec

\* The Service, the pod template and rabbitmq.conf, made by three builders in three calls
\* that may fail, agree on the ports (ServiceBuilder, StatefulSetBuilder,
\* ServerConfigMapBuilder).
THEOREM PortsAnswerHolds == Spec => []PortsAnswer
<1>1. ResourcesInv => PortsAnswer
  <2> SUFFICES ASSUME ResourcesInv, Settled
               PROVE  /\ DOMAIN service \subseteq sts.ports
                      /\ sts.ports \ {4369} \subseteq NodeListeners
                             \cup When(StreamIsOverlooked(cr), TLSPortsOf({"rabbitmq_stream"}))
    BY DEF PortsAnswer
  <2>1. /\ Accepted(cr) /\ cr.disableNonTLSListeners \in BOOLEAN
        /\ DOMAIN service = ServicePorts(cr) /\ sts.ports = ContainerPorts(cr)
        /\ NodeListeners = Listeners(ServerConf(cr), cr.plugins)
    BY SettledMeansMade DEF ServiceMade, StatefulSetMade, NodeListeners
  <2>2. ServicePorts(cr) \subseteq ContainerPorts(cr)
    BY <2>1, ServicePortsAreContainerPorts
  <2>3. ContainerPorts(cr) \ {4369} \subseteq Listeners(ServerConf(cr), cr.plugins)
            \cup When(StreamIsOverlooked(cr), TLSPortsOf({"rabbitmq_stream"}))
    BY <2>1, ContainerPortsAreListeners
  <2> QED BY <2>1, <2>2, <2>3
<1> QED BY ResourcesInit, ResourcesNext, <1>1, PTL DEF Spec

\* The default user Secret names ports that the Service has, but for the two differences
\* between the builders that the property names (DefaultUserSecretBuilder, ServiceBuilder).
THEOREM SecretPortsAreServedHolds == Spec => []SecretPortsAreServed
<1>1. ResourcesInv => SecretPortsAreServed
  <2> SUFFICES ASSUME ResourcesInv, Settled, ~VaultDefaultUserSecretEnabled(cr)
               PROVE  \/ VaultTLSEnabled(cr) /\ cr.disableNonTLSListeners
                      \/ secret \ DOMAIN service
                             \subseteq When(~MutualTLSEnabled(cr), TLSPortsOf(WebPlugins))
    BY DEF SecretPortsAreServed
  <2>1. /\ Accepted(cr) /\ cr.disableNonTLSListeners \in BOOLEAN
        /\ DOMAIN service = ServicePorts(cr) /\ secret = SecretPorts(cr)
    BY SettledMeansMade DEF ServiceMade, SecretMade
  <2> QED BY <2>1, SecretPortsAreServicePorts
<1> QED BY ResourcesInit, ResourcesNext, <1>1, PTL DEF Spec

\* The readiness probe and the sidecar call ports that the pod of the same template serves
\* with the rabbitmq.conf of the same spec (StatefulSetBuilder, ServerConfigMapBuilder).
THEOREM PodsAnswerThemselvesHolds == Spec => []PodsAnswerThemselves
<1>1. ResourcesInv => PodsAnswerThemselves
  <2> SUFFICES ASSUME ResourcesInv, Settled
               PROVE  {sts.probe} \cup sts.updater \subseteq sts.ports \cap NodeListeners
    BY DEF PodsAnswerThemselves
  <2>1. /\ Accepted(cr) /\ cr.disableNonTLSListeners \in BOOLEAN
        /\ sts.ports = ContainerPorts(cr) /\ sts.probe = ReadinessProbePort(cr)
        /\ sts.updater = UpdaterPorts(cr)
        /\ NodeListeners = Listeners(ServerConf(cr), cr.plugins)
    BY SettledMeansMade DEF StatefulSetMade, NodeListeners
  <2>2. {ReadinessProbePort(cr)} \cup UpdaterPorts(cr) \subseteq
            ContainerPorts(cr) \cap Listeners(ServerConf(cr), cr.plugins)
    BY <2>1, ProbesAreAnswered
  <2> QED BY <2>1, <2>2
<1> QED BY ResourcesInit, ResourcesNext, <1>1, PTL DEF Spec

\* Whatever the sources of certificates and credentials, each file is there, and once
\* unless annotations of an earlier spec are left (StatefulSetBuilder, Vault's annotations).
THEOREM FilesHaveOneSourceHolds == Spec => []FilesHaveOneSource
<1>1. ResourcesInv => FilesHaveOneSource
  <2> DEFINE mounts == sts.mounts \cup InjectedMounts(sts.vault)
             paths == {m[2] : m \in mounts}
  <2> SUFFICES ASSUME ResourcesInv, Settled
               PROVE  /\ {m[1] : m \in sts.mounts} \subseteq sts.volumes
                      /\ "11-default_user.conf" \in paths
                      /\ TLSEnabled(cr) => "/etc/rabbitmq-tls/" \in paths
                      /\ sts.vault \subseteq cr.vault =>
                             \A m, n \in mounts : m[2] = n[2] => m = n
    BY DEF FilesHaveOneSource
  <2>1. /\ cr \in SpecType /\ sts.mounts = VolumeMounts(cr) /\ sts.volumes = Volumes(cr)
        /\ cr.vault \subseteq sts.vault
    BY SettledMeansMade DEF StatefulSetMade
  <2>2. {m[1] : m \in sts.mounts} \subseteq sts.volumes
    BY <2>1, MountsHaveVolumes
  <2>3. "11-default_user.conf" \in paths /\ (TLSEnabled(cr) => "/etc/rabbitmq-tls/" \in paths)
    BY <2>1, FilesAreThere
  <2>4. ASSUME sts.vault \subseteq cr.vault
        PROVE  \A m, n \in mounts : m[2] = n[2] => m = n
    <3>1. sts.vault = cr.vault
      BY <2>1, <2>4
    <3>2. mounts = VolumeMounts(cr) \cup InjectedMounts(cr.vault)
      BY <2>1, <3>1
    <3> QED BY <2>1, <3>2, FilesAreThereOnce
  <2> QED BY <2>2, <2>3, <2>4
<1> QED BY ResourcesInit, ResourcesNext, <1>1, PTL DEF Spec

\* Wherever a reconcile stops, no pod template names an object that does not exist
\* (ResourceBuilders' order).
THEOREM TemplateIsBackedHolds == Spec => []TemplateIsBacked
<1>1. ResourcesInv => TemplateIsBacked
  <2> SUFFICES ASSUME ResourcesInv, sts # None
               PROVE  /\ plugins # None /\ conf # None
                      /\ "default-user" \in sts.secrets => secret # None
                      /\ \/ {m[2] : m \in {n \in sts.mounts : n[1] = "server-conf"}} \subseteq conf.files
                         \/ applied = None
    BY DEF TemplateIsBacked
  <2>1. /\ plugins # None /\ conf # None
        /\ "default-user" \in sts.secrets => secret # None
    BY DEF ResourcesInv, Backed
  <2>2. ASSUME applied # None
        PROVE  {m[2] : m \in {n \in sts.mounts : n[1] = "server-conf"}} \subseteq conf.files
    <3>1. sts.mounts = VolumeMounts(applied) /\ conf = ServerConf(applied)
      BY <2>2 DEF ResourcesInv, Applied, StatefulSetMade, ConfMade
    <3>2. conf.files = applied.files
      BY <3>1 DEF ServerConf
    <3> QED BY <3>1, <3>2, ConfigFiles
  <2> QED BY <2>1, <2>2
<1> QED BY ResourcesInit, ResourcesNext, <1>1, PTL DEF Spec

\* A port that stays in the Service keeps its node port, whatever changes around it
\* (updatePorts).
THEOREM NodePortsAreKeptHolds == Spec => NodePortsAreKept
<1>1. ResourcesInv /\ [Next]_vars =>
        [service # None =>
            \A p \in DOMAIN service \cap DOMAIN service' :
                service[p] # 0 /\ service'[p] # 0 => service'[p] = service[p]]_<<service>>
  <2> SUFFICES ASSUME ResourcesInv, [Next]_vars, service' # service, service # None
               PROVE  \A p \in DOMAIN service \cap DOMAIN service' :
                          service[p] # 0 /\ service'[p] # 0 => service'[p] = service[p]
    OBVIOUS
  <2>1. UpdateService
    BY DEF Next, vars, StartReconcile, UpdateDefaultUserSecret, UpdatePlugins,
       UpdateServerConf, UpdateStatefulSet, Fail, Edit
  <2> QED BY <2>1, NodePortsAssigned DEF ResourcesInv
<1> QED BY ResourcesInit, ResourcesNext, <1>1, PTL DEF Spec, NodePortsAreKept

=============================================================================
