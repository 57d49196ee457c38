# TLA+ models of the point-of-sale data showcase

The repository holds two programs of its own with logic worth checking:

* the **RabbitmqCluster operator** (Go, Kubernetes controller), under
  `src/deployment/cloud/k8/data-services/rabbitmq/setup/install_commericial/cluster-operator/`,
  called `OP/` below. It turns a `RabbitmqCluster` resource into Services, Secrets,
  ConfigMaps and a StatefulSet, and keeps them up to date while users edit the resource;
* the **point-of-sale applications** (C#) under `src/applications/`: `pos-publisher`
  sends products to RabbitMQ, `pos-consumer` saves them in Redis, and `pos-service` reads
  and writes the same keys.

The rest is deployment data, examples, generated code and scripts. This directory models
the logic of both programs: six modules that are model-checked, two abstract specifications
that two of them implement, and eight modules of proofs.

## 1. Inventory

| Component | State it keeps | Operations | Module |
|---|---|---|---|
| Reconcile loop, `OP/controllers/rabbitmqcluster_controller.go`, `reconcile_*.go` | resource, informer's copy, work queue, annotations on the children, StatefulSet, pods | the steps of `Reconcile`, in their order | `ClusterReconciler` |
| Status conditions, `OP/api/v1beta1/rabbitmqcluster_status.go`, `OP/internal/status/` | `AllReplicasReady`, `ClusterAvailable`, `NoWarnings`, `ReconcileSuccess`, `observedGeneration` | set during a reconcile from what the informers show | `ClusterStatus`; the pause warning in `ClusterReconciler` |
| Persistence scaling, `OP/internal/scaling/scaling.go` | StatefulSet, PersistentVolumeClaims | `Scale`: guards, delete, expand the claims, create | `PersistenceScaling` |
| Deletion, `OP/controllers/reconcile_finalizer.go` | finalizer, deletion labels | `addFinalizerIfNeeded`, `prepareForDeletion`, `removeFinalizer` | `ClusterDeletion` |
| Resource builders, `OP/internal/resource/*.go` | none of their own | `Build` and `Update` of each child | `ClusterResources` (ports, files, plugins, lists under an override); what the reconcile loop and the scaler need of them also in their modules |
| Headless Service, Erlang cookie, RBAC | - | constant objects | not modelled: nothing depends on the spec but names |
| API types, labels and annotations | - | predicates, merging | as far as the above use them |
| Pod executor | - | runs a command in a pod | an external call that succeeds or fails |
| Operator `main.go`, profiling | - | wiring | not modelled: leader election leaves one active operator |
| POS publisher, consumer, service, `src/applications/` | queue, deliveries, Redis | publish, receive, save, acknowledge, give back | `ProductPipeline` |
| Manifests, examples, system tests | - | - | not modelled: data, or documentation of what is intended |

How they interact:

* The operator and its users meet at the API server only. The operator reads the
  `RabbitmqCluster` from an informer's cache, which may be old, and writes with the version
  it read; the API server refuses a write from an old version.
* The parts of the operator meet in **annotations and status fields**. A step leaves
  `pluginsUpdatedAt`, `serverConfUpdatedAt`, `createdAt` or `queueRebalanceNeededAt` on an
  object, and a later step, often of a later reconcile, acts on it and takes it away. The
  operator has no other memory, so what is not written there when it stops is forgotten.
* The StatefulSet controller and the garbage collector act on the children concurrently.
* The applications meet in the queue `pos.products.consumer` and in the keys of Redis.

What is hard to get right, and hard to test:

* a crash or a failed call between a write and the annotation that should follow it;
* decisions on something read earlier: the cached resource, the StatefulSet's status, the
  list of claims, the cached object of a cluster that is deleted and created again;
* the window in an expansion in which there is no StatefulSet to compare with;
* edits of the spec while a reconcile runs, is paused, is refused, or has to be retried;
* informers that show a child late: the operator's own last write too, so that an update
  conflicts, finds nothing to do, or a restart is decided twice;
* several builders that derive the same ports and files by separate conditions;
* sorting lists in place that a user's override was merged into;
* redelivery: what is saved twice, in which order, and what comes back for ever.

`PROJECT.json` lists 40 hazards, each at its line and with the properties that cover it. The
ones that no property covers say why.

## 2. The modules

Conventions. One action per API call or other step that changes state; guards are the
code's conditions and early returns. `pc` names the step of the reconcile that comes next.
A copy of the resource is a record `[obj, latest]`: `latest` says whether it is still the
version that the API server has, which is all that optimistic concurrency depends on.
`None` is an absent object. Child objects behind an informer are `[seen, actual, latest]`
in `ClusterStatus`. Variables called *history* are read by no action of the
system. Definitions that are wrong on purpose stand next to the one they vary
(`FinishSetPluginsEarly`, `ApplyNextForever`, `desiredStsOffByOne`, ...) and belong to no
specification: each is a plausible bug that makes one of the properties fail, and
`PROJECT.json` says which.

### `ClusterReconciler`: the reconcile loop

One worker, one cluster. A reconcile is `StartReconcile` (read from the cache), the pause
label, the defaults, the finalizer, the status conditions, TLS, the rebalance mark, the two
ConfigMaps and their annotations, the StatefulSet with the scale-down guard and its
annotation, the restart, the status, the CLI commands and the final status write. Each
write of the resource may conflict, with the code's different reactions: returned as an
error, requeued, or swallowed. `CallFails`, `RecordedCallFails`, `AnswerLost`,
`FinalStatusWriteFails` and `Crash` are the failures; `lost` remembers which annotation a
failure has swallowed. The environment is `EditSpec`, `TogglePause`, `CacheCatchesUp`,
`Resync`, `Tick` (the clock in whole seconds, which `restartAt` and the `updatedAt`
annotations are compared in), the StatefulSet controller and the pods it rolls.

Abstractions:
- contents of rabbitmq.conf, plugins and templates are model values;
- a step that finds nothing to do is passed over (`AfterDefaults`, `AfterPlugins`, ...), and
  builders without a post-step appear only as calls that may fail;
- the up to three default updates of `reconcileOperatorDefaults` are one write; the queue
  rebalance and the removal of its mark are one step;
- a missing or failing TLS Secret is a `RecordedCallFails` at that step (`ClusterStatus` has the
  Secret itself);
- the child objects are read live here. Their informers may lag behind the operator's own
  writes: that is `ClusterStatus`, and for an expansion `PersistenceScaling`;
- the informer never goes back when the operator restarts; `ClusterDeletion` drops this.

### `DeclaredCluster`: what the reconcile loop promises

Users declare specs, each a new generation; the operator changes what there is, perhaps by
way of specs that are outdated; it reports a generation as observed only when everything is
as that generation declares it, and then changes nothing until users declare something else.
`ClusterReconciler` implements it (`ImplementsDeclared`). The refinement mapping takes the
spec in the API server as declared, `observedGeneration` as observed, and the contents of the
two ConfigMaps, the pod template and the replicas as what there is.

### `ClusterStatus`: the status and the informers of the children

The reconcile once more, cut down to the four conditions, the server ConfigMap with its
annotation and restart, and the StatefulSet; but every child is read from its informer, which
shows the operator's own writes, too, only when it gets to them. The module keeps, of each
child, what the informer shows, what the API server has and whether these are the same
version. An update of an older version conflicts: `CreateOrUpdateFails`, `AnnotateFails` and
`RestartFails` are the conflicts that outlast the retries. Events of the StatefulSet and the
ConfigMap queue a reconcile. The Endpoints are read through an informer as well, but
`SetupWithManager` does not watch them, so nothing follows their change but the resync.
Clusters that an earlier operator deployed, and that were edited while it was away, are initial
states too. A spec may name a TLS Secret that the user creates or completes only later:
nothing watches it, and only the error that `reconcileTLS` returns (`RejectTLS`) brings the
next attempt. The Secret is written once the spec names it, and then stays complete. The
Secret of the CA certificate is checked in the same way and not modelled apart.
Left to `ClusterReconciler`: plugins, commands, the pause, the resource's own informer and
failing calls.

The model shows three things that the code does and no comment speaks of. The annotation of
a changed ConfigMap can be lost without any failed call, because the five attempts of
`updateAnnotation` (`OP/controllers/utils.go:36`) take some 50 ms and the informer may be slower
than that. A restart stamped in the same second as the annotation is followed by another
one. And a restart that the informer does not show yet may be decided once more, but
restarts do not go on (`RestartsSettle`).

### `PersistenceScaling`: expanding volumes

`Scale` call by call: the guards against shrinking, the claims read from the API server,
the StatefulSet deleted with its pods left as orphans, up to ten attempts to see it gone,
each claim updated, the StatefulSet created anew; then the scale-down guard and
`CreateOrUpdate`, which read the *cached* StatefulSet. The StatefulSet may create a claim
between the read of the claims and its own deletion. Of the other steps of `Reconcile` the
module keeps that they can conflict (`EarlierStepConflicts`) and that the last ones wait
for the pods.

### `ClusterDeletion`: the finalizer

All clusters of an instance have one name: one after the other in one namespace, or in two
namespaces. A cluster object stands for its UID and a StatefulSet is named by the cluster
that owns it. `prepareForDeletion` reads the cached StatefulSet, lists the pods, labels
them one at a time and deletes the StatefulSet; whatever fails is logged and the finalizer
removed. `behind` and `Restart` let a restarted operator start from an API server that
lags. `excused` holds the clusters whose error was logged, or whose StatefulSet such an
operator created again.

### `ClusterResources`: what the builders produce

The Service's ports and node ports, the ports in the default user Secret, the plugins, the
listeners and files of rabbitmq.conf, and of the pod template the ports, the probe, the
volumes, mounts and Vault annotations, as functions of the spec and of what was there
before. One builder runs per call, in the order of `ResourceBuilders`, so that a failure or
an edit leaves a mixture. External: which ports RabbitMQ opens for a configuration
(`Listeners`), what Vault's injector mounts (`InjectedMounts`) and how the API server
assigns node ports (`AssignNodePorts`).

An override of the StatefulSet is what it says of the `rabbitmq` container's environment and
mounts, and whether it lists a container of the user's before that one. The strategic merge
of Kubernetes is external (`MergedKeys`: the patch keeps its order, the rest goes in before
what it preceded, a repeated key stays where it is first); `sortEnvVar` and
`sortVolumeMounts` are the code's single pass over the slice that swaps elements to their places
while it goes (`SwapToSlots`). Both are judged by what Kubernetes makes of the result, and not by
the order they aim at.

Left out: two sources of certificates at once, the other fields of overrides,
`additionalConfig` that overrides listeners, memory headroom, the wording of commands, and a
container of the user's with fewer variables than `sortEnvVar` has places.

### `ProductPipeline`: from the point of sale to Redis

Publishers send versions of products to the exchange. Before the consumer has declared the
queue a message is dropped. Each delivery is saved and then acknowledged, in two steps;
anything that throws gives it back at once (`Reject`), and a lost connection gives
everything back. Whether a message comes back at the head or the tail is left open. The
`pos-service` writes the same keys directly. RabbitMQ and Redis are external, modelled from
how this code uses them. Nothing in the repository sets a prefetch count, so it is a
constant. `overtaken` is the history of ids with a message that came back behind a newer
one, or that a direct save overtook.

### `ProductDelivery`: what the pipeline promises

Each product that is taken over is saved at least once, only then settled, and not saved any
more from then on; every one is settled in the end. `ProductPipeline` implements it, its
fairness included (`ImplementsDelivery`): a message on its way, in the queue or delivered is
sent and not settled.

### `MC*` modules

Each `MCx` extends `x` and defines the finite sets that its `.cfg` files assign. No
symmetry is used: the runs with a temporal property may not have it, and in the others the
values are told apart by the initial state.

## 3. What the runs check

`tlc -config <cfg> <module>`, all with exhaustive search. Distinct states in brackets.

| Run, configuration | Question | Properties |
|---|---|---|
| `reconciler_safety`, `MCClusterReconciler_safety.cfg` (2.5M) | What the operator reports, keeps and never takes away: a new cluster of two nodes, any edit, one failure anywhere | `TypeOK LatestCopies ObservedMeansDeployed NoLostPlugins NoLostRestart NoScaleDown ObservedMonotone ImplementsDeclared` |
| `reconciler_liveness`, `..._liveness.cfg` (440k) | No, one or two nodes through an edit, a rollout, a pause and both rejected specs, with a failure where there is at most one node | `Converges RestartsSettle RebalanceMarkHonoured` |
| `status_informers`, `MCClusterStatus.cfg` (830k) | A new cluster, or a deployed one edited meanwhile, and one more edit, with informers of the children that lag and a TLS Secret that comes late | `TypeOK StatusIsTrueAtRest NoLostRestart StatusCatchesUp RestartsSettle` |
| `reconciler_crash`, `..._crash.cfg` | *fails:* does a change of rabbitmq.conf always restart the nodes? | `ConfChangeRestartsNodes` |
| `reconciler_rebalance`, `..._rebalance.cfg` | *fails:* does every update end in a rebalance? | `UpdatesAreRebalanced` |
| `scaling_expansion`, `MCPersistenceScaling_expansion.cfg` (460k) | Any two edits of storage and replicas, from every storage, one failure anywhere | `TypeOK ObservedMeansExpanded VolumesNeverShrink Converges` |
| `scaling_window`, `..._window.cfg` | *fails:* does an expansion keep the nodes that run? | `ExpansionKeepsNodes` |
| `deletion_recreated`, `MCClusterDeletion_recreated.cfg` (401k) | A cluster and a later one of its name | `TypeOK FinalizerKeepsItsPromise OthersKeepTheirStatefulSet DeletionCompletes` |
| `deletion_namesakes`, `..._namesakes.cfg` | *fails:* are the nodes of a live cluster checked before they stop? | `LiveNodesAreChecked` |
| `pipeline_delivery`, `MCProductPipeline.cfg` (263k) | Four writes of two products, a message that is no product, two failures | `TypeOK NoLostProduct StoredInOrder ImplementsDelivery` |
| `resources_ports`, `MCClusterResources_ports.cfg` (4.5M) | Do the objects of the builders agree, whatever the spec was before, and are the node's variables and mounts in an order that works under an override | `TypeOK PortsAnswer SecretPortsAreServed PodsAnswerThemselves FilesHaveOneSource TemplateIsBacked ReferencesResolve DataIsNotShadowed NodePortsAreKept` |
| `resources_plain`, `..._plain.cfg` | *fails:* does `disableNonTLSListeners` leave TLS clients only? | `OnlyTLSClientsConnect` |

### What the passing runs show

* `LatestCopies`: no write of the operator overwrites an edit it has not read.
* `ObservedMeansDeployed`: when `observedGeneration` is the generation, the children hold
  that spec, the restart it calls for was asked for and no command is outstanding.
* `NoLostPlugins`, `NoLostRestart`: a pod with old plugins or an old rabbitmq.conf is going
  to be dealt with, by an annotation or by the step about to write it, unless a failure hit
  that very step (`lost`). This is the exact extent of what a crash can lose.
* `Converges` (reconcile loop): after the last edit and failure the cluster is paused and
  says so, or rejected and says so, or runs the spec it reports as observed, or has no nodes
  and says that it fails. The last is a case of its own: with `replicas: 0` all replicas are ready at once, the feature
  flags are to be enabled on pod 0 (`OP/controllers/reconcile_cli.go:70`), and the reconcile
  fails again and again, with `ReconcileSuccess` false, until the spec has a node. An edit
  that gives it one settles.
* `ImplementsDeclared`: while a generation is reported as observed nothing is changed, whatever
  copy a reconcile works on.
* `StatusIsTrueAtRest`: each read that came too early is followed by an event that corrects it,
  so when nothing is left to do the status is right, and no cluster rests that waits for its
  TLS Secret; but for `ClusterAvailable`, of which `StatusCatchesUp` says that it is right at
  the latest after the resync. While the Secret is wanting the status ends with saying so.
* `NoLostRestart` (status): a node with an old rabbitmq.conf is restarted unless the annotation
  was given up (`lost`).
* `Converges` (scaling): the same, *or the cluster is stuck and says so*. `Stuck` is real:
  an expansion that fails after the claims were updated, a return to the old storage and a
  new expansion leave no claim for `Scale` to expand, so it keeps the StatefulSet, whose
  template `CreateOrUpdate` may not change. Contrast `OP/internal/resource/statefulset.go:90`.
* `ObservedMeansExpanded` speaks of the operator at rest, because a reconcile can report
  success while a claim that appeared after `getClusterPVCs` is too small; it is found later.
* `OthersKeepTheirStatefulSet`: the UID precondition of the deletion protects a successor's
  StatefulSet however old the cached objects are.
* `FinalizerKeepsItsPromise`: unless an error was logged, no StatefulSet and no unlabelled
  pod of those listed is left behind.
* `NoLostProduct`: a product the queue took is saved before its message is gone.
* `ImplementsDelivery`: delivery at least once, and never again once acknowledged.
* `ReferencesResolve`, `DataIsNotShadowed`: under an override, the variables that others refer
  to come first, and the data directory is mounted after the one around it. The definitions
  name where the sort does not achieve that: an override that names `MY_POD_NAME` but not first
  (`[RABBITMQ_NODENAME, MY_POD_NAME]` leaves `K8S_SERVICE_NAME` behind the node name that refers
  to it; contrast the comment at `OP/internal/resource/statefulset.go:294`); the cookie's volume
  mounted twice, or its path given to another volume; and a container of the user's listed
  before `rabbitmq`, since the sort takes the first container of the list.
* `StoredInOrder`: an older version replaces a newer one only after an overtaking, not by a
  redelivery in order.
* `PortsAnswer`, `SecretPortsAreServed`, `FilesHaveOneSource` hold with exceptions, which
  their definitions name: the TLS port of a stream plugin enabled only through
  `rabbitmq_multi_dc_replication`; Vault's certificates with plain listeners disabled, and web
  plugins under TLS without a CA certificate, in the Secret; and Vault annotations that stay
  in the template after the spec dropped them.

### What the failing runs show

Each refutes one sentence of the repository, quoted in `PROJECT.json` under "findings":

1. `ConfChangeRestartsNodes`: the operator stops after the ConfigMap's update and before its
   annotation. The next reconcile sees nothing to update; the nodes keep the old file.
2. `UpdatesAreRebalanced`: a rollout that begins after a reconcile read the StatefulSet's
   status and ends before the next one does leaves no mark. No failure is needed.
3. `ExpansionKeepsNodes`: the StatefulSet's deletion takes longer than ten attempts and the
   user goes back to the old storage with fewer replicas; with no StatefulSet to compare with
   one is created with fewer replicas than nodes that run.
4. `LiveNodesAreChecked`: pods to be labelled are listed by name in all namespaces.
5. `OnlyTLSClientsConnect`: the plain listeners of the web plugins are turned off only when
   there is a CA certificate.

### Bounds, and why they are enough

* Edits: one in the reconcile loop, since an edit that arrives at any step, with any copy
  stale, already separates the spec from what was read; the theorems below cover any number.
  Two where going back matters (expansion, resources).
* Failures: one, anywhere, of every kind; in the pipeline two, so that a message can be saved,
  come back and fail again. What a failure can lose is recorded in `lost` and `excused`, so
  the properties are exact, not excused as a whole after any failure.
* Nodes: two, the least with a rollout in several steps and with pods that differ. In
  `reconciler_liveness` the action constraint `FaultsInSmallClusters` leaves failures to
  clusters of at most one node, as the product of failures and a second node's rollout under
  fairness grows beyond what can be searched. It cuts off only steps of users and failures,
  which no fairness drives, so it makes no behaviour fair that was not. Two nodes with
  failures are in `reconciler_safety`.
* Informers of the children: one node, one edit, one more for a deployed cluster, from pairs of
  specs (`Edits`) that change rabbitmq.conf, change it back, or change the pod template to one
  that calls for a warning and mounts the TLS Secret. The clock ticks only where it is about to be read.
* Storage: 0 (ephemeral), 1, 2 to tell "none", "smaller" and "larger" apart.
* Pipeline: two products so that order within an id and across ids differ, four writes,
  one message that is no product and two deliveries at once. With as many such messages as
  deliveries allowed, the queue is blocked and `ImplementsDelivery` fails; the instance has
  one fewer.
* Resources: every source of TLS and of credentials, `disableNonTLSListeners`, and plugins
  each alone, all and none: the conditions in the code look at one plugin at a time. Overrides
  are put on one plain cluster, since their lists depend on no other part of the spec, and can
  be removed.

Deadlock is checked for the reconcile loop and the status, which resync for ever. Elsewhere the system may
stop when edits and failures are used up, or when the spec is one the operator refuses.

### Fairness

Users and failures owe nothing. Assumed, weakly: the worker takes the next step of a
reconcile and the next request of the queue (`ReconcileStep`; controller-runtime runs one
worker and requeues what failed); informers deliver (`CacheCatchesUp`, `StsCacheCatchesUp`);
the resync period passes (`Resync`; `main.go` sets none, so controller-runtime's default of
ten hours applies); time passes (`Tick`, strongly fair in `ClusterStatus`, where it is enabled at two steps only: a
clock does not stop because nobody looks); the StatefulSet controller, the garbage collector
and the pods make progress. In `ClusterDeletion` only a *labelled* pod is sure to exit: the
pre-stop hook of any other may wait for up to a week. In `ProductPipeline` the consumer is
started again, the broker delivers and the receiver is called; a direct save or a publication
need not happen.

## 4. What is proved

Each theorem holds for every value of the constants that the named assumptions allow: any
number of nodes, clusters, namespaces, products, edits and failures, and any specs. The
assumptions are `ConstantsAssumption` of each module (the constants have their types) and, in
`ClusterStatus` and `ClusterResources`, `NoneAssumption`: the value that stands for "no such
object" is none of the objects. TLC evaluates them in every run.

Every type invariant, every action property and every safety invariant of the passing runs is
a theorem, and so is the safety part of both refinements. Of an override `ConstantsAssumption`
says only that its variables are a list of names and its mounts a list of pairs of names, of any
length and repetitions included.

| Module | Theorems, as `Spec => []Inv` or `Spec => Property` | Obligations |
|---|---|---|
| `ClusterReconcilerProofs` | `TypeOK`, `LatestCopies`, `ObservedMonotone`, `NoScaleDown`, `NoLostRestart` | 1679 |
| `ClusterObservedProofs` | `ObservedMeansDeployed`, `ImplementsDeclared`, `NoLostPlugins` | 958 |
| `ClusterStatusProofs` | `TypeOK`, `StatusIsTrueAtRest`, `NoLostRestart` | 1286 |
| `PersistenceScalingProofs` | `TypeOK`, `VolumesNeverShrink`, `ObservedMeansExpanded` | 815 |
| `ClusterDeletionProofs` | `TypeOK`, `OthersKeepTheirStatefulSet`, `FinalizerKeepsItsPromise` | 893 |
| `ClusterResourcesProofs` | `TypeOK`, `PortsAnswer`, `SecretPortsAreServed`, `PodsAnswerThemselves`, `FilesHaveOneSource`, `TemplateIsBacked`, `NodePortsAreKept` | 650 |
| `ClusterOverrideProofs` | `ReferencesResolve`, `DataIsNotShadowed`, and that no sort indexes behind its list (`SortsStayInRange`) | 1534 |
| `ProductPipelineProofs` | `TypeOK`, `NoLostProduct`, `StoredInOrder`, and `Delivery!Spec` (`ImplementsDeliverySteps`) | 1344 |

`tlapm <module>.tla` checks them with Z3, Zenon and LS4. The proofs are laid out alike: lemmas
about the operators; lemmas about groups of actions that change the same variables; one lemma
that every step of `Next` keeps the inductive invariant, with a case for each action; and the
theorem, which combines that with the initial states. The new inductive invariants were
checked by TLC on the instance of the run before they were proved.

The inductive invariants, and why the property alone is not one:

* **`NoLostRestart`, reconcile loop.** `RestartInv` (of `ClusterReconcilerProofs`):
  `ServerConfFirst` (the ConfigMap exists before the StatefulSet does, so no pod starts without
  a file), `StampsOrdered` (no stamp of a restart is later than the clock, none of a revision
  later than the StatefulSet's own) and `OutdatedPodsOwed` (a pod with an old file waits for the
  annotation, for the restart it asks for, or has an *earlier* stamp than the StatefulSet). The
  last alternative is why the order is needed: a later stamp always makes a revision that
  differs from every pod's, which "another revision" alone does not give after two restarts.
* **`LatestCopies`, `ObservedMonotone`, `NoScaleDown`.** The writes of the resource go through
  two operators that update or outdate the copies; `GenerationStep` and `ObservedExists` say
  how a step changes the generations; `AbsentHasNoReplicas` is all the guard against scaling down
  needs, since it reads the StatefulSet and the spec it will apply.
* **`ObservedMeansDeployed`.** A reconcile reports its generation at its end, long after it
  looked at the children. `Progress` says of each step what the steps before it have left,
  `SpecsAgree` that nobody holds a copy of other content than an observed generation, and `Quiet`
  that a reconcile of an observed generation leaves out every step that changes a child. It
  holds between edits only because copies of *older* generations are never the latest.
* **`ImplementsDeclared`.** From the same invariant: a step that changes what there is, changes
  nothing while the generation is observed, and a step that observes finds everything as declared.
* **`NoLostPlugins`.** `PluginsFirst` (no pod before there is a ConfigMap for it) and `SetBehind`
  (the loop of `setPlugins` has dealt with each pod below its index that is still up).
* **`StatusIsTrueAtRest`.** The status is written with what was *seen*. `CopyIsLatest` and
  `Reported` hold only `~queued`: as long as nothing has queued the next reconcile, the copy is
  the resource, the informers show what was reported, and each child that is up to date is what
  its step has left. Whatever breaks one of these queues a reconcile. `TLSChecked` needs no
  such condition, as the Secret stays complete.
* **`NoLostRestart`, status.** `StampsInOrder` and `RestartIsNoted`: of a node that runs old
  contents in a revision with the StatefulSet's stamp, the ConfigMap has a stamp that is not
  older, or is about to get it, or it was given up. Conflicts keep no step from that.
* **`VolumesNeverShrink`.** `TodoIsSmall`: the claims that wait exist and ask for less than the
  reconcile's copy of the spec, although pods create claims meanwhile.
* **`ObservedMeansExpanded`.** `CopiesAreLatest` and `Progress`: with no further reconcile
  queued, claims are expanded only while the StatefulSet is gone, and the last steps find the
  claims large enough.
* **`OthersKeepTheirStatefulSet`, `FinalizerKeepsItsPromise`.** Clusters only grow older
  (`Ages`), and copies show a state that the cluster has had (`CopiesSeen`); `PodsMarked` and
  `StsRemoved` follow the list of pods through the labelling, a restart and the pods' own exits.
* **`NoLostProduct`, `StoredInOrder`, `Delivery!Spec`.** `AckIsSaved` (what is about to be
  acknowledged is saved), `Tracked` (what is under way is what the queue took and is not
  settled) and `InOrder` (of an id that was not overtaken, what is under way is in order and
  none older than what is stored). A message given back to either end of the queue is what makes
  the last one delicate.
* **`ClusterResources`.** `Reconciling` (the builders before the next one have applied the
  reconcile's spec, whatever builders are left), `Applied` (what was applied in full is still
  there) and `Backed`. With that, each property is a lemma about the builders as functions of
  one spec, for every set of plugins and every source of certificates: `ServicePortsAreContainerPorts`,
  `ContainerPortsAreListeners`, `SecretPortsAreServicePorts`, `ProbesAreAnswered`,
  `FilesAreThere`, `FilesAreThereOnce`, `ConfigFiles`. They rest on `Accepted`: that no spec
  without TLS turns off the plain listeners is `reconcileTLS`'s doing, not the builders'.
* **`ReferencesResolve`, `DataIsNotShadowed`.** `StatefulSetMade` says that the template's lists
  are those of the applied spec's override; the rest is about one list. The merge and the sort
  are recursive functions over its positions (`MergedKeys`, `SwapToSlots`, `Only`), and what they
  compute takes two inductions. Over the merge: `PodNameFirst`, no other object of Kubernetes
  comes before the first `MY_POD_NAME`, which holds of the result only if the patch names that
  first or not at all. Over the pass of the sort: `ObjectsSorted`, up to the present position the
  objects are in their slots, *and ahead of it none comes before the pod's name*. Without the
  second half a swap could throw an object behind the pass, as it does where the property makes
  its exception. For the mounts `OuterInFront` suffices: once the outer directory's volume has
  been met it stays in front. Both need the list to have the slots (`SortsStayInRange`), which it
  has because a merge loses no key of the original (`MergedProperties`).
  The library's induction theorems take an operator as a parameter and cannot be used; the
  induction here is over a *set* of positions (`Induction`), from the well-foundedness of the
  naturals and the least element of a set (`WFMin`), and `Recursion` gives that a function
  defined by its first value and its steps exists.

Only model-checked, and why:

* every liveness property (`Converges` of both, `RestartsSettle` of both, `RebalanceMarkHonoured`,
  `StatusCatchesUp`, `DeletionCompletes`) and the fairness part of `ImplementsDelivery`: liveness
  under fairness and `ENABLED` are out of the proof system's reach. The safety part of
  `ImplementsDelivery` is the theorem `ImplementsDeliverySteps`.

## 5. Plan

Nothing of the plan is left but what is out of the provers' reach, above. One extension would
say more: a container of the user's before `rabbitmq`, whose variables the sort then takes; it
is in the models only as the list that stays unsorted, and `SortsStayInRange` leaves it out.

Not modelled, and why: the headless Service, the cookie and RBAC are constant objects; the
operator's `main.go` and profiling are wiring; manifests and examples are data; the system
tests are read as documentation. Of modelled components, the fields of overrides beyond the two
lists, labels and the filtering of annotations, memory headroom and the wording of commands are
data that no property here tells apart.
