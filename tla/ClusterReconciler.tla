--------------------------- MODULE ClusterReconciler ---------------------------
(***************************************************************************)
(* The reconcile loop of the RabbitMQ cluster operator for one             *)
(* RabbitmqCluster: one worker that reads the resource from the informer's *)
(* cache, brings the child objects to its spec one API call at a time, and *)
(* leaves annotations on them that later steps and later reconciles act    *)
(* on; the users who edit the resource meanwhile; the StatefulSet          *)
(* controller and the pods it rolls; crashes and failing calls anywhere.   *)
(*                                                                         *)
(* Deletion is ClusterDeletion's subject and PVC expansion                 *)
(* PersistenceScaling's: here the resource has no deletion timestamp and   *)
(* its storage does not change.                                            *)
(***************************************************************************)
EXTENDS Naturals, FiniteSets

CONSTANTS
    Confs,          \* contents of rabbitmq.conf that the spec can ask for
    PluginSets,     \* values of spec.rabbitmq.additionalPlugins
    Templates,      \* pod templates that the rest of the spec can ask for
    MaxReplicas,    \* no spec asks for more replicas
    InitialSpecs,   \* specs a cluster is created with
    Specs,          \* specs a user changes it to
    Pausable,       \* whether users also set and remove the pause label
    MaxEdits,       \* bound on the user's writes
    MaxFaults,      \* bound on crashes and failed calls
    None            \* "not there": an absent object's content

SpecType == [conf: Confs, plugins: PluginSets, template: Templates,
             replicas: 0..MaxReplicas, skipPostDeploySteps: BOOLEAN,
             tls: {"valid", "disabledListenersWithoutTLS"}, defaulted: BOOLEAN]

ASSUME ConstantsAssumption ==
    /\ MaxReplicas \in Nat /\ MaxEdits \in Nat /\ MaxFaults \in Nat
    /\ Pausable \in BOOLEAN
    /\ InitialSpecs \subseteq SpecType /\ Specs \subseteq SpecType
    /\ None \notin Confs \union PluginSets \union Templates

VARIABLES
    cr,             \* the RabbitmqCluster in the API server
    cache,          \* the informer's copy, and whether it is the latest version
    work,           \* the same of the reconciler's copy; None between reconciles
    pc,             \* the reconcile step that comes next, "idle" between reconciles
    pod,            \* the pod the 'rabbitmq-plugins set' loop has reached
    queued,         \* the request is in the work queue
    pluginsCM,      \* ConfigMap plugins-conf: content, pluginsUpdatedAt
    serverCM,       \* ConfigMap server-conf: content, serverConfUpdatedAt
    sts,            \* the StatefulSet's spec, and whether createdAt is set
    stsStatus,      \* its status, written by the StatefulSet controller
    pods,           \* what each running pod was started with
    broker,         \* effects of post-deploy commands on the RabbitMQ nodes
    now,            \* the clock in seconds, the resolution of the annotations
    edits, faults,  \* how much of the bounds is used
    lost            \* history: annotations that a failure kept from being written

vars == <<cr, cache, work, pc, pod, queued, pluginsCM, serverCM, sts, stsStatus,
          pods, broker, now, edits, faults, lost>>
copies == <<cr, cache, work>>
children == <<pluginsCM, serverCM, sts>>
nodes == <<stsStatus, pods, broker>>
bounds == <<edits, faults, lost>>

Pods == 0..(MaxReplicas - 1)
NoTime == 0         \* an annotation that is not set; the clock starts at 1

Cluster == [gen: Nat, spec: SpecType, paused: BOOLEAN, finalizer: BOOLEAN,
            rebalance: BOOLEAN, observed: Nat, bound: BOOLEAN,
            success: {"Unset", "Unknown", "True", "False"},
            ready: {"Unknown", "True", "False"}, pauseWarning: BOOLEAN]
Copy == [obj: Cluster, latest: BOOLEAN]
Revision == [template: Templates \union {None}, restartAt: Nat]
Markers == {"plugins", "serverConf", "created"}
Steps == {"idle", "reconcileOperatorDefaults", "addFinalizer", "updateStatusConditions",
          "reconcileTLS", "pluginsConfigMap", "annotatePlugins",
          "serverConfigMap", "annotateServerConf", "statefulSet", "annotateStatefulSet",
          "restartStatefulSet", "reconcileStatus", "runCLICommands", "setPlugins",
          "enableFeatureFlags", "queueRebalance", "finish"}

NoRevision == [template |-> None, restartAt |-> NoTime]
Down == [up |-> FALSE, conf |-> None, plugins |-> None, rev |-> NoRevision]

ControlTypeOK ==
    /\ pc \in Steps /\ pod \in Nat /\ queued \in BOOLEAN /\ now \in Nat
    /\ edits \in 0..MaxEdits /\ faults \in 0..MaxFaults /\ lost \subseteq Markers

CopiesTypeOK ==
    /\ cr \in Cluster /\ cache \in Copy
    /\ IF pc = "idle" THEN work = None ELSE work \in Copy

ChildrenTypeOK ==
    /\ pluginsCM \in [content: PluginSets \union {None}, updatedAt: Nat]
    /\ serverCM \in [content: Confs \union {None}, updatedAt: Nat]
    /\ sts \in [template: Templates \union {None}, restartAt: Nat,
                replicas: 0..MaxReplicas, created: BOOLEAN]

NodesTypeOK ==
    /\ stsStatus \in [current: Revision, update: Revision, readyReplicas: Nat]
    /\ pods \in [Pods -> [up: BOOLEAN, conf: Confs \union {None},
                          plugins: PluginSets \union {None}, rev: Revision]]
    /\ broker \in [balanced: BOOLEAN, featureFlags: BOOLEAN]

TypeOK == ControlTypeOK /\ CopiesTypeOK /\ ChildrenTypeOK /\ NodesTypeOK

Init ==
    /\ \E s \in InitialSpecs :
         cr = [gen |-> 1, spec |-> s, paused |-> FALSE, finalizer |-> FALSE,
               rebalance |-> FALSE, observed |-> 0, bound |-> FALSE, success |-> "Unset",
               ready |-> "Unknown", pauseWarning |-> FALSE]
    /\ cache = [obj |-> cr, latest |-> TRUE]
    /\ work = None
    /\ pc = "idle" /\ pod = 0 /\ queued = TRUE
    /\ pluginsCM = [content |-> None, updatedAt |-> NoTime]
    /\ serverCM = [content |-> None, updatedAt |-> NoTime]
    /\ sts = [template |-> None, restartAt |-> NoTime, replicas |-> 0, created |-> FALSE]
    /\ stsStatus = [current |-> NoRevision, update |-> NoRevision, readyReplicas |-> 0]
    /\ pods = [p \in Pods |-> Down]
    /\ broker = [balanced |-> TRUE, featureFlags |-> FALSE]
    /\ now = 1 /\ edits = 0 /\ faults = 0 /\ lost = {}

--------------------------------------------------------------------------------
(* The API server's optimistic concurrency, and the ways a reconcile ends. *)

spec == work.obj.spec

\* The write of the reconciler's copy, which succeeds only from the latest version.
\* A write that changes nothing keeps the version; any other makes the cache stale.
WriteCluster(new) ==
    /\ work.latest
    /\ cr' = new
    /\ work' = [work EXCEPT !.obj = new]
    /\ cache' = IF new = cr THEN cache ELSE [cache EXCEPT !.latest = FALSE]

Conflict == ~work.latest

Goto(step) == pc' = step /\ UNCHANGED <<pod, queued>>
Done == pc' = "idle" /\ pod' = 0 /\ work' = None /\ UNCHANGED queued
Requeue == pc' = "idle" /\ pod' = 0 /\ work' = None /\ queued' = TRUE
NotWritten == UNCHANGED <<cr, cache>>

\* Defective variant: a patch, for which the API server checks no version.
TryWriteStatusByPatch(new) == cr' = new /\ cache' = [cache EXCEPT !.latest = FALSE]

\* The Status().Update that ends a reconcile: a conflict is only logged.
TryWriteStatus(new) ==
    IF work.latest /\ new # cr
    THEN cr' = new /\ cache' = [cache EXCEPT !.latest = FALSE]
    ELSE NotWritten

SetReconcileSuccess(condition) ==
    TryWriteStatus([work.obj EXCEPT !.success = condition])

\* Where a step leads: a step that would find nothing to do and call nothing that the
\* model keeps is passed over, so each step of the model stands for a call.
AfterStatefulSet(c) == IF c.bound THEN "runCLICommands" ELSE "reconcileStatus"
AfterPlugins == IF serverCM.content = spec.conf THEN "statefulSet" ELSE "serverConfigMap"
AfterMark == IF pluginsCM.content = spec.plugins THEN AfterPlugins ELSE "pluginsConfigMap"
AfterDefaults(c) == IF c.finalizer THEN "updateStatusConditions" ELSE "addFinalizer"
AfterGet(c) == IF c.spec.defaulted THEN AfterDefaults(c) ELSE "reconcileOperatorDefaults"
AfterFeatureFlags == IF work.obj.rebalance THEN "queueRebalance" ELSE "finish"
AfterSetPlugins == IF sts.created THEN "enableFeatureFlags" ELSE AfterFeatureFlags
AfterReadyCheck == IF pluginsCM.updatedAt # NoTime THEN "setPlugins" ELSE AfterSetPlugins

\* The write of a child object, whose event puts the request back in the queue.
GotoAfterWrite(step) == pc' = step /\ queued' = TRUE /\ UNCHANGED pod

Exists == sts.template # None
RevisionOf(s) == [template |-> s.template, restartAt |-> s.restartAt]
statefulSetBeingUpdated == stsStatus.current # stsStatus.update
allReplicasReadyAndUpdated ==
    stsStatus.readyReplicas = sts.replicas /\ ~statefulSetBeingUpdated
AllReplicasReadyCondition ==
    IF ~Exists THEN "Unknown"
    ELSE IF stsStatus.readyReplicas = sts.replicas THEN "True" ELSE "False"

--------------------------------------------------------------------------------
(* Reconcile, up to the child objects. *)

\* The Get at the head of Reconcile, from the cache; a paused cluster goes no further.
StartReconcile ==
    /\ pc = "idle" /\ queued /\ ~cache.obj.paused
    /\ queued' = FALSE
    /\ work' = cache
    /\ pc' = AfterGet(cache.obj)
    /\ UNCHANGED <<cr, cache, pod, children, nodes, now, bounds>>

\* SetCondition finds no NoWarnings condition before the first updateStatusConditions.
SkipPausedCluster ==
    /\ pc = "idle" /\ queued /\ cache.obj.paused
    /\ queued' = FALSE
    /\ LET new == [cache.obj EXCEPT !.pauseWarning = (cache.obj.success # "Unset")]
       IN  IF cache.latest /\ new # cr
           THEN cr' = new /\ cache' = [cache EXCEPT !.latest = FALSE]
           ELSE NotWritten
    /\ UNCHANGED <<work, pc, pod, children, nodes, now, bounds>>

\* Defective variant: after a conflict the old object is kept under the new version.
ReconcileOperatorDefaultsForced ==
    /\ pc = "reconcileOperatorDefaults"
    /\ LET new == [work.obj EXCEPT !.spec.defaulted = TRUE]
       IN  \/ WriteCluster([new EXCEPT !.gen = @ + 1])
           \/ Conflict /\ NotWritten /\ work' = [obj |-> new, latest |-> TRUE]
    /\ Goto(AfterDefaults(work.obj))
    /\ UNCHANGED <<children, nodes, now, bounds>>

\* The requeue that updateRabbitmqCluster asks for on a conflict is dropped by its
\* caller: the reconcile goes on with its stale copy, defaults set in memory only.
ReconcileOperatorDefaults ==
    /\ pc = "reconcileOperatorDefaults"
    /\ LET defaulted == [spec EXCEPT !.defaulted = TRUE]
       IN  \/ WriteCluster([work.obj EXCEPT !.spec = defaulted, !.gen = @ + 1])
           \/ /\ Conflict /\ NotWritten
              /\ work' = [work EXCEPT !.obj.spec = defaulted]
    /\ Goto(AfterDefaults(work.obj))
    /\ UNCHANGED <<children, nodes, now, bounds>>

AddFinalizerIfNeeded ==
    /\ pc = "addFinalizer"
    /\ \/ /\ WriteCluster([work.obj EXCEPT !.finalizer = TRUE])
          /\ Goto("updateStatusConditions")
       \/ Conflict /\ Requeue /\ NotWritten
    /\ UNCHANGED <<children, nodes, now, bounds>>

UpdateStatusConditions ==
    /\ pc = "updateStatusConditions"
    /\ LET new == [work.obj EXCEPT
                     !.ready = AllReplicasReadyCondition,
                     !.pauseWarning = FALSE,
                     !.success = IF @ = "Unset" THEN "Unknown" ELSE @]
       IN  \/ new = work.obj /\ Goto("reconcileTLS") /\ UNCHANGED copies
           \/ new # work.obj /\ WriteCluster(new) /\ Goto("reconcileTLS")
           \/ new # work.obj /\ Conflict /\ Requeue /\ NotWritten
    /\ UNCHANGED <<children, nodes, now, bounds>>

\* A spec that disables the plain listeners without TLS ends the reconcile for good.
RejectTLS ==
    /\ pc = "reconcileTLS" /\ spec.tls # "valid"
    /\ SetReconcileSuccess("False") /\ Done
    /\ UNCHANGED <<children, nodes, now, bounds>>

needsQueueRebalance ==
    /\ Exists /\ statefulSetBeingUpdated
    /\ ~spec.skipPostDeploySteps /\ spec.replicas > 1

MarkForQueueRebalance ==
    /\ pc = "reconcileTLS" /\ spec.tls = "valid"
    /\ LET needed == needsQueueRebalance /\ ~work.obj.rebalance
       IN  \/ ~needed /\ Goto(AfterMark) /\ UNCHANGED copies
           \/ /\ needed /\ WriteCluster([work.obj EXCEPT !.rebalance = TRUE])
              /\ Goto(AfterMark)
           \/ needed /\ Conflict /\ Requeue /\ NotWritten
    /\ UNCHANGED <<children, nodes, now, bounds>>

--------------------------------------------------------------------------------
(* Reconcile, the child objects: each CreateOrUpdate and the annotation that *)
(* annotateIfNeeded derives from its result.                                 *)

\* A ConfigMap is annotated when it was updated, not when it was created.
ReconcilePluginsConfigMap ==
    /\ pc = "pluginsConfigMap"
    /\ pluginsCM' = [pluginsCM EXCEPT !.content = spec.plugins]
    /\ GotoAfterWrite(IF pluginsCM.content = None THEN AfterPlugins ELSE "annotatePlugins")
    /\ UNCHANGED <<copies, serverCM, sts, nodes, now, bounds>>

AnnotatePluginsConfigMap ==
    /\ pc = "annotatePlugins"
    /\ pluginsCM' = [pluginsCM EXCEPT !.updatedAt = now]
    /\ GotoAfterWrite(AfterPlugins)
    /\ UNCHANGED <<copies, serverCM, sts, nodes, now, bounds>>

ReconcileServerConfigMap ==
    /\ pc = "serverConfigMap"
    /\ serverCM' = [serverCM EXCEPT !.content = spec.conf]
    /\ GotoAfterWrite(IF serverCM.content = None THEN "statefulSet" ELSE "annotateServerConf")
    /\ UNCHANGED <<copies, pluginsCM, sts, nodes, now, bounds>>

AnnotateServerConfigMap ==
    /\ pc = "annotateServerConf"
    /\ serverCM' = [serverCM EXCEPT !.updatedAt = now]
    /\ GotoAfterWrite("statefulSet")
    /\ UNCHANGED <<copies, pluginsCM, sts, nodes, now, bounds>>

\* Defective variant: fewer replicas are accepted.
scaleDownAccepted == FALSE

scaleDown == Exists /\ sts.replicas > spec.replicas

\* Defective variant: the StatefulSet gets one replica more than the spec's.
desiredStsOffByOne == [sts EXCEPT !.template = spec.template, !.replicas = spec.replicas + 1]
\* Defective variant: the builder replaces the pod template's annotations.
desiredStsUnannotated ==
    [sts EXCEPT !.template = spec.template, !.replicas = spec.replicas, !.restartAt = NoTime]

desiredSts == [sts EXCEPT !.template = spec.template, !.replicas = spec.replicas]

\* The builder keeps the pod template's own annotations, lastRestartAt among them.
ReconcileStatefulSet ==
    /\ pc = "statefulSet" /\ ~scaleDown
    /\ sts' = desiredSts
    /\ IF ~Exists THEN GotoAfterWrite("annotateStatefulSet")
       ELSE IF desiredSts = sts THEN Goto("restartStatefulSet")
       ELSE GotoAfterWrite("restartStatefulSet")
    /\ UNCHANGED <<copies, pluginsCM, serverCM, nodes, now, bounds>>

\* Scale down is not supported: the reconcile ends here, and nothing retries it.
RejectScaleDown ==
    /\ pc = "statefulSet" /\ scaleDown
    /\ SetReconcileSuccess("False") /\ Done
    /\ UNCHANGED <<children, nodes, now, bounds>>

AnnotateStatefulSet ==
    /\ pc = "annotateStatefulSet"
    /\ sts' = [sts EXCEPT !.created = TRUE]
    /\ GotoAfterWrite("restartStatefulSet")
    /\ UNCHANGED <<copies, pluginsCM, serverCM, nodes, now, bounds>>

\* Defective variant: a StatefulSet that was never restarted counts as restarted.
RestartedByDefault(restartAt, updatedAt) == restartAt = NoTime \/ restartAt > updatedAt

RestartedAfter(restartAt, updatedAt) == restartAt > updatedAt

restartNeeded ==
    /\ serverCM.updatedAt # NoTime
    /\ ~RestartedAfter(sts.restartAt, serverCM.updatedAt)

\* Two restarts stamped in one second leave the same pod template.
RestartStatefulSetIfNeeded ==
    /\ pc = "restartStatefulSet"
    /\ IF restartNeeded /\ sts.restartAt # now
       THEN /\ sts' = [sts EXCEPT !.restartAt = now]
            /\ GotoAfterWrite(AfterStatefulSet(work.obj))
       ELSE Goto(AfterStatefulSet(work.obj)) /\ UNCHANGED sts
    /\ UNCHANGED <<copies, pluginsCM, serverCM, nodes, now, bounds>>

ReconcileStatus ==
    /\ pc = "reconcileStatus"
    /\ \/ WriteCluster([work.obj EXCEPT !.bound = TRUE]) /\ Goto("runCLICommands")
       \/ Conflict /\ Requeue /\ NotWritten
    /\ UNCHANGED <<children, nodes, now, bounds>>

--------------------------------------------------------------------------------
(* Reconcile, the post-deploy commands run in the pods. *)

pluginsConfigUpdatedRecently ==
    pluginsCM.updatedAt # NoTime /\ now - pluginsCM.updatedAt < 2

\* Defective variant: with pods not ready the commands are skipped, not awaited.
RunCLICommandsUnawaited ==
    /\ pc = "runCLICommands"
    /\ Goto(IF ~allReplicasReadyAndUpdated THEN "finish" ELSE AfterReadyCheck)
    /\ UNCHANGED <<copies, children, nodes, now, bounds>>

RunCLICommandsIfAnnotated ==
    /\ pc = "runCLICommands"
    /\ IF ~allReplicasReadyAndUpdated \/ pluginsConfigUpdatedRecently
       THEN Requeue /\ NotWritten
       ELSE Goto(AfterReadyCheck) /\ UNCHANGED copies
    /\ UNCHANGED <<children, nodes, now, bounds>>

Running(p) == p \in Pods /\ pods[p].up

\* 'rabbitmq-plugins set' on the next pod.
SetPluginsOnPod ==
    /\ pc = "setPlugins" /\ pod < spec.replicas /\ Running(pod)
    /\ pods' = [pods EXCEPT ![pod].plugins = spec.plugins]
    /\ pod' = pod + 1
    /\ UNCHANGED <<copies, pc, queued, children, stsStatus, broker, now, bounds>>

\* Defective variant: the annotation is deleted after the first pod.
FinishSetPluginsEarly ==
    /\ pc = "setPlugins" /\ pod >= 1
    /\ pluginsCM' = [pluginsCM EXCEPT !.updatedAt = NoTime]
    /\ pc' = AfterSetPlugins /\ queued' = TRUE /\ pod' = 0
    /\ UNCHANGED <<copies, serverCM, sts, nodes, now, bounds>>

FinishSetPlugins ==
    /\ pc = "setPlugins" /\ pod >= spec.replicas
    /\ pluginsCM' = [pluginsCM EXCEPT !.updatedAt = NoTime]
    /\ pc' = AfterSetPlugins /\ queued' = TRUE /\ pod' = 0
    /\ UNCHANGED <<copies, serverCM, sts, nodes, now, bounds>>

\* Defective variant: the annotation is deleted although the command failed.
RunEnableFeatureFlagsOnce ==
    /\ pc = "enableFeatureFlags"
    /\ broker' = [broker EXCEPT !.featureFlags = @ \/ Running(0)]
    /\ sts' = [sts EXCEPT !.created = FALSE]
    /\ GotoAfterWrite(AfterFeatureFlags)
    /\ UNCHANGED <<copies, pluginsCM, serverCM, stsStatus, pods, now, bounds>>

RunEnableFeatureFlagsCommand ==
    /\ pc = "enableFeatureFlags" /\ Running(0)
    /\ broker' = [broker EXCEPT !.featureFlags = TRUE]
    /\ sts' = [sts EXCEPT !.created = FALSE]
    /\ GotoAfterWrite(AfterFeatureFlags)
    /\ UNCHANGED <<copies, pluginsCM, serverCM, stsStatus, pods, now, bounds>>

\* Defective variant: the annotation stays after the command.
RunQueueRebalanceForever ==
    /\ pc = "queueRebalance" /\ Running(0)
    /\ broker' = [broker EXCEPT !.balanced = TRUE]
    /\ Goto("finish")
    /\ UNCHANGED <<copies, children, stsStatus, pods, now, bounds>>

\* On a conflict the command has run, its annotation stays, and the error is recorded
\* with the same stale copy: nothing is written.
RunQueueRebalanceCommand ==
    /\ pc = "queueRebalance" /\ Running(0)
    /\ broker' = [broker EXCEPT !.balanced = TRUE]
    /\ \/ WriteCluster([work.obj EXCEPT !.rebalance = FALSE]) /\ Goto("finish")
       \/ Conflict /\ Requeue /\ NotWritten
    /\ UNCHANGED <<children, stsStatus, pods, now, bounds>>

\* A command sent to a pod that is not running fails and is retried.
CommandFails ==
    /\ \/ pc = "setPlugins" /\ pod < spec.replicas /\ ~Running(pod)
       \/ pc \in {"enableFeatureFlags", "queueRebalance"} /\ ~Running(0)
    /\ SetReconcileSuccess("False") /\ Requeue
    /\ UNCHANGED <<children, nodes, now, bounds>>

\* Defective variant: the generation is not recorded.
FinishReconcileUnobserved ==
    /\ pc = "finish"
    /\ SetReconcileSuccess("True") /\ Done
    /\ UNCHANGED <<children, nodes, now, bounds>>

FinishReconcile ==
    /\ pc = "finish"
    /\ TryWriteStatus([work.obj EXCEPT !.success = "True", !.observed = work.obj.gen])
    /\ Done
    /\ UNCHANGED <<children, nodes, now, bounds>>

--------------------------------------------------------------------------------
(* Failures. *)

\* The annotation that a reconcile stopped at this step leaves unwritten.
MarkerAt(step) ==
    CASE step = "annotatePlugins" -> {"plugins"}
      [] step = "annotateServerConf" -> {"serverConf"}
      [] step = "annotateStatefulSet" -> {"created"}
      [] OTHER -> {}

Fault == faults < MaxFaults /\ faults' = faults + 1

\* A call fails and Reconcile returns the error: the request is queued again.
CallFails ==
    /\ Fault
    /\ pc \in {"reconcileOperatorDefaults", "addFinalizer", "updateStatusConditions",
               "reconcileTLS", "annotatePlugins", "annotateServerConf",
               "annotateStatefulSet", "restartStatefulSet", "reconcileStatus"}
    /\ lost' = lost \union MarkerAt(pc)
    /\ Requeue /\ NotWritten
    /\ UNCHANGED <<children, nodes, now, edits>>

\* The same where Reconcile records the error in ReconcileSuccess first.
RecordedCallFails ==
    /\ Fault
    /\ pc \in {"reconcileTLS", "pluginsConfigMap", "serverConfigMap", "statefulSet",
               "runCLICommands", "setPlugins", "enableFeatureFlags", "queueRebalance"}
    /\ SetReconcileSuccess("False") /\ Requeue
    /\ UNCHANGED <<children, nodes, now, edits, lost>>

\* A write that calls for an annotation takes effect and its answer is lost:
\* CreateOrUpdate returns an error and annotateIfNeeded is not reached.
AnswerLost ==
    /\ Fault
    /\ \/ /\ pc = "pluginsConfigMap" /\ pluginsCM.content \notin {None, spec.plugins}
          /\ pluginsCM' = [pluginsCM EXCEPT !.content = spec.plugins]
          /\ lost' = lost \union {"plugins"}
          /\ UNCHANGED <<serverCM, sts>>
       \/ /\ pc = "serverConfigMap" /\ serverCM.content \notin {None, spec.conf}
          /\ serverCM' = [serverCM EXCEPT !.content = spec.conf]
          /\ lost' = lost \union {"serverConf"}
          /\ UNCHANGED <<pluginsCM, sts>>
       \/ /\ pc = "statefulSet" /\ ~Exists
          /\ sts' = desiredSts
          /\ lost' = lost \union {"created"}
          /\ UNCHANGED <<pluginsCM, serverCM>>
    /\ SetReconcileSuccess("False") /\ Requeue
    /\ UNCHANGED <<nodes, now, edits>>

\* The last status write fails: the error is logged, and nothing is queued.
FinalStatusWriteFails ==
    /\ Fault
    /\ pc = "finish"
    /\ Done /\ NotWritten
    /\ UNCHANGED <<children, nodes, now, edits, lost>>

\* The operator stops between two steps; its successor reconciles every cluster.
Crash ==
    /\ Fault
    /\ pc # "idle"
    /\ lost' = lost \union MarkerAt(pc)
    /\ Requeue /\ NotWritten
    /\ UNCHANGED <<children, nodes, now, edits>>

--------------------------------------------------------------------------------
(* The environment: users, the informer, the clock, Kubernetes. *)

UserWrites(new) ==
    /\ edits < MaxEdits /\ edits' = edits + 1
    /\ cr' = new
    /\ work' = IF pc = "idle" THEN work ELSE [work EXCEPT !.latest = FALSE]
    /\ cache' = [cache EXCEPT !.latest = FALSE]
    /\ UNCHANGED <<pc, pod, queued, children, nodes, now, faults, lost>>

EditSpec ==
    \E s \in Specs :
        LET new == [s EXCEPT !.defaulted = cr.spec.defaulted]
        IN  new # cr.spec /\ UserWrites([cr EXCEPT !.spec = new, !.gen = @ + 1])

TogglePause == Pausable /\ UserWrites([cr EXCEPT !.paused = ~@])

CacheCatchesUp ==
    /\ ~cache.latest
    /\ cache' = [obj |-> cr, latest |-> TRUE]
    /\ queued' = TRUE
    /\ UNCHANGED <<cr, work, pc, pod, children, nodes, now, bounds>>

\* The informer's periodic resync reconciles the cluster without a change.
Resync ==
    /\ pc = "idle" /\ ~queued
    /\ queued' = TRUE
    /\ UNCHANGED <<copies, pc, pod, children, nodes, now, bounds>>

\* Only the order of the stamps matters, and the two seconds after pluginsUpdatedAt.
Tick ==
    /\ now \in {serverCM.updatedAt, sts.restartAt} \/ pluginsConfigUpdatedRecently
    /\ now' = now + 1
    /\ UNCHANGED <<copies, pc, pod, queued, children, nodes, bounds>>

\* The StatefulSet controller reports on the pods; a changed template starts a rollout.
StatefulSetControllerSyncs ==
    /\ Exists
    /\ LET up == {p \in Pods : p < sts.replicas /\ pods[p].up}
           rolled == /\ Cardinality(up) = sts.replicas
                     /\ \A p \in up : pods[p].rev = RevisionOf(sts)
           new == [update |-> RevisionOf(sts), readyReplicas |-> Cardinality(up),
                   current |-> IF rolled \/ stsStatus.current = NoRevision
                               THEN RevisionOf(sts) ELSE stsStatus.current]
       IN  stsStatus # new /\ stsStatus' = new
    /\ queued' = TRUE
    /\ UNCHANGED <<copies, pc, pod, children, pods, broker, now, bounds>>

\* A rollout stops one pod at a time, once the others are up.
PodStops(p) ==
    /\ p < sts.replicas /\ pods[p].up
    /\ pods[p].rev # stsStatus.update
    /\ \A q \in Pods : q < sts.replicas => pods[q].up
    /\ pods' = [pods EXCEPT ![p] = Down]
    /\ broker' = [broker EXCEPT !.balanced = FALSE]
    /\ UNCHANGED <<copies, pc, pod, queued, children, stsStatus, now, bounds>>

\* A pod reads both ConfigMaps when it starts.
PodStarts(p) ==
    /\ p < sts.replicas /\ ~pods[p].up /\ stsStatus.update # NoRevision
    /\ pods' = [pods EXCEPT ![p] = [up |-> TRUE, conf |-> serverCM.content,
                                    plugins |-> pluginsCM.content,
                                    rev |-> stsStatus.update]]
    /\ UNCHANGED <<copies, pc, pod, queued, children, stsStatus, broker, now, bounds>>

--------------------------------------------------------------------------------

ReconcileStep ==
    \/ StartReconcile \/ SkipPausedCluster
    \/ ReconcileOperatorDefaults \/ AddFinalizerIfNeeded \/ UpdateStatusConditions
    \/ RejectTLS \/ MarkForQueueRebalance
    \/ ReconcilePluginsConfigMap \/ AnnotatePluginsConfigMap
    \/ ReconcileServerConfigMap \/ AnnotateServerConfigMap
    \/ ReconcileStatefulSet \/ RejectScaleDown \/ AnnotateStatefulSet
    \/ RestartStatefulSetIfNeeded \/ ReconcileStatus
    \/ RunCLICommandsIfAnnotated \/ SetPluginsOnPod \/ FinishSetPlugins
    \/ RunEnableFeatureFlagsCommand \/ RunQueueRebalanceCommand \/ CommandFails
    \/ FinishReconcile

Failure ==
    \/ CallFails \/ RecordedCallFails \/ AnswerLost
    \/ FinalStatusWriteFails \/ Crash

KubernetesStep ==
    \/ StatefulSetControllerSyncs
    \/ \E p \in Pods : PodStops(p) \/ PodStarts(p)

Next ==
    \/ ReconcileStep \/ Failure \/ KubernetesStep
    \/ EditSpec \/ TogglePause \/ CacheCatchesUp \/ Resync \/ Tick

Spec == Init /\ [][Next]_vars

\* One worker drains the queue, the informer delivers what it watches, the resync
\* period passes, and Kubernetes acts on a StatefulSet; users and failures owe nothing.
Fairness ==
    /\ WF_vars(ReconcileStep) /\ WF_vars(KubernetesStep)
    /\ WF_vars(CacheCatchesUp) /\ WF_vars(Resync) /\ WF_vars(Tick)

FairSpec == Spec /\ Fairness

--------------------------------------------------------------------------------
(* Safety. *)

\* A copy held at the latest version is the resource itself, so a write that passes
\* the API server's version check overwrites nothing the operator has not read.
LatestCopies ==
    /\ cache.latest => cache.obj = cr
    /\ pc # "idle" /\ work.latest => work.obj = cr

\* status.observedGeneration tells the user that a generation was reconciled: the
\* children then hold that generation's spec, the restart its rabbitmq.conf calls for
\* was requested, and no post-deploy command is outstanding (Reconcile's last lines).
ObservedMeansDeployed ==
    cr.observed = cr.gen =>
        /\ serverCM.content = cr.spec.conf /\ pluginsCM.content = cr.spec.plugins
        /\ sts.template = cr.spec.template /\ sts.replicas = cr.spec.replicas
        /\ serverCM.updatedAt # NoTime => sts.restartAt >= serverCM.updatedAt
        /\ pluginsCM.updatedAt = NoTime /\ ~sts.created

\* A pod that runs an outdated rabbitmq.conf is going to be restarted: the change is
\* about to be annotated, or restartStatefulSetIfNeeded will act on the annotation, or
\* the pod belongs to an older revision; unless a failure hit the step that annotates.
RestartPending(p) ==
    \/ pc = "annotateServerConf"
    \/ restartNeeded
    \/ pods[p].rev # RevisionOf(sts)
NoLostRestart ==
    \A p \in Pods : pods[p].up /\ pods[p].conf # serverCM.content =>
        RestartPending(p) \/ "serverConf" \in lost

\* A pod whose enabled plugins differ from the plugins ConfigMap is reached by the
\* 'rabbitmq-plugins set' loop, which takes the annotation away only after every pod.
NoLostPlugins ==
    \A p \in Pods : pods[p].up /\ p < sts.replicas /\ pods[p].plugins # pluginsCM.content =>
        \/ pc = "annotatePlugins" \/ pluginsCM.updatedAt # NoTime
        \/ "plugins" \in lost

\* The StatefulSet never loses replicas, whatever users, stale reads and failures do
\* (scaleDown in reconcile_scale_down.go: scaling down loses the nodes' data).
NoScaleDown == [][sts'.replicas >= sts.replicas]_sts

\* observedGeneration never goes back, although reconciles work on stale copies.
ObservedMonotone == [][cr'.observed >= cr.observed]_cr

\* The reconcile loop implements DeclaredCluster: a generation is observed only when each
\* child object is as it declares, and no reconcile, from however old a copy, changes one
\* of them before the next edit (Reconcile's last lines).
Declared == INSTANCE DeclaredCluster WITH
    Specs <- [conf: Confs \union {None}, plugins: PluginSets \union {None},
              template: Templates \union {None}, replicas: 0..MaxReplicas],
    declared <- [conf |-> cr.spec.conf, plugins |-> cr.spec.plugins,
                 template |-> cr.spec.template, replicas |-> cr.spec.replicas],
    actual <- [conf |-> serverCM.content, plugins |-> pluginsCM.content,
               template |-> sts.template, replicas |-> sts.replicas],
    generation <- cr.gen, observed <- cr.observed
ImplementsDeclared == Declared!Spec

--------------------------------------------------------------------------------
(* Liveness, under Fairness. *)

\* Each reconcile of a new cluster of no nodes fails: pod 0, which the feature flags are to
\* be enabled on, is not there (reconcile_cli.go:70).
WithoutNodes == cr.spec.replicas = 0 /\ sts.created
Rejected == cr.spec.tls # "valid" \/ (Exists /\ sts.replicas > cr.spec.replicas)
Deployed(p) ==
    /\ pods[p].up /\ pods[p].rev = RevisionOf(sts)
    /\ pods[p].plugins = cr.spec.plugins \/ "plugins" \in lost
    /\ pods[p].conf = cr.spec.conf \/ "serverConf" \in lost
Settled ==
    IF cr.paused THEN cr.pauseWarning \/ cr.success = "Unset"
    ELSE IF Rejected \/ WithoutNodes THEN cr.success = "False"
    ELSE /\ cr.observed = cr.gen /\ cr.success = "True" /\ cr.ready = "True"
         /\ ~cr.pauseWarning
         /\ \A p \in Pods : p < cr.spec.replicas => Deployed(p)
         /\ broker.featureFlags \/ "created" \in lost

\* After the last edit and the last failure the cluster settles for good: paused and
\* saying so, rejected or without nodes and saying that it fails, or running the spec it
\* reports as observed.
Converges == <>[]Settled

\* The operator does not restart the nodes over and over: each change of rabbitmq.conf
\* leads to finitely many restarts.
RestartsSettle == <>[][sts'.restartAt = sts.restartAt]_vars

\* A cluster marked for a queue rebalance gets one, unless it is paused or its spec is
\* rejected before the reconcile reaches the command.
RebalanceMarkHonoured == cr.rebalance ~> ~cr.rebalance \/ cr.paused \/ Rejected

\* What the repository's texts say, and failures refute.

\* api/v1beta1/rabbitmqcluster_types.go on additionalConfig: modifying it triggers a
\* rolling restart. A failure between the update of the server-conf ConfigMap and its
\* annotation leaves the nodes with the old file for good.
ConfChangeRestartsNodes ==
    <>[](\A p \in Pods : p < cr.spec.replicas => pods[p].up /\ pods[p].conf = cr.spec.conf)

\* api/v1beta1/rabbitmqcluster_types.go on skipPostDeploySteps: unless it is set, queues
\* are rebalanced whenever the cluster is updated. A rollout that begins and ends
\* between two reads of the StatefulSet's status is not noticed.
UpdatesAreRebalanced == ~broker.balanced ~> broker.balanced
=============================================================================
