------------------------------ MODULE ClusterStatus ------------------------------
(***************************************************************************)
(* What the status of a RabbitmqCluster says of its children when the      *)
(* operator sees all of them, those that it has just written itself too,   *)
(* through informers that lag behind the API server.                       *)
(*                                                                         *)
(* Of each object there are the version that the informer shows and the    *)
(* one that the API server holds.  An update made from an outdated version *)
(* is refused.  The informer shows the latest version when it delivers:    *)
(* those in between may pass unseen.  A spec may name a TLS Secret that    *)
(* the user provides late; nobody watches it.                              *)
(*                                                                         *)
(* The cluster has one node.  The resource's own informer, the plugins,    *)
(* the default user in the status, the post-deploy commands, the pause and *)
(* failing calls are ClusterReconciler's subject, whose children are seen  *)
(* at once; here the children are seen late, and the resource at once.     *)
(***************************************************************************)
EXTENDS Naturals

CONSTANTS
    InitialSpecs,   \* specs a cluster is created with
    DeployedSpecs,  \* specs of clusters that an earlier operator deployed
    Edits,          \* pairs of a spec and one that a user changes it to
    Confs,          \* contents of rabbitmq.conf that the spec can ask for
    Templates,      \* pod templates that the rest of the spec can ask for
    Uneven,         \* those whose memory request and limit differ
    Secured,        \* those that mount the Secret that spec.tls names
    MaxEdits,       \* bound on the user's writes
    None            \* no such object

ASSUME ConstantsAssumption ==
    /\ InitialSpecs \cup DeployedSpecs \subseteq [conf: Confs, template: Templates]
    /\ Edits \subseteq [conf: Confs, template: Templates] \X [conf: Confs, template: Templates]
    /\ Uneven \subseteq Templates /\ Secured \subseteq Templates
    /\ MaxEdits \in Nat
    /\ None \notin Confs \cup Templates

VARIABLES
    cluster,        \* the RabbitmqCluster
    serverCM,       \* ConfigMap server-conf
    sts,            \* the StatefulSet, its status included
    endpoints,      \* what the informer shows of the Endpoints of the client Service
    tlsSecret,      \* the user's Secret of spec.tls: "incomplete" without one of its keys
    work,           \* the reconciler's copy of the resource; None between reconciles
    pc,             \* the reconcile step that comes next, "idle" between reconciles
    queued,         \* the request is in the work queue
    pod,            \* the node, and what it was started with
    now,            \* the clock in seconds, the resolution of the annotations
    edits,          \* the user's writes so far
    lost            \* history: an annotation was given up

vars == <<cluster, serverCM, sts, endpoints, tlsSecret, work, pc, queued, pod, now, edits, lost>>
children == <<serverCM, sts, endpoints>>

NoTime == 0         \* an annotation that is not set; the clock starts at 1

Condition == {"Unknown", "True", "False"}
Cluster == [gen: Nat, conf: Confs, template: Templates, observed: Nat,
            ready: Condition, available: Condition, noWarnings: Condition,
            success: Condition \cup {"Unset"}]
ConfigMap == [content: Confs, updatedAt: Nat]
StatefulSet == [template: Templates, restartAt: Nat, ready: BOOLEAN, updating: BOOLEAN]
Revision == [template: Templates \cup {None}, restartAt: Nat]
Steps == {"idle", "updateStatusConditions", "reconcileTLS", "serverConfigMap",
          "annotateServerConf", "statefulSet", "restartNeeded", "restartStatefulSet",
          "runCLICommands"}

\* "No such object" is not an object.
ASSUME NoneAssumption == None \notin ConfigMap /\ None \notin StatefulSet

Seen(object) == object.seen
Actual(object) == object.actual
UpToDate(object) == object.latest

New(content) == [seen |-> content, actual |-> content, latest |-> TRUE]
Shown(object) == New(object.actual)

\* An update that changes nothing makes no version.
Written(object, new) ==
    IF new = object.actual THEN object ELSE [object EXCEPT !.actual = new, !.latest = FALSE]

RevisionOf(s) == [template |-> s.template, restartAt |-> s.restartAt]

\* A cluster without children.
InitNew ==
    /\ \E s \in InitialSpecs :
         cluster = [gen |-> 1, conf |-> s.conf, template |-> s.template, observed |-> 0,
                    ready |-> "Unknown", available |-> "Unknown", noWarnings |-> "Unknown",
                    success |-> "Unset"]
    /\ serverCM = New(None) /\ sts = New(None) /\ endpoints = None /\ tlsSecret = None
    /\ pod = [up |-> FALSE, conf |-> None, rev |-> [template |-> None, restartAt |-> NoTime]]

\* A cluster that was deployed before the operator started, and edited while it was away.
InitDeployed ==
    \E old \in DeployedSpecs, edit \in Edits :
        /\ edit[1] = old
        /\ cluster = [gen |-> 2, conf |-> edit[2].conf, template |-> edit[2].template, observed |-> 1,
                      ready |-> "True", available |-> "True", success |-> "True",
                      noWarnings |-> IF old.template \in Uneven THEN "False" ELSE "True"]
        /\ serverCM = New([content |-> old.conf, updatedAt |-> NoTime])
        /\ sts = New([template |-> old.template, restartAt |-> NoTime, ready |-> TRUE,
                      updating |-> FALSE])
        /\ endpoints = "address"
        /\ tlsSecret = IF old.template \in Secured THEN "complete" ELSE None
        /\ pod = [up |-> TRUE, conf |-> old.conf, rev |-> RevisionOf(Actual(sts))]

\* The informers have listed everything before the first reconcile.
Init ==
    /\ InitNew \/ InitDeployed
    /\ work = None /\ pc = "idle" /\ queued = TRUE
    /\ now = 1 /\ edits = 0 /\ lost = FALSE

--------------------------------------------------------------------------------
(* The reconcile. *)

Goto(step) == pc' = step /\ UNCHANGED queued
Requeue == pc' = "idle" /\ work' = None /\ queued' = TRUE

\* Defective variant: the copy outlives the reconcile.
EndWithStatusKept(new) ==
    /\ cluster' = IF work.latest THEN new ELSE cluster
    /\ queued' = (queued \/ cluster' # cluster)
    /\ pc' = "idle" /\ UNCHANGED work

\* A conflict is only logged; the event of a write that changes something queues a reconcile.
EndWithStatus(new) ==
    /\ cluster' = IF work.latest THEN new ELSE cluster
    /\ queued' = (queued \/ cluster' # cluster)
    /\ pc' = "idle" /\ work' = None

\* An error is recorded and returned, which queues the request again.
SetReconcileSuccessFalse ==
    /\ cluster' = IF work.latest THEN [work.obj EXCEPT !.success = "False"] ELSE cluster
    /\ Requeue

StartReconcile ==
    /\ pc = "idle" /\ queued
    /\ queued' = FALSE
    /\ work' = [obj |-> cluster, latest |-> TRUE]
    /\ pc' = "updateStatusConditions"
    /\ UNCHANGED <<cluster, children, tlsSecret, pod, now, edits, lost>>

TrueIf(holds) == IF holds THEN "True" ELSE "False"

\* Of the StatefulSet and the Endpoints that the informers show.
AllReplicasReadyCondition ==
    IF Seen(sts) = None THEN "Unknown" ELSE TrueIf(Seen(sts).ready)
ClusterAvailableCondition ==
    IF endpoints = None THEN "Unknown" ELSE TrueIf(endpoints = "address")
NoWarningsCondition ==
    IF Seen(sts) = None THEN "Unknown" ELSE TrueIf(Seen(sts).template \notin Uneven)

\* Defective variant: the conditions are set once.
SetConditionsOnce(obj) ==
    IF obj.available # "Unknown" THEN obj ELSE
    [obj EXCEPT !.ready = AllReplicasReadyCondition,
                !.available = ClusterAvailableCondition,
                !.noWarnings = NoWarningsCondition,
                !.success = IF @ = "Unset" THEN "Unknown" ELSE @]

SetConditions(obj) ==
    [obj EXCEPT !.ready = AllReplicasReadyCondition,
                !.available = ClusterAvailableCondition,
                !.noWarnings = NoWarningsCondition,
                !.success = IF @ = "Unset" THEN "Unknown" ELSE @]

SecretTLSEnabled(obj) == obj.template \in Secured

\* Without TLS there is nothing to check.
AfterConditions == IF SecretTLSEnabled(work.obj) THEN "reconcileTLS" ELSE "serverConfigMap"

UpdateStatusConditions ==
    /\ pc = "updateStatusConditions"
    /\ LET new == SetConditions(work.obj) IN
         \/ new = work.obj /\ Goto(AfterConditions) /\ UNCHANGED <<cluster, work>>
         \/ /\ new # work.obj /\ work.latest
            /\ cluster' = new /\ work' = [work EXCEPT !.obj = new]
            /\ pc' = AfterConditions /\ queued' = TRUE
         \/ new # work.obj /\ ~work.latest /\ Requeue /\ UNCHANGED cluster
    /\ UNCHANGED <<children, tlsSecret, pod, now, edits, lost>>

\* The Secret has all its keys.
ReconcileTLS ==
    /\ pc = "reconcileTLS" /\ tlsSecret = "complete"
    /\ Goto("serverConfigMap")
    /\ UNCHANGED <<cluster, children, tlsSecret, work, pod, now, edits, lost>>

\* Nobody watches it: the error is returned for the request to be tried again.
RejectTLS ==
    /\ pc = "reconcileTLS" /\ tlsSecret # "complete"
    /\ SetReconcileSuccessFalse
    /\ UNCHANGED <<children, tlsSecret, pod, now, edits, lost>>

\* CreateOrUpdate compares with, and writes over, what the informer shows.
desiredServerCM ==
    IF Seen(serverCM) = None THEN [content |-> work.obj.conf, updatedAt |-> NoTime]
    ELSE [Seen(serverCM) EXCEPT !.content = work.obj.conf]

\* Defective variant: the builder replaces the pod template's annotations.
desiredStsUnannotated ==
    IF Seen(sts) = None
    THEN [template |-> work.obj.template, restartAt |-> NoTime, ready |-> FALSE, updating |-> FALSE]
    ELSE [Seen(sts) EXCEPT !.template = work.obj.template, !.restartAt = NoTime]

desiredSts ==
    IF Seen(sts) = None
    THEN [template |-> work.obj.template, restartAt |-> NoTime, ready |-> FALSE, updating |-> FALSE]
    ELSE [Seen(sts) EXCEPT !.template = work.obj.template]

\* A change that the informer does not show yet is neither noticed nor annotated.
ReconcileServerConfigMap ==
    /\ pc = "serverConfigMap"
    /\ \/ Seen(serverCM) = desiredServerCM /\ Goto("statefulSet") /\ UNCHANGED serverCM
       \/ /\ Seen(serverCM) # desiredServerCM /\ UpToDate(serverCM)
          /\ serverCM' = Written(serverCM, desiredServerCM)
          /\ Goto(IF Seen(serverCM) = None THEN "statefulSet" ELSE "annotateServerConf")
    /\ UNCHANGED <<cluster, sts, endpoints, tlsSecret, work, pod, now, edits, lost>>

\* Defective variant: a time noted before is kept.
AnnotateServerConfigMapOnce ==
    /\ pc = "annotateServerConf" /\ UpToDate(serverCM)
    /\ serverCM' = Written(serverCM, [Actual(serverCM) EXCEPT !.updatedAt = IF @ = NoTime THEN now ELSE @])
    /\ Goto("statefulSet")
    /\ UNCHANGED <<cluster, sts, endpoints, tlsSecret, work, pod, now, edits, lost>>

\* The Get of each attempt may wait for the informer to show the update just made.
AnnotateServerConfigMap ==
    /\ pc = "annotateServerConf" /\ UpToDate(serverCM)
    /\ serverCM' = Written(serverCM, [Actual(serverCM) EXCEPT !.updatedAt = now])
    /\ Goto("statefulSet")
    /\ UNCHANGED <<cluster, sts, endpoints, tlsSecret, work, pod, now, edits, lost>>

ReconcileStatefulSet ==
    /\ pc = "statefulSet"
    /\ \/ Seen(sts) = desiredSts /\ UNCHANGED sts
       \/ Seen(sts) # desiredSts /\ UpToDate(sts) /\ sts' = Written(sts, desiredSts)
    /\ Goto("restartNeeded")
    /\ UNCHANGED <<cluster, serverCM, endpoints, tlsSecret, work, pod, now, edits, lost>>

\* Without the ConfigMap or the StatefulSet the request is queued again.
RestartNeeded ==
    /\ pc = "restartNeeded"
    /\ LET annotated == Seen(serverCM) # None /\ Seen(serverCM).updatedAt # NoTime
           unknown == Seen(serverCM) = None \/ (annotated /\ Seen(sts) = None)
       IN  IF unknown THEN Requeue
           ELSE /\ Goto(IF annotated /\ Seen(sts).restartAt <= Seen(serverCM).updatedAt
                        THEN "restartStatefulSet" ELSE "runCLICommands")
                /\ UNCHANGED work
    /\ UNCHANGED <<cluster, children, tlsSecret, pod, now, edits, lost>>

\* The StatefulSet is read once more, but whether it needs the restart is not.
RestartStatefulSet ==
    /\ pc = "restartStatefulSet" /\ UpToDate(sts) /\ Actual(sts) # None
    /\ sts' = Written(sts, [Actual(sts) EXCEPT !.restartAt = now])
    /\ Goto("runCLICommands")
    /\ UNCHANGED <<cluster, serverCM, endpoints, tlsSecret, work, pod, now, edits, lost>>

ReadyAndUpdated(s) == s.ready /\ ~s.updating

RunCLICommandsIfAnnotated ==
    /\ pc = "runCLICommands"
    /\ \/ Seen(sts) = None /\ SetReconcileSuccessFalse
       \/ Seen(sts) # None /\ ~ReadyAndUpdated(Seen(sts)) /\ Requeue /\ UNCHANGED cluster
    /\ UNCHANGED <<children, tlsSecret, pod, now, edits, lost>>

\* No command is outstanding.
FinishReconcile ==
    /\ pc = "runCLICommands" /\ Seen(sts) # None /\ ReadyAndUpdated(Seen(sts))
    /\ EndWithStatus([work.obj EXCEPT !.success = "True", !.observed = work.obj.gen])
    /\ UNCHANGED <<children, tlsSecret, pod, now, edits, lost>>

--------------------------------------------------------------------------------
(* What an informer that stays behind makes of the writes. *)

\* What was read is out of date at each attempt; a creation is refused at the first.
CreateOrUpdateFails ==
    /\ \/ pc = "serverConfigMap" /\ ~UpToDate(serverCM) /\ Seen(serverCM) # desiredServerCM
       \/ pc = "statefulSet" /\ ~UpToDate(sts) /\ Seen(sts) # desiredSts
    /\ SetReconcileSuccessFalse
    /\ UNCHANGED <<children, tlsSecret, pod, now, edits, lost>>

\* Each attempt meets a conflict, and the next reconcile finds nothing to annotate.
AnnotateFails ==
    /\ pc = "annotateServerConf" /\ ~UpToDate(serverCM)
    /\ lost' = TRUE
    /\ Requeue
    /\ UNCHANGED <<cluster, children, tlsSecret, pod, now, edits>>

RestartFails ==
    /\ pc = "restartStatefulSet" /\ ~UpToDate(sts)
    /\ Requeue
    /\ UNCHANGED <<cluster, children, tlsSecret, pod, now, edits, lost>>

\* Defective variant: the operator does not watch the ConfigMaps.
ServerConfigMapUnwatched ==
    /\ ~UpToDate(serverCM) /\ serverCM' = Shown(serverCM)
    /\ UNCHANGED <<cluster, sts, endpoints, tlsSecret, work, pc, queued, pod, now, edits, lost>>

\* An event of what the controller owns puts the owner in the queue.
ServerConfigMapDelivered ==
    /\ ~UpToDate(serverCM) /\ serverCM' = Shown(serverCM)
    /\ queued' = TRUE
    /\ UNCHANGED <<cluster, sts, endpoints, tlsSecret, work, pc, pod, now, edits, lost>>

StatefulSetDelivered ==
    /\ ~UpToDate(sts) /\ sts' = Shown(sts)
    /\ queued' = TRUE
    /\ UNCHANGED <<cluster, serverCM, endpoints, tlsSecret, work, pc, pod, now, edits, lost>>

\* The Endpoints follow the pods.  They are read through an informer too, but no event of
\* theirs queues anything.
EndpointsDelivered ==
    /\ Actual(sts) # None
    /\ LET new == IF pod.up THEN "address" ELSE "empty"
       IN  endpoints # new /\ endpoints' = new
    /\ UNCHANGED <<cluster, serverCM, sts, tlsSecret, work, pc, queued, pod, now, edits, lost>>

\* The informers' periodic resync queues the cluster without a change.
Resync ==
    /\ pc = "idle" /\ ~queued
    /\ queued' = TRUE
    /\ UNCHANGED <<cluster, children, tlsSecret, work, pc, pod, now, edits, lost>>

--------------------------------------------------------------------------------
(* Users, the clock, Kubernetes. *)

EditSpec ==
    /\ edits < MaxEdits /\ edits' = edits + 1
    /\ \E edit \in Edits :
         /\ edit[1] = [conf |-> cluster.conf, template |-> cluster.template]
         /\ cluster' = [cluster EXCEPT !.conf = edit[2].conf, !.template = edit[2].template,
                                       !.gen = @ + 1]
    /\ work' = IF pc = "idle" THEN work ELSE [work EXCEPT !.latest = FALSE]
    /\ queued' = TRUE
    /\ UNCHANGED <<children, tlsSecret, pc, pod, now, lost>>

\* The user creates the Secret that the spec names, or completes it.
WriteTLSSecret ==
    /\ SecretTLSEnabled(cluster) /\ tlsSecret # "complete"
    /\ tlsSecret' \in {"incomplete", "complete"} \ {tlsSecret}
    /\ UNCHANGED <<cluster, children, work, pc, queued, pod, now, edits, lost>>

\* Only the order of the stamps matters, and the time only where it is about to be read.
Tick ==
    /\ pc \in {"annotateServerConf", "restartStatefulSet"}
    /\ \/ Actual(serverCM) # None /\ Actual(serverCM).updatedAt = now
       \/ Actual(sts) # None /\ Actual(sts).restartAt = now
    /\ now' = now + 1
    /\ UNCHANGED <<cluster, children, tlsSecret, work, pc, queued, pod, edits, lost>>

StatefulSetControllerSyncs ==
    /\ Actual(sts) # None
    /\ LET new == [Actual(sts) EXCEPT
                     !.ready = pod.up,
                     !.updating = pod.rev.template # None /\ ~(pod.up /\ pod.rev = RevisionOf(Actual(sts)))]
       IN  new # Actual(sts) /\ sts' = Written(sts, new)
    /\ UNCHANGED <<cluster, serverCM, endpoints, tlsSecret, work, pc, queued, pod, now, edits, lost>>

PodStops ==
    /\ pod.up /\ Actual(sts).updating /\ pod.rev # RevisionOf(Actual(sts))
    /\ pod' = [pod EXCEPT !.up = FALSE]
    /\ UNCHANGED <<cluster, children, tlsSecret, work, pc, queued, now, edits, lost>>

PodStarts ==
    /\ ~pod.up /\ Actual(sts) # None
    /\ pod' = [up |-> TRUE, conf |-> Actual(serverCM).content, rev |-> RevisionOf(Actual(sts))]
    /\ UNCHANGED <<cluster, children, tlsSecret, work, pc, queued, now, edits, lost>>

--------------------------------------------------------------------------------

ReconcileStep ==
    \/ StartReconcile \/ UpdateStatusConditions \/ ReconcileTLS \/ RejectTLS
    \/ ReconcileServerConfigMap \/ AnnotateServerConfigMap \/ ReconcileStatefulSet
    \/ RestartNeeded \/ RestartStatefulSet \/ RunCLICommandsIfAnnotated \/ FinishReconcile
    \/ CreateOrUpdateFails \/ AnnotateFails \/ RestartFails

KubernetesStep ==
    StatefulSetControllerSyncs \/ PodStops \/ PodStarts

Next ==
    \/ ReconcileStep \/ KubernetesStep
    \/ ServerConfigMapDelivered \/ StatefulSetDelivered \/ EndpointsDelivered
    \/ Resync \/ EditSpec \/ WriteTLSSecret \/ Tick

Spec == Init /\ [][Next]_vars

\* One worker, three informers that deliver, the resync, and Kubernetes; users owe nothing.
Fairness ==
    /\ WF_vars(ReconcileStep) /\ WF_vars(KubernetesStep)
    /\ WF_vars(ServerConfigMapDelivered) /\ WF_vars(StatefulSetDelivered)
    /\ WF_vars(EndpointsDelivered)
    /\ WF_vars(Resync) /\ SF_vars(Tick)

FairSpec == Spec /\ Fairness

--------------------------------------------------------------------------------
(* Safety. *)

Object(type) == [seen: type \cup {None}, actual: type \cup {None}, latest: BOOLEAN]

TypeOK ==
    /\ cluster \in Cluster
    /\ serverCM \in Object(ConfigMap) /\ sts \in Object(StatefulSet)
    /\ endpoints \in {None, "address", "empty"}
    /\ tlsSecret \in {None, "incomplete", "complete"}
    /\ pc \in Steps /\ queued \in BOOLEAN /\ lost \in BOOLEAN
    /\ IF pc = "idle" THEN work = None ELSE work \in [obj: Cluster, latest: BOOLEAN]
    /\ pod \in [up: BOOLEAN, conf: Confs \cup {None}, rev: Revision]
    /\ now \in Nat /\ edits \in 0..MaxEdits

\* Nothing calls for another reconcile before the resync.
AtRest ==
    pc = "idle" /\ ~queued /\ UpToDate(serverCM) /\ UpToDate(sts)

\* At rest the status is right: whatever the reconciles read too early, reported too early
\* or could not write, each such read is followed by an event that corrects it.  Not so for
\* ClusterAvailable, as nothing watches the Endpoints (SetupWithManager).  And no cluster
\* rests that waits for its TLS Secret, which nothing watches either (reconcileTLS).
StatusIsTrueAtRest ==
    AtRest =>
        /\ cluster.observed = cluster.gen /\ cluster.success = "True"
        /\ Actual(serverCM).content = cluster.conf /\ Actual(sts).template = cluster.template
        /\ cluster.ready = TrueIf(Actual(sts).ready)
        /\ cluster.noWarnings = TrueIf(cluster.template \notin Uneven)
        /\ SecretTLSEnabled(cluster) => tlsSecret = "complete"

\* At rest a node of the present revision runs the present rabbitmq.conf, or the next
\* reconcile restarts it because both stamps are of the same second, unless the annotation
\* was given up after conflicts with the operator's own last write (updateAnnotation).
NoLostRestart ==
    AtRest /\ pod.up /\ pod.rev = RevisionOf(Actual(sts)) =>
        \/ pod.conf = Actual(serverCM).content
        \/ NoTime < Actual(serverCM).updatedAt /\ Actual(sts).restartAt <= Actual(serverCM).updatedAt
        \/ lost

--------------------------------------------------------------------------------
(* Liveness, under Fairness. *)

\* After the last edit the conditions catch up with the cluster for good, ClusterAvailable
\* at the latest with the resync, and the node runs what the status reports as observed; or
\* the cluster says that it fails for want of a complete TLS Secret.
StatusCatchesUp ==
    <>[]IF SecretTLSEnabled(cluster) /\ tlsSecret # "complete"
        THEN cluster.success = "False"
        ELSE /\ cluster.observed = cluster.gen /\ cluster.success = "True"
             /\ cluster.ready = "True" /\ cluster.available = "True"
             /\ cluster.noWarnings = TrueIf(cluster.template \notin Uneven)
             /\ pod.up /\ pod.rev.template = cluster.template
             /\ pod.conf = cluster.conf \/ lost

\* A restart that is decided on an outdated StatefulSet is one too many, but the node is not
\* restarted over and over.
RestartsSettle ==
    <>[][Actual(sts') # None /\ Actual(sts) # None
             => Actual(sts').restartAt = Actual(sts).restartAt]_sts
=============================================================================
