--------------------------- MODULE PersistenceScaling ---------------------------
(***************************************************************************)
(* How the operator expands a cluster's volumes.  A StatefulSet's volume   *)
(* claim templates cannot be updated, so the operator deletes the          *)
(* StatefulSet, leaves its pods running as orphans, raises the request of  *)
(* each PersistentVolumeClaim, and creates the StatefulSet anew: a window  *)
(* of several calls in which the guards against shrinking and scaling      *)
(* down, which compare with the StatefulSet, have nothing to compare with. *)
(*                                                                         *)
(* The scaler reads the StatefulSet and the claims from the API server;    *)
(* the rest of Reconcile reads the StatefulSet from the informer's cache.  *)
(* Of the other steps of Reconcile, which ClusterReconciler models, what   *)
(* matters here is that they can conflict and that the last ones wait for  *)
(* the pods.                                                               *)
(***************************************************************************)
EXTENDS Naturals, FiniteSets, FiniteSetsExt

CONSTANTS
    MaxReplicas,    \* no spec asks for more replicas
    Capacities,     \* values of spec.persistence.storage; 0 is ephemeral storage
    InitialSpecs,   \* specs a cluster is created with
    Specs,          \* specs a user changes it to
    MaxEdits,       \* bound on the user's writes
    MaxFaults       \* bound on crashes and failed calls

SpecType == [replicas: 0..MaxReplicas, capacity: Capacities]

ASSUME ConstantsAssumption ==
    /\ MaxReplicas \in Nat /\ MaxEdits \in Nat /\ MaxFaults \in Nat
    /\ Capacities \subseteq Nat
    /\ InitialSpecs \subseteq SpecType /\ Specs \subseteq SpecType

VARIABLES
    cr,             \* the RabbitmqCluster in the API server
    cache,          \* the informer's copy, and whether it is the latest version
    work,           \* the same of the reconciler's copy
    sts,            \* the StatefulSet in the API server
    stsCache,       \* the informer's copy of it, and whether it is the latest
    pvcs,           \* the storage each PersistentVolumeClaim requests
    pods,           \* the pods that run
    pc,             \* the step that comes next, "idle" between reconciles
    todo,           \* pvcsToBeScaled: the claims still to be updated
    queued,         \* the request is in the work queue
    edits, faults   \* how much of the bounds is used

vars == <<cr, cache, work, sts, stsCache, pvcs, pods, pc, todo, queued, edits, faults>>
copies == <<cr, cache, work>>
kubernetes == <<sts, stsCache, pvcs, pods>>
bounds == <<edits, faults>>

Ordinals == 0..(MaxReplicas - 1)
NoPVC == 0
NoSts == [exists |-> FALSE, deleting |-> FALSE, replicas |-> 0, capacity |-> 0]

Cluster == [gen: Nat, spec: SpecType, observed: Nat, success: {"Unset", "True", "False"}]
StatefulSet == [exists: BOOLEAN, deleting: BOOLEAN, replicas: 0..MaxReplicas,
                capacity: Capacities \union {0}]
Steps == {"idle", "scaleDown", "Scale", "getClusterPVCs", "deleteSts", "awaitDeletion",
          "scaleUpPVCs", "createOrUpdate", "annotateCreated", "finish"}

TypeOK ==
    /\ cr \in Cluster
    /\ cache \in [obj: Cluster, latest: BOOLEAN] /\ work \in [obj: Cluster, latest: BOOLEAN]
    /\ sts \in StatefulSet /\ stsCache \in [obj: StatefulSet, latest: BOOLEAN]
    /\ pvcs \in [Ordinals -> Capacities \union {NoPVC}] /\ pods \subseteq Ordinals
    /\ pc \in Steps /\ todo \subseteq Ordinals /\ queued \in BOOLEAN
    /\ edits \in 0..MaxEdits /\ faults \in 0..MaxFaults

Init ==
    /\ \E s \in InitialSpecs :
         cr = [gen |-> 1, spec |-> s, observed |-> 0, success |-> "Unset"]
    /\ cache = [obj |-> cr, latest |-> TRUE] /\ work = cache
    /\ sts = NoSts /\ stsCache = [obj |-> NoSts, latest |-> TRUE]
    /\ pvcs = [p \in Ordinals |-> NoPVC] /\ pods = {}
    /\ pc = "idle" /\ todo = {} /\ queued = TRUE
    /\ edits = 0 /\ faults = 0

--------------------------------------------------------------------------------
(* The ways a step ends. *)

spec == work.obj.spec

Goto(step) == pc' = step /\ UNCHANGED <<todo, queued>>
Ended == pc' = "idle" /\ todo' = {}
Done == Ended /\ UNCHANGED <<work, queued>>
Requeue == Ended /\ queued' = TRUE /\ UNCHANGED work
NotWritten == UNCHANGED <<cr, cache>>

\* The Status().Update of setReconcileSuccess: a conflict is only logged.
TryWriteStatus(new) ==
    IF work.latest /\ new # cr
    THEN cr' = new /\ cache' = [cache EXCEPT !.latest = FALSE]
    ELSE NotWritten

SetReconcileSuccess(condition) ==
    TryWriteStatus([work.obj EXCEPT !.success = condition])

\* Reconcile records the error and returns it: the request is queued again.
ReturnError == SetReconcileSuccess("False") /\ Requeue

WriteSts(new) == sts' = new /\ stsCache' = [stsCache EXCEPT !.latest = FALSE]

--------------------------------------------------------------------------------
(* Reconcile up to the StatefulSet, and the guards. *)

StartReconcile ==
    /\ pc = "idle" /\ queued
    /\ queued' = FALSE
    /\ work' = cache
    /\ pc' = "scaleDown"
    /\ UNCHANGED <<cr, cache, kubernetes, todo, bounds>>

\* A write of an earlier step is refused, because the copy is an old one.
EarlierStepConflicts ==
    /\ pc = "scaleDown" /\ ~work.latest
    /\ Requeue /\ NotWritten
    /\ UNCHANGED <<kubernetes, bounds>>

\* Judged by the cached StatefulSet; nothing retries a cluster that is rejected.
scaleDown == stsCache.obj.exists /\ stsCache.obj.replicas > spec.replicas

RejectScaleDown ==
    /\ pc = "scaleDown" /\ scaleDown
    /\ SetReconcileSuccess("False") /\ Done
    /\ UNCHANGED <<kubernetes, bounds>>

AcceptReplicas ==
    /\ pc = "scaleDown" /\ ~scaleDown
    /\ Goto("Scale")
    /\ UNCHANGED <<copies, kubernetes, bounds>>

ephemeralToPersistent == sts.exists /\ sts.capacity = 0 /\ spec.capacity # 0
shrinking == sts.exists /\ sts.capacity > spec.capacity

RejectCapacity ==
    /\ pc = "Scale" /\ (ephemeralToPersistent \/ shrinking)
    /\ ReturnError
    /\ UNCHANGED <<kubernetes, bounds>>

AcceptCapacity ==
    /\ pc = "Scale" /\ ~ephemeralToPersistent /\ ~shrinking
    /\ Goto("getClusterPVCs")
    /\ UNCHANGED <<copies, kubernetes, bounds>>

--------------------------------------------------------------------------------
(* Scale, after its guards. *)

\* Defective variant: whichever claims differ from the desired capacity.
pvcsThatDiffer ==
    {p \in Ordinals : p < spec.replicas /\ pvcs[p] # NoPVC /\ pvcs[p] # spec.capacity}
\* Defective variant: the loop over the ordinals stops one short.
pvcsButTheLast ==
    {p \in Ordinals : p + 1 < spec.replicas /\ pvcs[p] # NoPVC /\ pvcs[p] < spec.capacity}

pvcsNeedingScaling ==
    {p \in Ordinals : p < spec.replicas /\ pvcs[p] # NoPVC /\ pvcs[p] < spec.capacity}

GetClusterPVCs ==
    /\ pc = "getClusterPVCs"
    /\ todo' = pvcsNeedingScaling
    /\ pc' = IF pvcsNeedingScaling = {} THEN "createOrUpdate" ELSE "deleteSts"
    /\ UNCHANGED <<copies, kubernetes, queued, bounds>>

\* Defective variant: a StatefulSet that is gone already is an error.
DeleteStsStrict ==
    /\ pc = "deleteSts"
    /\ IF sts.exists
       THEN /\ WriteSts([sts EXCEPT !.deleting = TRUE])
            /\ Goto("awaitDeletion") /\ UNCHANGED copies
       ELSE ReturnError /\ UNCHANGED <<sts, stsCache>>
    /\ UNCHANGED <<pvcs, pods, bounds>>

\* Delete with the Orphan policy: the object stays until the garbage collector has
\* released the pods.  A StatefulSet that is gone already need not be deleted.
DeleteSts ==
    /\ pc = "deleteSts"
    /\ IF sts.exists
       THEN WriteSts([sts EXCEPT !.deleting = TRUE]) /\ Goto("awaitDeletion")
       ELSE UNCHANGED <<sts, stsCache>> /\ Goto("scaleUpPVCs")
    /\ UNCHANGED <<copies, pvcs, pods, bounds>>

StsDeleted ==
    /\ pc = "awaitDeletion" /\ ~sts.exists
    /\ Goto("scaleUpPVCs")
    /\ UNCHANGED <<copies, kubernetes, bounds>>

\* Ten attempts, three seconds apart, and the StatefulSet is still there.
DeletionTimesOut ==
    /\ pc = "awaitDeletion" /\ sts.exists
    /\ ReturnError
    /\ UNCHANGED <<kubernetes, bounds>>

\* Defective variant: the desired capacity is added to the claim's.
ScaleUpPVCBy ==
    /\ pc = "scaleUpPVCs"
    /\ pvcs' = [pvcs EXCEPT ![Min(todo)] = @ + spec.capacity]
    /\ todo' = todo \ {Min(todo)}
    /\ pc' = IF todo' = {} THEN "createOrUpdate" ELSE pc
    /\ UNCHANGED <<copies, sts, stsCache, pods, queued, bounds>>

\* One claim: its latest version is read and updated.
ScaleUpPVC ==
    /\ pc = "scaleUpPVCs"
    /\ LET p == Min(todo)
       IN  /\ pvcs' = [pvcs EXCEPT ![p] = spec.capacity]
           /\ todo' = todo \ {p}
           /\ pc' = IF todo = {p} THEN "createOrUpdate" ELSE pc
    /\ UNCHANGED <<copies, sts, stsCache, pods, queued, bounds>>

--------------------------------------------------------------------------------
(* CreateOrUpdate of the StatefulSet, from the cached one, and the steps after it. *)

CreateSts ==
    /\ pc = "createOrUpdate" /\ ~stsCache.obj.exists /\ ~sts.exists
    /\ WriteSts([exists |-> TRUE, deleting |-> FALSE,
                 replicas |-> spec.replicas, capacity |-> spec.capacity])
    /\ Goto("annotateCreated")
    /\ UNCHANGED <<copies, pvcs, pods, bounds>>

SameCapacity == stsCache.obj.capacity = spec.capacity

StsUnchanged ==
    /\ pc = "createOrUpdate" /\ stsCache.obj.exists
    /\ SameCapacity /\ stsCache.obj.replicas = spec.replicas
    /\ Goto("finish")
    /\ UNCHANGED <<copies, kubernetes, bounds>>

UpdateSts ==
    /\ pc = "createOrUpdate" /\ stsCache.obj.exists /\ stsCache.latest
    /\ SameCapacity /\ stsCache.obj.replicas # spec.replicas
    /\ WriteSts([sts EXCEPT !.replicas = spec.replicas])
    /\ Goto("finish")
    /\ UNCHANGED <<copies, pvcs, pods, bounds>>

\* The API server refuses: the object exists, or is gone, or has changed since, or the
\* update would change the volume claim templates.
CreateOrUpdateRefused ==
    /\ pc = "createOrUpdate"
    /\ \/ ~stsCache.obj.exists /\ sts.exists
       \/ /\ stsCache.obj.exists
          /\ ~SameCapacity \/ (~stsCache.latest /\ stsCache.obj.replicas # spec.replicas)
    /\ ReturnError
    /\ UNCHANGED <<kubernetes, bounds>>

\* annotateIfNeeded waits for the cache to show the new StatefulSet.
AnnotateCreated ==
    /\ pc = "annotateCreated" /\ stsCache.latest /\ sts.exists
    /\ WriteSts(sts)
    /\ Goto("finish")
    /\ UNCHANGED <<copies, pvcs, pods, bounds>>

AnnotateCreatedFails ==
    /\ pc = "annotateCreated" /\ (~stsCache.latest \/ ~sts.exists)
    /\ Requeue /\ NotWritten
    /\ UNCHANGED <<kubernetes, bounds>>

allReplicasReady == \A p \in Ordinals : p < stsCache.obj.replicas => p \in pods

\* The CLI step requeues until the pods are ready, and fails without a StatefulSet.
AwaitReplicas ==
    /\ pc = "finish"
    /\ \/ ~stsCache.obj.exists /\ ReturnError
       \/ stsCache.obj.exists /\ ~allReplicasReady /\ Requeue /\ NotWritten
    /\ UNCHANGED <<kubernetes, bounds>>

FinishReconcile ==
    /\ pc = "finish" /\ stsCache.obj.exists /\ allReplicasReady
    /\ TryWriteStatus([work.obj EXCEPT !.success = "True", !.observed = work.obj.gen])
    /\ Done
    /\ UNCHANGED <<kubernetes, bounds>>

--------------------------------------------------------------------------------
(* Failures and the environment. *)

Fault == faults < MaxFaults /\ faults' = faults + 1

\* A call of Scale, CreateOrUpdate or a command fails: recorded, then returned.
CallFails ==
    /\ Fault
    /\ pc \in {"Scale", "getClusterPVCs", "deleteSts", "awaitDeletion", "scaleUpPVCs",
               "createOrUpdate", "finish"}
    /\ ReturnError
    /\ UNCHANGED <<kubernetes, edits>>

\* The operator stops, or a call fails where the error is not recorded.
Crash ==
    /\ Fault
    /\ pc # "idle"
    /\ Requeue /\ NotWritten
    /\ UNCHANGED <<kubernetes, edits>>

EditSpec ==
    /\ edits < MaxEdits /\ edits' = edits + 1
    /\ \E s \in Specs \ {cr.spec} : cr' = [cr EXCEPT !.spec = s, !.gen = @ + 1]
    /\ cache' = [cache EXCEPT !.latest = FALSE]
    /\ work' = [work EXCEPT !.latest = FALSE]
    /\ UNCHANGED <<kubernetes, pc, todo, queued, faults>>

CacheCatchesUp ==
    /\ ~cache.latest
    /\ cache' = [obj |-> cr, latest |-> TRUE]
    /\ queued' = TRUE
    /\ UNCHANGED <<cr, work, kubernetes, pc, todo, bounds>>

StsCacheCatchesUp ==
    /\ ~stsCache.latest
    /\ stsCache' = [obj |-> sts, latest |-> TRUE]
    /\ queued' = TRUE
    /\ UNCHANGED <<copies, sts, pvcs, pods, pc, todo, bounds>>

\* The garbage collector has orphaned the pods and lets the StatefulSet go.
GarbageCollectorReleases ==
    /\ sts.deleting
    /\ WriteSts(NoSts)
    /\ UNCHANGED <<copies, pvcs, pods, pc, todo, queued, bounds>>

\* A StatefulSet that is not being deleted starts its pods, each with its claim if it
\* has none yet; the status that follows is an event for the operator.
PodStarts(p) ==
    /\ sts.exists /\ ~sts.deleting /\ p < sts.replicas /\ p \notin pods
    /\ pods' = pods \union {p}
    /\ pvcs' = IF pvcs[p] = NoPVC THEN [pvcs EXCEPT ![p] = sts.capacity] ELSE pvcs
    /\ queued' = TRUE
    /\ UNCHANGED <<copies, sts, stsCache, pc, todo, bounds>>

\* It takes away the pods beyond its replicas, and leaves their claims.
PodRemoved(p) ==
    /\ sts.exists /\ ~sts.deleting /\ p >= sts.replicas /\ p \in pods
    /\ pods' = pods \ {p}
    /\ queued' = TRUE
    /\ UNCHANGED <<copies, sts, stsCache, pvcs, pc, todo, bounds>>

--------------------------------------------------------------------------------

ReconcileStep ==
    \/ StartReconcile \/ EarlierStepConflicts
    \/ RejectScaleDown \/ AcceptReplicas \/ RejectCapacity \/ AcceptCapacity
    \/ GetClusterPVCs \/ DeleteSts \/ StsDeleted \/ DeletionTimesOut \/ ScaleUpPVC
    \/ CreateSts \/ StsUnchanged \/ UpdateSts \/ CreateOrUpdateRefused
    \/ AnnotateCreated \/ AnnotateCreatedFails \/ AwaitReplicas \/ FinishReconcile

PodStep == \E p \in Ordinals : PodStarts(p) \/ PodRemoved(p)

Next ==
    \/ ReconcileStep \/ CallFails \/ Crash
    \/ EditSpec \/ CacheCatchesUp \/ StsCacheCatchesUp
    \/ GarbageCollectorReleases \/ PodStep

Spec == Init /\ [][Next]_vars

\* The worker drains its queue, the informers deliver, and Kubernetes does its part.
Fairness ==
    /\ WF_vars(ReconcileStep)
    /\ WF_vars(CacheCatchesUp) /\ WF_vars(StsCacheCatchesUp)
    /\ WF_vars(GarbageCollectorReleases) /\ WF_vars(PodStep)

FairSpec == Spec /\ Fairness

--------------------------------------------------------------------------------
(* Properties. *)

\* The operator never asks for a smaller volume than a claim has, although after a
\* failed expansion the claims differ from one another and from the StatefulSet.
VolumesNeverShrink ==
    [][\A p \in Ordinals : pvcs[p] # NoPVC => pvcs'[p] >= pvcs[p]]_pvcs

\* Nothing is left that would make the operator look at the cluster again.
AtRest == pc = "idle" /\ ~queued /\ cache.latest /\ stsCache.latest

\* A reconcile can report success although a claim is too small: the StatefulSet made it
\* after getClusterPVCs had read the claims.  It is not left at that: with the operator
\* at rest, what ReconcileSuccess and observedGeneration report is so.
ObservedMeansExpanded ==
    AtRest /\ cr.success = "True" /\ cr.observed = cr.gen =>
        /\ sts.exists /\ sts.capacity = cr.spec.capacity /\ sts.replicas = cr.spec.replicas
        /\ \A p \in Ordinals :
             p < cr.spec.replicas /\ pvcs[p] # NoPVC => pvcs[p] >= cr.spec.capacity

Rejected ==
    /\ sts.exists
    /\ \/ sts.replicas > cr.spec.replicas \/ sts.capacity > cr.spec.capacity
       \/ sts.capacity = 0 /\ cr.spec.capacity # 0

\* The claims were expanded before, by a reconcile that failed before it created the
\* StatefulSet, and the spec went back and forth: Scale finds no claim to expand and
\* keeps the StatefulSet, whose template CreateOrUpdate cannot change.
Stuck ==
    /\ sts.exists /\ 0 < sts.capacity /\ sts.capacity < cr.spec.capacity
    /\ \A p \in Ordinals :
         p < cr.spec.replicas => pvcs[p] = NoPVC \/ pvcs[p] >= cr.spec.capacity

Settled ==
    IF Rejected THEN cr.success = "False"
    ELSE /\ sts.exists /\ ~sts.deleting
         /\ sts.replicas = cr.spec.replicas /\ sts.capacity = cr.spec.capacity
         /\ \A p \in Ordinals : p < cr.spec.replicas =>
              p \in pods /\ (cr.spec.capacity # 0 => pvcs[p] >= cr.spec.capacity)
         /\ cr.observed = cr.gen /\ cr.success = "True"

\* After the last edit and the last failure, wherever it hit, the cluster settles:
\* rejected and saying so, or with the StatefulSet, pods and volumes of its spec; or it
\* is stuck and saying so.
Converges == <>[](Settled \/ (Stuck /\ cr.success = "False"))

\* What the repository's texts say, and the window without a StatefulSet refutes.

\* controllers/reconcile_scale_down.go: "cluster scale down not supported".  While the
\* StatefulSet is deleted for an expansion there are no replicas to compare with, and
\* the StatefulSet created anew has no place for nodes that run.
ExpansionKeepsNodes ==
    [][~sts.exists /\ sts'.exists => \A p \in pods : p < sts'.replicas]_sts
=============================================================================
