----------------------------- MODULE ClusterDeletion -----------------------------
(***************************************************************************)
(* How the operator deletes a cluster.  The finalizer it has put on the    *)
(* RabbitmqCluster holds the object back while prepareForDeletion labels   *)
(* the pods, so that their pre-stop hook skips the checks that would wait  *)
(* for a quorum, and deletes the StatefulSet.  Meanwhile the StatefulSet   *)
(* may start pods, and as soon as the finalizer is gone a user may create  *)
(* another cluster of the same name, which the operator's caches do not    *)
(* show yet.                                                               *)
(*                                                                         *)
(* All clusters of an instance have one name, in one or more namespaces.   *)
(* A cluster object stands for its UID and a StatefulSet is named by the   *)
(* cluster that owns it, which is what its UID tells apart.                *)
(***************************************************************************)
EXTENDS Naturals

CONSTANTS
    Clusters,       \* RabbitmqCluster objects, all of the same name
    Namespaces,
    NamespaceOf,    \* the namespace each is created in
    Nodes,          \* the ordinals of a cluster's pods
    MaxFaults,      \* bound on crashes and failed calls
    None            \* no object

ASSUME ConstantsAssumption ==
    /\ NamespaceOf \in [Clusters -> Namespaces]
    /\ MaxFaults \in Nat
    /\ None \notin Clusters

VARIABLES
    cr,             \* the RabbitmqClusters in the API server
    cache,          \* for each namespace, the object that the informer shows
    sts,            \* for each namespace, the owner of its StatefulSet
    stsCache,       \* the same as the informer shows it
    pods,           \* for each namespace and ordinal, the pod
    queued,         \* the namespaces whose request is in the work queue
    pc,             \* the step that comes next, "idle" between reconciles
    work,           \* the namespace under reconcile and the copy of its object
    todo,           \* listed pods that are not labelled yet
    behind,         \* what an API server that lags behind shows of each namespace
    faults,         \* how much of the bound is used
    excused         \* history: clusters whose error in prepareForDeletion was logged,
                    \* or whose StatefulSet a restarted operator created once more

vars == <<cr, cache, sts, stsCache, pods, queued, pc, work, todo, behind, faults, excused>>
clusters == <<cr, cache>>
sets == <<sts, stsCache>>
bounds == <<behind, faults>>

Object == [cluster: Clusters \union {None}, terminating: BOOLEAN, finalizer: BOOLEAN]
NoObject == [cluster |-> None, terminating |-> FALSE, finalizer |-> FALSE]
\* A pod: the cluster it belongs to, whether its pre-stop hook will see the deletion
\* label, whether it is terminating, and (history) whether it started after the list.
Pod == [owner: Clusters \union {None}, label: BOOLEAN, stopping: BOOLEAN, late: BOOLEAN]
NoPod == [owner |-> None, label |-> FALSE, stopping |-> FALSE, late |-> FALSE]
Steps == {"idle", "addFinalizer", "createStatefulSet", "statefulSetUID",
          "addDeletionLabel", "deleteStatefulSet", "removeFinalizer"}

TypeOK ==
    /\ cr \in [Clusters -> [state: {"absent", "live", "terminating", "gone"},
                            finalizer: BOOLEAN]]
    /\ cache \in [Namespaces -> Object]
    /\ sts \in [Namespaces -> Clusters \union {None}]
    /\ stsCache \in [Namespaces -> Clusters \union {None}]
    /\ pods \in [Namespaces -> [Nodes -> {pod \in Pod : pod.owner = None => pod = NoPod}]]
    /\ queued \subseteq Namespaces /\ pc \in Steps
    /\ work \in [namespace: Namespaces, obj: Object]
    /\ todo \subseteq Namespaces \X Nodes
    /\ behind \in [Namespaces -> [obj: Object, sts: Clusters \union {None}]]
    /\ faults \in 0..MaxFaults /\ excused \subseteq Clusters

Init ==
    /\ cr = [c \in Clusters |-> [state |-> "absent", finalizer |-> FALSE]]
    /\ cache = [n \in Namespaces |-> NoObject]
    /\ sts = [n \in Namespaces |-> None] /\ stsCache = sts
    /\ pods = [n \in Namespaces |-> [i \in Nodes |-> NoPod]]
    /\ queued = {} /\ pc = "idle" /\ todo = {}
    /\ work \in [namespace: Namespaces, obj: {NoObject}]
    /\ behind = [n \in Namespaces |-> [obj |-> NoObject, sts |-> None]]
    /\ faults = 0 /\ excused = {}

--------------------------------------------------------------------------------

InApiServer(c) == cr[c].state \in {"live", "terminating"}

\* The object that the API server has under the name in a namespace.
Stored(n) ==
    IF \E c \in Clusters : NamespaceOf[c] = n /\ InApiServer(c)
    THEN LET c == CHOOSE c \in Clusters : NamespaceOf[c] = n /\ InApiServer(c)
         IN  [cluster |-> c, terminating |-> cr[c].state = "terminating",
              finalizer |-> cr[c].finalizer]
    ELSE NoObject

ns == work.namespace
me == work.obj.cluster
Latest == Stored(ns) = work.obj

Goto(step) == pc' = step /\ UNCHANGED <<work, todo, queued>>
Ended == pc' = "idle" /\ todo' = {} /\ UNCHANGED work
Done == Ended /\ UNCHANGED queued
Requeue == Ended /\ queued' = queued \union {ns}

--------------------------------------------------------------------------------
(* Reconcile of a cluster that is not being deleted, as far as deletion needs it. *)

FirstStep(obj) ==
    IF obj.terminating THEN "statefulSetUID"
    ELSE IF obj.finalizer THEN "createStatefulSet" ELSE "addFinalizer"

\* A request whose object is gone, or has no finalizer left, is done with at once.
StartReconcile(n) ==
    /\ pc = "idle" /\ n \in queued
    /\ queued' = queued \ {n}
    /\ work' = [namespace |-> n, obj |-> cache[n]]
    /\ pc' = IF cache[n].cluster = None \/ (cache[n].terminating /\ ~cache[n].finalizer)
             THEN "idle" ELSE FirstStep(cache[n])
    /\ UNCHANGED <<clusters, sets, pods, todo, bounds, excused>>

AddFinalizerIfNeeded ==
    /\ pc = "addFinalizer"
    /\ \/ /\ Latest
          /\ cr' = [cr EXCEPT ![me].finalizer = TRUE]
          /\ work' = [work EXCEPT !.obj.finalizer = TRUE]
          /\ pc' = "createStatefulSet" /\ UNCHANGED <<todo, queued>>
       \/ ~Latest /\ Requeue /\ UNCHANGED cr
    /\ UNCHANGED <<cache, sets, pods, bounds, excused>>

\* CreateOrUpdate: a StatefulSet that another cluster owns, or that the cache does not
\* show, makes it fail.
CreateStatefulSet ==
    /\ pc = "createStatefulSet"
    /\ \/ stsCache[ns] = me /\ Done /\ UNCHANGED <<sts, excused>>
       \/ /\ stsCache[ns] = None /\ sts[ns] = None
          /\ sts' = [sts EXCEPT ![ns] = me]
          /\ excused' = IF cr[me].state = "gone" THEN excused \union {me} ELSE excused
          /\ Done
       \/ /\ stsCache[ns] # me /\ ~(stsCache[ns] = None /\ sts[ns] = None)
          /\ Requeue /\ UNCHANGED <<sts, excused>>
    /\ UNCHANGED <<clusters, stsCache, pods, bounds>>

--------------------------------------------------------------------------------
(* prepareForDeletion. *)

\* Defective variant: after the error the finalizer stays, and nothing is queued.
KeepFinalizer == Done /\ excused' = excused \union {me}

\* An error that is not a conflict, or one too many, is logged: the finalizer goes.
GiveUp == Goto("removeFinalizer") /\ excused' = excused \union {me}

\* RetryOnConflict starts over.
Retry == pc' = "statefulSetUID" /\ todo' = {} /\ UNCHANGED <<work, queued, excused>>

Pods == {x \in Namespaces \X Nodes : pods[x[1]][x[2]].owner # None}

\* Defective variant: the StatefulSet is deleted before its pods are labelled.
StatefulSetUIDThenDelete ==
    /\ pc = "statefulSetUID"
    /\ IF stsCache[ns] = me
       THEN /\ sts' = IF sts[ns] = me THEN [sts EXCEPT ![ns] = None] ELSE sts
            /\ todo' = Pods
            /\ pc' = IF Pods = {} THEN "removeFinalizer" ELSE "addDeletionLabel"
            /\ UNCHANGED <<work, queued, excused>>
       ELSE GiveUp /\ UNCHANGED sts
    /\ UNCHANGED <<clusters, stsCache, pods, bounds>>

\* The StatefulSet's UID, if the cached one belongs to this cluster; then the pods of
\* that name, which are listed without a namespace.
StatefulSetUID ==
    /\ pc = "statefulSetUID"
    /\ IF stsCache[ns] = me
       THEN /\ todo' = Pods
            /\ pc' = IF Pods = {} THEN "deleteStatefulSet" ELSE "addDeletionLabel"
            /\ UNCHANGED <<work, queued, excused>>
       ELSE GiveUp
    /\ UNCHANGED <<clusters, sets, pods, bounds>>

\* Defective variant: a pod that is not there any more is written back.
AddDeletionLabelToAll ==
    /\ pc = "addDeletionLabel"
    /\ \E x \in todo :
         /\ pods' = [pods EXCEPT ![x[1]][x[2]].label = TRUE]
         /\ todo' = todo \ {x}
         /\ pc' = IF todo = {x} THEN "deleteStatefulSet" ELSE pc
    /\ UNCHANGED <<clusters, sets, queued, work, bounds, excused>>

\* One listed pod.  A pod that is gone is ignored, and the hook of one that terminates
\* does not see the label any more.
AddDeletionLabel ==
    /\ pc = "addDeletionLabel"
    /\ \E x \in todo :
         LET pod == pods[x[1]][x[2]]
         IN  /\ pods' = IF pod.owner = None \/ pod.stopping THEN pods
                        ELSE [pods EXCEPT ![x[1]][x[2]].label = TRUE]
             /\ todo' = todo \ {x}
             /\ pc' = IF todo = {x} THEN "deleteStatefulSet" ELSE pc
    /\ UNCHANGED <<clusters, sets, queued, work, bounds, excused>>

\* Defective variant: the StatefulSet of that name, whatever its UID.
DeleteAnyStatefulSet ==
    /\ pc = "deleteStatefulSet"
    /\ sts' = [sts EXCEPT ![ns] = None]
    /\ Goto("removeFinalizer")
    /\ UNCHANGED <<clusters, stsCache, pods, bounds, excused>>

\* Delete with the UID as its precondition; a StatefulSet that is gone is fine.
DeleteStatefulSet ==
    /\ pc = "deleteStatefulSet"
    /\ \/ /\ sts[ns] \in {me, None}
          /\ sts' = [sts EXCEPT ![ns] = None]
          /\ Goto("removeFinalizer") /\ UNCHANGED excused
       \/ sts[ns] \notin {me, None} /\ (Retry \/ GiveUp) /\ UNCHANGED sts
    /\ UNCHANGED <<clusters, stsCache, pods, bounds>>

RemoveFinalizer ==
    /\ pc = "removeFinalizer"
    /\ \/ /\ Latest
          /\ cr' = [cr EXCEPT ![me] = [state |-> "gone", finalizer |-> FALSE]]
          /\ Done
       \/ ~Latest /\ Requeue /\ UNCHANGED cr
    /\ UNCHANGED <<cache, sets, pods, bounds, excused>>

--------------------------------------------------------------------------------
(* Failures. *)

Fault == faults < MaxFaults /\ faults' = faults + 1

\* A call of prepareForDeletion fails, or a pod's update meets a newer version.
AttemptFails ==
    /\ Fault
    /\ pc \in {"statefulSetUID", "addDeletionLabel", "deleteStatefulSet"}
    /\ Retry \/ GiveUp
    /\ UNCHANGED <<clusters, sets, pods, behind>>

\* A call whose error Reconcile returns fails.
CallFails ==
    /\ Fault
    /\ pc # "idle"
    /\ Requeue
    /\ UNCHANGED <<clusters, sets, pods, behind, excused>>

\* The operator stops, and its successor fills its caches from an API server that may
\* lag behind; it reconciles every cluster it sees there.
Restart ==
    /\ Fault
    /\ cache' = [n \in Namespaces |-> behind[n].obj]
    /\ stsCache' = [n \in Namespaces |-> behind[n].sts]
    /\ queued' = {n \in Namespaces : behind[n].obj # NoObject}
    /\ Ended
    /\ UNCHANGED <<cr, sts, pods, behind, excused>>

--------------------------------------------------------------------------------
(* The environment. *)

Create(c) ==
    /\ cr[c].state = "absent" /\ Stored(NamespaceOf[c]) = NoObject
    /\ cr' = [cr EXCEPT ![c].state = "live"]
    /\ UNCHANGED <<cache, sets, pods, queued, pc, work, todo, bounds, excused>>

\* A finalizer turns the deletion into a deletion timestamp.
Delete(c) ==
    /\ cr[c].state = "live"
    /\ cr' = [cr EXCEPT ![c].state = IF cr[c].finalizer THEN "terminating" ELSE "gone"]
    /\ UNCHANGED <<cache, sets, pods, queued, pc, work, todo, bounds, excused>>

CacheCatchesUp(n) ==
    /\ cache[n] # Stored(n)
    /\ cache' = [cache EXCEPT ![n] = Stored(n)]
    /\ queued' = queued \union {n}
    /\ UNCHANGED <<cr, sets, pods, pc, work, todo, bounds, excused>>

StsCacheCatchesUp(n) ==
    /\ stsCache[n] # sts[n]
    /\ stsCache' = [stsCache EXCEPT ![n] = sts[n]]
    /\ queued' = queued \union {n}
    /\ UNCHANGED <<clusters, sts, pods, pc, work, todo, bounds, excused>>

ApiServerCatchesUp(n) ==
    /\ behind' = [behind EXCEPT ![n] = [obj |-> Stored(n), sts |-> sts[n]]]
    /\ UNCHANGED <<clusters, sets, pods, queued, pc, work, todo, faults, excused>>

\* The garbage collector deletes what a cluster that is gone has left behind.
CollectStatefulSet(n) ==
    /\ sts[n] # None /\ cr[sts[n]].state = "gone"
    /\ sts' = [sts EXCEPT ![n] = None]
    /\ UNCHANGED <<clusters, stsCache, pods, queued, pc, work, todo, bounds, excused>>

CollectPod(n, i) ==
    /\ pods[n][i].owner \notin {None, sts[n]} /\ ~pods[n][i].stopping
    /\ pods' = [pods EXCEPT ![n][i].stopping = TRUE]
    /\ UNCHANGED <<clusters, sets, queued, pc, work, todo, bounds, excused>>

\* The pre-stop hook returns: at once if it sees the label, otherwise after its checks
\* or the termination grace period, a week, which nothing in the model waits for.
PodExits(n, i) ==
    /\ pods[n][i].stopping
    /\ pods' = [pods EXCEPT ![n][i] = NoPod]
    /\ UNCHANGED <<clusters, sets, queued, pc, work, todo, bounds, excused>>

PodStarts(n, i) ==
    /\ sts[n] # None /\ pods[n][i].owner = None
    /\ pods' = [pods EXCEPT ![n][i] =
                  [owner |-> sts[n], label |-> FALSE, stopping |-> FALSE,
                   late |-> n = ns /\ pc \in {"addDeletionLabel", "deleteStatefulSet"}]]
    /\ UNCHANGED <<clusters, sets, queued, pc, work, todo, bounds, excused>>

--------------------------------------------------------------------------------

ReconcileStep ==
    \/ \E n \in Namespaces : StartReconcile(n)
    \/ AddFinalizerIfNeeded \/ CreateStatefulSet
    \/ StatefulSetUID \/ AddDeletionLabel \/ DeleteStatefulSet \/ RemoveFinalizer

Collect(n) == CollectStatefulSet(n) \/ \E i \in Nodes : CollectPod(n, i)

Next ==
    \/ ReconcileStep \/ AttemptFails \/ CallFails \/ Restart
    \/ \E c \in Clusters : Create(c) \/ Delete(c)
    \/ \E n \in Namespaces :
         \/ CacheCatchesUp(n) \/ StsCacheCatchesUp(n) \/ ApiServerCatchesUp(n) \/ Collect(n)
         \/ \E i \in Nodes : PodStarts(n, i) \/ PodExits(n, i)

Spec == Init /\ [][Next]_vars

\* The worker drains its queue, the informers deliver, the garbage collector collects,
\* and a hook that sees the label returns.
Fairness ==
    /\ WF_vars(ReconcileStep)
    /\ \A n \in Namespaces :
         /\ WF_vars(CacheCatchesUp(n)) /\ WF_vars(StsCacheCatchesUp(n))
         /\ WF_vars(Collect(n))
         /\ \A i \in Nodes : WF_vars(pods[n][i].label /\ PodExits(n, i))

FairSpec == Spec /\ Fairness

--------------------------------------------------------------------------------
(* Properties. *)

\* Deleting a cluster never deletes the StatefulSet of another cluster, created under
\* the same name meanwhile, however old the cached objects are (issue #648, in
\* reconcile_finalizer.go).
OthersKeepTheirStatefulSet ==
    [][\A n \in Namespaces : sts[n] # None /\ cr[sts[n]].state = "live" => sts'[n] = sts[n]]_sts

\* Unless an error was logged, a cluster whose finalizer was removed has no StatefulSet
\* left and every pod that was there when the pods were listed has the deletion label.
FinalizerKeepsItsPromise ==
    \A c \in Clusters : cr[c].state = "gone" /\ c \notin excused =>
        \A n \in Namespaces :
            /\ sts[n] # c
            /\ \A i \in Nodes : pods[n][i].owner = c => pods[n][i].label \/ pods[n][i].late

\* A deletion comes to its end although steps fail or meet stale caches, and takes the
\* StatefulSet along even where it was not found or its deletion failed.
DeletionCompletes ==
    \A c \in Clusters :
        cr[c].state = "terminating" ~> cr[c].state = "gone" /\ \A n \in Namespaces : sts[n] # c

\* docs/design/20200520-graceful-pod-termination.md: the pre-stop hook on each pod of a
\* cluster blocks until its checks pass, unless the cluster is being deleted.  The
\* deletion of a cluster of the same name in another namespace ends that.
LiveNodesAreChecked ==
    \A n \in Namespaces, i \in Nodes :
        pods[n][i].label => cr[pods[n][i].owner].state # "live"
=============================================================================
