------------------------- MODULE ClusterDeletionProofs -------------------------
(***************************************************************************)
(* Theorems about ClusterDeletion for every set of clusters, namespaces    *)
(* and nodes and every number of failures.                                 *)
(***************************************************************************)
EXTENDS ClusterDeletion, TLAPS

(* Type correctness. *)

State == [state: {"absent", "live", "terminating", "gone"}, finalizer: BOOLEAN]
Owned == {pod \in Pod : pod.owner = None => pod = NoPod}

\* A reconcile works on an object, so what it records as excused is a cluster.
TypeInv == TypeOK /\ (pc # "idle" => me # None)

LEMMA StoredType == ASSUME TypeOK, NEW n \in Namespaces PROVE Stored(n) \in Object
<1>1. CASE \E c \in Clusters : NamespaceOf[c] = n /\ InApiServer(c)
  <2> DEFINE c == CHOOSE c \in Clusters : NamespaceOf[c] = n /\ InApiServer(c)
  <2>1. c \in Clusters
    BY <1>1
  <2>2. Stored(n) = [cluster |-> c, terminating |-> cr[c].state = "terminating",
                     finalizer |-> cr[c].finalizer]
    BY <1>1 DEF Stored
  <2> HIDE DEF c
  <2>3. cr[c].finalizer \in BOOLEAN /\ (cr[c].state = "terminating") \in BOOLEAN
    BY <2>1 DEF TypeOK
  <2> QED BY <2>1, <2>2, <2>3 DEF Object
<1>2. CASE ~ \E c \in Clusters : NamespaceOf[c] = n /\ InApiServer(c)
  BY <1>2 DEF Stored, NoObject, Object
<1> QED BY <1>1, <1>2

LEMMA PodType ==
    ASSUME TypeOK, NEW n \in Namespaces, NEW i \in Nodes, NEW pod \in Owned
    PROVE  [pods EXCEPT ![n][i] = pod] \in [Namespaces -> [Nodes -> Owned]]
BY DEF TypeOK, Owned

LEMMA PodChangeType ==
    ASSUME NEW pod \in Owned, pod.owner # None
    PROVE  [pod EXCEPT !.label = TRUE] \in Owned /\ [pod EXCEPT !.stopping = TRUE] \in Owned
<1>1. pod \in Pod
  BY DEF Owned
<1>2. [pod EXCEPT !.label = TRUE] \in Pod /\ [pod EXCEPT !.label = TRUE].owner = pod.owner
  BY <1>1 DEF Pod
<1>3. /\ [pod EXCEPT !.stopping = TRUE] \in Pod
      /\ [pod EXCEPT !.stopping = TRUE].owner = pod.owner
  BY <1>1 DEF Pod
<1> QED BY <1>2, <1>3 DEF Owned

LEMMA StateType ==
    ASSUME NEW c \in [Clusters -> State], NEW x, NEW s \in State
    PROVE  [c EXCEPT ![x] = s] \in [Clusters -> State]
OBVIOUS

LEMMA InitTypeInv == Init => TypeInv
<1> SUFFICES ASSUME Init PROVE TypeInv
  OBVIOUS
<1>1. NoObject \in Object /\ NoPod \in Owned
  BY DEF NoObject, Object, NoPod, Pod, Owned
<1>2. /\ pods \in [Namespaces -> [Nodes -> Owned]]
      /\ cache \in [Namespaces -> Object]
      /\ behind \in [Namespaces -> [obj: Object, sts: Clusters \union {None}]]
      /\ work \in [namespace: Namespaces, obj: Object]
  BY <1>1 DEF Init
<1>3. pc = "idle" /\ queued = {} /\ todo = {} /\ excused = {} /\ faults \in 0..MaxFaults
  BY ConstantsAssumption DEF Init
<1>4. /\ cr \in [Clusters -> State] /\ sts \in [Namespaces -> Clusters \union {None}]
      /\ stsCache \in [Namespaces -> Clusters \union {None}]
  BY DEF Init, State
<1> QED BY <1>2, <1>3, <1>4 DEF TypeInv, TypeOK, Owned, State, Steps

LEMMA EndedType ==
    ASSUME TypeInv, Done \/ Requeue
    PROVE  /\ pc' \in Steps /\ queued' \subseteq Namespaces /\ todo' \subseteq Namespaces \X Nodes
           /\ work' = work /\ (pc' # "idle" => me' # None)
BY DEF TypeInv, TypeOK, Done, Requeue, Ended, Steps, ns

LEMMA StepTypeInv == TypeInv /\ Next => TypeInv'
<1> SUFFICES ASSUME TypeInv, Next PROVE TypeInv'
  OBVIOUS
<1>a. /\ cr \in [Clusters -> State] /\ cache \in [Namespaces -> Object]
      /\ sts \in [Namespaces -> Clusters \union {None}]
      /\ stsCache \in [Namespaces -> Clusters \union {None}]
      /\ pods \in [Namespaces -> [Nodes -> Owned]]
      /\ queued \subseteq Namespaces /\ pc \in Steps
      /\ work \in [namespace: Namespaces, obj: Object]
      /\ todo \subseteq Namespaces \X Nodes
      /\ behind \in [Namespaces -> [obj: Object, sts: Clusters \union {None}]]
      /\ faults \in 0..MaxFaults /\ excused \subseteq Clusters
  BY DEF TypeInv, TypeOK, Owned, State
<1>b. ns \in Namespaces /\ work.obj \in Object /\ me \in Clusters \union {None}
  BY <1>a DEF ns, me, Object
<1>c. pc # "idle" => me \in Clusters
  BY <1>b DEF TypeInv
<1>d. Fault => faults' \in 0..MaxFaults
  BY <1>a, ConstantsAssumption DEF Fault
<1>e. Pods \subseteq Namespaces \X Nodes
  BY DEF Pods
<1>f. /\ cr' \in [Clusters -> State] /\ cache' \in [Namespaces -> Object]
      /\ sts' \in [Namespaces -> Clusters \union {None}]
      /\ stsCache' \in [Namespaces -> Clusters \union {None}]
      /\ pods' \in [Namespaces -> [Nodes -> Owned]]
      /\ queued' \subseteq Namespaces /\ pc' \in Steps
      /\ work' \in [namespace: Namespaces, obj: Object]
      /\ todo' \subseteq Namespaces \X Nodes
      /\ behind' \in [Namespaces -> [obj: Object, sts: Clusters \union {None}]]
      /\ faults' \in 0..MaxFaults /\ excused' \subseteq Clusters
      /\ pc' # "idle" => me' # None
      => TypeInv'
  BY DEF TypeInv, TypeOK, Owned, State
<1>1. ASSUME NEW n \in Namespaces, StartReconcile(n) PROVE TypeInv'
  <2>1. pc' \in Steps /\ (pc' # "idle" => cache[n].cluster # None)
    BY <1>1 DEF StartReconcile, FirstStep, Steps
  <2>2. work' \in [namespace: Namespaces, obj: Object] /\ me' = cache[n].cluster
    BY <1>1, <1>a DEF StartReconcile, me
  <2> QED BY <1>1, <1>a, <1>f, <2>1, <2>2 DEF StartReconcile, clusters, sets, bounds
<1>2. CASE AddFinalizerIfNeeded
  <2>1. CASE Latest /\ pc' = "createStatefulSet"
    <3> DEFINE w == [work EXCEPT !.obj.finalizer = TRUE]
               c == [cr EXCEPT ![me].finalizer = TRUE]
    <3>1. work' = w /\ cr' = c /\ UNCHANGED <<todo, queued>>
      BY <1>2, <2>1 DEF AddFinalizerIfNeeded, Requeue, Ended
    <3>2. w \in [namespace: Namespaces, obj: Object] /\ w.obj.cluster = me
      BY <1>a DEF Object, me
    <3>3. c \in [Clusters -> State]
      BY <1>a DEF State
    <3> HIDE DEF w, c
    <3>4. me' = me /\ me # None
      BY <1>2, <3>1, <3>2 DEF me, TypeInv, AddFinalizerIfNeeded
    <3> QED BY <1>2, <1>a, <1>f, <2>1, <3>1, <3>2, <3>3, <3>4
            DEF AddFinalizerIfNeeded, sets, bounds, Steps
  <2>2. CASE Requeue /\ UNCHANGED cr
    BY <1>2, <1>a, <1>f, <2>2, EndedType DEF AddFinalizerIfNeeded, sets, bounds
  <2> QED BY <1>2, <2>1, <2>2 DEF AddFinalizerIfNeeded
<1>3. CASE CreateStatefulSet
  <2>1. Done \/ Requeue
    BY <1>3 DEF CreateStatefulSet
  <2>2. me \in Clusters
    BY <1>3, <1>c DEF CreateStatefulSet
  <2>3. /\ sts' \in [Namespaces -> Clusters \union {None}] /\ excused' \subseteq Clusters
        /\ UNCHANGED <<cr, cache, stsCache, pods, behind, faults>>
    BY <1>3, <1>a, <2>2 DEF CreateStatefulSet, clusters, bounds
  <2> QED BY <1>a, <1>f, <2>1, <2>3, EndedType
<1>4. CASE StatefulSetUID \/ AddDeletionLabel \/ DeleteStatefulSet \/ AttemptFails
  <2>1. /\ UNCHANGED <<cr, cache, stsCache, behind, work, queued>> /\ me' = me
        /\ pc # "idle" /\ faults' \in 0..MaxFaults
    BY <1>4, <1>a, <1>d
       DEF StatefulSetUID, AddDeletionLabel, DeleteStatefulSet, AttemptFails, GiveUp, Retry,
           Goto, clusters, sets, bounds, me
  <2>2. me \in Clusters
    BY <1>c, <2>1
  <2>3. pc' \in Steps /\ excused' \subseteq Clusters
    BY <1>4, <1>a, <2>2
       DEF StatefulSetUID, AddDeletionLabel, DeleteStatefulSet, AttemptFails, GiveUp, Retry,
           Goto, Steps
  <2>4. todo' \subseteq Namespaces \X Nodes
    BY <1>4, <1>a, <1>e
       DEF StatefulSetUID, AddDeletionLabel, DeleteStatefulSet, AttemptFails, GiveUp, Retry,
           Goto
  <2>5. sts' \in [Namespaces -> Clusters \union {None}]
    BY <1>4, <1>a
       DEF StatefulSetUID, AddDeletionLabel, DeleteStatefulSet, AttemptFails, sets
  <2>6. pods' \in [Namespaces -> [Nodes -> Owned]]
    <3>1. CASE AddDeletionLabel
      <4>1. PICK x \in todo :
               pods' = IF pods[x[1]][x[2]].owner = None \/ pods[x[1]][x[2]].stopping THEN pods
                       ELSE [pods EXCEPT ![x[1]][x[2]].label = TRUE]
        BY <3>1 DEF AddDeletionLabel
      <4>2. x[1] \in Namespaces /\ x[2] \in Nodes
        BY <1>a
      <4>3. pods[x[1]][x[2]].owner # None =>
              [pods[x[1]][x[2]] EXCEPT !.label = TRUE] \in Owned
        BY <1>a, <4>2, PodChangeType
      <4> QED BY <1>a, <4>1, <4>2, <4>3
    <3>2. CASE StatefulSetUID \/ DeleteStatefulSet \/ AttemptFails
      BY <1>a, <3>2 DEF StatefulSetUID, DeleteStatefulSet, AttemptFails
    <3> QED BY <1>4, <3>1, <3>2
  <2> QED BY <1>a, <1>f, <2>1, <2>2, <2>3, <2>4, <2>5, <2>6, ConstantsAssumption
<1>5. CASE RemoveFinalizer
  <2>1. cr' \in [Clusters -> State]
    <3>1. [state |-> "gone", finalizer |-> FALSE] \in State
      BY DEF State
    <3> QED BY <1>5, <1>a, <3>1, StateType DEF RemoveFinalizer
  <2> QED BY <1>5, <1>a, <1>f, <2>1, EndedType DEF RemoveFinalizer, sets, bounds
<1>6. CASE CallFails
  BY <1>6, <1>a, <1>d, <1>f, EndedType DEF CallFails, clusters, sets
<1>7. CASE Restart
  <2>1. /\ cache' \in [Namespaces -> Object] /\ queued' \subseteq Namespaces
        /\ stsCache' \in [Namespaces -> Clusters \union {None}]
    BY <1>7, <1>a DEF Restart
  <2> QED BY <1>7, <1>a, <1>d, <1>f, <2>1 DEF Restart, Ended, Steps
<1>8. ASSUME NEW c \in Clusters, Create(c) \/ Delete(c) PROVE TypeInv'
  <2>1. cr' \in [Clusters -> State]
    <3>1. \A s \in {"live", "terminating", "gone"} : [cr[c] EXCEPT !.state = s] \in State
      BY <1>a DEF State
    <3>2. PICK s \in {"live", "terminating", "gone"} :
             cr' = [cr EXCEPT ![c] = [cr[c] EXCEPT !.state = s]]
      <4>1. CASE Create(c)
        BY <4>1 DEF Create
      <4>2. CASE Delete(c)
        BY <4>2 DEF Delete
      <4> QED BY <1>8, <4>1, <4>2
    <3> QED BY <1>a, <3>1, <3>2, StateType
  <2>2. UNCHANGED <<cache, sts, stsCache, pods, queued, pc, work, todo, behind, faults, excused>>
    BY <1>8 DEF Create, Delete, sets, bounds
  <2> QED BY <1>a, <1>f, <2>1, <2>2 DEF TypeInv, me
<1>9. ASSUME NEW n \in Namespaces,
             CacheCatchesUp(n) \/ StsCacheCatchesUp(n) \/ ApiServerCatchesUp(n)
      PROVE  TypeInv'
  <2>1. Stored(n) \in Object
    BY StoredType DEF TypeInv
  <2>2. /\ cache' \in [Namespaces -> Object] /\ queued' \subseteq Namespaces
        /\ stsCache' \in [Namespaces -> Clusters \union {None}]
        /\ behind' \in [Namespaces -> [obj: Object, sts: Clusters \union {None}]]
    <3>1. [obj |-> Stored(n), sts |-> sts[n]] \in [obj: Object, sts: Clusters \union {None}]
      BY <1>a, <2>1
    <3>2. CASE CacheCatchesUp(n)
      BY <3>2, <1>a, <2>1 DEF CacheCatchesUp, sets, bounds
    <3>3. CASE StsCacheCatchesUp(n)
      BY <3>3, <1>a DEF StsCacheCatchesUp, clusters, bounds
    <3>4. CASE ApiServerCatchesUp(n)
      BY <3>4, <1>a, <3>1 DEF ApiServerCatchesUp, clusters, sets
    <3> QED BY <1>9, <3>2, <3>3, <3>4
  <2>3. UNCHANGED <<cr, sts, pods, pc, work, todo, faults, excused>>
    BY <1>9 DEF CacheCatchesUp, StsCacheCatchesUp, ApiServerCatchesUp, clusters, sets, bounds
  <2> QED BY <1>a, <1>f, <2>2, <2>3 DEF TypeInv, me
<1>10. ASSUME NEW n \in Namespaces, CollectStatefulSet(n) PROVE TypeInv'
  BY <1>10, <1>a, <1>f DEF CollectStatefulSet, clusters, bounds, TypeInv, me
<1>11. ASSUME NEW n \in Namespaces, NEW i \in Nodes,
              CollectPod(n, i) \/ PodStarts(n, i) \/ PodExits(n, i)
       PROVE  TypeInv'
  <2>1. UNCHANGED <<cr, cache, sts, stsCache, queued, pc, work, todo, behind, faults, excused>>
    BY <1>11 DEF CollectPod, PodStarts, PodExits, clusters, sets, bounds
  <2>2. PICK pod \in Owned : pods' = [pods EXCEPT ![n][i] = pod]
    <3>1. CASE CollectPod(n, i)
      <4>1. pods[n][i] \in Owned /\ pods[n][i].owner # None
        BY <3>1, <1>a DEF CollectPod
      <4>2. [pods[n][i] EXCEPT !.stopping = TRUE] \in Owned
        BY <4>1, PodChangeType
      <4> QED BY <3>1, <4>2 DEF CollectPod
    <3>2. CASE PodStarts(n, i)
      <4> DEFINE late == n = ns /\ pc \in {"addDeletionLabel", "deleteStatefulSet"}
                 pod == [owner |-> sts[n], label |-> FALSE, stopping |-> FALSE, late |-> late]
      <4>1. late \in BOOLEAN
        OBVIOUS
      <4>2. pods' = [pods EXCEPT ![n][i] = pod] /\ sts[n] \in Clusters /\ sts[n] # None
        BY <3>2, <1>a DEF PodStarts
      <4> HIDE DEF late
      <4>3. pod \in Owned
        BY <4>1, <4>2 DEF Owned, Pod
      <4> QED BY <4>2, <4>3
    <3>3. CASE PodExits(n, i)
      <4>1. NoPod \in Owned
        BY DEF NoPod, Owned, Pod
      <4> QED BY <3>3, <4>1 DEF PodExits
    <3> QED BY <1>11, <3>1, <3>2, <3>3
  <2>3. pods' \in [Namespaces -> [Nodes -> Owned]]
    BY <2>2, PodType DEF TypeInv
  <2> QED BY <1>a, <1>f, <2>1, <2>3 DEF TypeInv, me
<1> QED
  BY <1>1, <1>2, <1>3, <1>4, <1>5, <1>6, <1>7, <1>8, <1>9, <1>10, <1>11
     DEF Next, ReconcileStep, Collect

\* Every reachable state of the deletion is of its types; so a cluster that is excused is
\* one that prepareForDeletion or CreateOrUpdate had in hand.
THEOREM TypeCorrect == Spec => []TypeOK
<1>1. TypeInv /\ UNCHANGED vars => TypeInv'
  BY DEF TypeInv, TypeOK, vars, me
<1>2. TypeInv => TypeOK
  BY DEF TypeInv
<1> QED BY <1>1, <1>2, InitTypeInv, StepTypeInv, PTL DEF Spec

--------------------------------------------------------------------------------
(* What old copies still tell. OthersKeepTheirStatefulSet is about a reconcile that acts *)
(* on an object read from a cache, perhaps a lagging API server's: such an object has    *)
(* been stored, and a cluster only grows older than its copies.                          *)

Deleting == {"statefulSetUID", "addDeletionLabel", "deleteStatefulSet", "removeFinalizer"}
Labelling == {"addDeletionLabel", "deleteStatefulSet"}

Held(s) == s.finalizer \/ s.state = "gone"

\* An object that is read for a namespace, given the clusters' present states.
Seen(o, n, state) ==
    /\ o.terminating \/ o.finalizer => o.cluster # None
    /\ o.cluster # None =>
         NamespaceOf[o.cluster] = n /\ state[o.cluster].state # "absent"
    /\ o.finalizer => Held(state[o.cluster])
    /\ o.terminating => state[o.cluster].state \in {"terminating", "gone"}

CopiesSeen ==
    /\ \A n \in Namespaces : Seen(cache[n], n, cr) /\ Seen(behind[n].obj, n, cr)
    /\ pc # "idle" => Seen(work.obj, ns, cr)
    /\ pc \in Deleting => work.obj.terminating
    /\ pc = "createStatefulSet" => work.obj.finalizer

\* How a cluster grows older.
Aged(s, t) ==
    /\ s.state # "absent" => t.state # "absent"
    /\ s.state \in {"terminating", "gone"} => t.state \in {"terminating", "gone"}
    /\ s.state = "gone" => t.state = "gone"
    /\ Held(s) => Held(t)
Ages == \A c \in Clusters : Aged(cr[c], cr'[c])

LEMMA SeenAges ==
    ASSUME Ages, NEW o \in Object, NEW n, Seen(o, n, cr) PROVE Seen(o, n, cr')
BY DEF Ages, Aged, Seen, Object

LEMMA StoredSeen == ASSUME TypeOK, NEW n \in Namespaces PROVE Seen(Stored(n), n, cr)
<1>1. CASE \E c \in Clusters : NamespaceOf[c] = n /\ InApiServer(c)
  <2> DEFINE c == CHOOSE c \in Clusters : NamespaceOf[c] = n /\ InApiServer(c)
             t == cr[c].state = "terminating"
             f == cr[c].finalizer
  <2>1. c \in Clusters /\ c # None /\ NamespaceOf[c] = n /\ InApiServer(c)
    BY <1>1, ConstantsAssumption
  <2>2. Stored(n) = [cluster |-> c, terminating |-> t, finalizer |-> f]
    BY <1>1 DEF Stored
  <2>3. cr[c].state # "absent"
    BY <2>1 DEF InApiServer
  <2> HIDE DEF c
  <2>4. t \in BOOLEAN /\ f \in BOOLEAN
    BY <2>1 DEF TypeOK
  <2>5. (t => cr[c].state = "terminating") /\ (f => Held(cr[c]))
    BY DEF Held
  <2> HIDE DEF t, f
  <2>6. Stored(n).cluster = c /\ Stored(n).terminating = t /\ Stored(n).finalizer = f
    BY <2>2, <2>4
  <2> QED BY <2>1, <2>3, <2>5, <2>6 DEF Seen
<1>2. CASE ~ \E c \in Clusters : NamespaceOf[c] = n /\ InApiServer(c)
  BY <1>2 DEF Stored, NoObject, Seen
<1> QED BY <1>1, <1>2

LEMMA AgesFrame == cr' = cr => Ages
BY DEF Ages, Aged

LEMMA StepAges == ASSUME TypeInv, Next PROVE Ages
<1>a. cr \in [Clusters -> State] /\ me \in Clusters \union {None}
  BY DEF TypeInv, TypeOK, State, Object, me
<1>1. CASE AddFinalizerIfNeeded
  <2>1. cr' = cr \/ cr' = [cr EXCEPT ![me] = [cr[me] EXCEPT !.finalizer = TRUE]]
    BY <1>1 DEF AddFinalizerIfNeeded
  <2>2. \A s \in State : Aged(s, [s EXCEPT !.finalizer = TRUE])
    BY DEF State, Aged, Held
  <2> QED BY <1>a, <2>1, <2>2, AgesFrame, ZenonT(60) DEF Ages, Aged
<1>2. CASE RemoveFinalizer
  <2>1. cr' = cr \/ cr' = [cr EXCEPT ![me] = [state |-> "gone", finalizer |-> FALSE]]
    BY <1>2 DEF RemoveFinalizer
  <2> QED BY <1>a, <2>1, AgesFrame DEF Ages, Aged, Held
<1>3. ASSUME NEW c \in Clusters, Create(c) PROVE Ages
  <2>1. cr' = [cr EXCEPT ![c] = [cr[c] EXCEPT !.state = "live"]] /\ cr[c].state = "absent"
    BY <1>3 DEF Create
  <2>2. Aged(cr[c], [cr[c] EXCEPT !.state = "live"])
    BY <1>a, <2>1 DEF State, Aged, Held
  <2> QED BY <1>a, <2>1, <2>2 DEF Ages, Aged
<1>4. ASSUME NEW c \in Clusters, Delete(c) PROVE Ages
  <2> DEFINE s == IF cr[c].finalizer THEN "terminating" ELSE "gone"
  <2>1. cr' = [cr EXCEPT ![c] = [cr[c] EXCEPT !.state = s]] /\ cr[c].state = "live"
    BY <1>4 DEF Delete
  <2>2. Aged(cr[c], [cr[c] EXCEPT !.state = s])
    BY <1>a, <2>1 DEF State, Aged, Held
  <2> QED BY <1>a, <2>1, <2>2 DEF Ages, Aged
<1>5. CASE \/ CreateStatefulSet \/ StatefulSetUID \/ AddDeletionLabel \/ DeleteStatefulSet
           \/ AttemptFails \/ CallFails \/ Restart
  BY <1>5, AgesFrame
     DEF CreateStatefulSet, StatefulSetUID, AddDeletionLabel, DeleteStatefulSet,
         AttemptFails, CallFails, Restart, clusters
<1>6. ASSUME NEW n \in Namespaces,
             \/ StartReconcile(n) \/ CacheCatchesUp(n) \/ StsCacheCatchesUp(n)
             \/ ApiServerCatchesUp(n) \/ CollectStatefulSet(n)
      PROVE  Ages
  BY <1>6, AgesFrame
     DEF StartReconcile, CacheCatchesUp, StsCacheCatchesUp, ApiServerCatchesUp,
         CollectStatefulSet, clusters
<1>7. ASSUME NEW n \in Namespaces, NEW i \in Nodes,
             CollectPod(n, i) \/ PodStarts(n, i) \/ PodExits(n, i)
      PROVE  Ages
  BY <1>7, AgesFrame DEF CollectPod, PodStarts, PodExits, clusters
<1> QED BY <1>1, <1>2, <1>3, <1>4, <1>5, <1>6, <1>7 DEF Next, ReconcileStep, Collect

LEMMA CopiesFrame ==
    ASSUME TypeInv, CopiesSeen, Ages, UNCHANGED <<cache, behind>>,
           pc' # "idle" => pc # "idle" /\ work' = work,
           pc' \in Deleting => pc \in Deleting,
           pc' = "createStatefulSet" => pc = "createStatefulSet"
    PROVE  CopiesSeen'
<1>1. \A n \in Namespaces : cache[n] \in Object /\ behind[n].obj \in Object
  BY DEF TypeInv, TypeOK
<1>2. work.obj \in Object
  BY DEF TypeInv, TypeOK
<1>3. \A n \in Namespaces : Seen(cache'[n], n, cr') /\ Seen(behind'[n].obj, n, cr')
  BY <1>1, SeenAges DEF CopiesSeen
<1>4. pc' # "idle" => Seen(work'.obj, ns', cr')
  BY <1>2, SeenAges DEF CopiesSeen, ns
<1>5. pc' \in Deleting \union {"createStatefulSet"} => pc' # "idle"
  BY DEF Deleting
<1> QED BY <1>3, <1>4, <1>5 DEF CopiesSeen

LEMMA StepCopiesSeen == ASSUME TypeInv, CopiesSeen, Next PROVE CopiesSeen'
<1>a. Ages /\ TypeOK
  BY StepAges DEF TypeInv
<1>b. /\ \A n \in Namespaces : cache[n] \in Object /\ behind[n].obj \in Object
      /\ work \in [namespace: Namespaces, obj: Object] /\ ns \in Namespaces
  BY <1>a DEF TypeOK, ns
<1>c. \A n \in Namespaces : Seen(cache[n], n, cr') /\ Seen(behind[n].obj, n, cr')
  BY <1>a, <1>b, SeenAges DEF CopiesSeen
<1>d. pc # "idle" => Seen(work.obj, ns, cr')
  BY <1>a, <1>b, SeenAges DEF CopiesSeen
<1>1. ASSUME NEW n \in Namespaces, StartReconcile(n) PROVE CopiesSeen'
  <2>1. /\ UNCHANGED <<cr, cache, behind>> /\ work' = [namespace |-> n, obj |-> cache[n]]
        /\ pc' \in Deleting => cache[n].terminating
        /\ pc' = "createStatefulSet" => cache[n].finalizer
    BY <1>1 DEF StartReconcile, FirstStep, Deleting, clusters, bounds
  <2>2. work'.obj = cache[n] /\ ns' = n
    BY <2>1 DEF ns
  <2> QED BY <1>c, <2>1, <2>2 DEF CopiesSeen
<1>2. CASE AddFinalizerIfNeeded
  <2>1. UNCHANGED <<cache, behind>> /\ pc = "addFinalizer"
    BY <1>2 DEF AddFinalizerIfNeeded, bounds
  <2>2. CASE Latest /\ pc' = "createStatefulSet"
    <3> DEFINE w == [work EXCEPT !.obj.finalizer = TRUE]
    <3>1. work' = w /\ cr' = [cr EXCEPT ![me] = [cr[me] EXCEPT !.finalizer = TRUE]]
      BY <1>2, <2>2 DEF AddFinalizerIfNeeded, Requeue, Ended
    <3>2. /\ w.obj.cluster = me /\ w.obj.terminating = work.obj.terminating
          /\ w.obj.finalizer = TRUE /\ w.namespace = ns
      BY <1>b DEF Object, me, ns
    <3> HIDE DEF w
    <3>3. me \in Clusters /\ me # None
      BY <1>b, <2>1 DEF TypeInv, Object, me
    <3>4. Held(cr'[me])
      BY <1>a, <3>1, <3>3 DEF Held, TypeOK
    <3>5. Seen(w.obj, ns, cr')
      BY <1>d, <2>1, <3>2, <3>3, <3>4 DEF Seen, me
    <3> QED BY <1>c, <2>1, <2>2, <3>1, <3>2, <3>5 DEF CopiesSeen, Deleting, ns
  <2>3. CASE pc' = "idle"
    BY <1>c, <2>1, <2>3 DEF CopiesSeen, Deleting
  <2> QED BY <1>2, <2>2, <2>3 DEF AddFinalizerIfNeeded, Requeue, Ended
<1>3. CASE Restart
  <2>1. /\ pc' = "idle" /\ UNCHANGED <<cr, behind>>
        /\ \A n \in Namespaces : cache'[n] = behind[n].obj
    BY <1>3 DEF Restart, Ended
  <2> QED BY <1>c, <2>1 DEF CopiesSeen, Deleting
<1>4. ASSUME NEW n \in Namespaces, CacheCatchesUp(n) \/ ApiServerCatchesUp(n)
      PROVE  CopiesSeen'
  <2>1. UNCHANGED <<cr, pc, work>>
    BY <1>4 DEF CacheCatchesUp, ApiServerCatchesUp, clusters
  <2>2. /\ \A m \in Namespaces : cache'[m] = cache[m] \/ (m = n /\ cache'[m] = Stored(n))
        /\ \A m \in Namespaces :
              behind'[m].obj = behind[m].obj \/ (m = n /\ behind'[m].obj = Stored(n))
    BY <1>4, <1>a DEF CacheCatchesUp, ApiServerCatchesUp, clusters, bounds, TypeOK
  <2>3. Seen(Stored(n), n, cr)
    BY <1>a, StoredSeen
  <2> QED BY <1>c, <1>d, <2>1, <2>2, <2>3 DEF CopiesSeen, ns
<1>5. CASE \/ CreateStatefulSet \/ StatefulSetUID \/ AddDeletionLabel \/ DeleteStatefulSet
           \/ RemoveFinalizer \/ AttemptFails \/ CallFails
  <2>1. UNCHANGED <<cache, behind, work>>
    BY <1>5 DEF CreateStatefulSet, StatefulSetUID, AddDeletionLabel, DeleteStatefulSet,
                RemoveFinalizer, AttemptFails, CallFails, GiveUp, Retry, Goto, Done,
                Requeue, Ended, clusters, bounds
  <2>2. pc # "idle" /\ (pc' = "idle" \/ (pc' \in Deleting /\ pc \in Deleting))
    BY <1>5 DEF CreateStatefulSet, StatefulSetUID, AddDeletionLabel, DeleteStatefulSet,
                RemoveFinalizer, AttemptFails, CallFails, GiveUp, Retry, Goto, Done,
                Requeue, Ended, Deleting
  <2> QED BY <1>a, <2>1, <2>2, CopiesFrame DEF Deleting
<1>6. ASSUME NEW c \in Clusters, Create(c) \/ Delete(c) PROVE CopiesSeen'
  BY <1>6, <1>a, CopiesFrame DEF Create, Delete, bounds
<1>7. ASSUME NEW n \in Namespaces, StsCacheCatchesUp(n) \/ CollectStatefulSet(n)
      PROVE  CopiesSeen'
  BY <1>7, <1>a, CopiesFrame DEF StsCacheCatchesUp, CollectStatefulSet, clusters, bounds
<1>8. ASSUME NEW n \in Namespaces, NEW i \in Nodes,
             CollectPod(n, i) \/ PodStarts(n, i) \/ PodExits(n, i)
      PROVE  CopiesSeen'
  BY <1>8, <1>a, CopiesFrame DEF CollectPod, PodStarts, PodExits, clusters, bounds
<1> QED BY <1>1, <1>2, <1>3, <1>4, <1>5, <1>6, <1>7, <1>8 DEF Next, ReconcileStep, Collect

LEMMA InitCopiesSeen == Init => CopiesSeen
BY DEF Init, CopiesSeen, Seen, NoObject, Deleting

LEMMA CopiesSeenHolds == Spec => [](TypeInv /\ CopiesSeen)
<1>1. TypeInv /\ CopiesSeen /\ UNCHANGED vars => (TypeInv /\ CopiesSeen)'
  BY DEF TypeInv, TypeOK, CopiesSeen, vars, me, ns
<1> QED BY <1>1, InitTypeInv, InitCopiesSeen, StepTypeInv, StepCopiesSeen, PTL DEF Spec

\* Only a cluster that is being deleted, or is gone, loses its StatefulSet: the UID in the
\* precondition is the terminating cluster's, however old the copy it was read from.
THEOREM OthersKeepTheirStatefulSetHolds == Spec => OthersKeepTheirStatefulSet
<1>1. ASSUME TypeInv, CopiesSeen, Next, NEW n \in Namespaces,
             sts[n] # None, cr[sts[n]].state = "live"
      PROVE  sts'[n] = sts[n]
  <2>a. sts \in [Namespaces -> Clusters \union {None}]
    BY <1>1 DEF TypeInv, TypeOK
  <2>1. CASE CreateStatefulSet
    BY <1>1, <2>1, <2>a DEF CreateStatefulSet
  <2>2. CASE DeleteStatefulSet
    <3>1. cr[me].state # "live"
      BY <1>1, <2>2 DEF DeleteStatefulSet, CopiesSeen, Seen, Deleting, me
    <3> QED BY <1>1, <2>2, <2>a, <3>1 DEF DeleteStatefulSet
  <2>3. ASSUME NEW m \in Namespaces, CollectStatefulSet(m) PROVE sts'[n] = sts[n]
    BY <1>1, <2>3, <2>a DEF CollectStatefulSet
  <2>4. CASE UNCHANGED sts
    BY <2>4
  <2> QED
    BY <1>1, <2>1, <2>2, <2>3, <2>4
       DEF Next, ReconcileStep, Collect, StartReconcile, AddFinalizerIfNeeded,
           StatefulSetUID, AddDeletionLabel, RemoveFinalizer, AttemptFails, CallFails,
           Restart, Create, Delete, CacheCatchesUp, StsCacheCatchesUp, ApiServerCatchesUp,
           CollectPod, PodStarts, PodExits, sets
<1>2. TypeInv /\ CopiesSeen /\ [Next]_vars
      => [\A n \in Namespaces :
            sts[n] # None /\ cr[sts[n]].state = "live" => sts'[n] = sts[n]]_sts
  BY <1>1 DEF vars
<1> QED BY <1>2, CopiesSeenHolds, PTL DEF Spec, OthersKeepTheirStatefulSet

--------------------------------------------------------------------------------
(* The finalizer. FinalizerKeepsItsPromise is not inductive: it does not say what is known *)
(* of a cluster's pods before it is gone. A pod is marked when its hook will see the label *)
(* or when it started after the list; every pod is whose owner has lost its StatefulSet,   *)
(* unless the owner is excused.                                                            *)

OwnersHeld == \A n \in Namespaces : sts[n] # None => NamespaceOf[sts[n]] = n /\ Held(cr[sts[n]])

ListEmpty == pc \notin {"addDeletionLabel", "removeFinalizer"} => todo = {}

Marked(pod) == pod.label \/ pod.late

\* Between the list and the deletion of the StatefulSet, an unmarked pod is on the list.
PodsMarked ==
    \A n \in Namespaces, i \in Nodes :
        pods[n][i].owner \notin excused \union {None} =>
            /\ sts[n] # pods[n][i].owner \/ pods[n][i].stopping => Marked(pods[n][i])
            /\ pc \in Labelling /\ pods[n][i].owner = me =>
                 Marked(pods[n][i]) \/ <<n, i>> \in todo

StsRemoved ==
    /\ pc = "removeFinalizer" /\ me \notin excused => \A n \in Namespaces : sts[n] # me
    /\ \A c \in Clusters : cr[c].state = "gone" /\ c \notin excused =>
         \A n \in Namespaces : sts[n] # c

PromiseInv == OwnersHeld /\ ListEmpty /\ PodsMarked /\ StsRemoved

\* What the work in hand is while the operator has some.
LEMMA MeKnown ==
    ASSUME TypeInv, CopiesSeen, pc # "idle"
    PROVE  me \in Clusters /\ me # None /\ NamespaceOf[me] = ns /\ ns \in Namespaces
BY DEF TypeInv, TypeOK, CopiesSeen, Seen, me, ns, Object

LEMMA MarkedFrame ==
    ASSUME PodsMarked, UNCHANGED <<pods, sts>>, excused \subseteq excused',
           pc' \in Labelling => pc \in Labelling /\ UNCHANGED <<work, todo>>
    PROVE  PodsMarked'
BY DEF PodsMarked, me

LEMMA StepPodsMarked ==
    ASSUME TypeInv, CopiesSeen, PromiseInv, Next PROVE PodsMarked'
<1>a. /\ PodsMarked /\ OwnersHeld /\ ListEmpty /\ StsRemoved
      /\ pods \in [Namespaces -> [Nodes -> Owned]]
      /\ sts \in [Namespaces -> Clusters \union {None}]
      /\ todo \subseteq Namespaces \X Nodes
  BY DEF PromiseInv, TypeInv, TypeOK, Owned
<1>1. CASE CreateStatefulSet
  <2>1. /\ UNCHANGED pods /\ pc' \notin Labelling /\ excused \subseteq excused'
        /\ \A n \in Namespaces : sts'[n] = sts[n] \/ sts[n] = None
    BY <1>1, <1>a DEF CreateStatefulSet, Done, Requeue, Ended, Labelling
  <2> QED BY <1>a, <2>1 DEF PodsMarked
<1>2. CASE StatefulSetUID
  <2>1. /\ UNCHANGED <<pods, sts>> /\ me' = me
        /\ excused \subseteq excused'
        /\ pc' \in Labelling => todo' = Pods \/ Pods = {}
    BY <1>2 DEF StatefulSetUID, GiveUp, Goto, sets, me, Labelling
  <2>2. \A n \in Namespaces, i \in Nodes : pods[n][i].owner # None => <<n, i>> \in Pods
    BY DEF Pods
  <2> QED BY <1>a, <2>1, <2>2 DEF PodsMarked
<1>3. CASE AddDeletionLabel
  <2>1. PICK x \in todo :
           /\ pods' = IF pods[x[1]][x[2]].owner = None \/ pods[x[1]][x[2]].stopping THEN pods
                      ELSE [pods EXCEPT ![x[1]][x[2]].label = TRUE]
           /\ todo' = todo \ {x}
    BY <1>3 DEF AddDeletionLabel
  <2>2. UNCHANGED <<sts, work, excused>> /\ pc \in Labelling /\ me' = me
    BY <1>3 DEF AddDeletionLabel, sets, Labelling, me
  <2>3. x[1] \in Namespaces /\ x[2] \in Nodes /\ x = <<x[1], x[2]>>
    BY <1>a
  <2>4. \A n \in Namespaces, i \in Nodes :
           /\ <<n, i>> # x => pods'[n][i] = pods[n][i]
           /\ pods'[n][i].owner = pods[n][i].owner
           /\ pods'[n][i].stopping = pods[n][i].stopping
           /\ Marked(pods[n][i]) => Marked(pods'[n][i])
    <3>1. \A pod \in Owned : /\ [pod EXCEPT !.label = TRUE].owner = pod.owner
                             /\ [pod EXCEPT !.label = TRUE].stopping = pod.stopping
                             /\ Marked([pod EXCEPT !.label = TRUE])
      BY DEF Owned, Pod, Marked
    <3>2. CASE pods' = pods
      BY <3>2
    <3>3. CASE pods' = [pods EXCEPT ![x[1]][x[2]].label = TRUE]
      <4>1. /\ pods'[x[1]][x[2]] = [pods[x[1]][x[2]] EXCEPT !.label = TRUE]
            /\ \A n \in Namespaces, i \in Nodes :
                  n # x[1] \/ i # x[2] => pods'[n][i] = pods[n][i]
        BY <1>a, <2>3, <3>3
      <4> SUFFICES ASSUME NEW n \in Namespaces, NEW i \in Nodes
                   PROVE  /\ <<n, i>> # x => pods'[n][i] = pods[n][i]
                          /\ pods'[n][i].owner = pods[n][i].owner
                          /\ pods'[n][i].stopping = pods[n][i].stopping
                          /\ Marked(pods[n][i]) => Marked(pods'[n][i])
        OBVIOUS
      <4>2. CASE n # x[1] \/ i # x[2]
        BY <4>1, <4>2
      <4>3. CASE n = x[1] /\ i = x[2]
        <5>1. pods[n][i] \in Owned /\ pods'[n][i] = [pods[n][i] EXCEPT !.label = TRUE]
          BY <1>a, <4>1, <4>3
        <5> QED BY <2>3, <3>1, <4>3, <5>1
      <4> QED BY <4>2, <4>3
    <3> QED BY <2>1, <3>2, <3>3
  <2>5. \/ pods[x[1]][x[2]].owner = None \/ pods[x[1]][x[2]].stopping
        \/ Marked(pods'[x[1]][x[2]])
    <3> SUFFICES ASSUME pods[x[1]][x[2]].owner # None, ~pods[x[1]][x[2]].stopping
                 PROVE  Marked(pods'[x[1]][x[2]])
      OBVIOUS
    <3>1. pods'[x[1]][x[2]] = [pods[x[1]][x[2]] EXCEPT !.label = TRUE]
      BY <1>a, <2>1, <2>3
    <3> QED BY <1>a, <2>3, <3>1 DEF Owned, Pod, Marked
  <2>6. ASSUME NEW n \in Namespaces, NEW i \in Nodes, pods[n][i].owner \notin excused \union {None}
        PROVE  /\ sts[n] # pods[n][i].owner \/ pods[n][i].stopping => Marked(pods'[n][i])
               /\ pods[n][i].owner = me => Marked(pods'[n][i]) \/ <<n, i>> \in todo'
    <3>1. /\ sts[n] # pods[n][i].owner \/ pods[n][i].stopping => Marked(pods[n][i])
          /\ pods[n][i].owner = me => Marked(pods[n][i]) \/ <<n, i>> \in todo
      BY <1>a, <2>2, <2>6 DEF PodsMarked
    <3>2. <<n, i>> = x => n = x[1] /\ i = x[2]
      BY <2>3
    <3> QED BY <2>1, <2>4, <2>5, <2>6, <3>1, <3>2
  <2> QED BY <2>2, <2>4, <2>6 DEF PodsMarked
<1>4. CASE DeleteStatefulSet
  <2>1. CASE sts[ns] \in {me, None} /\ sts' = [sts EXCEPT ![ns] = None] /\ Goto("removeFinalizer")
    <3>1. /\ UNCHANGED <<pods, excused>> /\ todo = {} /\ pc \in Labelling
          /\ pc' \notin Labelling
      BY <1>4, <1>a, <2>1 DEF DeleteStatefulSet, Goto, ListEmpty, Labelling
    <3>2. \A n \in Namespaces : sts'[n] = sts[n] \/ sts[n] \in {me, None}
      BY <1>a, <2>1
    <3> QED BY <1>a, <3>1, <3>2 DEF PodsMarked
  <2>2. CASE (Retry \/ GiveUp) /\ UNCHANGED sts
    BY <1>4, <1>a, <2>2, MarkedFrame DEF DeleteStatefulSet, Retry, GiveUp, Goto, Labelling
  <2> QED BY <1>4, <2>1, <2>2 DEF DeleteStatefulSet
<1>5. CASE AddFinalizerIfNeeded \/ RemoveFinalizer \/ AttemptFails \/ CallFails \/ Restart
  <2>1. /\ UNCHANGED <<pods, sts>> /\ excused \subseteq excused' /\ pc' \notin Labelling
    BY <1>5 DEF AddFinalizerIfNeeded, RemoveFinalizer, AttemptFails, CallFails, Restart,
                Retry, GiveUp, Goto, Done, Requeue, Ended, Labelling, sets
  <2> QED BY <1>a, <2>1, MarkedFrame
<1>6. ASSUME NEW n \in Namespaces, StartReconcile(n) PROVE PodsMarked'
  <2>1. UNCHANGED <<pods, sts, excused>> /\ pc' \notin Labelling
    BY <1>6 DEF StartReconcile, FirstStep, Labelling, sets
  <2> QED BY <1>a, <2>1, MarkedFrame
<1>7. ASSUME NEW c \in Clusters, Create(c) \/ Delete(c) PROVE PodsMarked'
  BY <1>7, <1>a, MarkedFrame DEF Create, Delete, sets
<1>8. ASSUME NEW n \in Namespaces,
             CacheCatchesUp(n) \/ StsCacheCatchesUp(n) \/ ApiServerCatchesUp(n)
      PROVE  PodsMarked'
  BY <1>8, <1>a, MarkedFrame
     DEF CacheCatchesUp, StsCacheCatchesUp, ApiServerCatchesUp, sets
<1>9. ASSUME NEW n \in Namespaces, CollectStatefulSet(n) PROVE PodsMarked'
  <2>1. /\ UNCHANGED <<pods, excused, pc, work, todo>> /\ sts' = [sts EXCEPT ![n] = None]
        /\ sts[n] \in Clusters /\ cr[sts[n]].state = "gone"
    BY <1>9, <1>a DEF CollectStatefulSet
  <2>2. sts[n] \in excused
    BY <1>a, <2>1 DEF StsRemoved
  <2>3. \A m \in Namespaces : sts'[m] = sts[m] \/ sts[m] \in excused
    BY <1>a, <2>1, <2>2
  <2> QED BY <1>a, <2>1, <2>3 DEF PodsMarked, me
<1>10. ASSUME NEW n \in Namespaces, NEW i \in Nodes,
              CollectPod(n, i) \/ PodStarts(n, i) \/ PodExits(n, i)
       PROVE  PodsMarked'
  <2>1. UNCHANGED <<sts, excused, pc, work, todo>> /\ me' = me
    BY <1>10 DEF CollectPod, PodStarts, PodExits, sets, me
  <2> SUFFICES ASSUME /\ \A m \in Namespaces, j \in Nodes :
                            m # n \/ j # i => pods'[m][j] = pods[m][j]
                      /\ pods'[n][i].owner \notin excused \union {None}
                      PROVE
                      /\ sts[n] # pods'[n][i].owner \/ pods'[n][i].stopping
                           => Marked(pods'[n][i])
                      /\ pc \in Labelling /\ pods'[n][i].owner = me
                           => Marked(pods'[n][i]) \/ <<n, i>> \in todo
    <3>1. \A m \in Namespaces, j \in Nodes : m # n \/ j # i => pods'[m][j] = pods[m][j]
      BY <1>10, <1>a DEF CollectPod, PodStarts, PodExits
    <3> QED BY <1>a, <2>1, <3>1, SMTT(30) DEF PodsMarked
  <2>2. CASE CollectPod(n, i)
    <3>1. pods[n][i] \in Owned /\ sts[n] # pods[n][i].owner
      BY <2>2, <1>a DEF CollectPod
    <3> DEFINE pod == [pods[n][i] EXCEPT !.stopping = TRUE]
    <3>a. pods' = [pods EXCEPT ![n][i] = pod]
      BY <2>2 DEF CollectPod
    <3>b. pod.owner = pods[n][i].owner /\ (Marked(pods[n][i]) => Marked(pod))
      BY <3>1 DEF Owned, Pod, Marked
    <3> HIDE DEF pod
    <3>2. /\ pods'[n][i].owner = pods[n][i].owner
          /\ Marked(pods[n][i]) => Marked(pods'[n][i])
      BY <1>a, <3>a, <3>b
    <3> QED BY <1>a, <3>1, <3>2 DEF PodsMarked
  <2>3. CASE PodStarts(n, i)
    <3>1. /\ pods'[n][i].owner = sts[n] /\ pods'[n][i].stopping = FALSE
          /\ n = ns /\ pc \in {"addDeletionLabel", "deleteStatefulSet"} => pods'[n][i].late
          /\ sts[n] # None
      BY <2>3, <1>a DEF PodStarts
    <3>2. pc \in Labelling /\ sts[n] = me => n = ns
      BY <1>a, <3>1, MeKnown DEF OwnersHeld, Labelling
    <3> QED BY <3>1, <3>2 DEF Marked, Labelling
  <2>4. CASE PodExits(n, i)
    BY <2>4, <1>a DEF PodExits, NoPod
  <2> QED BY <1>10, <2>2, <2>3, <2>4
<1> QED BY <1>1, <1>2, <1>3, <1>4, <1>5, <1>6, <1>7, <1>8, <1>9, <1>10
        DEF Next, ReconcileStep, Collect

\* What a step does to a namespace's StatefulSet.
LEMMA StepSts ==
    ASSUME TypeInv, Next
    PROVE  \/ \A n \in Namespaces : sts'[n] \in {sts[n], None}
           \/ /\ pc = "createStatefulSet" /\ pc' = "idle" /\ UNCHANGED cr
              /\ \A n \in Namespaces : sts'[n] = sts[n] \/ (n = ns /\ sts'[n] = me)
              /\ cr[me].state = "gone" => me \in excused'
<1>a. sts \in [Namespaces -> Clusters \union {None}]
  BY DEF TypeInv, TypeOK
<1>1. CASE CreateStatefulSet
  BY <1>1, <1>a DEF CreateStatefulSet, Done, Requeue, Ended, clusters
<1>2. CASE DeleteStatefulSet
  BY <1>2, <1>a DEF DeleteStatefulSet
<1>3. ASSUME NEW n \in Namespaces, CollectStatefulSet(n)
      PROVE  \A m \in Namespaces : sts'[m] \in {sts[m], None}
  BY <1>3, <1>a DEF CollectStatefulSet
<1>4. CASE UNCHANGED sts
  BY <1>4
<1> QED
  BY <1>1, <1>2, <1>3, <1>4
     DEF Next, ReconcileStep, Collect, StartReconcile, AddFinalizerIfNeeded, StatefulSetUID,
         AddDeletionLabel, RemoveFinalizer, AttemptFails, CallFails, Restart, Create, Delete,
         CacheCatchesUp, StsCacheCatchesUp, ApiServerCatchesUp, CollectPod, PodStarts,
         PodExits, sets

LEMMA StepOwnersHeld == ASSUME TypeInv, CopiesSeen, OwnersHeld, Next PROVE OwnersHeld'
<1>a. Ages /\ sts \in [Namespaces -> Clusters \union {None}]
  BY StepAges DEF TypeInv, TypeOK
<1>1. \A n \in Namespaces : sts[n] # None => Held(cr'[sts[n]])
  BY <1>a DEF OwnersHeld, Ages, Aged
<1>2. pc = "createStatefulSet" => NamespaceOf[me] = ns /\ Held(cr[me])
  BY MeKnown DEF CopiesSeen, Seen, me
<1> QED BY <1>1, <1>2, StepSts DEF OwnersHeld

LEMMA StepListEmpty == ASSUME ListEmpty, Next PROVE ListEmpty'
<1>1. CASE AddFinalizerIfNeeded \/ CreateStatefulSet \/ RemoveFinalizer \/ CallFails \/ Restart
  BY <1>1 DEF ListEmpty, AddFinalizerIfNeeded, CreateStatefulSet, RemoveFinalizer, CallFails,
              Restart, Done, Requeue, Ended
<1>2. CASE StatefulSetUID
  BY <1>2 DEF ListEmpty, StatefulSetUID, GiveUp, Goto
<1>3. CASE AddDeletionLabel
  <2>1. PICK x \in todo :
           /\ todo' = todo \ {x}
           /\ pc' = IF todo = {x} THEN "deleteStatefulSet" ELSE pc
    BY <1>3 DEF AddDeletionLabel
  <2> QED BY <1>3, <2>1 DEF ListEmpty, AddDeletionLabel
<1>4. CASE DeleteStatefulSet \/ AttemptFails
  BY <1>4 DEF ListEmpty, DeleteStatefulSet, AttemptFails, Retry, GiveUp, Goto
<1>5. ASSUME NEW n \in Namespaces, StartReconcile(n) PROVE ListEmpty'
  BY <1>5 DEF ListEmpty, StartReconcile
<1>6. CASE UNCHANGED <<pc, todo>>
  BY <1>6 DEF ListEmpty
<1> QED
  BY <1>1, <1>2, <1>3, <1>4, <1>5, <1>6
     DEF Next, ReconcileStep, Collect, Create, Delete, CacheCatchesUp, StsCacheCatchesUp,
         ApiServerCatchesUp, CollectStatefulSet, CollectPod, PodStarts, PodExits

\* Which clusters a step takes away, and where the work comes to its last step.
LEMMA StepGone ==
    ASSUME TypeInv, Next, NEW c \in Clusters, cr'[c].state = "gone"
    PROVE  \/ cr[c].state = "gone"
           \/ pc = "removeFinalizer" /\ c = me /\ UNCHANGED <<sts, excused>>
           \/ ~cr[c].finalizer /\ UNCHANGED <<sts, excused>>
<1>a. cr \in [Clusters -> State]
  BY DEF TypeInv, TypeOK, State
<1>1. CASE AddFinalizerIfNeeded
  <2>1. cr' = cr \/ cr' = [cr EXCEPT ![me] = [cr[me] EXCEPT !.finalizer = TRUE]]
    BY <1>1 DEF AddFinalizerIfNeeded
  <2>2. \A s \in State : [s EXCEPT !.finalizer = TRUE].state = s.state
    BY DEF State
  <2> QED BY <1>a, <2>1, <2>2
<1>2. CASE RemoveFinalizer
  BY <1>2, <1>a DEF RemoveFinalizer, sets
<1>3. ASSUME NEW d \in Clusters, Create(d) PROVE cr[c].state = "gone"
  <2>1. cr' = [cr EXCEPT ![d] = [cr[d] EXCEPT !.state = "live"]]
    BY <1>3 DEF Create
  <2>2. [cr[d] EXCEPT !.state = "live"].state = "live"
    BY <1>a DEF State
  <2> QED BY <1>a, <2>1, <2>2
<1>4. ASSUME NEW d \in Clusters, Delete(d)
      PROVE  cr[c].state = "gone" \/ (~cr[c].finalizer /\ UNCHANGED <<sts, excused>>)
  <2> DEFINE s == IF cr[d].finalizer THEN "terminating" ELSE "gone"
  <2>1. cr' = [cr EXCEPT ![d] = [cr[d] EXCEPT !.state = s]] /\ UNCHANGED <<sts, excused>>
    BY <1>4 DEF Delete, sets
  <2>2. [cr[d] EXCEPT !.state = s].state = s
    BY <1>a DEF State
  <2> QED BY <1>a, <2>1, <2>2
<1>5. CASE UNCHANGED cr
  BY <1>5
<1> QED
  BY <1>1, <1>2, <1>3, <1>4, <1>5
     DEF Next, ReconcileStep, Collect, StartReconcile, CreateStatefulSet, StatefulSetUID,
         AddDeletionLabel, DeleteStatefulSet, AttemptFails, CallFails, Restart,
         CacheCatchesUp, StsCacheCatchesUp, ApiServerCatchesUp, CollectStatefulSet,
         CollectPod, PodStarts, PodExits, clusters

LEMMA StepRemoving ==
    ASSUME TypeInv, Next, pc' = "removeFinalizer"
    PROVE  /\ UNCHANGED work
           /\ \/ pc = "removeFinalizer" /\ excused' = excused
              \/ me \in excused'
              \/ pc \in Labelling /\ sts' = [sts EXCEPT ![ns] = None]
<1>1. CASE StatefulSetUID \/ AttemptFails
  BY <1>1 DEF StatefulSetUID, AttemptFails, Retry, GiveUp, Goto
<1>2. CASE DeleteStatefulSet
  BY <1>2 DEF DeleteStatefulSet, Retry, GiveUp, Goto, Labelling
<1>3. CASE \/ AddFinalizerIfNeeded \/ CreateStatefulSet \/ RemoveFinalizer \/ CallFails
           \/ Restart \/ AddDeletionLabel \/ \E n \in Namespaces : StartReconcile(n)
  BY <1>3 DEF AddFinalizerIfNeeded, CreateStatefulSet, RemoveFinalizer, CallFails, Restart,
              AddDeletionLabel, StartReconcile, FirstStep, Done, Requeue, Ended
<1>4. CASE UNCHANGED <<pc, work, excused>>
  BY <1>4
<1> QED
  BY <1>1, <1>2, <1>3, <1>4
     DEF Next, ReconcileStep, Collect, Create, Delete, CacheCatchesUp, StsCacheCatchesUp,
         ApiServerCatchesUp, CollectStatefulSet, CollectPod, PodStarts, PodExits

LEMMA ExcusedGrows == ASSUME Next PROVE excused \subseteq excused'
BY DEF Next, ReconcileStep, Collect, StartReconcile, AddFinalizerIfNeeded, CreateStatefulSet,
       StatefulSetUID, AddDeletionLabel, DeleteStatefulSet, RemoveFinalizer, AttemptFails,
       CallFails, Restart, Retry, GiveUp, Create, Delete, CacheCatchesUp, StsCacheCatchesUp,
       ApiServerCatchesUp, CollectStatefulSet, CollectPod, PodStarts, PodExits

LEMMA StepStsRemoved ==
    ASSUME TypeInv, CopiesSeen, OwnersHeld, StsRemoved, Next PROVE StsRemoved'
<1>a. sts \in [Namespaces -> Clusters \union {None}]
  BY DEF TypeInv, TypeOK
<1>1. ASSUME pc' = "removeFinalizer", me' \notin excused', NEW n \in Namespaces
      PROVE  sts'[n] # me'
  <2>1. me' = me /\ me \notin excused /\ UNCHANGED work
    BY <1>1, StepRemoving, ExcusedGrows DEF me
  <2>2. me # None
    BY <1>1, StepTypeInv, <2>1 DEF TypeInv
  <2>3. sts'[n] \in {sts[n], None}
    BY <1>1, StepSts
  <2>4. CASE pc = "removeFinalizer"
    BY <2>1, <2>2, <2>3, <2>4 DEF StsRemoved
  <2>5. CASE pc \in Labelling /\ sts' = [sts EXCEPT ![ns] = None]
    <3>1. NamespaceOf[me] = ns
      BY <2>5, MeKnown DEF Labelling
    <3> QED BY <1>a, <2>1, <2>2, <2>5, <3>1 DEF OwnersHeld
  <2> QED BY <1>1, <2>1, <2>4, <2>5, StepRemoving
<1>2. ASSUME NEW c \in Clusters, cr'[c].state = "gone", c \notin excused', NEW n \in Namespaces
      PROVE  sts'[n] # c
  <2>a. c \notin excused /\ c # None
    BY <1>2, ExcusedGrows, ConstantsAssumption
  <2>1. CASE cr[c].state = "gone"
    <3>1. sts[n] # c
      BY <2>a, <2>1 DEF StsRemoved
    <3> QED BY <1>2, <2>a, <2>1, <3>1, StepSts
  <2>2. CASE pc = "removeFinalizer" /\ c = me /\ UNCHANGED <<sts, excused>>
    BY <2>2, <2>a DEF StsRemoved
  <2>3. CASE cr[c].state # "gone" /\ ~cr[c].finalizer /\ UNCHANGED <<sts, excused>>
    BY <2>3, <2>a DEF OwnersHeld, Held
  <2> QED BY <1>2, <2>1, <2>2, <2>3, StepGone
<1> QED BY <1>1, <1>2 DEF StsRemoved

LEMMA InitPromiseInv == Init => PromiseInv
<1> SUFFICES ASSUME Init PROVE PromiseInv
  OBVIOUS
<1>1. \A n \in Namespaces : sts[n] = None /\ \A i \in Nodes : pods[n][i].owner = None
  BY DEF Init, NoPod
<1>2. pc = "idle" /\ todo = {} /\ \A c \in Clusters : cr[c].state = "absent"
  BY DEF Init
<1> QED BY <1>1, <1>2, ConstantsAssumption
        DEF PromiseInv, OwnersHeld, ListEmpty, PodsMarked, StsRemoved, Labelling

\* Whoever sees the finalizer removed finds the StatefulSet deleted and the pods marked,
\* unless prepareForDeletion logged an error: the order of its steps, each of which may
\* fail and start over among restarts of the operator and of pods, sees to that.
THEOREM FinalizerKeepsItsPromiseHolds == Spec => []FinalizerKeepsItsPromise
<1>1. TypeInv /\ CopiesSeen /\ PromiseInv /\ [Next]_vars => PromiseInv'
  <2>1. TypeInv /\ CopiesSeen /\ PromiseInv /\ Next => PromiseInv'
    BY StepOwnersHeld, StepListEmpty, StepPodsMarked, StepStsRemoved DEF PromiseInv
  <2>2. PromiseInv /\ UNCHANGED vars => PromiseInv'
    BY DEF vars, PromiseInv, OwnersHeld, ListEmpty, PodsMarked, StsRemoved, me
  <2> QED BY <2>1, <2>2
<1>2. PromiseInv => FinalizerKeepsItsPromise
  <2> SUFFICES ASSUME PromiseInv, NEW c \in Clusters, cr[c].state = "gone", c \notin excused,
                      NEW n \in Namespaces
               PROVE  /\ sts[n] # c
                      /\ \A i \in Nodes : pods[n][i].owner = c =>
                            pods[n][i].label \/ pods[n][i].late
    BY DEF FinalizerKeepsItsPromise
  <2>1. sts[n] # c /\ c # None
    BY ConstantsAssumption DEF PromiseInv, StsRemoved
  <2> QED BY <2>1 DEF PromiseInv, PodsMarked, Marked
<1> QED BY <1>1, <1>2, InitPromiseInv, CopiesSeenHolds, PTL DEF Spec
=============================================================================
