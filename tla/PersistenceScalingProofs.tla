------------------------ MODULE PersistenceScalingProofs ------------------------
(***************************************************************************)
(* Theorems about PersistenceScaling for every number of replicas, every   *)
(* set of capacities and specs and every number of edits and failures.     *)
(***************************************************************************)
EXTENDS PersistenceScaling, WellFoundedInduction, TLAPS

(* Type correctness. *)

ClusterCopy == [obj: Cluster, latest: BOOLEAN]
StatefulSetCopy == [obj: StatefulSet, latest: BOOLEAN]

\* The loop over the claims takes one of those that are left.
LEMMA MinIsAMember ==
    ASSUME NEW S \in SUBSET Nat, S # {}
    PROVE  Min(S) \in S
<1>1. PICK x \in S : \A y \in S : ~ (<<y, x>> \in OpToRel(<, Nat))
  BY NatLessThanWellFounded, WFMin
<1>2. ASSUME NEW y \in S PROVE x <= y
  <2>1. ~ (<<y, x>> \in OpToRel(<, Nat))
    BY <1>1
  <2>2. ~ (y < x)
    BY <2>1 DEF OpToRel
  <2> QED BY <2>2
<1> QED BY <1>2 DEF Min

LEMMA OrdinalsAreNaturals == Ordinals \subseteq Nat
BY ConstantsAssumption DEF Ordinals

LEMMA SpecTyped == ASSUME TypeOK PROVE /\ spec \in SpecType
                                       /\ spec.replicas \in Nat /\ spec.capacity \in Nat
<1>1. work.obj.spec \in SpecType
  BY DEF TypeOK, Cluster
<1>2. work.obj.spec.replicas \in 0..MaxReplicas /\ work.obj.spec.capacity \in Capacities
  BY <1>1 DEF SpecType
<1>3. work.obj.spec.replicas \in Nat
  BY <1>2, ConstantsAssumption
<1>4. work.obj.spec.capacity \in Nat
  BY <1>2, ConstantsAssumption
<1> QED BY <1>1, <1>3, <1>4 DEF spec

LEMMA ClaimTyped == ASSUME TypeOK, NEW p \in Ordinals PROVE pvcs[p] \in Nat
<1>1. pvcs[p] \in Capacities \union {0}
  BY DEF TypeOK, NoPVC
<1>2. Capacities \subseteq Nat
  BY ConstantsAssumption
<1>3. ASSUME NEW c \in Capacities \union {0} PROVE c \in Nat
  BY <1>2
<1> QED BY <1>1, <1>3

LEMMA StatusTyped ==
    ASSUME NEW o \in Cluster, NEW s \in {"Unset", "True", "False"}
    PROVE  [o EXCEPT !.success = s] \in Cluster
BY DEF Cluster

LEMMA ObservedTyped ==
    ASSUME NEW o \in Cluster
    PROVE  [o EXCEPT !.success = "True", !.observed = o.gen] \in Cluster
BY DEF Cluster

LEMMA NewSpecTyped ==
    ASSUME NEW o \in Cluster, NEW s \in SpecType
    PROVE  [o EXCEPT !.spec = s, !.gen = @ + 1] \in Cluster
<1> DEFINE new == [o EXCEPT !.spec = s]
<1>1. new \in Cluster
  BY DEF Cluster
<1>2. [o EXCEPT !.spec = s, !.gen = @ + 1] = [new EXCEPT !.gen = @ + 1]
  BY DEF Cluster
<1> HIDE DEF new
<1>3. [new EXCEPT !.gen = @ + 1] \in Cluster
  BY <1>1 DEF Cluster
<1> QED BY <1>2, <1>3

LEMMA EndTyped ==
    ASSUME TypeOK, NEW new \in Cluster, NotWritten \/ TryWriteStatus(new), UNCHANGED work,
           Ended, queued' \in BOOLEAN, UNCHANGED kubernetes,
           edits' \in 0..MaxEdits, faults' \in 0..MaxFaults
    PROVE  TypeOK'
<1>1. cr' \in Cluster /\ cache' \in ClusterCopy
  BY DEF TypeOK, NotWritten, TryWriteStatus, ClusterCopy
<1> QED BY <1>1 DEF TypeOK, Ended, kubernetes, ClusterCopy, Steps

\* What a failed step does to the types.
LEMMA ReturnErrorTyped ==
    ASSUME TypeOK, ReturnError, UNCHANGED kubernetes,
           edits' \in 0..MaxEdits, faults' \in 0..MaxFaults
    PROVE  TypeOK'
<1>1. work.obj \in Cluster
  BY DEF TypeOK
<1>2. [work.obj EXCEPT !.success = "False"] \in Cluster
  BY <1>1, StatusTyped
<1> QED BY <1>2, EndTyped DEF ReturnError, Requeue, SetReconcileSuccess

LEMMA RequeueTyped ==
    ASSUME TypeOK, Requeue, NotWritten, UNCHANGED kubernetes,
           edits' \in 0..MaxEdits, faults' \in 0..MaxFaults
    PROVE  TypeOK'
BY EndTyped DEF Requeue, TypeOK

LEMMA WriteStsTyped ==
    ASSUME TypeOK, NEW new \in StatefulSet, WriteSts(new), UNCHANGED <<copies, pods, bounds>>,
           pvcs' \in [Ordinals -> Capacities \union {NoPVC}],
           pc' \in Steps, todo' \subseteq Ordinals, queued' \in BOOLEAN
    PROVE  TypeOK'
<1>1. sts' \in StatefulSet /\ stsCache' \in StatefulSetCopy
  BY DEF TypeOK, WriteSts, StatefulSetCopy
<1> QED BY <1>1 DEF TypeOK, copies, bounds, StatefulSetCopy

LEMMA InitTyped == Init => TypeOK
<1> SUFFICES ASSUME Init PROVE TypeOK
  OBVIOUS
<1>1. cr \in Cluster
  BY ConstantsAssumption DEF Init, Cluster
<1>2. NoSts \in StatefulSet
  BY ConstantsAssumption DEF NoSts, StatefulSet
<1> QED BY <1>1, <1>2, ConstantsAssumption DEF Init, TypeOK, Steps

LEMMA ReconcileTyped == TypeOK /\ ReconcileStep => TypeOK'
<1> SUFFICES ASSUME TypeOK, ReconcileStep PROVE TypeOK'
  OBVIOUS
<1> USE DEF Goto
<1>0. work.obj \in Cluster /\ edits \in 0..MaxEdits /\ faults \in 0..MaxFaults
  BY DEF TypeOK
<1>1. CASE StartReconcile
  BY <1>1 DEF StartReconcile, TypeOK, kubernetes, bounds, Steps
<1>2. CASE EarlierStepConflicts
  BY <1>0, <1>2, RequeueTyped DEF EarlierStepConflicts, bounds
<1>3. CASE RejectScaleDown
  <2>1. [work.obj EXCEPT !.success = "False"] \in Cluster
    BY <1>0, StatusTyped
  <2>2. queued' \in BOOLEAN
    BY <1>3 DEF RejectScaleDown, Done, TypeOK
  <2> QED BY <1>0, <1>3, <2>1, <2>2, EndTyped DEF RejectScaleDown, SetReconcileSuccess, Done, bounds
<1>4. CASE AcceptReplicas
  BY <1>4 DEF AcceptReplicas, TypeOK, copies, kubernetes, bounds, Steps
<1>5. CASE RejectCapacity
  BY <1>0, <1>5, ReturnErrorTyped DEF RejectCapacity, bounds
<1>6. CASE AcceptCapacity
  BY <1>6 DEF AcceptCapacity, TypeOK, copies, kubernetes, bounds, Steps
<1>7. CASE GetClusterPVCs
  <2>1. pvcsNeedingScaling \subseteq Ordinals
    BY DEF pvcsNeedingScaling
  <2>2. todo' \subseteq Ordinals /\ pc' \in Steps
    BY <1>7, <2>1 DEF GetClusterPVCs, Steps
  <2> QED BY <1>7, <2>2 DEF GetClusterPVCs, TypeOK, copies, kubernetes, bounds
<1>8. CASE DeleteSts
  <2>1. [sts EXCEPT !.deleting = TRUE] \in StatefulSet
    BY DEF TypeOK, StatefulSet
  <2>2. CASE sts.exists
    <3>1. pc' \in Steps /\ todo' \subseteq Ordinals /\ queued' \in BOOLEAN
      BY <1>8, <2>2 DEF DeleteSts, TypeOK, Steps
    <3>2. pvcs' \in [Ordinals -> Capacities \union {NoPVC}]
      BY <1>8 DEF DeleteSts, TypeOK
    <3> QED BY <1>8, <2>1, <2>2, <3>1, <3>2, WriteStsTyped DEF DeleteSts
  <2>3. CASE ~sts.exists
    BY <1>8, <2>3 DEF DeleteSts, TypeOK, copies, bounds, Steps
  <2> QED BY <2>2, <2>3
<1>9. CASE StsDeleted
  BY <1>9 DEF StsDeleted, TypeOK, copies, kubernetes, bounds, Steps
<1>10. CASE DeletionTimesOut
  BY <1>0, <1>10, ReturnErrorTyped DEF DeletionTimesOut, bounds
<1>11. CASE ScaleUpPVC
  <2>1. spec.capacity \in Capacities
    BY SpecTyped DEF SpecType
  <2>2. pvcs' \in [Ordinals -> Capacities \union {NoPVC}]
    BY <1>11, <2>1 DEF ScaleUpPVC, TypeOK
  <2>3. todo' \subseteq Ordinals /\ pc' \in Steps
    BY <1>11 DEF ScaleUpPVC, TypeOK, Steps
  <2> QED BY <1>11, <2>2, <2>3 DEF ScaleUpPVC, TypeOK, copies, bounds
<1>12. CASE CreateSts
  <2> DEFINE new == [exists |-> TRUE, deleting |-> FALSE,
                     replicas |-> spec.replicas, capacity |-> spec.capacity]
  <2>1. new \in StatefulSet
    BY SpecTyped DEF SpecType, StatefulSet
  <2>2. WriteSts(new)
    BY <1>12 DEF CreateSts
  <2> HIDE DEF new
  <2>3. /\ pc' \in Steps /\ todo' \subseteq Ordinals /\ queued' \in BOOLEAN
        /\ pvcs' \in [Ordinals -> Capacities \union {NoPVC}]
        /\ UNCHANGED <<copies, pods, bounds>>
    BY <1>12 DEF CreateSts, TypeOK, Steps
  <2> QED BY <2>1, <2>2, <2>3, WriteStsTyped
<1>13. CASE StsUnchanged
  BY <1>13 DEF StsUnchanged, TypeOK, copies, kubernetes, bounds, Steps
<1>14. CASE UpdateSts
  <2> DEFINE new == [sts EXCEPT !.replicas = spec.replicas]
  <2>1. new \in StatefulSet
    BY SpecTyped DEF SpecType, StatefulSet, TypeOK
  <2>2. WriteSts(new)
    BY <1>14 DEF UpdateSts
  <2> HIDE DEF new
  <2>3. /\ pc' \in Steps /\ todo' \subseteq Ordinals /\ queued' \in BOOLEAN
        /\ pvcs' \in [Ordinals -> Capacities \union {NoPVC}]
        /\ UNCHANGED <<copies, pods, bounds>>
    BY <1>14 DEF UpdateSts, TypeOK, Steps
  <2> QED BY <2>1, <2>2, <2>3, WriteStsTyped
<1>15. CASE CreateOrUpdateRefused
  BY <1>0, <1>15, ReturnErrorTyped DEF CreateOrUpdateRefused, bounds
<1>16. CASE AnnotateCreated
  <2>1. /\ pc' \in Steps /\ todo' \subseteq Ordinals /\ queued' \in BOOLEAN
        /\ pvcs' \in [Ordinals -> Capacities \union {NoPVC}] /\ sts \in StatefulSet
    BY <1>16 DEF AnnotateCreated, TypeOK, Steps
  <2> QED BY <1>16, <2>1, WriteStsTyped DEF AnnotateCreated
<1>17. CASE AnnotateCreatedFails
  BY <1>0, <1>17, RequeueTyped DEF AnnotateCreatedFails, bounds
<1>18. CASE AwaitReplicas
  BY <1>0, <1>18, RequeueTyped, ReturnErrorTyped DEF AwaitReplicas, bounds
<1>19. CASE FinishReconcile
  <2> DEFINE new == [work.obj EXCEPT !.success = "True", !.observed = work.obj.gen]
  <2>1. new \in Cluster
    BY <1>0, ObservedTyped
  <2>2. TryWriteStatus(new) /\ Done
    BY <1>19 DEF FinishReconcile
  <2> HIDE DEF new
  <2>3. queued' \in BOOLEAN
    BY <2>2 DEF Done, TypeOK
  <2> QED BY <1>0, <1>19, <2>1, <2>2, <2>3, EndTyped DEF FinishReconcile, Done, bounds
<1> QED BY <1>1, <1>2, <1>3, <1>4, <1>5, <1>6, <1>7, <1>8, <1>9, <1>10, <1>11, <1>12, <1>13,
           <1>14, <1>15, <1>16, <1>17, <1>18, <1>19 DEF ReconcileStep

LEMMA NextTyped == TypeOK /\ [Next]_vars => TypeOK'
<1> SUFFICES ASSUME TypeOK, [Next]_vars PROVE TypeOK'
  OBVIOUS
<1>0. /\ edits \in 0..MaxEdits /\ faults \in 0..MaxFaults
      /\ MaxEdits \in Nat /\ MaxFaults \in Nat
  BY ConstantsAssumption DEF TypeOK
<1>1. CASE ReconcileStep
  BY <1>1, ReconcileTyped
<1>2. CASE CallFails
  <2>1. edits' \in 0..MaxEdits /\ faults' \in 0..MaxFaults
    BY <1>0, <1>2 DEF CallFails, Fault
  <2> QED BY <1>2, <2>1, ReturnErrorTyped DEF CallFails
<1>3. CASE Crash
  <2>1. edits' \in 0..MaxEdits /\ faults' \in 0..MaxFaults
    BY <1>0, <1>3 DEF Crash, Fault
  <2> QED BY <1>3, <2>1, RequeueTyped DEF Crash
<1>4. CASE EditSpec
  <2>1. edits' \in 0..MaxEdits
    BY <1>0, <1>4 DEF EditSpec
  <2>2. PICK s \in Specs \ {cr.spec} : cr' = [cr EXCEPT !.spec = s, !.gen = @ + 1]
    BY <1>4 DEF EditSpec
  <2>3. cr' \in Cluster
    <3>1. s \in SpecType /\ cr \in Cluster
      BY ConstantsAssumption DEF TypeOK
    <3> QED BY <2>2, <3>1, NewSpecTyped
  <2>4. cache' \in ClusterCopy /\ work' \in ClusterCopy
    BY <1>4 DEF EditSpec, TypeOK, ClusterCopy
  <2> QED BY <1>4, <2>1, <2>3, <2>4 DEF EditSpec, TypeOK, kubernetes, ClusterCopy
<1>5. CASE CacheCatchesUp
  BY <1>5 DEF CacheCatchesUp, TypeOK, kubernetes, bounds
<1>6. CASE StsCacheCatchesUp
  BY <1>6 DEF StsCacheCatchesUp, TypeOK, copies, bounds
<1>7. CASE GarbageCollectorReleases
  <2>1. NoSts \in StatefulSet
    BY ConstantsAssumption DEF NoSts, StatefulSet
  <2>2. /\ pc' \in Steps /\ todo' \subseteq Ordinals /\ queued' \in BOOLEAN
        /\ pvcs' \in [Ordinals -> Capacities \union {NoPVC}]
    BY <1>7 DEF GarbageCollectorReleases, TypeOK
  <2> QED BY <1>7, <2>1, <2>2, WriteStsTyped DEF GarbageCollectorReleases
<1>8. CASE PodStep
  <2>1. PICK p \in Ordinals : PodStarts(p) \/ PodRemoved(p)
    BY <1>8 DEF PodStep
  <2>2. CASE PodStarts(p)
    <3>1. sts.capacity \in Capacities \union {NoPVC}
      BY DEF TypeOK, StatefulSet, NoPVC
    <3>2. pvcs' \in [Ordinals -> Capacities \union {NoPVC}]
      BY <2>2, <3>1 DEF PodStarts, TypeOK
    <3> QED BY <2>2, <3>2 DEF PodStarts, TypeOK, copies, bounds
  <2>3. CASE PodRemoved(p)
    BY <2>3 DEF PodRemoved, TypeOK, copies, bounds
  <2> QED BY <2>1, <2>2, <2>3
<1>9. CASE UNCHANGED vars
  BY <1>9 DEF TypeOK, vars
<1> QED BY <1>1, <1>2, <1>3, <1>4, <1>5, <1>6, <1>7, <1>8, <1>9 DEF Next

(* TypeOK: the records of the API server, the copies and the claims keep their shapes, *)
(* whatever reconcile, edit, failure or step of Kubernetes comes next.                 *)
THEOREM TypeCorrect == Spec => []TypeOK
BY InitTyped, NextTyped, PTL DEF Spec

--------------------------------------------------------------------------------
(* VolumesNeverShrink. *)

\* The claims that wait for their expansion have been created, and ask for less than the
\* spec of the reconcile: its copy does not change, and a pod that starts meanwhile
\* gives a claim only to a node that has none.
TodoIsSmall ==
    /\ pc \in {"deleteSts", "awaitDeletion", "scaleUpPVCs"} <=> todo # {}
    /\ \A p \in todo : pvcs[p] # NoPVC /\ pvcs[p] < spec.capacity

VolumesInv == TypeOK /\ TodoIsSmall

LEMMA EndedHasNothingToDo == ASSUME Ended PROVE TodoIsSmall'
BY DEF Ended, TodoIsSmall

LEMMA TodoKept ==
    ASSUME TodoIsSmall, UNCHANGED <<pc, todo, work, pvcs>>
    PROVE  TodoIsSmall'
BY DEF TodoIsSmall, spec

LEMMA TodoUnused ==
    ASSUME TodoIsSmall, UNCHANGED todo,
           pc \notin {"deleteSts", "awaitDeletion", "scaleUpPVCs"},
           pc' \notin {"deleteSts", "awaitDeletion", "scaleUpPVCs"}
    PROVE  TodoIsSmall'
BY DEF TodoIsSmall

LEMMA TodoNext == VolumesInv /\ [Next]_vars => TodoIsSmall'
<1> SUFFICES ASSUME VolumesInv, [Next]_vars PROVE TodoIsSmall'
  OBVIOUS
<1>0. TypeOK /\ TodoIsSmall
  BY DEF VolumesInv
<1> USE DEF Goto
<1>1. CASE StartReconcile
  BY <1>0, <1>1, TodoUnused DEF StartReconcile
<1>2. CASE EarlierStepConflicts
  BY <1>2, EndedHasNothingToDo DEF EarlierStepConflicts, Requeue
<1>3. CASE RejectScaleDown
  BY <1>3, EndedHasNothingToDo DEF RejectScaleDown, Done
<1>4. CASE AcceptReplicas
  BY <1>0, <1>4, TodoUnused DEF AcceptReplicas
<1>5. CASE RejectCapacity
  BY <1>5, EndedHasNothingToDo DEF RejectCapacity, ReturnError, Requeue
<1>6. CASE AcceptCapacity
  BY <1>0, <1>6, TodoUnused DEF AcceptCapacity
<1>7. CASE GetClusterPVCs
  <2>1. /\ UNCHANGED <<pvcs, work>> /\ todo' = pvcsNeedingScaling
        /\ pc' = IF todo' = {} THEN "createOrUpdate" ELSE "deleteSts"
    BY <1>7 DEF GetClusterPVCs, copies, kubernetes
  <2>2. \A p \in todo' : pvcs[p] # NoPVC /\ pvcs[p] < spec.capacity
    BY <2>1 DEF pvcsNeedingScaling
  <2>3. \A p \in todo' : pvcs'[p] # NoPVC /\ pvcs'[p] < (spec.capacity)'
    BY <2>1, <2>2 DEF spec
  <2> QED BY <2>1, <2>3 DEF TodoIsSmall
<1>8. CASE DeleteSts
  <2>1. /\ UNCHANGED <<todo, work, pvcs>> /\ pc = "deleteSts"
        /\ pc' \in {"awaitDeletion", "scaleUpPVCs"}
    BY <1>8 DEF DeleteSts, copies
  <2> QED BY <1>0, <2>1 DEF TodoIsSmall, spec
<1>9. CASE StsDeleted
  <2>1. /\ UNCHANGED <<todo, work, pvcs>> /\ pc = "awaitDeletion" /\ pc' = "scaleUpPVCs"
    BY <1>9 DEF StsDeleted, copies, kubernetes
  <2> QED BY <1>0, <2>1 DEF TodoIsSmall, spec
<1>10. CASE DeletionTimesOut
  BY <1>10, EndedHasNothingToDo DEF DeletionTimesOut, ReturnError, Requeue
<1>11. CASE ScaleUpPVC
  <2> DEFINE p == Min(todo)
  <2>1. /\ UNCHANGED work /\ pc = "scaleUpPVCs" /\ todo' = todo \ {p}
        /\ pvcs' = [pvcs EXCEPT ![p] = spec.capacity]
        /\ pc' = IF todo = {p} THEN "createOrUpdate" ELSE pc
    BY <1>11 DEF ScaleUpPVC, copies
  <2> HIDE DEF p
  <2>2. todo # {} /\ todo \subseteq Ordinals /\ pvcs \in [Ordinals -> Capacities \union {NoPVC}]
    BY <1>0, <2>1 DEF TodoIsSmall, TypeOK
  <2>3. pc' \in {"deleteSts", "awaitDeletion", "scaleUpPVCs"} <=> todo' # {}
    BY <2>1, <2>2
  <2>4. \A q \in todo' : pvcs'[q] = pvcs[q]
    BY <2>1, <2>2
  <2> QED BY <1>0, <2>1, <2>3, <2>4 DEF TodoIsSmall, spec
<1>12. CASE CreateSts
  BY <1>0, <1>12, TodoUnused DEF CreateSts
<1>13. CASE StsUnchanged
  BY <1>0, <1>13, TodoUnused DEF StsUnchanged
<1>14. CASE UpdateSts
  BY <1>0, <1>14, TodoUnused DEF UpdateSts
<1>15. CASE CreateOrUpdateRefused
  BY <1>15, EndedHasNothingToDo DEF CreateOrUpdateRefused, ReturnError, Requeue
<1>16. CASE AnnotateCreated
  BY <1>0, <1>16, TodoUnused DEF AnnotateCreated
<1>17. CASE AnnotateCreatedFails
  BY <1>17, EndedHasNothingToDo DEF AnnotateCreatedFails, Requeue
<1>18. CASE AwaitReplicas
  BY <1>18, EndedHasNothingToDo DEF AwaitReplicas, ReturnError, Requeue
<1>19. CASE FinishReconcile
  BY <1>19, EndedHasNothingToDo DEF FinishReconcile, Done
<1>20. CASE CallFails
  BY <1>20, EndedHasNothingToDo DEF CallFails, ReturnError, Requeue
<1>21. CASE Crash
  BY <1>21, EndedHasNothingToDo DEF Crash, Requeue
<1>22. CASE EditSpec
  <2>1. UNCHANGED <<pc, todo, pvcs>> /\ work' = [work EXCEPT !.latest = FALSE]
    BY <1>22 DEF EditSpec, kubernetes
  <2>2. work'.obj = work.obj
    BY <1>0, <2>1 DEF TypeOK
  <2> QED BY <1>0, <2>1, <2>2 DEF TodoIsSmall, spec
<1>23. CASE CacheCatchesUp
  BY <1>0, <1>23, TodoKept DEF CacheCatchesUp, kubernetes
<1>24. CASE StsCacheCatchesUp
  BY <1>0, <1>24, TodoKept DEF StsCacheCatchesUp, copies
<1>25. CASE GarbageCollectorReleases
  BY <1>0, <1>25, TodoKept DEF GarbageCollectorReleases, copies
<1>26. ASSUME NEW p \in Ordinals, PodStarts(p) PROVE TodoIsSmall'
  <2>1. /\ UNCHANGED <<pc, todo, work>>
        /\ pvcs' = IF pvcs[p] = NoPVC THEN [pvcs EXCEPT ![p] = sts.capacity] ELSE pvcs
    BY <1>26 DEF PodStarts, copies
  <2>2. \A q \in todo : pvcs'[q] = pvcs[q]
    BY <1>0, <2>1 DEF TodoIsSmall, TypeOK
  <2> QED BY <1>0, <2>1, <2>2 DEF TodoIsSmall, spec
<1>27. ASSUME NEW p \in Ordinals, PodRemoved(p) PROVE TodoIsSmall'
  BY <1>0, <1>27, TodoKept DEF PodRemoved, copies
<1>28. CASE UNCHANGED vars
  BY <1>0, <1>28, TodoKept DEF vars
<1> QED BY <1>1, <1>2, <1>3, <1>4, <1>5, <1>6, <1>7, <1>8, <1>9, <1>10, <1>11, <1>12, <1>13,
           <1>14, <1>15, <1>16, <1>17, <1>18, <1>19, <1>20, <1>21, <1>22, <1>23, <1>24,
           <1>25, <1>26, <1>27, <1>28 DEF Next, ReconcileStep, PodStep

LEMMA VolumesInvHolds == Spec => []VolumesInv
<1>1. Init => VolumesInv
  BY InitTyped DEF VolumesInv, Init, TodoIsSmall
<1>2. VolumesInv /\ [Next]_vars => VolumesInv'
  BY NextTyped, TodoNext DEF VolumesInv
<1> QED BY <1>1, <1>2, PTL DEF Spec

\* The steps that write claims: ScaleUpPVC one that is too small, and the start of a pod
\* one that did not exist.
LEMMA ClaimsGrow ==
    VolumesInv /\ [Next]_vars => [\A p \in Ordinals : pvcs[p] # NoPVC => pvcs'[p] >= pvcs[p]]_pvcs
<1> SUFFICES ASSUME VolumesInv, Next, NEW q \in Ordinals, pvcs[q] # NoPVC, pvcs' # pvcs
             PROVE  pvcs'[q] >= pvcs[q]
  BY DEF vars
<1>0. TypeOK /\ TodoIsSmall
  BY DEF VolumesInv
<1>1. /\ pvcs \in [Ordinals -> Capacities \union {NoPVC}] /\ pvcs[q] \in Nat
      /\ spec.capacity \in Nat
  BY <1>0, SpecTyped, ClaimTyped DEF TypeOK
<1>2. ScaleUpPVC \/ \E p \in Ordinals : PodStarts(p)
  BY DEF Next, ReconcileStep, StartReconcile, EarlierStepConflicts, RejectScaleDown,
         AcceptReplicas, RejectCapacity, AcceptCapacity, GetClusterPVCs, DeleteSts, StsDeleted,
         DeletionTimesOut, CreateSts, StsUnchanged, UpdateSts, CreateOrUpdateRefused,
         AnnotateCreated, AnnotateCreatedFails, AwaitReplicas, FinishReconcile, CallFails,
         Crash, EditSpec, CacheCatchesUp, StsCacheCatchesUp, GarbageCollectorReleases, PodStep,
         PodRemoved, kubernetes
<1>3. CASE ScaleUpPVC
  <2>1. pc = "scaleUpPVCs" /\ pvcs' = [pvcs EXCEPT ![Min(todo)] = spec.capacity]
    BY <1>3 DEF ScaleUpPVC
  <2>2. todo # {} /\ todo \in SUBSET Nat
    BY <1>0, <2>1, OrdinalsAreNaturals DEF TodoIsSmall, TypeOK
  <2>3. Min(todo) \in todo
    BY <2>2, MinIsAMember
  <2>4. pvcs[Min(todo)] < spec.capacity
    BY <1>0, <2>3 DEF TodoIsSmall
  <2>5. CASE q = Min(todo)
    BY <1>1, <2>1, <2>4, <2>5
  <2>6. CASE q # Min(todo)
    BY <1>1, <2>1, <2>6
  <2> QED BY <2>5, <2>6
<1>4. CASE \E p \in Ordinals : PodStarts(p)
  BY <1>1, <1>4 DEF PodStarts
<1> QED BY <1>2, <1>3, <1>4

(* VolumesNeverShrink: scaleUpPVCs never asks for a smaller volume than a claim        *)
(* has, whatever the user has made of the spec and whichever attempts have failed      *)
(* half-way.                                                                           *)
THEOREM VolumesNeverShrinkHolds == Spec => VolumesNeverShrink
BY VolumesInvHolds, ClaimsGrow, PTL DEF Spec, VolumesNeverShrink

--------------------------------------------------------------------------------
(* ObservedMeansExpanded. *)

\* No claim of s's replicas asks for less than s does.
ClaimsMeet(s) ==
    \A p \in Ordinals : p < s.replicas /\ pvcs[p] # NoPVC => pvcs[p] >= s.capacity

\* What "latest" says of a copy; and a reconcile that has an old copy is followed by
\* another, or the cache is old as well.
CopiesAreLatest ==
    /\ cache.latest => cache.obj = cr
    /\ stsCache.latest => stsCache.obj = sts
    /\ pc # "idle" /\ work.latest => work.obj = cr
    /\ pc # "idle" /\ ~queued /\ cache.latest => work.latest

\* Where a reconcile that is not followed by another one stands: claims are expanded only
\* while the StatefulSet is gone, and with one there the claims were found large enough.
Progress ==
    /\ pc = "scaleUpPVCs" => ~sts.exists
    /\ pc = "createOrUpdate" /\ ~queued /\ sts.exists => ClaimsMeet(spec)
    /\ pc = "finish" /\ ~queued /\ stsCache.latest =>
         /\ sts.exists /\ sts.capacity = spec.capacity /\ sts.replicas = spec.replicas
         /\ ClaimsMeet(spec)

ObservedInv == TypeOK /\ CopiesAreLatest /\ Progress /\ ObservedMeansExpanded

\* The statuses that a reconcile writes, none of which changes the spec.
LEMMA StatusWritten ==
    ASSUME ObservedInv, pc # "idle", NEW new \in Cluster,
           TryWriteStatus(new) \/ NotWritten
    PROVE  /\ cache'.latest => cache.latest /\ cache'.obj = cache.obj /\ cr' = cr
           /\ cache'.latest /\ TryWriteStatus(new) /\ work.latest => cr = new
BY DEF TryWriteStatus, NotWritten, ObservedInv, TypeOK

\* A reconcile that ends with the request queued again.
LEMMA RequeuedIsNotAtRest ==
    ASSUME ObservedInv, pc # "idle", NEW new \in Cluster, TryWriteStatus(new) \/ NotWritten,
           Ended, queued' = TRUE, UNCHANGED kubernetes
    PROVE  CopiesAreLatest' /\ Progress' /\ ObservedMeansExpanded'
<1>1. pc' = "idle" /\ queued' /\ stsCache' = stsCache /\ sts' = sts
  BY DEF Ended, kubernetes
<1>2. cache'.latest => cache'.obj = cr'
  BY StatusWritten DEF ObservedInv, CopiesAreLatest
<1>3. CopiesAreLatest'
  BY <1>1, <1>2 DEF ObservedInv, CopiesAreLatest
<1> QED BY <1>1, <1>3 DEF Progress, ObservedMeansExpanded, AtRest

LEMMA ReturnErrorIsNotAtRest ==
    ASSUME ObservedInv, pc # "idle", ReturnError, UNCHANGED kubernetes
    PROVE  CopiesAreLatest' /\ Progress' /\ ObservedMeansExpanded'
<1>1. [work.obj EXCEPT !.success = "False"] \in Cluster
  BY StatusTyped DEF ObservedInv, TypeOK
<1> QED BY <1>1, RequeuedIsNotAtRest DEF ReturnError, Requeue, SetReconcileSuccess

LEMMA RequeueIsNotAtRest ==
    ASSUME ObservedInv, pc # "idle", Requeue, NotWritten, UNCHANGED kubernetes
    PROVE  CopiesAreLatest' /\ Progress' /\ ObservedMeansExpanded'
<1>1. cr \in Cluster
  BY DEF ObservedInv, TypeOK
<1> QED BY <1>1, RequeuedIsNotAtRest DEF Requeue

\* A write of the StatefulSet makes the cached one an old one.
LEMMA StsWritten ==
    ASSUME ObservedInv, NEW new, WriteSts(new), UNCHANGED <<copies, queued>>,
           pc' # "idle" => pc # "idle"
    PROVE  /\ ~stsCache'.latest /\ sts' = new
           /\ CopiesAreLatest' /\ ObservedMeansExpanded'
<1>1. ~stsCache'.latest /\ sts' = new
  BY DEF WriteSts, ObservedInv, TypeOK
<1>2. CopiesAreLatest'
  BY <1>1 DEF ObservedInv, CopiesAreLatest, copies
<1> QED BY <1>1, <1>2 DEF ObservedMeansExpanded, AtRest

\* A step of a reconcile that changes nothing but where it stands.
LEMMA WentOn ==
    ASSUME ObservedInv, UNCHANGED <<copies, sts, stsCache, queued>>, pc # "idle", pc' # "idle"
    PROVE  CopiesAreLatest' /\ ObservedMeansExpanded'
BY DEF ObservedInv, CopiesAreLatest, copies, ObservedMeansExpanded, AtRest

LEMMA ClaimsMeetSame ==
    ASSUME UNCHANGED <<work, pvcs>> PROVE ClaimsMeet(spec)' <=> ClaimsMeet(spec)
BY DEF ClaimsMeet, spec

LEMMA ObservedReconcile ==
    ObservedInv /\ ReconcileStep => CopiesAreLatest' /\ Progress' /\ ObservedMeansExpanded'
<1> SUFFICES ASSUME ObservedInv, ReconcileStep
             PROVE  CopiesAreLatest' /\ Progress' /\ ObservedMeansExpanded'
  OBVIOUS
<1>0. TypeOK /\ CopiesAreLatest /\ Progress /\ ObservedMeansExpanded
  BY DEF ObservedInv
<1> USE DEF Goto
<1>1. CASE StartReconcile
  <2>1. /\ UNCHANGED <<cr, cache, sts, stsCache>> /\ pc' = "scaleDown" /\ work' = cache
    BY <1>1 DEF StartReconcile, kubernetes
  <2>2. CopiesAreLatest'
    BY <1>0, <2>1 DEF CopiesAreLatest
  <2> QED BY <2>1, <2>2 DEF Progress, ObservedMeansExpanded, AtRest
<1>2. CASE EarlierStepConflicts
  BY <1>2, RequeueIsNotAtRest DEF EarlierStepConflicts
<1>3. CASE RejectScaleDown
  <2> DEFINE new == [work.obj EXCEPT !.success = "False"]
  <2>1. new \in Cluster /\ new.success = "False"
    BY <1>0, StatusTyped DEF TypeOK, Cluster
  <2>2. /\ TryWriteStatus(new) /\ pc = "scaleDown" /\ pc' = "idle"
        /\ UNCHANGED <<sts, stsCache, queued>>
    BY <1>3 DEF RejectScaleDown, SetReconcileSuccess, Done, Ended, kubernetes
  <2> HIDE DEF new
  <2>3. /\ cache'.latest => cache.latest /\ cache'.obj = cache.obj /\ cr' = cr
        /\ cache'.latest /\ work.latest => cr = new
    BY <2>1, <2>2, StatusWritten
  <2>4. CopiesAreLatest'
    BY <1>0, <2>2, <2>3 DEF CopiesAreLatest
  <2>5. ~queued' /\ cache'.latest => cr'.success = "False"
    BY <1>0, <2>1, <2>2, <2>3 DEF CopiesAreLatest
  <2>6. ObservedMeansExpanded'
    BY <2>5 DEF ObservedMeansExpanded, AtRest
  <2> QED BY <2>2, <2>4, <2>6 DEF Progress
<1>4. CASE AcceptReplicas
  BY <1>4, WentOn DEF AcceptReplicas, kubernetes, Progress
<1>5. CASE RejectCapacity
  BY <1>5, ReturnErrorIsNotAtRest DEF RejectCapacity
<1>6. CASE AcceptCapacity
  BY <1>6, WentOn DEF AcceptCapacity, kubernetes, Progress
<1>7. CASE GetClusterPVCs
  <2>1. /\ UNCHANGED <<copies, work, sts, stsCache, pvcs, queued>> /\ pc = "getClusterPVCs"
        /\ pc' = IF pvcsNeedingScaling = {} THEN "createOrUpdate" ELSE "deleteSts"
    BY <1>7 DEF GetClusterPVCs, copies, kubernetes
  <2>2. ASSUME pc' = "createOrUpdate" PROVE ClaimsMeet(spec)'
    <3>1. pvcsNeedingScaling = {}
      BY <2>1, <2>2
    <3>2. \A p \in Ordinals : pvcs[p] \in Nat
      BY <1>0, ClaimTyped
    <3>3. spec.capacity \in Nat
      BY <1>0, SpecTyped
    <3>4. ClaimsMeet(spec)
      BY <3>1, <3>2, <3>3 DEF ClaimsMeet, pvcsNeedingScaling
    <3> QED BY <2>1, <3>4, ClaimsMeetSame
  <2>3. Progress'
    BY <2>1, <2>2 DEF Progress
  <2> QED BY <2>1, <2>3, WentOn
<1>8. CASE DeleteSts
  <2>1. pc = "deleteSts" /\ UNCHANGED <<copies, queued>>
    BY <1>8 DEF DeleteSts, copies
  <2>2. CASE sts.exists
    <3>1. WriteSts([sts EXCEPT !.deleting = TRUE]) /\ pc' = "awaitDeletion"
      BY <1>8, <2>2 DEF DeleteSts
    <3> QED BY <2>1, <3>1, StsWritten DEF Progress
  <2>3. CASE ~sts.exists
    <3>1. UNCHANGED <<sts, stsCache>> /\ pc' = "scaleUpPVCs"
      BY <1>8, <2>3 DEF DeleteSts
    <3> QED BY <2>1, <2>3, <3>1, WentOn DEF Progress
  <2> QED BY <2>2, <2>3
<1>9. CASE StsDeleted
  BY <1>9, WentOn DEF StsDeleted, kubernetes, Progress
<1>10. CASE DeletionTimesOut
  BY <1>10, ReturnErrorIsNotAtRest DEF DeletionTimesOut
<1>11. CASE ScaleUpPVC
  <2>1. /\ UNCHANGED <<copies, sts, stsCache, queued>> /\ pc = "scaleUpPVCs"
        /\ pc' \in {"createOrUpdate", "scaleUpPVCs"}
    BY <1>11 DEF ScaleUpPVC
  <2>2. Progress'
    BY <1>0, <2>1 DEF Progress
  <2> QED BY <2>1, <2>2, WentOn
<1>12. CASE CreateSts
  <2> DEFINE new == [exists |-> TRUE, deleting |-> FALSE,
                     replicas |-> spec.replicas, capacity |-> spec.capacity]
  <2>1. /\ WriteSts(new) /\ UNCHANGED <<copies, queued>>
        /\ pc = "createOrUpdate" /\ pc' = "annotateCreated"
    BY <1>12 DEF CreateSts
  <2> HIDE DEF new
  <2> QED BY <2>1, StsWritten DEF Progress
<1>13. CASE StsUnchanged
  <2>1. /\ UNCHANGED <<copies, work, sts, stsCache, pvcs, queued>>
        /\ pc = "createOrUpdate" /\ pc' = "finish"
        /\ stsCache.obj.exists /\ stsCache.obj.capacity = spec.capacity
        /\ stsCache.obj.replicas = spec.replicas
    BY <1>13 DEF StsUnchanged, SameCapacity, copies, kubernetes
  <2>2. ASSUME ~queued', stsCache'.latest
        PROVE  /\ sts.exists /\ sts.capacity = spec.capacity /\ sts.replicas = spec.replicas
               /\ ClaimsMeet(spec)
    BY <1>0, <2>1, <2>2 DEF CopiesAreLatest, Progress
  <2>3. spec' = spec
    BY <2>1 DEF spec
  <2>4. Progress'
    BY <2>1, <2>2, <2>3, ClaimsMeetSame DEF Progress
  <2> QED BY <2>1, <2>4, WentOn
<1>14. CASE UpdateSts
  <2> DEFINE new == [sts EXCEPT !.replicas = spec.replicas]
  <2>1. /\ WriteSts(new) /\ UNCHANGED <<copies, queued>>
        /\ pc = "createOrUpdate" /\ pc' = "finish"
    BY <1>14 DEF UpdateSts
  <2> HIDE DEF new
  <2> QED BY <2>1, StsWritten DEF Progress
<1>15. CASE CreateOrUpdateRefused
  BY <1>15, ReturnErrorIsNotAtRest DEF CreateOrUpdateRefused
<1>16. CASE AnnotateCreated
  <2>1. /\ WriteSts(sts) /\ UNCHANGED <<copies, queued>>
        /\ pc = "annotateCreated" /\ pc' = "finish"
    BY <1>16 DEF AnnotateCreated
  <2> QED BY <2>1, StsWritten DEF Progress
<1>17. CASE AnnotateCreatedFails
  BY <1>17, RequeueIsNotAtRest DEF AnnotateCreatedFails
<1>18. CASE AwaitReplicas
  BY <1>18, RequeueIsNotAtRest, ReturnErrorIsNotAtRest DEF AwaitReplicas
<1>19. CASE FinishReconcile
  <2> DEFINE new == [work.obj EXCEPT !.success = "True", !.observed = work.obj.gen]
  <2>1. new \in Cluster
    BY <1>0, ObservedTyped DEF TypeOK
  <2>2. /\ TryWriteStatus(new) /\ pc = "finish" /\ pc' = "idle"
        /\ UNCHANGED <<work, sts, stsCache, pvcs, queued>>
    BY <1>19 DEF FinishReconcile, Done, Ended, kubernetes
  <2> HIDE DEF new
  <2>3. /\ cache'.latest => cache.latest /\ cache'.obj = cache.obj /\ cr' = cr
        /\ cache'.latest /\ work.latest => cr = new
    BY <2>1, <2>2, StatusWritten
  <2>4. CopiesAreLatest'
    BY <1>0, <2>2, <2>3 DEF CopiesAreLatest
  <2>5. ASSUME ~queued', cache'.latest, stsCache'.latest
        PROVE  /\ cr' = cr /\ cr.spec = spec
               /\ sts.exists /\ sts.capacity = spec.capacity /\ sts.replicas = spec.replicas
               /\ ClaimsMeet(spec)
    <3>1. work.obj = cr
      BY <1>0, <2>2, <2>3, <2>5 DEF CopiesAreLatest
    <3> QED BY <1>0, <2>2, <2>3, <2>5, <3>1 DEF Progress, spec
  <2>6. ObservedMeansExpanded'
    BY <2>2, <2>5 DEF ObservedMeansExpanded, AtRest, ClaimsMeet
  <2> QED BY <2>2, <2>4, <2>6 DEF Progress
<1> QED BY <1>1, <1>2, <1>3, <1>4, <1>5, <1>6, <1>7, <1>8, <1>9, <1>10, <1>11, <1>12, <1>13,
           <1>14, <1>15, <1>16, <1>17, <1>18, <1>19 DEF ReconcileStep

LEMMA ObservedNext ==
    ObservedInv /\ [Next]_vars => CopiesAreLatest' /\ Progress' /\ ObservedMeansExpanded'
<1> SUFFICES ASSUME ObservedInv, [Next]_vars
             PROVE  CopiesAreLatest' /\ Progress' /\ ObservedMeansExpanded'
  OBVIOUS
<1>0. TypeOK /\ CopiesAreLatest /\ Progress /\ ObservedMeansExpanded
  BY DEF ObservedInv
<1>1. CASE ReconcileStep
  BY <1>1, ObservedReconcile
<1>2. CASE CallFails
  BY <1>2, ReturnErrorIsNotAtRest DEF CallFails
<1>3. CASE Crash
  BY <1>3, RequeueIsNotAtRest DEF Crash
<1>4. CASE EditSpec
  <2>1. /\ UNCHANGED <<sts, stsCache, pvcs, pc, queued>>
        /\ cache' = [cache EXCEPT !.latest = FALSE] /\ work' = [work EXCEPT !.latest = FALSE]
    BY <1>4 DEF EditSpec, kubernetes
  <2>2. ~cache'.latest /\ ~work'.latest /\ work'.obj = work.obj
    BY <1>0, <2>1 DEF TypeOK
  <2>3. CopiesAreLatest'
    BY <1>0, <2>1, <2>2 DEF CopiesAreLatest
  <2>4. Progress'
    BY <1>0, <2>1, <2>2 DEF Progress, ClaimsMeet, spec
  <2> QED BY <2>2, <2>3, <2>4 DEF ObservedMeansExpanded, AtRest
<1>5. CASE CacheCatchesUp
  <2>1. /\ UNCHANGED <<cr, work, sts, stsCache, pvcs, pc>> /\ queued' = TRUE
        /\ cache' = [obj |-> cr, latest |-> TRUE]
    BY <1>5 DEF CacheCatchesUp, kubernetes
  <2> QED BY <1>0, <2>1 DEF CopiesAreLatest, Progress, ObservedMeansExpanded, AtRest
<1>6. CASE StsCacheCatchesUp
  <2>1. /\ UNCHANGED <<cr, cache, work, sts, pvcs, pc>> /\ queued' = TRUE
        /\ stsCache' = [obj |-> sts, latest |-> TRUE]
    BY <1>6 DEF StsCacheCatchesUp, copies
  <2> QED BY <1>0, <2>1 DEF CopiesAreLatest, Progress, ObservedMeansExpanded, AtRest
<1>7. CASE GarbageCollectorReleases
  <2>1. /\ WriteSts(NoSts) /\ UNCHANGED <<copies, work, pvcs, pc, queued>>
    BY <1>7 DEF GarbageCollectorReleases, copies
  <2>2. ~stsCache'.latest /\ ~sts'.exists /\ CopiesAreLatest' /\ ObservedMeansExpanded'
    BY <2>1, StsWritten DEF NoSts
  <2> QED BY <2>1, <2>2 DEF Progress
<1>8. CASE PodStep
  <2>1. /\ UNCHANGED <<cr, cache, work, sts, stsCache, pc>> /\ queued' = TRUE
    BY <1>8 DEF PodStep, PodStarts, PodRemoved, copies
  <2> QED BY <1>0, <2>1 DEF CopiesAreLatest, Progress, ObservedMeansExpanded, AtRest
<1>9. CASE UNCHANGED vars
  BY <1>0, <1>9 DEF vars, CopiesAreLatest, Progress, ObservedMeansExpanded, AtRest,
                    ClaimsMeet, spec
<1> QED BY <1>1, <1>2, <1>3, <1>4, <1>5, <1>6, <1>7, <1>8, <1>9 DEF Next

(* ObservedMeansExpanded: with nothing left that would start a reconcile, a cluster    *)
(* that reports success for its generation has the StatefulSet of its spec, and every  *)
(* volume of it is large enough, although success can be reported too early.           *)
THEOREM ObservedMeansExpandedHolds == Spec => []ObservedMeansExpanded
<1>1. Init => ObservedInv
  BY InitTyped DEF ObservedInv, Init, CopiesAreLatest, Progress, ObservedMeansExpanded, AtRest
<1>2. ObservedInv /\ [Next]_vars => ObservedInv'
  BY NextTyped, ObservedNext DEF ObservedInv
<1>3. ObservedInv => ObservedMeansExpanded
  BY DEF ObservedInv
<1> QED BY <1>1, <1>2, <1>3, PTL DEF Spec
=============================================================================
