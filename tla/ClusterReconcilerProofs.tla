------------------------ MODULE ClusterReconcilerProofs ------------------------
(***************************************************************************)
(* Theorems about ClusterReconciler for every value of its constants.      *)
(***************************************************************************)
EXTENDS ClusterReconciler, FiniteSetTheorems, TLAPS

(* What the actions are built from keeps types, and what they leave alone keeps its own. *)

LEMMA ChildrenFrame == ChildrenTypeOK /\ UNCHANGED children => ChildrenTypeOK'
BY DEF ChildrenTypeOK, children

LEMMA NodesFrame == NodesTypeOK /\ UNCHANGED nodes => NodesTypeOK'
BY DEF NodesTypeOK, nodes

LEMMA CopiesFrame == CopiesTypeOK /\ UNCHANGED <<copies, pc>> => CopiesTypeOK'
BY DEF CopiesTypeOK, copies

LEMMA CopiesAtStep ==
    ASSUME cr' \in Cluster, cache' \in Copy, work' \in Copy, pc' # "idle"
    PROVE  CopiesTypeOK'
BY DEF CopiesTypeOK

LEMMA CopiesWhenIdle ==
    ASSUME cr' \in Cluster, cache' \in Copy, work' = None, pc' = "idle"
    PROVE  CopiesTypeOK'
BY DEF CopiesTypeOK

LEMMA WorkType ==
    ASSUME CopiesTypeOK, pc # "idle"
    PROVE  work \in Copy /\ work.obj \in Cluster /\ spec \in SpecType
BY DEF CopiesTypeOK, Copy, Cluster, spec

LEMMA WriteClusterType ==
    ASSUME CopiesTypeOK, work \in Copy, NEW new \in Cluster, WriteCluster(new)
    PROVE  cr' \in Cluster /\ cache' \in Copy /\ work' \in Copy
BY DEF CopiesTypeOK, WriteCluster, Copy

LEMMA TryWriteStatusType ==
    ASSUME CopiesTypeOK, NEW new \in Cluster, TryWriteStatus(new)
    PROVE  cr' \in Cluster /\ cache' \in Copy
BY DEF CopiesTypeOK, TryWriteStatus, NotWritten, Copy

LEMMA SetReconcileSuccessType ==
    ASSUME CopiesTypeOK, work \in Copy,
           NEW condition \in {"Unset", "Unknown", "True", "False"},
           SetReconcileSuccess(condition)
    PROVE  cr' \in Cluster /\ cache' \in Copy
<1>1. [work.obj EXCEPT !.success = condition] \in Cluster
  BY DEF Copy, Cluster
<1> QED BY <1>1, TryWriteStatusType DEF SetReconcileSuccess

LEMMA NotWrittenType ==
    ASSUME CopiesTypeOK, NotWritten PROVE cr' \in Cluster /\ cache' \in Copy
BY DEF CopiesTypeOK, NotWritten

Working == Steps \ {"idle"}

LEMMA AfterWorking ==
    /\ \A c : AfterStatefulSet(c) \in Working
    /\ \A c : AfterDefaults(c) \in Working
    /\ \A c : AfterGet(c) \in Working
    /\ AfterPlugins \in Working /\ AfterMark \in Working
    /\ AfterFeatureFlags \in Working /\ AfterSetPlugins \in Working
    /\ AfterReadyCheck \in Working
BY DEF Working, Steps, AfterStatefulSet, AfterDefaults, AfterGet, AfterPlugins, AfterMark,
       AfterFeatureFlags, AfterSetPlugins, AfterReadyCheck

LEMMA NewSpecType ==
    ASSUME NEW c \in Cluster, NEW s \in SpecType
    PROVE  /\ [c EXCEPT !.spec = s] \in Cluster
           /\ [c EXCEPT !.spec = s, !.gen = @ + 1] \in Cluster
<1> DEFINE d == [c EXCEPT !.spec = s]
<1>1. d \in Cluster
  BY DEF Cluster
<1>2. [c EXCEPT !.spec = s, !.gen = @ + 1] = [d EXCEPT !.gen = @ + 1]
  BY DEF Cluster
<1> HIDE DEF d
<1>3. [d EXCEPT !.gen = @ + 1] \in Cluster
  BY <1>1 DEF Cluster
<1> QED BY <1>1, <1>2, <1>3 DEF d

LEMMA ConditionsType ==
    ASSUME NEW c \in Cluster, NEW r \in {"Unknown", "True", "False"}
    PROVE  [c EXCEPT !.ready = r, !.pauseWarning = FALSE,
                     !.success = IF @ = "Unset" THEN "Unknown" ELSE @] \in Cluster
<1> DEFINE d == [c EXCEPT !.ready = r]
           e == [d EXCEPT !.pauseWarning = FALSE]
<1>1. d \in Cluster
  BY DEF Cluster
<1>2. [c EXCEPT !.ready = r, !.pauseWarning = FALSE,
                !.success = IF @ = "Unset" THEN "Unknown" ELSE @]
      = [e EXCEPT !.success = IF @ = "Unset" THEN "Unknown" ELSE @]
  BY DEF Cluster
<1> HIDE DEF d
<1>3. e \in Cluster
  BY <1>1 DEF Cluster
<1> HIDE DEF e
<1>4. [e EXCEPT !.success = IF @ = "Unset" THEN "Unknown" ELSE @] \in Cluster
  BY <1>3 DEF Cluster
<1> QED BY <1>2, <1>4

LEMMA ObservedType ==
    ASSUME NEW c \in Cluster
    PROVE  [c EXCEPT !.success = "True", !.observed = c.gen] \in Cluster
<1> DEFINE d == [c EXCEPT !.success = "True"]
<1>1. d \in Cluster /\ c.gen \in Nat
  BY DEF Cluster
<1>2. [c EXCEPT !.success = "True", !.observed = c.gen] = [d EXCEPT !.observed = c.gen]
  BY DEF Cluster
<1> HIDE DEF d
<1>3. [d EXCEPT !.observed = c.gen] \in Cluster
  BY <1>1 DEF Cluster
<1> QED BY <1>2, <1>3

LEMMA DesiredStsType ==
    ASSUME ChildrenTypeOK, spec \in SpecType
    PROVE  desiredSts \in [template: Templates \union {None}, restartAt: Nat,
                           replicas: 0..MaxReplicas, created: BOOLEAN]
<1> DEFINE s == [sts EXCEPT !.template = spec.template]
<1>1. spec.template \in Templates /\ spec.replicas \in 0..MaxReplicas
  BY DEF SpecType
<1>2. s \in [template: Templates \union {None}, restartAt: Nat,
             replicas: 0..MaxReplicas, created: BOOLEAN]
  BY <1>1 DEF ChildrenTypeOK
<1>3. desiredSts = [s EXCEPT !.replicas = spec.replicas]
  BY DEF desiredSts, ChildrenTypeOK
<1> HIDE DEF s
<1> QED BY <1>1, <1>2, <1>3

LEMMA GotoType ==
    ASSUME ControlTypeOK, NEW step \in Working, Goto(step) \/ GotoAfterWrite(step),
           UNCHANGED <<now, bounds>>
    PROVE  ControlTypeOK'
BY DEF ControlTypeOK, Working, Goto, GotoAfterWrite, bounds

LEMMA StopType ==
    ASSUME ControlTypeOK, Done \/ Requeue, UNCHANGED <<now, edits>>,
           faults' \in 0..MaxFaults, lost' \subseteq Markers
    PROVE  ControlTypeOK'
<1>1. queued' \in BOOLEAN
  BY Zenon DEF ControlTypeOK, Done, Requeue
<1>2. pc' \in Steps /\ pod' \in Nat /\ now' \in Nat /\ edits' \in 0..MaxEdits
  BY DEF ControlTypeOK, Steps, Done, Requeue
<1> QED BY <1>1, <1>2 DEF ControlTypeOK

LEMMA FaultType == ControlTypeOK /\ Fault => faults' \in 0..MaxFaults
BY ConstantsAssumption DEF ControlTypeOK, Fault

LEMMA MarkerAtType == ASSUME NEW step PROVE MarkerAt(step) \subseteq Markers
BY DEF MarkerAt, Markers

LEMMA UserWritesType ==
    ASSUME TypeOK, NEW new \in Cluster, UserWrites(new)
    PROVE  TypeOK'
<1>1. CopiesTypeOK'
  BY DEF TypeOK, UserWrites, CopiesTypeOK, Copy
<1>2. ControlTypeOK'
  BY ConstantsAssumption DEF TypeOK, UserWrites, ControlTypeOK
<1> QED BY <1>1, <1>2, ChildrenFrame, NodesFrame DEF TypeOK, UserWrites

LEMMA PodsFinite == ASSUME NEW P \in SUBSET Pods PROVE Cardinality(P) \in Nat
<1>1. IsFiniteSet(Pods)
  BY ConstantsAssumption, FS_Interval DEF Pods
<1> QED BY <1>1, FS_Subset, FS_CardinalityType

LEMMA ReadyReplicasType ==
    Cardinality({p \in Pods : p < sts.replicas /\ pods[p].up}) \in Nat
BY PodsFinite

LEMMA RevisionType == ChildrenTypeOK => RevisionOf(sts) \in Revision
BY DEF ChildrenTypeOK, RevisionOf, Revision

--------------------------------------------------------------------------------
(* Type correctness. *)

LEMMA InitTypeOK == Init => TypeOK
<1> SUFFICES ASSUME Init PROVE TypeOK
  OBVIOUS
<1>1. PICK s \in InitialSpecs :
         cr = [gen |-> 1, spec |-> s, paused |-> FALSE, finalizer |-> FALSE,
               rebalance |-> FALSE, observed |-> 0, bound |-> FALSE, success |-> "Unset",
               ready |-> "Unknown", pauseWarning |-> FALSE]
  BY DEF Init
<1>2. cr \in Cluster
  BY <1>1, ConstantsAssumption DEF Cluster
<1>3. CopiesTypeOK
  BY <1>2 DEF Init, CopiesTypeOK, Copy
<1>4. ControlTypeOK
  BY ConstantsAssumption DEF Init, ControlTypeOK, Steps
<1>5. ChildrenTypeOK
  BY ConstantsAssumption DEF Init, ChildrenTypeOK, NoTime
<1>6. NodesTypeOK
  BY DEF Init, NodesTypeOK, Down, NoRevision, Revision, NoTime
<1> QED BY <1>3, <1>4, <1>5, <1>6 DEF TypeOK

LEMMA StepTypeOK == TypeOK /\ Next => TypeOK'
<1> SUFFICES ASSUME TypeOK, Next PROVE TypeOK'
  OBVIOUS
<1>a. ControlTypeOK /\ CopiesTypeOK /\ ChildrenTypeOK /\ NodesTypeOK
  BY DEF TypeOK
<1>b. cr \in Cluster /\ cache \in Copy /\ cache.obj \in Cluster
  BY <1>a DEF CopiesTypeOK, Copy
<1>c. pc # "idle" => work \in Copy /\ work.obj \in Cluster /\ spec \in SpecType
  BY <1>a, WorkType
<1>1. CASE StartReconcile
  <2>1. CopiesTypeOK'
    BY <1>1, <1>b, AfterWorking, CopiesAtStep DEF StartReconcile, Working, copies
  <2>2. ControlTypeOK'
    BY <1>1, <1>a, AfterWorking DEF StartReconcile, ControlTypeOK, Working, bounds
  <2> QED BY <1>1, <1>a, <2>1, <2>2, ChildrenFrame, NodesFrame DEF StartReconcile, TypeOK
<1>2. CASE SkipPausedCluster
  <2>1. [cache.obj EXCEPT !.pauseWarning = (cache.obj.success # "Unset")] \in Cluster
    BY <1>b DEF Cluster
  <2>2. cr' \in Cluster /\ cache' \in Copy
    BY <1>2, <1>b, <2>1 DEF SkipPausedCluster, NotWritten, Copy
  <2>3. CopiesTypeOK'
    BY <1>2, <1>a, <2>2 DEF SkipPausedCluster, CopiesTypeOK
  <2>4. ControlTypeOK'
    BY <1>2, <1>a DEF SkipPausedCluster, ControlTypeOK, bounds
  <2> QED BY <1>2, <1>a, <2>3, <2>4, ChildrenFrame, NodesFrame DEF SkipPausedCluster, TypeOK
<1>3. CASE ReconcileOperatorDefaults
  <2> DEFINE defaulted == [spec EXCEPT !.defaulted = TRUE]
  <2>0. work \in Copy /\ work.obj \in Cluster /\ spec \in SpecType
    BY <1>3, <1>c DEF ReconcileOperatorDefaults
  <2>1. defaulted \in SpecType
    BY <2>0 DEF SpecType
  <2> HIDE DEF defaulted
  <2>2. /\ [work.obj EXCEPT !.spec = defaulted, !.gen = @ + 1] \in Cluster
        /\ [work.obj EXCEPT !.spec = defaulted] \in Cluster
    BY <2>0, <2>1, NewSpecType
  <2>3. [work EXCEPT !.obj.spec = defaulted] \in Copy
    BY <2>0, <2>2 DEF Copy
  <2>4. cr' \in Cluster /\ cache' \in Copy /\ work' \in Copy
    BY <1>3, <1>b, <1>a, <2>0, <2>2, <2>3, WriteClusterType
       DEF ReconcileOperatorDefaults, NotWritten, defaulted
  <2>5. CopiesTypeOK'
    BY <1>3, <2>4, AfterWorking, CopiesAtStep DEF ReconcileOperatorDefaults, Goto, Working
  <2>6. ControlTypeOK'
    BY <1>3, <1>a, AfterWorking DEF ReconcileOperatorDefaults, ControlTypeOK, Goto, Working, bounds
  <2> QED BY <1>3, <1>a, <2>5, <2>6, ChildrenFrame, NodesFrame
          DEF ReconcileOperatorDefaults, TypeOK
<1>4. CASE AddFinalizerIfNeeded
  <2>0. work \in Copy /\ work.obj \in Cluster
    BY <1>4, <1>c DEF AddFinalizerIfNeeded
  <2>1. [work.obj EXCEPT !.finalizer = TRUE] \in Cluster
    BY <2>0 DEF Cluster
  <2>2. CopiesTypeOK'
    <3>1. CASE WriteCluster([work.obj EXCEPT !.finalizer = TRUE]) /\ Goto("updateStatusConditions")
      BY <3>1, <1>a, <2>0, <2>1, WriteClusterType, CopiesAtStep DEF Goto
    <3>2. CASE Requeue /\ NotWritten
      BY <3>2, <1>a, NotWrittenType, CopiesWhenIdle DEF Requeue
    <3> QED BY <1>4, <3>1, <3>2 DEF AddFinalizerIfNeeded
  <2>3. ControlTypeOK'
    <3>1. "updateStatusConditions" \in Working
      BY DEF Working, Steps
    <3> QED BY <1>4, <1>a, <3>1, GotoType, StopType DEF AddFinalizerIfNeeded, ControlTypeOK, bounds
  <2> QED BY <1>4, <1>a, <2>2, <2>3, ChildrenFrame, NodesFrame DEF AddFinalizerIfNeeded, TypeOK
<1>5. CASE UpdateStatusConditions
  <2> DEFINE new == [work.obj EXCEPT
                       !.ready = AllReplicasReadyCondition,
                       !.pauseWarning = FALSE,
                       !.success = IF @ = "Unset" THEN "Unknown" ELSE @]
  <2>0. work \in Copy /\ work.obj \in Cluster
    BY <1>5, <1>c DEF UpdateStatusConditions
  <2>1. new \in Cluster
    BY <2>0, ConditionsType DEF AllReplicasReadyCondition
  <2>2. \/ Goto("reconcileTLS") /\ UNCHANGED copies
        \/ WriteCluster(new) /\ Goto("reconcileTLS")
        \/ Requeue /\ NotWritten
    BY <1>5 DEF UpdateStatusConditions
  <2> HIDE DEF new
  <2>3. CopiesTypeOK'
    <3>1. CASE Goto("reconcileTLS") /\ UNCHANGED copies
      BY <3>1, <1>b, <2>0, CopiesAtStep DEF Goto, copies
    <3>2. CASE WriteCluster(new) /\ Goto("reconcileTLS")
      BY <3>2, <1>a, <2>0, <2>1, WriteClusterType, CopiesAtStep DEF Goto
    <3>3. CASE Requeue /\ NotWritten
      BY <3>3, <1>a, NotWrittenType, CopiesWhenIdle DEF Requeue
    <3> QED BY <2>2, <3>1, <3>2, <3>3
  <2>4. ControlTypeOK'
    <3>1. "reconcileTLS" \in Working /\ UNCHANGED <<now, bounds>>
      BY <1>5 DEF UpdateStatusConditions, Working, Steps
    <3> QED BY <1>a, <2>2, <3>1, GotoType, StopType DEF ControlTypeOK, bounds
  <2> QED BY <1>5, <1>a, <2>3, <2>4, ChildrenFrame, NodesFrame DEF UpdateStatusConditions, TypeOK
<1>6. CASE RejectTLS
  <2>1. cr' \in Cluster /\ cache' \in Copy
    BY <1>6, <1>a, <1>c, SetReconcileSuccessType DEF RejectTLS
  <2>2. CopiesTypeOK'
    BY <1>6, <2>1, CopiesWhenIdle DEF RejectTLS, Done
  <2>3. ControlTypeOK'
    BY <1>6, <1>a DEF RejectTLS, ControlTypeOK, Steps, Done, bounds
  <2> QED BY <1>6, <1>a, <2>2, <2>3, ChildrenFrame, NodesFrame DEF RejectTLS, TypeOK
<1>7. CASE MarkForQueueRebalance
  <2>0. work \in Copy /\ work.obj \in Cluster
    BY <1>7, <1>c DEF MarkForQueueRebalance
  <2>1. [work.obj EXCEPT !.rebalance = TRUE] \in Cluster
    BY <2>0 DEF Cluster
  <2>2. \/ Goto(AfterMark) /\ UNCHANGED copies
        \/ WriteCluster([work.obj EXCEPT !.rebalance = TRUE]) /\ Goto(AfterMark)
        \/ Requeue /\ NotWritten
    BY <1>7 DEF MarkForQueueRebalance
  <2>3. CopiesTypeOK'
    <3>1. CASE Goto(AfterMark) /\ UNCHANGED copies
      BY <3>1, <1>b, <2>0, AfterWorking, CopiesAtStep DEF Goto, Working, copies
    <3>2. CASE WriteCluster([work.obj EXCEPT !.rebalance = TRUE]) /\ Goto(AfterMark)
      BY <3>2, <1>a, <2>0, <2>1, AfterWorking, WriteClusterType, CopiesAtStep DEF Goto, Working
    <3>3. CASE Requeue /\ NotWritten
      BY <3>3, <1>a, NotWrittenType, CopiesWhenIdle DEF Requeue
    <3> QED BY <2>2, <3>1, <3>2, <3>3
  <2>4. ControlTypeOK'
    <3>1. UNCHANGED <<now, bounds>>
      BY <1>7 DEF MarkForQueueRebalance
    <3> QED BY <1>a, <2>2, <3>1, AfterWorking, GotoType, StopType DEF ControlTypeOK, bounds
  <2> QED BY <1>7, <1>a, <2>3, <2>4, ChildrenFrame, NodesFrame DEF MarkForQueueRebalance, TypeOK
<1>8. CASE ReconcilePluginsConfigMap
  <2>0. spec.plugins \in PluginSets
    BY <1>8, <1>c DEF ReconcilePluginsConfigMap, SpecType
  <2>1. ChildrenTypeOK'
    BY <1>8, <1>a, <2>0 DEF ReconcilePluginsConfigMap, ChildrenTypeOK
  <2>2. pc' \in Working /\ queued' = TRUE /\ UNCHANGED pod
    BY <1>8, AfterWorking DEF ReconcilePluginsConfigMap, GotoAfterWrite, Working, Steps
  <2>3. ControlTypeOK'
    BY <1>8, <1>a, <2>2 DEF ReconcilePluginsConfigMap, ControlTypeOK, Working, bounds
  <2>4. CopiesTypeOK'
    BY <1>8, <1>b, <1>c, <2>2, CopiesAtStep DEF ReconcilePluginsConfigMap, Working, copies
  <2> QED BY <1>8, <1>a, <2>1, <2>3, <2>4, NodesFrame DEF ReconcilePluginsConfigMap, TypeOK
<1>9. CASE AnnotatePluginsConfigMap
  <2>1. ChildrenTypeOK'
    BY <1>9, <1>a DEF AnnotatePluginsConfigMap, ChildrenTypeOK, ControlTypeOK
  <2>2. pc' \in Working /\ queued' = TRUE /\ UNCHANGED pod
    BY <1>9, AfterWorking DEF AnnotatePluginsConfigMap, GotoAfterWrite
  <2>3. ControlTypeOK'
    BY <1>9, <1>a, <2>2 DEF AnnotatePluginsConfigMap, ControlTypeOK, Working, bounds
  <2>4. CopiesTypeOK'
    BY <1>9, <1>b, <1>c, <2>2, CopiesAtStep DEF AnnotatePluginsConfigMap, Working, copies
  <2> QED BY <1>9, <1>a, <2>1, <2>3, <2>4, NodesFrame DEF AnnotatePluginsConfigMap, TypeOK
<1>10. CASE ReconcileServerConfigMap
  <2>0. spec.conf \in Confs
    BY <1>10, <1>c DEF ReconcileServerConfigMap, SpecType
  <2>1. ChildrenTypeOK'
    BY <1>10, <1>a, <2>0 DEF ReconcileServerConfigMap, ChildrenTypeOK
  <2>2. pc' \in Working /\ queued' = TRUE /\ UNCHANGED pod
    BY <1>10 DEF ReconcileServerConfigMap, GotoAfterWrite, Working, Steps
  <2>3. ControlTypeOK'
    BY <1>10, <1>a, <2>2 DEF ReconcileServerConfigMap, ControlTypeOK, Working, bounds
  <2>4. CopiesTypeOK'
    BY <1>10, <1>b, <1>c, <2>2, CopiesAtStep DEF ReconcileServerConfigMap, Working, copies
  <2> QED BY <1>10, <1>a, <2>1, <2>3, <2>4, NodesFrame DEF ReconcileServerConfigMap, TypeOK
<1>11. CASE AnnotateServerConfigMap
  <2>1. ChildrenTypeOK'
    BY <1>11, <1>a DEF AnnotateServerConfigMap, ChildrenTypeOK, ControlTypeOK
  <2>2. pc' \in Working /\ queued' = TRUE /\ UNCHANGED pod
    BY <1>11 DEF AnnotateServerConfigMap, GotoAfterWrite, Working, Steps
  <2>3. ControlTypeOK'
    BY <1>11, <1>a, <2>2 DEF AnnotateServerConfigMap, ControlTypeOK, Working, bounds
  <2>4. CopiesTypeOK'
    BY <1>11, <1>b, <1>c, <2>2, CopiesAtStep DEF AnnotateServerConfigMap, Working, copies
  <2> QED BY <1>11, <1>a, <2>1, <2>3, <2>4, NodesFrame DEF AnnotateServerConfigMap, TypeOK
<1>12. CASE ReconcileStatefulSet
  <2>0. desiredSts \in [template: Templates \union {None}, restartAt: Nat,
                        replicas: 0..MaxReplicas, created: BOOLEAN]
    BY <1>12, <1>a, <1>c, DesiredStsType DEF ReconcileStatefulSet, ChildrenTypeOK
  <2>1. ChildrenTypeOK'
    BY <1>12, <1>a, <2>0 DEF ReconcileStatefulSet, ChildrenTypeOK
  <2>2. pc' \in Working /\ queued' \in BOOLEAN /\ UNCHANGED pod
    BY <1>12, <1>a DEF ReconcileStatefulSet, ControlTypeOK, GotoAfterWrite, Goto, Working, Steps
  <2>3. ControlTypeOK'
    BY <1>12, <1>a, <2>2 DEF ReconcileStatefulSet, ControlTypeOK, Working, bounds
  <2>4. CopiesTypeOK'
    BY <1>12, <1>b, <1>c, <2>2, CopiesAtStep DEF ReconcileStatefulSet, Working, copies
  <2> QED BY <1>12, <1>a, <2>1, <2>3, <2>4, NodesFrame DEF ReconcileStatefulSet, TypeOK
<1>13. CASE RejectScaleDown
  <2>1. cr' \in Cluster /\ cache' \in Copy
    BY <1>13, <1>a, <1>c, SetReconcileSuccessType DEF RejectScaleDown
  <2>2. CopiesTypeOK'
    BY <1>13, <2>1, CopiesWhenIdle DEF RejectScaleDown, Done
  <2>3. ControlTypeOK'
    BY <1>13, <1>a DEF RejectScaleDown, ControlTypeOK, Steps, Done, bounds
  <2> QED BY <1>13, <1>a, <2>2, <2>3, ChildrenFrame, NodesFrame DEF RejectScaleDown, TypeOK
<1>14. CASE AnnotateStatefulSet
  <2>1. ChildrenTypeOK'
    BY <1>14, <1>a DEF AnnotateStatefulSet, ChildrenTypeOK
  <2>2. pc' \in Working /\ queued' = TRUE /\ UNCHANGED pod
    BY <1>14 DEF AnnotateStatefulSet, GotoAfterWrite, Working, Steps
  <2>3. ControlTypeOK'
    BY <1>14, <1>a, <2>2 DEF AnnotateStatefulSet, ControlTypeOK, Working, bounds
  <2>4. CopiesTypeOK'
    BY <1>14, <1>b, <1>c, <2>2, CopiesAtStep DEF AnnotateStatefulSet, Working, copies
  <2> QED BY <1>14, <1>a, <2>1, <2>3, <2>4, NodesFrame DEF AnnotateStatefulSet, TypeOK
<1>15. CASE RestartStatefulSetIfNeeded
  <2>1. ChildrenTypeOK'
    BY <1>15, <1>a DEF RestartStatefulSetIfNeeded, ChildrenTypeOK, ControlTypeOK
  <2>2. pc' \in Working /\ queued' \in BOOLEAN /\ UNCHANGED pod
    BY <1>15, <1>a, AfterWorking DEF RestartStatefulSetIfNeeded, ControlTypeOK, GotoAfterWrite, Goto
  <2>3. ControlTypeOK'
    BY <1>15, <1>a, <2>2 DEF RestartStatefulSetIfNeeded, ControlTypeOK, Working, bounds
  <2>4. CopiesTypeOK'
    BY <1>15, <1>b, <1>c, <2>2, CopiesAtStep DEF RestartStatefulSetIfNeeded, Working, copies
  <2> QED BY <1>15, <1>a, <2>1, <2>3, <2>4, NodesFrame DEF RestartStatefulSetIfNeeded, TypeOK
<1>16. CASE ReconcileStatus
  <2>0. work \in Copy /\ work.obj \in Cluster
    BY <1>16, <1>c DEF ReconcileStatus
  <2>1. [work.obj EXCEPT !.bound = TRUE] \in Cluster
    BY <2>0 DEF Cluster
  <2>2. \/ WriteCluster([work.obj EXCEPT !.bound = TRUE]) /\ Goto("runCLICommands")
        \/ Requeue /\ NotWritten
    BY <1>16 DEF ReconcileStatus
  <2>3. CopiesTypeOK'
    <3>1. CASE WriteCluster([work.obj EXCEPT !.bound = TRUE]) /\ Goto("runCLICommands")
      BY <3>1, <1>a, <2>0, <2>1, WriteClusterType, CopiesAtStep DEF Goto
    <3>2. CASE Requeue /\ NotWritten
      BY <3>2, <1>a, NotWrittenType, CopiesWhenIdle DEF Requeue
    <3> QED BY <2>2, <3>1, <3>2
  <2>4. ControlTypeOK'
    <3>1. "runCLICommands" \in Working /\ UNCHANGED <<now, bounds>>
      BY <1>16 DEF ReconcileStatus, Working, Steps
    <3> QED BY <1>a, <2>2, <3>1, GotoType, StopType DEF ControlTypeOK, bounds
  <2> QED BY <1>16, <1>a, <2>3, <2>4, ChildrenFrame, NodesFrame DEF ReconcileStatus, TypeOK
<1>17. CASE RunCLICommandsIfAnnotated
  <2>1. \/ Requeue /\ NotWritten
        \/ Goto(AfterReadyCheck) /\ UNCHANGED copies
    BY <1>17 DEF RunCLICommandsIfAnnotated
  <2>2. CopiesTypeOK'
    <3>1. CASE Requeue /\ NotWritten
      BY <3>1, <1>a, NotWrittenType, CopiesWhenIdle DEF Requeue
    <3>2. CASE Goto(AfterReadyCheck) /\ UNCHANGED copies
      BY <3>2, <1>17, <1>b, <1>c, AfterWorking, CopiesAtStep
         DEF RunCLICommandsIfAnnotated, Goto, Working, copies
    <3> QED BY <2>1, <3>1, <3>2
  <2>3. ControlTypeOK'
    <3>1. UNCHANGED <<now, bounds>>
      BY <1>17 DEF RunCLICommandsIfAnnotated
    <3> QED BY <1>a, <2>1, <3>1, AfterWorking, GotoType, StopType DEF ControlTypeOK, bounds
  <2> QED BY <1>17, <1>a, <2>2, <2>3, ChildrenFrame, NodesFrame DEF RunCLICommandsIfAnnotated, TypeOK
<1>18. CASE SetPluginsOnPod
  <2>0. spec.plugins \in PluginSets /\ pod \in Pods
    BY <1>18, <1>c DEF SetPluginsOnPod, Running, SpecType
  <2>1. NodesTypeOK'
    BY <1>18, <1>a, <2>0 DEF SetPluginsOnPod, NodesTypeOK
  <2>2. CopiesTypeOK'
    BY <1>18, <1>a, CopiesFrame DEF SetPluginsOnPod
  <2>3. ControlTypeOK'
    BY <1>18, <1>a DEF SetPluginsOnPod, ControlTypeOK, bounds
  <2> QED BY <1>18, <1>a, <2>1, <2>2, <2>3, ChildrenFrame DEF SetPluginsOnPod, TypeOK
<1>19. CASE FinishSetPlugins
  <2>1. ChildrenTypeOK'
    BY <1>19, <1>a DEF FinishSetPlugins, ChildrenTypeOK, NoTime
  <2>2. CopiesTypeOK'
    BY <1>19, <1>b, <1>c, AfterWorking, CopiesAtStep DEF FinishSetPlugins, Working, copies
  <2>3. ControlTypeOK'
    BY <1>19, <1>a, AfterWorking DEF FinishSetPlugins, ControlTypeOK, Working, bounds
  <2> QED BY <1>19, <1>a, <2>1, <2>2, <2>3, NodesFrame DEF FinishSetPlugins, TypeOK
<1>20. CASE RunEnableFeatureFlagsCommand
  <2>1. ChildrenTypeOK'
    BY <1>20, <1>a DEF RunEnableFeatureFlagsCommand, ChildrenTypeOK
  <2>2. NodesTypeOK'
    BY <1>20, <1>a DEF RunEnableFeatureFlagsCommand, NodesTypeOK
  <2>3. CopiesTypeOK'
    BY <1>20, <1>b, <1>c, AfterWorking, CopiesAtStep
       DEF RunEnableFeatureFlagsCommand, GotoAfterWrite, Working, copies
  <2>4. ControlTypeOK'
    BY <1>20, <1>a, AfterWorking, GotoType DEF RunEnableFeatureFlagsCommand
  <2> QED BY <2>1, <2>2, <2>3, <2>4 DEF TypeOK
<1>21. CASE RunQueueRebalanceCommand
  <2>0. work \in Copy /\ work.obj \in Cluster
    BY <1>21, <1>c DEF RunQueueRebalanceCommand
  <2>1. [work.obj EXCEPT !.rebalance = FALSE] \in Cluster
    BY <2>0 DEF Cluster
  <2>2. \/ WriteCluster([work.obj EXCEPT !.rebalance = FALSE]) /\ Goto("finish")
        \/ Requeue /\ NotWritten
    BY <1>21 DEF RunQueueRebalanceCommand
  <2>3. CopiesTypeOK'
    <3>1. CASE WriteCluster([work.obj EXCEPT !.rebalance = FALSE]) /\ Goto("finish")
      BY <3>1, <1>a, <2>0, <2>1, WriteClusterType, CopiesAtStep DEF Goto
    <3>2. CASE Requeue /\ NotWritten
      BY <3>2, <1>a, NotWrittenType, CopiesWhenIdle DEF Requeue
    <3> QED BY <2>2, <3>1, <3>2
  <2>4. ControlTypeOK'
    <3>1. "finish" \in Working /\ UNCHANGED <<now, bounds>>
      BY <1>21 DEF RunQueueRebalanceCommand, Working, Steps
    <3> QED BY <1>a, <2>2, <3>1, GotoType, StopType DEF ControlTypeOK, bounds
  <2>5. NodesTypeOK'
    BY <1>21, <1>a DEF RunQueueRebalanceCommand, NodesTypeOK
  <2> QED BY <1>21, <1>a, <2>3, <2>4, <2>5, ChildrenFrame DEF RunQueueRebalanceCommand, TypeOK
<1>22. CASE CommandFails
  <2>1. cr' \in Cluster /\ cache' \in Copy
    BY <1>22, <1>a, <1>c, SetReconcileSuccessType DEF CommandFails
  <2>2. CopiesTypeOK'
    BY <1>22, <2>1, CopiesWhenIdle DEF CommandFails, Requeue
  <2>3. ControlTypeOK'
    BY <1>22, <1>a, StopType DEF CommandFails, ControlTypeOK, bounds
  <2> QED BY <1>22, <1>a, <2>2, <2>3, ChildrenFrame, NodesFrame DEF CommandFails, TypeOK
<1>23. CASE FinishReconcile
  <2>1. [work.obj EXCEPT !.success = "True", !.observed = work.obj.gen] \in Cluster
    BY <1>23, <1>c, ObservedType DEF FinishReconcile
  <2>2. CopiesTypeOK'
    BY <1>23, <1>a, <2>1, TryWriteStatusType, CopiesWhenIdle DEF FinishReconcile, Done
  <2>3. ControlTypeOK'
    BY <1>23, <1>a, StopType DEF FinishReconcile, ControlTypeOK, bounds
  <2> QED BY <1>23, <1>a, <2>2, <2>3, ChildrenFrame, NodesFrame DEF FinishReconcile, TypeOK
<1>24. CASE CallFails
  <2>1. CopiesTypeOK'
    BY <1>24, <1>a, NotWrittenType, CopiesWhenIdle DEF CallFails, Requeue
  <2>2. ControlTypeOK'
    BY <1>24, <1>a, FaultType, MarkerAtType, StopType DEF CallFails, ControlTypeOK
  <2> QED BY <1>24, <1>a, <2>1, <2>2, ChildrenFrame, NodesFrame DEF CallFails, TypeOK
<1>25. CASE RecordedCallFails
  <2>1. pc # "idle"
    BY <1>25 DEF RecordedCallFails
  <2>2. CopiesTypeOK'
    BY <1>25, <1>a, <1>c, <2>1, SetReconcileSuccessType, CopiesWhenIdle
       DEF RecordedCallFails, Requeue
  <2>3. ControlTypeOK'
    BY <1>25, <1>a, FaultType, StopType DEF RecordedCallFails, ControlTypeOK
  <2> QED BY <1>25, <1>a, <2>2, <2>3, ChildrenFrame, NodesFrame DEF RecordedCallFails, TypeOK
<1>26. CASE AnswerLost
  <2>1. pc # "idle" /\ lost' \subseteq Markers
    BY <1>26, <1>a DEF AnswerLost, ControlTypeOK, Markers
  <2>2. spec.plugins \in PluginSets /\ spec.conf \in Confs
    BY <1>c, <2>1 DEF SpecType
  <2>3. CopiesTypeOK'
    BY <1>26, <1>a, <1>c, <2>1, SetReconcileSuccessType, CopiesWhenIdle DEF AnswerLost, Requeue
  <2>4. ControlTypeOK'
    BY <1>26, <1>a, <2>1, FaultType, StopType DEF AnswerLost
  <2>5. ChildrenTypeOK'
    <3>1. CASE pluginsCM' = [pluginsCM EXCEPT !.content = spec.plugins] /\ UNCHANGED <<serverCM, sts>>
      BY <3>1, <1>a, <2>2 DEF ChildrenTypeOK
    <3>2. CASE serverCM' = [serverCM EXCEPT !.content = spec.conf] /\ UNCHANGED <<pluginsCM, sts>>
      BY <3>2, <1>a, <2>2 DEF ChildrenTypeOK
    <3>3. CASE sts' = desiredSts /\ UNCHANGED <<pluginsCM, serverCM>>
      BY <3>3, <1>a, <1>c, <2>1, DesiredStsType DEF ChildrenTypeOK
    <3> QED BY <1>26, <3>1, <3>2, <3>3 DEF AnswerLost
  <2> QED BY <1>26, <1>a, <2>3, <2>4, <2>5, NodesFrame DEF AnswerLost, TypeOK
<1>27. CASE FinalStatusWriteFails
  <2>1. CopiesTypeOK'
    BY <1>27, <1>a, NotWrittenType, CopiesWhenIdle DEF FinalStatusWriteFails, Done
  <2>2. ControlTypeOK'
    BY <1>27, <1>a, FaultType, StopType DEF FinalStatusWriteFails, ControlTypeOK
  <2> QED BY <1>27, <1>a, <2>1, <2>2, ChildrenFrame, NodesFrame DEF FinalStatusWriteFails, TypeOK
<1>28. CASE Crash
  <2>1. CopiesTypeOK'
    BY <1>28, <1>a, NotWrittenType, CopiesWhenIdle DEF Crash, Requeue
  <2>2. ControlTypeOK'
    BY <1>28, <1>a, FaultType, MarkerAtType, StopType DEF Crash, ControlTypeOK
  <2> QED BY <1>28, <1>a, <2>1, <2>2, ChildrenFrame, NodesFrame DEF Crash, TypeOK
<1>29. CASE EditSpec
  <2>1. PICK s \in Specs :
          UserWrites([cr EXCEPT !.spec = [s EXCEPT !.defaulted = cr.spec.defaulted],
                                !.gen = @ + 1])
    BY <1>29 DEF EditSpec
  <2>2. [s EXCEPT !.defaulted = cr.spec.defaulted] \in SpecType
    BY <1>b, ConstantsAssumption DEF Cluster, SpecType
  <2> QED BY <1>a, <1>b, <2>1, <2>2, NewSpecType, UserWritesType DEF TypeOK
<1>30. CASE TogglePause
  <2>1. [cr EXCEPT !.paused = ~@] \in Cluster
    BY <1>b DEF Cluster
  <2> QED BY <1>30, <1>a, <2>1, UserWritesType DEF TogglePause, TypeOK
<1>31. CASE CacheCatchesUp
  <2>1. CopiesTypeOK'
    BY <1>31, <1>a DEF CacheCatchesUp, CopiesTypeOK, Copy
  <2>2. ControlTypeOK'
    BY <1>31, <1>a DEF CacheCatchesUp, ControlTypeOK, bounds
  <2> QED BY <1>31, <1>a, <2>1, <2>2, ChildrenFrame, NodesFrame DEF CacheCatchesUp, TypeOK
<1>32. CASE Resync
  <2>1. ControlTypeOK'
    BY <1>32, <1>a DEF Resync, ControlTypeOK, bounds
  <2> QED BY <1>32, <1>a, <2>1, CopiesFrame, ChildrenFrame, NodesFrame DEF Resync, TypeOK
<1>33. CASE Tick
  <2>1. ControlTypeOK'
    BY <1>33, <1>a DEF Tick, ControlTypeOK, bounds
  <2> QED BY <1>33, <1>a, <2>1, CopiesFrame, ChildrenFrame, NodesFrame DEF Tick, TypeOK
<1>34. CASE StatefulSetControllerSyncs
  <2>1. NodesTypeOK'
    BY <1>34, <1>a, ReadyReplicasType, RevisionType
       DEF StatefulSetControllerSyncs, NodesTypeOK
  <2>2. ControlTypeOK'
    BY <1>34, <1>a DEF StatefulSetControllerSyncs, ControlTypeOK, bounds
  <2> QED BY <1>34, <1>a, <2>1, <2>2, CopiesFrame, ChildrenFrame
          DEF StatefulSetControllerSyncs, TypeOK
<1>35. ASSUME NEW p \in Pods, PodStops(p) PROVE TypeOK'
  <2>1. NodesTypeOK'
    BY <1>35, <1>a DEF PodStops, NodesTypeOK, Down, NoRevision, Revision, NoTime
  <2>2. ControlTypeOK'
    BY <1>35, <1>a DEF PodStops, ControlTypeOK, bounds
  <2> QED BY <1>35, <1>a, <2>1, <2>2, CopiesFrame, ChildrenFrame DEF PodStops, TypeOK
<1>36. ASSUME NEW p \in Pods, PodStarts(p) PROVE TypeOK'
  <2>1. NodesTypeOK'
    BY <1>36, <1>a DEF PodStarts, NodesTypeOK, ChildrenTypeOK
  <2>2. ControlTypeOK'
    BY <1>36, <1>a DEF PodStarts, ControlTypeOK, bounds
  <2> QED BY <1>36, <1>a, <2>1, <2>2, CopiesFrame, ChildrenFrame DEF PodStarts, TypeOK
<1> QED
  BY <1>1, <1>2, <1>3, <1>4, <1>5, <1>6, <1>7, <1>8, <1>9, <1>10, <1>11, <1>12,
     <1>13, <1>14, <1>15, <1>16, <1>17, <1>18, <1>19, <1>20, <1>21, <1>22, <1>23,
     <1>24, <1>25, <1>26, <1>27, <1>28, <1>29, <1>30, <1>31, <1>32, <1>33, <1>34,
     <1>35, <1>36 DEF Next, ReconcileStep, Failure, KubernetesStep

\* Every reachable state is well typed, for any specs, replicas, edits and faults.
THEOREM TypeCorrect == Spec => []TypeOK
<1>1. TypeOK /\ UNCHANGED vars => TypeOK'
  BY CopiesFrame, ChildrenFrame, NodesFrame
     DEF vars, copies, children, nodes, TypeOK, ControlTypeOK
<1> QED BY <1>1, InitTypeOK, StepTypeOK, PTL DEF Spec

--------------------------------------------------------------------------------
(* Copies at the latest version. *)

\* The two operators through which the reconciler writes keep LatestCopies.
LEMMA WriteClusterLatest ==
    ASSUME TypeOK, LatestCopies, pc # "idle", NEW new, WriteCluster(new)
    PROVE  (cache'.latest => cache'.obj = cr') /\ work'.obj = cr'
BY WorkType DEF TypeOK, CopiesTypeOK, LatestCopies, WriteCluster, Copy

LEMMA TryWriteStatusLatest ==
    ASSUME TypeOK, LatestCopies, NEW new, TryWriteStatus(new)
    PROVE  cache'.latest => cache'.obj = cr'
BY DEF TypeOK, CopiesTypeOK, LatestCopies, TryWriteStatus, NotWritten, Copy

LEMMA UserWritesLatest ==
    ASSUME TypeOK, NEW new, UserWrites(new) PROVE LatestCopies'
BY DEF TypeOK, CopiesTypeOK, UserWrites, LatestCopies, Copy

LEMMA LatestCopiesFrame == LatestCopies /\ UNCHANGED copies /\ pc # "idle" => LatestCopies'
BY DEF LatestCopies, copies

LEMMA LatestCopiesStop ==
    ASSUME pc' = "idle", cache'.latest => cache'.obj = cr' PROVE LatestCopies'
BY DEF LatestCopies

LEMMA StepLatestCopies == TypeOK /\ LatestCopies /\ Next => LatestCopies'
<1> SUFFICES ASSUME TypeOK, LatestCopies, Next PROVE LatestCopies'
  OBVIOUS
<1>a. CopiesTypeOK /\ cache \in Copy /\ (pc # "idle" => work \in Copy)
  BY WorkType DEF TypeOK, CopiesTypeOK
<1>b. NotWritten => (cache'.latest => cache'.obj = cr')
  BY DEF NotWritten, LatestCopies
<1>c. ASSUME NEW condition, SetReconcileSuccess(condition) PROVE cache'.latest => cache'.obj = cr'
  BY <1>c, TryWriteStatusLatest DEF SetReconcileSuccess
<1>1. CASE StartReconcile
  BY <1>1 DEF StartReconcile, LatestCopies
<1>2. CASE SkipPausedCluster
  <2>1. cache'.latest => cache'.obj = cr'
    BY <1>2, <1>a, <1>b DEF SkipPausedCluster, Copy
  <2> QED BY <1>2, <2>1, LatestCopiesStop DEF SkipPausedCluster
<1>3. CASE ReconcileOperatorDefaults
  <2> DEFINE defaulted == [spec EXCEPT !.defaulted = TRUE]
  <2>1. CASE WriteCluster([work.obj EXCEPT !.spec = defaulted, !.gen = @ + 1])
    BY <1>3, <2>1, WriteClusterLatest DEF ReconcileOperatorDefaults, LatestCopies
  <2>2. CASE Conflict /\ NotWritten /\ work' = [work EXCEPT !.obj.spec = defaulted]
    BY <1>3, <2>2, <1>a, <1>b DEF ReconcileOperatorDefaults, Conflict, LatestCopies, Copy
  <2> QED BY <1>3, <2>1, <2>2 DEF ReconcileOperatorDefaults
<1>4. CASE AddFinalizerIfNeeded
  BY <1>4, <1>b, WriteClusterLatest, LatestCopiesStop
     DEF AddFinalizerIfNeeded, Requeue, LatestCopies
<1>5. CASE UpdateStatusConditions
  <2> DEFINE new == [work.obj EXCEPT
                       !.ready = AllReplicasReadyCondition,
                       !.pauseWarning = FALSE,
                       !.success = IF @ = "Unset" THEN "Unknown" ELSE @]
  <2>1. pc # "idle" /\ (UNCHANGED copies \/ WriteCluster(new) \/ (Requeue /\ NotWritten))
    BY <1>5 DEF UpdateStatusConditions
  <2> HIDE DEF new
  <2> QED BY <2>1, <1>b, WriteClusterLatest, LatestCopiesFrame, LatestCopiesStop
          DEF Requeue, LatestCopies
<1>6. CASE RejectTLS
  BY <1>6, <1>c, LatestCopiesStop DEF RejectTLS, Done
<1>7. CASE MarkForQueueRebalance
  <2>1. pc # "idle" /\ \/ UNCHANGED copies
                       \/ WriteCluster([work.obj EXCEPT !.rebalance = TRUE])
                       \/ Requeue /\ NotWritten
    BY <1>7 DEF MarkForQueueRebalance
  <2> QED BY <2>1, <1>b, WriteClusterLatest, LatestCopiesFrame, LatestCopiesStop
          DEF Requeue, LatestCopies
<1>8. CASE \/ ReconcilePluginsConfigMap \/ AnnotatePluginsConfigMap
           \/ ReconcileServerConfigMap \/ AnnotateServerConfigMap
           \/ ReconcileStatefulSet \/ AnnotateStatefulSet \/ RestartStatefulSetIfNeeded
           \/ SetPluginsOnPod \/ FinishSetPlugins \/ RunEnableFeatureFlagsCommand
  BY <1>8, LatestCopiesFrame
     DEF ReconcilePluginsConfigMap, AnnotatePluginsConfigMap, ReconcileServerConfigMap,
         AnnotateServerConfigMap, ReconcileStatefulSet, AnnotateStatefulSet,
         RestartStatefulSetIfNeeded, SetPluginsOnPod, FinishSetPlugins,
         RunEnableFeatureFlagsCommand
<1>9. CASE RejectScaleDown
  BY <1>9, <1>c, LatestCopiesStop DEF RejectScaleDown, Done
<1>10. CASE ReconcileStatus
  <2>1. pc # "idle" /\ \/ WriteCluster([work.obj EXCEPT !.bound = TRUE])
                       \/ Requeue /\ NotWritten
    BY <1>10 DEF ReconcileStatus
  <2> QED BY <2>1, <1>b, WriteClusterLatest, LatestCopiesStop DEF Requeue, LatestCopies
<1>11. CASE RunCLICommandsIfAnnotated
  <2>1. pc # "idle" /\ (UNCHANGED copies \/ (Requeue /\ NotWritten))
    BY <1>11 DEF RunCLICommandsIfAnnotated
  <2> QED BY <2>1, <1>b, LatestCopiesFrame, LatestCopiesStop DEF Requeue
<1>12. CASE RunQueueRebalanceCommand
  <2>1. pc # "idle" /\ \/ WriteCluster([work.obj EXCEPT !.rebalance = FALSE])
                       \/ Requeue /\ NotWritten
    BY <1>12 DEF RunQueueRebalanceCommand
  <2> QED BY <2>1, <1>b, WriteClusterLatest, LatestCopiesStop DEF Requeue, LatestCopies
<1>13. CASE CommandFails
  BY <1>13, <1>c, LatestCopiesStop DEF CommandFails, Requeue
<1>14. CASE FinishReconcile
  BY <1>14, TryWriteStatusLatest, LatestCopiesStop DEF FinishReconcile, Done
<1>15. CASE CallFails
  BY <1>15, <1>b, LatestCopiesStop DEF CallFails, Requeue
<1>16. CASE RecordedCallFails
  BY <1>16, <1>c, LatestCopiesStop DEF RecordedCallFails, Requeue
<1>17. CASE AnswerLost
  BY <1>17, <1>c, LatestCopiesStop DEF AnswerLost, Requeue
<1>18. CASE FinalStatusWriteFails
  BY <1>18, <1>b, LatestCopiesStop DEF FinalStatusWriteFails, Done
<1>19. CASE Crash
  BY <1>19, <1>b, LatestCopiesStop DEF Crash, Requeue
<1>20. CASE EditSpec
  BY <1>20, UserWritesLatest DEF EditSpec
<1>21. CASE TogglePause
  BY <1>21, UserWritesLatest DEF TogglePause
<1>22. CASE CacheCatchesUp
  BY <1>22 DEF CacheCatchesUp, LatestCopies
<1>23. CASE Resync \/ Tick \/ StatefulSetControllerSyncs
  BY <1>23 DEF Resync, Tick, StatefulSetControllerSyncs, LatestCopies, copies
<1>24. ASSUME NEW p \in Pods, PodStops(p) \/ PodStarts(p) PROVE LatestCopies'
  BY <1>24 DEF PodStops, PodStarts, LatestCopies, copies
<1> QED
  BY <1>1, <1>2, <1>3, <1>4, <1>5, <1>6, <1>7, <1>8, <1>9, <1>10, <1>11, <1>12,
     <1>13, <1>14, <1>15, <1>16, <1>17, <1>18, <1>19, <1>20, <1>21, <1>22, <1>23, <1>24
     DEF Next, ReconcileStep, Failure, KubernetesStep

\* A copy the API server would accept a write from is the resource itself: no write of
\* the operator, whatever it conflicts with, undoes a user's edit.
THEOREM LatestCopiesHolds == Spec => []LatestCopies
<1>1. Init => LatestCopies
  BY DEF Init, LatestCopies
<1>2. LatestCopies /\ UNCHANGED vars => LatestCopies'
  BY DEF vars, LatestCopies
<1> QED BY <1>1, <1>2, TypeCorrect, StepLatestCopies, PTL DEF Spec

--------------------------------------------------------------------------------
(* Generations. *)

\* All that a step does to the two generations of the resource: it keeps the observed
\* one, or it sets it to the generation that was reconciled, which is the current one.
GenerationStep ==
    \/ cr'.observed = cr.observed /\ cr'.gen >= cr.gen
    \/ cr'.observed = cr.gen /\ cr'.gen = cr.gen

LEMMA GenerationFrame == TypeOK /\ cr' = cr => GenerationStep
BY DEF TypeOK, CopiesTypeOK, Cluster, GenerationStep

LEMMA WriteClusterGeneration ==
    ASSUME TypeOK, LatestCopies, pc # "idle", NEW new, WriteCluster(new),
           new.observed = work.obj.observed, new.gen \in {work.obj.gen, work.obj.gen + 1}
    PROVE  GenerationStep
BY DEF TypeOK, CopiesTypeOK, Cluster, LatestCopies, WriteCluster, GenerationStep

LEMMA SetReconcileSuccessGeneration ==
    ASSUME TypeOK, LatestCopies, pc # "idle", NEW condition, SetReconcileSuccess(condition)
    PROVE  GenerationStep
<1>1. work.obj \in Cluster
  BY WorkType DEF TypeOK
<1>2. /\ [work.obj EXCEPT !.success = condition].observed = work.obj.observed
      /\ [work.obj EXCEPT !.success = condition].gen = work.obj.gen
  BY <1>1 DEF Cluster
<1> QED BY <1>2, GenerationFrame
        DEF SetReconcileSuccess, TryWriteStatus, NotWritten, LatestCopies, TypeOK,
            CopiesTypeOK, Cluster, GenerationStep

LEMMA UserWritesGeneration ==
    ASSUME TypeOK, NEW new \in Cluster, UserWrites(new),
           new.observed = cr.observed, new.gen \in {cr.gen, cr.gen + 1}
    PROVE  GenerationStep
BY DEF TypeOK, CopiesTypeOK, Cluster, UserWrites, GenerationStep

LEMMA StepGeneration == TypeOK /\ LatestCopies /\ Next => GenerationStep
<1> SUFFICES ASSUME TypeOK, LatestCopies, Next PROVE GenerationStep
  OBVIOUS
<1>a. cr \in Cluster /\ cache \in Copy /\ cache.obj \in Cluster
  BY DEF TypeOK, CopiesTypeOK, Copy
<1>b. pc # "idle" => work \in Copy /\ work.obj \in Cluster /\ spec \in SpecType
  BY WorkType DEF TypeOK
<1>c. NotWritten => GenerationStep
  BY GenerationFrame DEF NotWritten
<1>d. UNCHANGED copies => GenerationStep
  BY GenerationFrame DEF copies
<1>1. CASE StartReconcile
  BY <1>1, GenerationFrame DEF StartReconcile
<1>2. CASE SkipPausedCluster
  <2> DEFINE new == [cache.obj EXCEPT !.pauseWarning = (cache.obj.success # "Unset")]
  <2>1. new.observed = cache.obj.observed /\ new.gen = cache.obj.gen
    BY <1>a DEF Cluster
  <2>2. cr' = cr \/ (cache.latest /\ cr' = new)
    BY <1>2 DEF SkipPausedCluster, NotWritten
  <2> HIDE DEF new
  <2> QED BY <1>a, <2>1, <2>2, GenerationFrame DEF LatestCopies, Cluster, GenerationStep
<1>3. CASE ReconcileOperatorDefaults
  <2> DEFINE defaulted == [spec EXCEPT !.defaulted = TRUE]
             new == [work.obj EXCEPT !.spec = defaulted, !.gen = @ + 1]
  <2>1. pc # "idle" /\ (WriteCluster(new) \/ NotWritten)
    BY <1>3 DEF ReconcileOperatorDefaults
  <2>2. new.observed = work.obj.observed /\ new.gen = work.obj.gen + 1
    BY <1>b, <2>1 DEF Cluster
  <2> HIDE DEF new
  <2> QED BY <1>c, <2>1, <2>2, WriteClusterGeneration
<1>4. CASE AddFinalizerIfNeeded
  <2> DEFINE new == [work.obj EXCEPT !.finalizer = TRUE]
  <2>1. pc # "idle" /\ (WriteCluster(new) \/ NotWritten)
    BY <1>4 DEF AddFinalizerIfNeeded
  <2>2. new.observed = work.obj.observed /\ new.gen = work.obj.gen
    BY <1>b, <2>1 DEF Cluster
  <2> HIDE DEF new
  <2> QED BY <1>c, <2>1, <2>2, WriteClusterGeneration
<1>5. CASE UpdateStatusConditions
  <2> DEFINE new == [work.obj EXCEPT
                       !.ready = AllReplicasReadyCondition,
                       !.pauseWarning = FALSE,
                       !.success = IF @ = "Unset" THEN "Unknown" ELSE @]
  <2>1. pc # "idle" /\ (WriteCluster(new) \/ NotWritten \/ UNCHANGED copies)
    BY <1>5 DEF UpdateStatusConditions
  <2>2. new.observed = work.obj.observed /\ new.gen = work.obj.gen
    BY <1>b, <2>1 DEF Cluster
  <2> HIDE DEF new
  <2> QED BY <1>c, <1>d, <2>1, <2>2, WriteClusterGeneration
<1>6. CASE MarkForQueueRebalance
  <2> DEFINE new == [work.obj EXCEPT !.rebalance = TRUE]
  <2>1. pc # "idle" /\ (WriteCluster(new) \/ NotWritten \/ UNCHANGED copies)
    BY <1>6 DEF MarkForQueueRebalance
  <2>2. new.observed = work.obj.observed /\ new.gen = work.obj.gen
    BY <1>b, <2>1 DEF Cluster
  <2> HIDE DEF new
  <2> QED BY <1>c, <1>d, <2>1, <2>2, WriteClusterGeneration
<1>7. CASE \/ ReconcilePluginsConfigMap \/ AnnotatePluginsConfigMap
           \/ ReconcileServerConfigMap \/ AnnotateServerConfigMap
           \/ ReconcileStatefulSet \/ AnnotateStatefulSet \/ RestartStatefulSetIfNeeded
           \/ SetPluginsOnPod \/ FinishSetPlugins \/ RunEnableFeatureFlagsCommand
  BY <1>7, <1>d
     DEF ReconcilePluginsConfigMap, AnnotatePluginsConfigMap, ReconcileServerConfigMap,
         AnnotateServerConfigMap, ReconcileStatefulSet, AnnotateStatefulSet,
         RestartStatefulSetIfNeeded, SetPluginsOnPod, FinishSetPlugins,
         RunEnableFeatureFlagsCommand
<1>8. CASE \/ RejectTLS \/ RejectScaleDown \/ CommandFails
           \/ RecordedCallFails \/ AnswerLost
  BY <1>8, SetReconcileSuccessGeneration
     DEF RejectTLS, RejectScaleDown, CommandFails, RecordedCallFails, AnswerLost
<1>9. CASE ReconcileStatus
  <2> DEFINE new == [work.obj EXCEPT !.bound = TRUE]
  <2>1. pc # "idle" /\ (WriteCluster(new) \/ NotWritten)
    BY <1>9 DEF ReconcileStatus
  <2>2. new.observed = work.obj.observed /\ new.gen = work.obj.gen
    BY <1>b, <2>1 DEF Cluster
  <2> HIDE DEF new
  <2> QED BY <1>c, <2>1, <2>2, WriteClusterGeneration
<1>10. CASE RunCLICommandsIfAnnotated
  BY <1>10, <1>c, <1>d DEF RunCLICommandsIfAnnotated
<1>11. CASE RunQueueRebalanceCommand
  <2> DEFINE new == [work.obj EXCEPT !.rebalance = FALSE]
  <2>1. pc # "idle" /\ (WriteCluster(new) \/ NotWritten)
    BY <1>11 DEF RunQueueRebalanceCommand
  <2>2. new.observed = work.obj.observed /\ new.gen = work.obj.gen
    BY <1>b, <2>1 DEF Cluster
  <2> HIDE DEF new
  <2> QED BY <1>c, <2>1, <2>2, WriteClusterGeneration
<1>12. CASE FinishReconcile
  <2> DEFINE new == [work.obj EXCEPT !.success = "True", !.observed = work.obj.gen]
  <2>1. pc # "idle" /\ (cr' = cr \/ (work.latest /\ cr' = new))
    BY <1>12 DEF FinishReconcile, TryWriteStatus, NotWritten
  <2>2. new.observed = work.obj.gen /\ new.gen = work.obj.gen
    BY <1>b, <2>1 DEF Cluster
  <2> HIDE DEF new
  <2> QED BY <2>1, <2>2, GenerationFrame DEF LatestCopies, GenerationStep
<1>13. CASE CallFails \/ FinalStatusWriteFails \/ Crash
  BY <1>13, <1>c DEF CallFails, FinalStatusWriteFails, Crash
<1>14. CASE EditSpec
  <2>1. PICK s \in Specs :
          UserWrites([cr EXCEPT !.spec = [s EXCEPT !.defaulted = cr.spec.defaulted],
                                !.gen = @ + 1])
    BY <1>14 DEF EditSpec
  <2> DEFINE new == [cr EXCEPT !.spec = [s EXCEPT !.defaulted = cr.spec.defaulted],
                               !.gen = @ + 1]
  <2>2. cr' = new
    BY <2>1 DEF UserWrites
  <2>3. new.observed = cr.observed /\ new.gen = cr.gen + 1
    BY <1>a DEF Cluster
  <2> HIDE DEF new
  <2> QED BY <1>a, <2>2, <2>3 DEF Cluster, GenerationStep
<1>15. CASE TogglePause
  BY <1>15, <1>a DEF TogglePause, UserWrites, Cluster, GenerationStep
<1>16. CASE CacheCatchesUp
  BY <1>16, GenerationFrame DEF CacheCatchesUp
<1>17. CASE Resync \/ Tick \/ StatefulSetControllerSyncs
  BY <1>17, <1>d DEF Resync, Tick, StatefulSetControllerSyncs
<1>18. ASSUME NEW p \in Pods, PodStops(p) \/ PodStarts(p) PROVE GenerationStep
  BY <1>18, <1>d DEF PodStops, PodStarts
<1> QED
  BY <1>1, <1>2, <1>3, <1>4, <1>5, <1>6, <1>7, <1>8, <1>9, <1>10, <1>11, <1>12,
     <1>13, <1>14, <1>15, <1>16, <1>17, <1>18
     DEF Next, ReconcileStep, Failure, KubernetesStep

\* No generation is reported that the resource has not had.
ObservedExists == cr.observed <= cr.gen

LEMMA ObservedExistsHolds == Spec => []ObservedExists
<1>1. Init => ObservedExists
  BY DEF Init, ObservedExists
<1>2. TypeOK /\ TypeOK' /\ ObservedExists /\ GenerationStep => ObservedExists'
  BY DEF TypeOK, CopiesTypeOK, Cluster, ObservedExists, GenerationStep
<1>3. ObservedExists /\ UNCHANGED vars => ObservedExists'
  BY DEF vars, ObservedExists
<1> QED BY <1>1, <1>2, <1>3, TypeCorrect, LatestCopiesHolds, StepGeneration, PTL DEF Spec

\* observedGeneration never goes back, whatever copies the reconciles work on and
\* whichever of their writes conflict, fail or are overtaken by a user's.
THEOREM ObservedMonotoneHolds == Spec => ObservedMonotone
<1>1. /\ TypeOK /\ TypeOK' /\ LatestCopies /\ ObservedExists /\ [Next]_vars
      => [cr'.observed >= cr.observed]_cr
  <2>1. TypeOK /\ TypeOK' /\ ObservedExists /\ GenerationStep => cr'.observed >= cr.observed
    BY DEF TypeOK, CopiesTypeOK, Cluster, ObservedExists, GenerationStep
  <2>2. UNCHANGED vars => cr' = cr
    BY DEF vars
  <2> QED BY <2>1, <2>2, StepGeneration
<1> QED BY <1>1, TypeCorrect, LatestCopiesHolds, ObservedExistsHolds, PTL
        DEF Spec, ObservedMonotone

--------------------------------------------------------------------------------
(* Replicas. *)

\* The scale-down guard runs only once the StatefulSet exists; before, it has no replicas.
AbsentHasNoReplicas == ~Exists => sts.replicas = 0

ReplicasStep == sts'.replicas >= sts.replicas /\ (Exists => Exists')

LEMMA DesiredStsReplicas ==
    ASSUME TypeOK, AbsentHasNoReplicas, spec \in SpecType, ~scaleDown, sts' = desiredSts
    PROVE  ReplicasStep /\ Exists'
<1>1. spec.template \in Templates /\ spec.replicas \in Nat /\ None \notin Templates
  BY ConstantsAssumption DEF SpecType
<1>2. sts'.template = spec.template /\ sts'.replicas = spec.replicas
  BY DEF TypeOK, ChildrenTypeOK, desiredSts
<1>3. sts.replicas \in Nat /\ sts'.replicas >= sts.replicas
  BY <1>1, <1>2, ConstantsAssumption
     DEF TypeOK, ChildrenTypeOK, AbsentHasNoReplicas, scaleDown
<1> QED BY <1>1, <1>2, <1>3 DEF ReplicasStep, Exists

LEMMA StepReplicas ==
    TypeOK /\ AbsentHasNoReplicas /\ [Next]_vars => ReplicasStep /\ AbsentHasNoReplicas'
<1> SUFFICES ASSUME TypeOK, AbsentHasNoReplicas, [Next]_vars
             PROVE  ReplicasStep /\ AbsentHasNoReplicas'
  OBVIOUS
<1>a. pc # "idle" => spec \in SpecType
  BY WorkType DEF TypeOK
<1>b. sts' = sts => ReplicasStep /\ AbsentHasNoReplicas'
  BY ConstantsAssumption
     DEF TypeOK, ChildrenTypeOK, ReplicasStep, AbsentHasNoReplicas, Exists
<1>c. ASSUME sts'.template = sts.template, sts'.replicas = sts.replicas
      PROVE  ReplicasStep /\ AbsentHasNoReplicas'
  BY <1>c, ConstantsAssumption
     DEF TypeOK, ChildrenTypeOK, ReplicasStep, AbsentHasNoReplicas, Exists
<1>1. CASE ReconcileStatefulSet
  BY <1>1, <1>a, DesiredStsReplicas DEF ReconcileStatefulSet, AbsentHasNoReplicas
<1>2. CASE AnswerLost
  BY <1>2, <1>a, <1>b, DesiredStsReplicas DEF AnswerLost, scaleDown, AbsentHasNoReplicas
<1>3. CASE AnnotateStatefulSet
  BY <1>3, <1>c DEF AnnotateStatefulSet, TypeOK, ChildrenTypeOK
<1>4. CASE RestartStatefulSetIfNeeded
  BY <1>4, <1>c DEF RestartStatefulSetIfNeeded, TypeOK, ChildrenTypeOK
<1>5. CASE RunEnableFeatureFlagsCommand
  BY <1>5, <1>c DEF RunEnableFeatureFlagsCommand, TypeOK, ChildrenTypeOK
<1>6. CASE \/ ReconcilePluginsConfigMap \/ AnnotatePluginsConfigMap
           \/ ReconcileServerConfigMap \/ AnnotateServerConfigMap \/ FinishSetPlugins
  BY <1>6, <1>b DEF ReconcilePluginsConfigMap, AnnotatePluginsConfigMap,
                    ReconcileServerConfigMap, AnnotateServerConfigMap, FinishSetPlugins
<1>7. ASSUME UNCHANGED children PROVE ReplicasStep /\ AbsentHasNoReplicas'
  BY <1>7, <1>b DEF children
<1>8. CASE \/ StartReconcile \/ SkipPausedCluster \/ ReconcileOperatorDefaults
           \/ AddFinalizerIfNeeded \/ UpdateStatusConditions \/ RejectTLS
           \/ MarkForQueueRebalance \/ RejectScaleDown \/ ReconcileStatus
           \/ RunCLICommandsIfAnnotated \/ SetPluginsOnPod \/ RunQueueRebalanceCommand
           \/ CommandFails \/ FinishReconcile
  BY <1>8, <1>7
     DEF StartReconcile, SkipPausedCluster, ReconcileOperatorDefaults,
         AddFinalizerIfNeeded, UpdateStatusConditions, RejectTLS, MarkForQueueRebalance,
         RejectScaleDown, ReconcileStatus, RunCLICommandsIfAnnotated, SetPluginsOnPod,
         RunQueueRebalanceCommand, CommandFails, FinishReconcile
<1>9. CASE CallFails \/ RecordedCallFails \/ FinalStatusWriteFails \/ Crash
  BY <1>9, <1>7 DEF CallFails, RecordedCallFails, FinalStatusWriteFails, Crash
<1>10. CASE EditSpec \/ TogglePause \/ CacheCatchesUp \/ Resync \/ Tick
  BY <1>10, <1>7 DEF EditSpec, TogglePause, UserWrites, CacheCatchesUp, Resync, Tick
<1>11. CASE KubernetesStep
  BY <1>11, <1>7 DEF KubernetesStep, StatefulSetControllerSyncs, PodStops, PodStarts
<1>12. CASE UNCHANGED vars
  BY <1>12, <1>b DEF vars
<1> QED
  BY <1>1, <1>2, <1>3, <1>4, <1>5, <1>6, <1>8, <1>9, <1>10, <1>11, <1>12
     DEF Next, ReconcileStep, Failure

\* Whatever users ask for, and whatever copies, conflicts and failures the reconciles
\* meet, the StatefulSet never loses replicas.
THEOREM NoScaleDownHolds == Spec => NoScaleDown
<1>1. Init => AbsentHasNoReplicas
  BY DEF Init, AbsentHasNoReplicas
<1>2. TypeOK /\ AbsentHasNoReplicas /\ [Next]_vars => [sts'.replicas >= sts.replicas]_sts
  BY StepReplicas DEF ReplicasStep
<1> QED BY <1>1, <1>2, TypeCorrect, StepReplicas, PTL DEF Spec, NoScaleDown

--------------------------------------------------------------------------------
(* Restarts. NoLostRestart is not inductive: it does not say why a pod of the current *)
(* revision has the current file. What does: the stamps grow with the clock, so that  *)
(* a restart requested for a change makes a revision later than every running pod's.  *)

ConfSteps == {"annotateServerConf", "statefulSet"}

\* There are no pods before there is a server-conf ConfigMap for them to read.
ServerConfFirst ==
    /\ pc \in ConfSteps => serverCM.content # None
    /\ Exists => serverCM.content # None
    /\ stsStatus.update # NoRevision => serverCM.content # None
    /\ \A p \in Pods : pods[p].up => serverCM.content # None

StampsOrdered ==
    /\ now >= 1 /\ sts.restartAt <= now
    /\ stsStatus.update.restartAt <= sts.restartAt
    /\ \A p \in Pods : pods[p].up => pods[p].rev.restartAt <= sts.restartAt

\* A pod with an outdated file waits for its annotation, for the restart the annotation
\* asks for, or for the StatefulSet controller to reach it.
RestartOwed(p) ==
    \/ pc = "annotateServerConf"
    \/ restartNeeded
    \/ pods[p].rev.restartAt < sts.restartAt
OutdatedPodsOwed ==
    \A p \in Pods : pods[p].up /\ pods[p].conf # serverCM.content =>
        RestartOwed(p) \/ "serverConf" \in lost

RestartInv == ServerConfFirst /\ StampsOrdered /\ OutdatedPodsOwed

\* Steps that touch neither the server-conf ConfigMap, nor revisions, nor pods' files.
LEMMA RestartFrame ==
    ASSUME TypeOK, RestartInv, UNCHANGED <<serverCM, stsStatus>>,
           sts'.restartAt = sts.restartAt, Exists' => Exists \/ pc = "statefulSet",
           \A p \in Pods : /\ pods'[p].up = pods[p].up
                           /\ pods'[p].conf = pods[p].conf /\ pods'[p].rev = pods[p].rev,
           now' \in Nat, now' >= now, lost \subseteq lost',
           pc = "annotateServerConf" => pc' = pc \/ "serverConf" \in lost',
           pc' \in ConfSteps => pc' = pc \/ serverCM.content # None
    PROVE  RestartInv'
<1>1. ServerConfFirst'
  BY DEF RestartInv, ServerConfFirst, ConfSteps
<1>2. StampsOrdered'
  BY DEF RestartInv, StampsOrdered, TypeOK, ChildrenTypeOK, ControlTypeOK
<1>3. restartNeeded' <=> restartNeeded
  BY DEF restartNeeded, RestartedAfter
<1>4. OutdatedPodsOwed'
  BY <1>3 DEF RestartInv, OutdatedPodsOwed, RestartOwed
<1> QED BY <1>1, <1>2, <1>4 DEF RestartInv

\* The same for the many steps that leave the children and the nodes alone.
LEMMA RestartFrameAll ==
    ASSUME TypeOK, RestartInv, UNCHANGED <<children, nodes, now>>, lost \subseteq lost',
           pc = "annotateServerConf" => pc' = pc \/ "serverConf" \in lost',
           pc' \in ConfSteps => pc' = pc \/ serverCM.content # None
    PROVE  RestartInv'
<1>1. UNCHANGED <<serverCM, sts, stsStatus, pods>> /\ now' \in Nat /\ now' >= now
  BY DEF children, nodes, TypeOK, ControlTypeOK
<1> QED BY <1>1, RestartFrame DEF Exists

LEMMA AfterKnown ==
    ASSUME TypeOK, pc # "idle"
    PROVE  /\ AfterPlugins \in ConfSteps => serverCM.content # None
           /\ AfterMark \in ConfSteps => serverCM.content # None
BY WorkType, ConstantsAssumption
   DEF TypeOK, SpecType, AfterPlugins, AfterMark, ConfSteps

LEMMA AfterNotConf ==
    /\ \A c : AfterStatefulSet(c) \notin ConfSteps /\ AfterDefaults(c) \notin ConfSteps
              /\ AfterGet(c) \notin ConfSteps
    /\ AfterFeatureFlags \notin ConfSteps /\ AfterSetPlugins \notin ConfSteps
    /\ AfterReadyCheck \notin ConfSteps
BY DEF ConfSteps, AfterStatefulSet, AfterDefaults, AfterGet, AfterFeatureFlags,
       AfterSetPlugins, AfterReadyCheck

LEMMA StepRestartInv == TypeOK /\ RestartInv /\ Next => RestartInv'
<1> SUFFICES ASSUME TypeOK, RestartInv, Next PROVE RestartInv'
  OBVIOUS
<1>a. pc # "idle" => spec \in SpecType
  BY WorkType DEF TypeOK
<1>b. /\ now \in Nat /\ sts.restartAt \in Nat /\ serverCM.updatedAt \in Nat
      /\ stsStatus.update.restartAt \in Nat
      /\ \A p \in Pods : pods[p].rev.restartAt \in Nat
  BY DEF TypeOK, ControlTypeOK, ChildrenTypeOK, NodesTypeOK, Revision
<1>1. CASE \/ StartReconcile \/ SkipPausedCluster \/ ReconcileOperatorDefaults
           \/ AddFinalizerIfNeeded \/ UpdateStatusConditions
  <2>1. UNCHANGED <<children, nodes, now, lost>>
    BY <1>1 DEF StartReconcile, SkipPausedCluster, ReconcileOperatorDefaults,
                AddFinalizerIfNeeded, UpdateStatusConditions, bounds
  <2>2. pc # "annotateServerConf" /\ pc' \notin ConfSteps
    BY <1>1, AfterNotConf
       DEF StartReconcile, SkipPausedCluster, ReconcileOperatorDefaults,
           AddFinalizerIfNeeded, UpdateStatusConditions, Goto, Requeue, ConfSteps
  <2> QED BY <2>1, <2>2, RestartFrameAll
<1>2. CASE MarkForQueueRebalance
  <2>1. UNCHANGED <<children, nodes, now, lost>> /\ pc # "annotateServerConf" /\ pc # "idle"
    BY <1>2 DEF MarkForQueueRebalance, bounds
  <2>2. pc' = AfterMark \/ pc' = "idle"
    BY <1>2 DEF MarkForQueueRebalance, Goto, Requeue
  <2> QED BY <2>1, <2>2, AfterKnown, RestartFrameAll DEF ConfSteps
<1>3. CASE \/ RejectTLS \/ RejectScaleDown \/ ReconcileStatus
           \/ RunCLICommandsIfAnnotated \/ CommandFails \/ FinishReconcile
  <2>1. UNCHANGED <<children, nodes, now, lost>>
    BY <1>3 DEF RejectTLS, RejectScaleDown, ReconcileStatus, RunCLICommandsIfAnnotated,
                CommandFails, FinishReconcile, bounds
  <2>2. pc # "annotateServerConf" /\ pc' \notin ConfSteps
    BY <1>3, AfterNotConf
       DEF RejectTLS, RejectScaleDown, ReconcileStatus, RunCLICommandsIfAnnotated,
           CommandFails, FinishReconcile, Goto, Requeue, Done, ConfSteps
  <2> QED BY <2>1, <2>2, RestartFrameAll
<1>4. CASE \/ ReconcilePluginsConfigMap \/ AnnotatePluginsConfigMap \/ FinishSetPlugins
  <2>1. UNCHANGED <<serverCM, sts, stsStatus, pods, now, lost>>
    BY <1>4 DEF ReconcilePluginsConfigMap, AnnotatePluginsConfigMap, FinishSetPlugins,
                nodes, bounds
  <2>2. /\ pc # "annotateServerConf" /\ pc # "idle"
        /\ pc' \in {AfterPlugins, "annotatePlugins", AfterSetPlugins}
    BY <1>4 DEF ReconcilePluginsConfigMap, AnnotatePluginsConfigMap, FinishSetPlugins,
                GotoAfterWrite
  <2>3. pc' \in ConfSteps => serverCM.content # None
    BY <2>2, AfterKnown, AfterNotConf DEF ConfSteps
  <2> QED BY <1>b, <2>1, <2>2, <2>3, RestartFrame DEF Exists
<1>5. CASE ReconcileServerConfigMap
  <2>1. /\ serverCM'.content = spec.conf /\ serverCM'.content # None
        /\ serverCM'.updatedAt = serverCM.updatedAt
        /\ UNCHANGED <<sts, stsStatus, pods, now, lost>>
        /\ serverCM.content # None => pc' = "annotateServerConf"
    BY <1>5, <1>a, ConstantsAssumption
       DEF ReconcileServerConfigMap, GotoAfterWrite, TypeOK, ChildrenTypeOK, SpecType,
           nodes, bounds
  <2>2. ServerConfFirst' /\ StampsOrdered'
    BY <2>1 DEF RestartInv, ServerConfFirst, StampsOrdered
  <2>3. OutdatedPodsOwed'
    BY <2>1 DEF RestartInv, ServerConfFirst, OutdatedPodsOwed, RestartOwed
  <2> QED BY <2>2, <2>3 DEF RestartInv
<1>6. CASE AnnotateServerConfigMap
  <2>1. /\ serverCM'.content = serverCM.content /\ serverCM'.updatedAt = now
        /\ UNCHANGED <<sts, stsStatus, pods, now, lost>> /\ pc \in ConfSteps
    BY <1>6 DEF AnnotateServerConfigMap, TypeOK, ChildrenTypeOK, nodes, bounds, ConfSteps
  <2>2. ServerConfFirst' /\ StampsOrdered'
    BY <2>1 DEF RestartInv, ServerConfFirst, StampsOrdered, Exists
  <2>3. restartNeeded'
    BY <1>b, <2>1 DEF RestartInv, StampsOrdered, restartNeeded, RestartedAfter, NoTime
  <2>4. OutdatedPodsOwed'
    BY <2>3 DEF OutdatedPodsOwed, RestartOwed
  <2> QED BY <2>2, <2>4 DEF RestartInv
<1>7. CASE ReconcileStatefulSet
  <2>1. /\ UNCHANGED <<serverCM, stsStatus, pods, now, lost>>
        /\ sts'.restartAt = sts.restartAt
        /\ pc = "statefulSet" /\ pc' \notin ConfSteps
    BY <1>7 DEF ReconcileStatefulSet, desiredSts, TypeOK, ChildrenTypeOK, Goto,
                GotoAfterWrite, nodes, bounds, ConfSteps
  <2> QED BY <1>b, <2>1, RestartFrame
<1>8. CASE AnnotateStatefulSet
  <2>1. /\ UNCHANGED <<serverCM, stsStatus, pods, now, lost>>
        /\ sts'.restartAt = sts.restartAt /\ sts'.template = sts.template
        /\ pc = "annotateStatefulSet" /\ pc' \notin ConfSteps
    BY <1>8 DEF AnnotateStatefulSet, TypeOK, ChildrenTypeOK, GotoAfterWrite, nodes, bounds,
                ConfSteps
  <2> QED BY <1>b, <2>1, RestartFrame DEF Exists
<1>9. CASE RestartStatefulSetIfNeeded
  <2>1. /\ UNCHANGED <<serverCM, stsStatus, pods, now, lost>>
        /\ sts'.template = sts.template
        /\ pc = "restartStatefulSet" /\ pc' \notin ConfSteps
    BY <1>9, AfterNotConf
       DEF RestartStatefulSetIfNeeded, TypeOK, ChildrenTypeOK, Goto, GotoAfterWrite,
           nodes, bounds
  <2>2. CASE restartNeeded /\ sts.restartAt # now
    <3>1. sts'.restartAt = now
      BY <1>9, <2>2 DEF RestartStatefulSetIfNeeded, TypeOK, ChildrenTypeOK
    <3>2. sts.restartAt < sts'.restartAt
      BY <1>b, <2>2, <3>1 DEF RestartInv, StampsOrdered
    <3>3. ServerConfFirst'
      BY <2>1 DEF RestartInv, ServerConfFirst, Exists
    <3>4. StampsOrdered'
      BY <1>b, <2>1, <3>1, <3>2 DEF RestartInv, StampsOrdered
    <3>5. \A p \in Pods : pods'[p].up => pods'[p].rev.restartAt < sts'.restartAt
      BY <1>b, <2>1, <3>1, <3>2 DEF RestartInv, StampsOrdered
    <3>6. OutdatedPodsOwed'
      BY <3>5 DEF OutdatedPodsOwed, RestartOwed
    <3> QED BY <3>3, <3>4, <3>6 DEF RestartInv
  <2>3. CASE ~(restartNeeded /\ sts.restartAt # now)
    <3>1. UNCHANGED sts
      BY <1>9, <2>3 DEF RestartStatefulSetIfNeeded
    <3> QED BY <1>b, <2>1, <3>1, RestartFrame DEF Exists
  <2> QED BY <2>2, <2>3
<1>10. CASE SetPluginsOnPod
  <2>1. /\ UNCHANGED <<children, stsStatus, now, lost, pc>> /\ pc = "setPlugins"
        /\ \A p \in Pods : /\ pods'[p].up = pods[p].up /\ pods'[p].conf = pods[p].conf
                           /\ pods'[p].rev = pods[p].rev
    BY <1>10 DEF SetPluginsOnPod, TypeOK, NodesTypeOK, bounds
  <2> QED BY <1>b, <2>1, RestartFrame DEF children, Exists, ConfSteps
<1>11. CASE RunEnableFeatureFlagsCommand
  <2>1. /\ UNCHANGED <<serverCM, stsStatus, pods, now, lost>>
        /\ sts'.restartAt = sts.restartAt /\ sts'.template = sts.template
        /\ pc = "enableFeatureFlags" /\ pc' \notin ConfSteps
    BY <1>11, AfterNotConf
       DEF RunEnableFeatureFlagsCommand, TypeOK, ChildrenTypeOK, GotoAfterWrite, bounds
  <2> QED BY <1>b, <2>1, RestartFrame DEF Exists
<1>12. CASE RunQueueRebalanceCommand
  <2>1. /\ UNCHANGED <<serverCM, sts, stsStatus, pods, now, lost>>
        /\ pc = "queueRebalance" /\ pc' \notin ConfSteps
    BY <1>12 DEF RunQueueRebalanceCommand, Goto, Requeue, children, bounds, ConfSteps
  <2> QED BY <1>b, <2>1, RestartFrame DEF Exists
<1>13. CASE CallFails \/ Crash
  <2>1. UNCHANGED <<children, nodes, now>> /\ lost' = lost \union MarkerAt(pc) /\ pc' = "idle"
    BY <1>13 DEF CallFails, Crash, Requeue
  <2>2. pc = "annotateServerConf" => "serverConf" \in lost'
    BY <2>1 DEF MarkerAt
  <2> QED BY <2>1, <2>2, RestartFrameAll DEF ConfSteps
<1>14. CASE RecordedCallFails \/ FinalStatusWriteFails
  <2>1. /\ UNCHANGED <<children, nodes, now, lost>>
        /\ pc # "annotateServerConf" /\ pc' = "idle"
    BY <1>14 DEF RecordedCallFails, FinalStatusWriteFails, Requeue, Done
  <2> QED BY <2>1, RestartFrameAll DEF ConfSteps
<1>15. CASE AnswerLost
  <2>0. UNCHANGED <<stsStatus, pods, now>> /\ pc' = "idle"
    BY <1>15 DEF AnswerLost, Requeue, nodes
  <2>1. CASE pc = "serverConfigMap"
    <3>1. /\ serverCM.content # None /\ serverCM'.content # None
          /\ serverCM'.updatedAt = serverCM.updatedAt
          /\ UNCHANGED sts /\ "serverConf" \in lost'
      BY <1>15, <2>1, <1>a, ConstantsAssumption
         DEF AnswerLost, TypeOK, ChildrenTypeOK, SpecType
    <3> QED BY <2>0, <3>1 DEF RestartInv, ServerConfFirst, StampsOrdered, OutdatedPodsOwed,
                              ConfSteps
  <2>2. CASE pc # "serverConfigMap"
    <3>1. /\ UNCHANGED serverCM /\ sts'.restartAt = sts.restartAt /\ lost \subseteq lost'
          /\ pc # "annotateServerConf" /\ (UNCHANGED sts \/ pc = "statefulSet")
      BY <1>15, <2>2 DEF AnswerLost, desiredSts, TypeOK, ChildrenTypeOK
    <3> QED BY <1>b, <2>0, <3>1, RestartFrame DEF Exists, ConfSteps
  <2> QED BY <2>1, <2>2
<1>16. CASE EditSpec \/ TogglePause \/ CacheCatchesUp \/ Resync
  <2>1. UNCHANGED <<children, nodes, now, lost, pc>>
    BY <1>16 DEF EditSpec, TogglePause, UserWrites, CacheCatchesUp, Resync, bounds
  <2> QED BY <2>1, RestartFrameAll
<1>17. CASE Tick
  <2>1. UNCHANGED <<children, nodes, lost, pc>> /\ now' = now + 1
    BY <1>17 DEF Tick, bounds
  <2> QED BY <1>b, <2>1, RestartFrame DEF children, nodes, Exists
<1>18. CASE StatefulSetControllerSyncs
  <2>1. /\ UNCHANGED <<serverCM, sts, pods, now, lost, pc>> /\ Exists
        /\ stsStatus'.update.restartAt = sts.restartAt
    BY <1>18 DEF StatefulSetControllerSyncs, RevisionOf, children, bounds
  <2>2. ServerConfFirst'
    BY <2>1 DEF RestartInv, ServerConfFirst
  <2>3. StampsOrdered'
    BY <1>b, <2>1 DEF RestartInv, StampsOrdered
  <2>4. restartNeeded' <=> restartNeeded
    BY <2>1 DEF restartNeeded, RestartedAfter
  <2>5. OutdatedPodsOwed'
    BY <2>1, <2>4 DEF RestartInv, OutdatedPodsOwed, RestartOwed
  <2> QED BY <2>2, <2>3, <2>5 DEF RestartInv
<1>19. ASSUME NEW p \in Pods, PodStops(p) \/ PodStarts(p) PROVE RestartInv'
  <2>1. UNCHANGED <<serverCM, sts, stsStatus, now, lost, pc>>
    BY <1>19 DEF PodStops, PodStarts, children, bounds
  <2>2. \A q \in Pods : q # p => pods'[q] = pods[q]
    BY <1>19 DEF PodStops, PodStarts, TypeOK, NodesTypeOK
  <2>3. \/ pods'[p].up = FALSE
        \/ /\ pods'[p].conf = serverCM.content /\ pods'[p].rev = stsStatus.update
           /\ stsStatus.update # NoRevision
    BY <1>19 DEF PodStops, PodStarts, TypeOK, NodesTypeOK, Down
  <2>4. ServerConfFirst'
    BY <2>1, <2>2, <2>3 DEF RestartInv, ServerConfFirst, Exists
  <2>5. StampsOrdered'
    BY <2>1, <2>2, <2>3 DEF RestartInv, StampsOrdered
  <2>6. restartNeeded' <=> restartNeeded
    BY <2>1 DEF restartNeeded, RestartedAfter
  <2>7. OutdatedPodsOwed'
    BY <2>1, <2>2, <2>3, <2>6 DEF RestartInv, OutdatedPodsOwed, RestartOwed
  <2> QED BY <2>4, <2>5, <2>7 DEF RestartInv
<1> QED
  BY <1>1, <1>2, <1>3, <1>4, <1>5, <1>6, <1>7, <1>8, <1>9, <1>10, <1>11, <1>12,
     <1>13, <1>14, <1>15, <1>16, <1>17, <1>18, <1>19
     DEF Next, ReconcileStep, Failure, KubernetesStep

LEMMA InitRestartInv == Init => RestartInv
BY DEF Init, RestartInv, ServerConfFirst, StampsOrdered, OutdatedPodsOwed, ConfSteps,
       Exists, Down, NoRevision, NoTime

\* A running pod with an outdated rabbitmq.conf is going to be restarted, however edits,
\* clock, reconciles and rollouts interleave, unless a failure hit the annotating step.
THEOREM NoLostRestartHolds == Spec => []NoLostRestart
<1>1. RestartInv /\ UNCHANGED vars => RestartInv'
  <2> SUFFICES ASSUME RestartInv, UNCHANGED vars PROVE RestartInv'
    OBVIOUS
  <2>1. restartNeeded' <=> restartNeeded
    BY DEF vars, restartNeeded, RestartedAfter
  <2> QED BY <2>1 DEF vars, RestartInv, ServerConfFirst, StampsOrdered, OutdatedPodsOwed,
                      RestartOwed, Exists
<1>2. TypeOK /\ RestartInv => NoLostRestart
  <2> SUFFICES ASSUME TypeOK, RestartInv, NEW p \in Pods,
                      pods[p].up, pods[p].conf # serverCM.content, "serverConf" \notin lost
               PROVE  RestartPending(p)
    BY DEF NoLostRestart
  <2>1. pods[p].rev.restartAt < sts.restartAt => pods[p].rev # RevisionOf(sts)
    BY DEF TypeOK, ChildrenTypeOK, RevisionOf
  <2> QED BY <2>1 DEF RestartInv, OutdatedPodsOwed, RestartOwed, RestartPending
<1> QED BY <1>1, <1>2, InitRestartInv, TypeCorrect, StepRestartInv, PTL DEF Spec
=============================================================================
