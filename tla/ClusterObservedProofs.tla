-------------------------- MODULE ClusterObservedProofs --------------------------
(***************************************************************************)
(* What it means that the operator reports a generation as observed, for   *)
(* every value of the constants of ClusterReconciler: the children are as  *)
(* that generation declares them, and stay so until the next edit.  From   *)
(* this follows that the reconcile loop implements DeclaredCluster.        *)
(***************************************************************************)
EXTENDS ClusterReconcilerProofs

\* The part of a spec that the children are made from: not the defaults that the
\* operator fills in, which make a new generation of the same content.
Content(s) == [conf |-> s.conf, plugins |-> s.plugins,
               template |-> s.template, replicas |-> s.replicas]

--------------------------------------------------------------------------------
(* The three copies of the resource. *)

\* A reconcile whose copy is the latest was started from a copy of that content; and once
\* a generation is observed, nobody has a copy of another content.
SpecsAgree ==
    /\ pc # "idle" /\ work.latest => Content(cache.obj.spec) = Content(spec)
    /\ cr.observed = cr.gen =>
         /\ Content(cache.obj.spec) = Content(cr.spec)
         /\ pc # "idle" => Content(spec) = Content(cr.spec)

\* What most steps do to the three copies.
CopiesKept ==
    /\ cr'.gen = cr.gen /\ cr'.observed = cr.observed /\ cr'.spec = cr.spec
    /\ cache'.obj = cache.obj
    /\ pc' # "idle" => /\ pc # "idle" /\ work'.obj.spec = work.obj.spec
                       /\ work'.latest => work.latest

LEMMA CopiesKeptFrame ==
    ASSUME UNCHANGED copies, pc # "idle" \/ pc' = "idle" PROVE CopiesKept
BY DEF copies, CopiesKept

LEMMA WriteClusterKeeps ==
    ASSUME TypeOK, LatestCopies, pc # "idle", NEW new, WriteCluster(new),
           new.gen = work.obj.gen, new.observed = work.obj.observed, new.spec = work.obj.spec
    PROVE  CopiesKept
BY WorkType DEF TypeOK, CopiesTypeOK, Copy, LatestCopies, WriteCluster, CopiesKept

LEMMA TryWriteStatusKeeps ==
    ASSUME TypeOK, LatestCopies, pc # "idle", pc' = "idle", NEW new, TryWriteStatus(new),
           new.gen = work.obj.gen, new.observed = work.obj.observed, new.spec = work.obj.spec
    PROVE  CopiesKept
BY WorkType DEF TypeOK, CopiesTypeOK, Copy, LatestCopies, TryWriteStatus, NotWritten, CopiesKept

LEMMA SetReconcileSuccessKeeps ==
    ASSUME TypeOK, LatestCopies, pc # "idle", pc' = "idle",
           NEW condition, SetReconcileSuccess(condition)
    PROVE  CopiesKept
<1>1. work.obj \in Cluster
  BY WorkType DEF TypeOK
<1> DEFINE new == [work.obj EXCEPT !.success = condition]
<1>2. new.gen = work.obj.gen /\ new.observed = work.obj.observed /\ new.spec = work.obj.spec
  BY <1>1 DEF Cluster
<1> HIDE DEF new
<1> QED BY <1>2, TryWriteStatusKeeps DEF SetReconcileSuccess, new

LEMMA StoppedKeeps == ASSUME NotWritten, pc' = "idle" PROVE CopiesKept
BY DEF NotWritten, CopiesKept

LEMMA WriteKeeps ==
    ASSUME TypeOK, LatestCopies, pc # "idle", NEW new \in Cluster,
           new.gen = work.obj.gen, new.observed = work.obj.observed, new.spec = work.obj.spec,
           WriteCluster(new) \/ (Requeue /\ NotWritten) \/ (UNCHANGED copies /\ pc # "idle")
    PROVE  CopiesKept
BY WriteClusterKeeps, StoppedKeeps, CopiesKeptFrame DEF Requeue

\* The steps that do more than that are four.
LEMMA StepCopies ==
    ASSUME TypeOK, LatestCopies, Next
    PROVE  \/ CopiesKept \/ StartReconcile \/ ReconcileOperatorDefaults
           \/ FinishReconcile \/ EditSpec \/ CacheCatchesUp
<1>a. cr \in Cluster /\ cache \in Copy /\ cache.obj \in Cluster
  BY DEF TypeOK, CopiesTypeOK, Copy
<1>b. pc # "idle" => work.obj \in Cluster
  BY WorkType DEF TypeOK
<1>1. CASE SkipPausedCluster
  <2> DEFINE new == [cache.obj EXCEPT !.pauseWarning = (cache.obj.success # "Unset")]
  <2>1. new.gen = cache.obj.gen /\ new.observed = cache.obj.observed /\ new.spec = cache.obj.spec
    BY <1>a DEF Cluster
  <2>2. /\ (cache.latest /\ cr' = new /\ cache' = [cache EXCEPT !.latest = FALSE])
           \/ UNCHANGED <<cr, cache>>
        /\ pc' = "idle"
    BY <1>1 DEF SkipPausedCluster, NotWritten
  <2> HIDE DEF new
  <2> QED BY <1>a, <2>1, <2>2 DEF LatestCopies, CopiesKept, Copy
<1>2. CASE AddFinalizerIfNeeded
  <2> DEFINE new == [work.obj EXCEPT !.finalizer = TRUE]
  <2>1. pc # "idle" /\ (WriteCluster(new) \/ (Requeue /\ NotWritten))
    BY <1>2 DEF AddFinalizerIfNeeded
  <2>2. /\ new \in Cluster /\ new.gen = work.obj.gen
        /\ new.observed = work.obj.observed /\ new.spec = work.obj.spec
    BY <1>b, <2>1 DEF Cluster
  <2> HIDE DEF new
  <2> QED BY <2>1, <2>2, WriteKeeps
<1>3. CASE UpdateStatusConditions
  <2> DEFINE new == [work.obj EXCEPT
                       !.ready = AllReplicasReadyCondition,
                       !.pauseWarning = FALSE,
                       !.success = IF @ = "Unset" THEN "Unknown" ELSE @]
  <2>1. pc # "idle" /\ (WriteCluster(new) \/ (Requeue /\ NotWritten) \/ UNCHANGED copies)
    BY <1>3 DEF UpdateStatusConditions
  <2>2. new \in Cluster
    BY <1>b, <2>1, ConditionsType DEF AllReplicasReadyCondition
  <2>3. /\ new.gen = work.obj.gen
        /\ new.observed = work.obj.observed /\ new.spec = work.obj.spec
    BY <1>b, <2>1 DEF Cluster
  <2> HIDE DEF new
  <2> QED BY <2>1, <2>2, <2>3, WriteKeeps
<1>4. CASE MarkForQueueRebalance
  <2> DEFINE new == [work.obj EXCEPT !.rebalance = TRUE]
  <2>1. pc # "idle" /\ (WriteCluster(new) \/ (Requeue /\ NotWritten) \/ UNCHANGED copies)
    BY <1>4 DEF MarkForQueueRebalance
  <2>2. /\ new \in Cluster /\ new.gen = work.obj.gen
        /\ new.observed = work.obj.observed /\ new.spec = work.obj.spec
    BY <1>b, <2>1 DEF Cluster
  <2> HIDE DEF new
  <2> QED BY <2>1, <2>2, WriteKeeps
<1>5. CASE ReconcileStatus
  <2> DEFINE new == [work.obj EXCEPT !.bound = TRUE]
  <2>1. pc # "idle" /\ (WriteCluster(new) \/ (Requeue /\ NotWritten))
    BY <1>5 DEF ReconcileStatus
  <2>2. /\ new \in Cluster /\ new.gen = work.obj.gen
        /\ new.observed = work.obj.observed /\ new.spec = work.obj.spec
    BY <1>b, <2>1 DEF Cluster
  <2> HIDE DEF new
  <2> QED BY <2>1, <2>2, WriteKeeps
<1>6. CASE RunQueueRebalanceCommand
  <2> DEFINE new == [work.obj EXCEPT !.rebalance = FALSE]
  <2>1. pc # "idle" /\ (WriteCluster(new) \/ (Requeue /\ NotWritten))
    BY <1>6 DEF RunQueueRebalanceCommand
  <2>2. /\ new \in Cluster /\ new.gen = work.obj.gen
        /\ new.observed = work.obj.observed /\ new.spec = work.obj.spec
    BY <1>b, <2>1 DEF Cluster
  <2> HIDE DEF new
  <2> QED BY <2>1, <2>2, WriteKeeps
<1>7. CASE RunCLICommandsIfAnnotated
  <2>1. pc # "idle" /\ ((Requeue /\ NotWritten) \/ UNCHANGED copies)
    BY <1>7 DEF RunCLICommandsIfAnnotated
  <2> QED BY <2>1, StoppedKeeps, CopiesKeptFrame DEF Requeue
<1>8. CASE \/ ReconcilePluginsConfigMap \/ AnnotatePluginsConfigMap
           \/ ReconcileServerConfigMap \/ AnnotateServerConfigMap
           \/ ReconcileStatefulSet \/ AnnotateStatefulSet \/ RestartStatefulSetIfNeeded
           \/ SetPluginsOnPod \/ FinishSetPlugins \/ RunEnableFeatureFlagsCommand
  BY <1>8, CopiesKeptFrame
     DEF ReconcilePluginsConfigMap, AnnotatePluginsConfigMap, ReconcileServerConfigMap,
         AnnotateServerConfigMap, ReconcileStatefulSet, AnnotateStatefulSet,
         RestartStatefulSetIfNeeded, SetPluginsOnPod, FinishSetPlugins,
         RunEnableFeatureFlagsCommand
<1>9. CASE RejectTLS \/ RejectScaleDown \/ CommandFails \/ RecordedCallFails \/ AnswerLost
  <2>1. pc # "idle" /\ pc' = "idle" /\ SetReconcileSuccess("False")
    BY <1>9 DEF RejectTLS, RejectScaleDown, CommandFails, RecordedCallFails, AnswerLost,
                Done, Requeue
  <2> QED BY <2>1, SetReconcileSuccessKeeps
<1>10. CASE CallFails \/ FinalStatusWriteFails \/ Crash
  BY <1>10, StoppedKeeps DEF CallFails, FinalStatusWriteFails, Crash, Done, Requeue
<1>11. CASE TogglePause
  <2>1. /\ [cr EXCEPT !.paused = ~@].gen = cr.gen
        /\ [cr EXCEPT !.paused = ~@].observed = cr.observed
        /\ [cr EXCEPT !.paused = ~@].spec = cr.spec
    BY <1>a DEF Cluster
  <2> QED BY <1>11, <1>a, <2>1, WorkType
          DEF TogglePause, UserWrites, CopiesKept, Copy, TypeOK
<1>12. CASE Resync \/ Tick \/ StatefulSetControllerSyncs
  BY <1>12, CopiesKeptFrame DEF Resync, Tick, StatefulSetControllerSyncs
<1>13. ASSUME NEW p \in Pods, PodStops(p) \/ PodStarts(p) PROVE CopiesKept
  BY <1>13, CopiesKeptFrame DEF PodStops, PodStarts
<1> QED
  BY <1>1, <1>2, <1>3, <1>4, <1>5, <1>6, <1>7, <1>8, <1>9, <1>10, <1>11, <1>12, <1>13
     DEF Next, ReconcileStep, Failure, KubernetesStep

LEMMA DefaultsKeepContent ==
    ASSUME NEW s \in SpecType PROVE Content([s EXCEPT !.defaulted = TRUE]) = Content(s)
BY DEF SpecType, Content

\* What filling in the defaults does to the copies: a write makes a new generation.
LEMMA DefaultsStep ==
    ASSUME TypeOK, LatestCopies, ReconcileOperatorDefaults
    PROVE  /\ pc # "idle" /\ pc' # "idle" /\ cache'.obj = cache.obj
           /\ work'.latest = work.latest /\ Content(spec') = Content(spec)
           /\ Content(cr'.spec) = Content(cr.spec) /\ cr'.observed = cr.observed
           /\ cr'.gen = cr.gen \/ cr'.gen = cr.gen + 1
           /\ cr' = cr \/ cr'.gen = cr.gen + 1
<1> DEFINE defaulted == [spec EXCEPT !.defaulted = TRUE]
           new == [work.obj EXCEPT !.spec = defaulted, !.gen = @ + 1]
           kept == [work EXCEPT !.obj.spec = defaulted]
<1>1. pc = "reconcileOperatorDefaults" /\ pc' = AfterDefaults(work.obj)
  BY DEF ReconcileOperatorDefaults, Goto
<1>2. work \in Copy /\ work.obj \in Cluster /\ spec \in SpecType /\ cache \in Copy
  BY <1>1, WorkType DEF TypeOK, CopiesTypeOK
<1>3. pc' # "idle"
  BY <1>1, AfterWorking DEF Working
<1>4. defaulted \in SpecType /\ Content(defaulted) = Content(spec)
  BY <1>2, DefaultsKeepContent DEF SpecType
<1> HIDE DEF defaulted
<1>5. /\ new.spec = defaulted /\ new.gen = work.obj.gen + 1
      /\ new.observed = work.obj.observed
  BY <1>2 DEF Cluster
<1>6. kept.obj.spec = defaulted /\ kept.latest = work.latest
  BY <1>2 DEF Cluster, Copy
<1>7. WriteCluster(new) \/ (NotWritten /\ work' = kept)
  BY DEF ReconcileOperatorDefaults, defaulted
<1> HIDE DEF new, kept
<1>8. CASE WriteCluster(new)
  <2>1. work.obj = cr /\ cr' = new /\ work'.obj = new /\ work'.latest = work.latest
    BY <1>1, <1>2, <1>8 DEF LatestCopies, WriteCluster, Copy
  <2>2. cache'.obj = cache.obj
    BY <1>2, <1>8 DEF WriteCluster, Copy
  <2> QED BY <1>1, <1>3, <1>4, <1>5, <2>1, <2>2 DEF spec
<1>9. CASE NotWritten /\ work' = kept
  BY <1>1, <1>3, <1>4, <1>6, <1>9 DEF NotWritten, spec
<1> QED BY <1>7, <1>8, <1>9

\* What the end of a reconcile does: it reports its own generation if it has the latest.
LEMMA FinishStep ==
    ASSUME TypeOK, LatestCopies, FinishReconcile
    PROVE  /\ pc = "finish" /\ pc' = "idle" /\ cache'.obj = cache.obj
           /\ \/ cr' = cr
              \/ /\ work.latest /\ work.obj = cr
                 /\ cr'.spec = cr.spec /\ cr'.gen = cr.gen /\ cr'.observed = cr.gen
<1> DEFINE new == [work.obj EXCEPT !.success = "True", !.observed = work.obj.gen]
<1>1. pc = "finish" /\ pc' = "idle" /\ TryWriteStatus(new)
  BY DEF FinishReconcile, Done
<1>2. work \in Copy /\ work.obj \in Cluster /\ cache \in Copy
  BY <1>1, WorkType DEF TypeOK, CopiesTypeOK
<1>3. new.spec = work.obj.spec /\ new.gen = work.obj.gen /\ new.observed = work.obj.gen
  BY <1>2 DEF Cluster
<1> HIDE DEF new
<1> QED BY <1>1, <1>2, <1>3 DEF TryWriteStatus, NotWritten, LatestCopies, Copy

\* What a user's edit does: it makes a new generation, and every copy outdated.
LEMMA EditStep ==
    ASSUME TypeOK, EditSpec
    PROVE  /\ pc' = pc /\ cache'.obj = cache.obj
           /\ cr'.gen = cr.gen + 1 /\ cr'.observed = cr.observed
           /\ pc # "idle" => work'.obj = work.obj /\ ~work'.latest
<1>1. PICK s \in SpecType : UserWrites([cr EXCEPT !.spec = s, !.gen = @ + 1])
  <2>1. PICK s \in Specs :
           UserWrites([cr EXCEPT !.spec = [s EXCEPT !.defaulted = cr.spec.defaulted],
                                 !.gen = @ + 1])
    BY DEF EditSpec
  <2>2. [s EXCEPT !.defaulted = cr.spec.defaulted] \in SpecType
    BY ConstantsAssumption DEF SpecType, TypeOK, CopiesTypeOK, Cluster
  <2> QED BY <2>1, <2>2
<1> DEFINE new == [cr EXCEPT !.spec = s, !.gen = @ + 1]
<1>2. new.gen = cr.gen + 1 /\ new.observed = cr.observed
  BY DEF TypeOK, CopiesTypeOK, Cluster
<1>3. UserWrites(new)
  BY <1>1
<1> HIDE DEF new
<1> QED BY <1>2, <1>3, WorkType DEF UserWrites, TypeOK, CopiesTypeOK, Copy

LEMMA StepSpecsAgree ==
    TypeOK /\ LatestCopies /\ ObservedExists /\ SpecsAgree /\ Next => SpecsAgree'
<1> SUFFICES ASSUME TypeOK, LatestCopies, ObservedExists, SpecsAgree, Next
             PROVE  SpecsAgree'
  OBVIOUS
<1>a. cr.gen \in Nat /\ cr.observed \in Nat /\ cr.observed <= cr.gen
  BY DEF TypeOK, CopiesTypeOK, Cluster, ObservedExists
<1>1. CASE CopiesKept
  BY <1>1 DEF SpecsAgree, CopiesKept, spec
<1>2. CASE StartReconcile
  BY <1>2 DEF StartReconcile, SpecsAgree, spec
<1>3. CASE ReconcileOperatorDefaults
  BY <1>a, <1>3, DefaultsStep DEF SpecsAgree
<1>4. CASE FinishReconcile
  BY <1>4, FinishStep DEF SpecsAgree, spec
<1>5. CASE EditSpec
  BY <1>a, <1>5, EditStep DEF SpecsAgree, spec
<1>6. CASE CacheCatchesUp
  BY <1>6 DEF CacheCatchesUp, SpecsAgree, LatestCopies, spec
<1> QED BY <1>1, <1>2, <1>3, <1>4, <1>5, <1>6, StepCopies

--------------------------------------------------------------------------------
(* The steps of a reconcile. ObservedMeansDeployed is not inductive: it does not say *)
(* what a reconcile that reaches its end has achieved, nor that one which starts     *)
(* after the generation is observed finds nothing to do.                             *)

FlagsDone == {"queueRebalance", "finish"}
SetDone == {"enableFeatureFlags"} \union FlagsDone
RestartDone == {"reconcileStatus", "runCLICommands", "setPlugins"} \union SetDone
StsDone == {"annotateStatefulSet", "restartStatefulSet"} \union RestartDone
ConfDone == {"annotateServerConf", "statefulSet"} \union StsDone
PluginsDone == {"annotatePlugins", "serverConfigMap"} \union ConfDone

BeforeChildren == {"idle", "reconcileOperatorDefaults", "addFinalizer",
                   "updateStatusConditions", "reconcileTLS"}

RestartAsked == serverCM.updatedAt # NoTime => sts.restartAt >= serverCM.updatedAt

\* What a reconcile that has come to this step has done with the children.
Progress ==
    /\ pc \in PluginsDone => pluginsCM.content = spec.plugins
    /\ pc \in ConfDone => serverCM.content = spec.conf
    /\ pc \in StsDone => sts.template = spec.template /\ sts.replicas = spec.replicas
    /\ pc \in RestartDone => RestartAsked
    /\ pc \in SetDone => pluginsCM.updatedAt = NoTime
    /\ pc \in FlagsDone => ~sts.created

\* A reconcile of an observed generation leaves out the steps that would change a child.
Quiet ==
    cr.observed = cr.gen =>
        pc \notin {"pluginsConfigMap", "annotatePlugins", "serverConfigMap",
                   "annotateServerConf", "annotateStatefulSet", "setPlugins",
                   "enableFeatureFlags"}

ConfStampPast == serverCM.updatedAt <= now

DeployInv == ConfStampPast /\ Progress /\ Quiet /\ ObservedMeansDeployed

\* The generation that is observed after the step was observed before.
ObservedKept == cr'.observed = cr'.gen => cr.observed = cr.gen /\ cr'.spec = cr.spec

LEMMA DeployFrame ==
    ASSUME TypeOK, DeployInv, UNCHANGED <<children, pc>>, now' \in Nat, now' >= now,
           pc # "idle" => spec' = spec, ObservedKept
    PROVE  DeployInv'
<1>1. UNCHANGED <<pluginsCM, serverCM, sts>> /\ serverCM.updatedAt \in Nat /\ now \in Nat
  BY DEF children, TypeOK, ChildrenTypeOK, ControlTypeOK
<1>2. ConfStampPast' /\ (RestartAsked' <=> RestartAsked)
  BY <1>1 DEF DeployInv, ConfStampPast, RestartAsked
<1>4. Progress'
  BY <1>1, <1>2
     DEF DeployInv, Progress, PluginsDone, ConfDone, StsDone, RestartDone, SetDone, FlagsDone
<1>5. Quiet' /\ ObservedMeansDeployed'
  BY <1>1 DEF DeployInv, Quiet, ObservedMeansDeployed, ObservedKept
<1> QED BY <1>2, <1>4, <1>5 DEF DeployInv

LEMMA DeployAtStart ==
    ASSUME DeployInv, UNCHANGED <<children, now>>, pc' \in BeforeChildren, ObservedKept
    PROVE  DeployInv'
<1>1. ConfStampPast' /\ Quiet' /\ ObservedMeansDeployed'
  BY DEF DeployInv, ConfStampPast, Quiet, ObservedMeansDeployed, ObservedKept, children,
         BeforeChildren
<1>2. Progress'
  BY DEF Progress, PluginsDone, ConfDone, StsDone, RestartDone, SetDone, FlagsDone,
         BeforeChildren
<1> QED BY <1>1, <1>2 DEF DeployInv

\* Where a reconcile goes from the mark on: to the first child that is not as specified.
LEMMA AfterMarkSteps ==
    /\ AfterPlugins \in {"statefulSet", "serverConfigMap"}
    /\ AfterPlugins = "statefulSet" <=> serverCM.content = spec.conf
    /\ AfterMark \in {"statefulSet", "serverConfigMap", "pluginsConfigMap"}
    /\ AfterMark # "pluginsConfigMap" => pluginsCM.content = spec.plugins
    /\ AfterMark = "statefulSet" => serverCM.content = spec.conf
    /\ pluginsCM.content = spec.plugins /\ serverCM.content = spec.conf
         => AfterMark = "statefulSet"
BY DEF AfterPlugins, AfterMark

\* Where it goes after the ready check: past the commands that are not outstanding.
LEMMA AfterReadySteps ==
    /\ AfterFeatureFlags \in FlagsDone
    /\ AfterSetPlugins \in SetDone
    /\ AfterSetPlugins \in FlagsDone <=> ~sts.created
    /\ AfterReadyCheck = "setPlugins" <=> pluginsCM.updatedAt # NoTime
    /\ AfterReadyCheck # "setPlugins" => AfterReadyCheck = AfterSetPlugins
BY DEF AfterFeatureFlags, AfterSetPlugins, AfterReadyCheck, SetDone, FlagsDone

\* Once a generation is observed, a reconcile's copy is of the content that is there.
LEMMA ObservedSpec ==
    ASSUME TypeOK, SpecsAgree, DeployInv, cr.observed = cr.gen, pc # "idle"
    PROVE  /\ serverCM.content = spec.conf /\ pluginsCM.content = spec.plugins
           /\ sts.template = spec.template /\ sts.replicas = spec.replicas
           /\ Exists
<1>1. Content(spec) = Content(cr.spec)
  BY DEF SpecsAgree
<1>2. /\ spec.conf = cr.spec.conf /\ spec.plugins = cr.spec.plugins
      /\ spec.template = cr.spec.template /\ spec.replicas = cr.spec.replicas
  BY <1>1 DEF Content
<1>3. spec.template # None
  BY WorkType, ConstantsAssumption DEF TypeOK, SpecType
<1> QED BY <1>2, <1>3 DEF DeployInv, ObservedMeansDeployed, Exists

LEMMA StepDeployInv ==
    /\ TypeOK /\ LatestCopies /\ ObservedExists /\ SpecsAgree /\ RestartInv /\ DeployInv
    /\ Next
    => DeployInv'
<1> SUFFICES ASSUME TypeOK, LatestCopies, ObservedExists, SpecsAgree, RestartInv, DeployInv,
                    Next
             PROVE  DeployInv'
  OBVIOUS
<1>a. /\ now \in Nat /\ sts.restartAt \in Nat /\ serverCM.updatedAt \in Nat
      /\ cr.gen \in Nat /\ cr.observed <= cr.gen /\ sts.restartAt <= now
  BY DEF TypeOK, ControlTypeOK, ChildrenTypeOK, CopiesTypeOK, Cluster, ObservedExists,
         RestartInv, StampsOrdered
<1>b. CopiesKept => ObservedKept /\ (pc' # "idle" => spec' = spec)
  BY DEF CopiesKept, ObservedKept, spec
<1>c. UNCHANGED copies => ObservedKept /\ spec' = spec /\ cr' = cr
  BY DEF copies, ObservedKept, spec
<1>d. cr.observed = cr.gen /\ pc # "idle" =>
        /\ serverCM.content = spec.conf /\ pluginsCM.content = spec.plugins
        /\ sts.template = spec.template /\ sts.replicas = spec.replicas /\ Exists
        /\ RestartAsked /\ pluginsCM.updatedAt = NoTime /\ ~sts.created
  BY ObservedSpec DEF DeployInv, ObservedMeansDeployed, RestartAsked
<1>1. CASE StartReconcile
  <2>1. /\ UNCHANGED <<children, now>> /\ pc' = AfterGet(cache.obj) /\ ObservedKept
    BY <1>1 DEF StartReconcile, ObservedKept
  <2>2. pc' \in BeforeChildren
    BY <2>1 DEF AfterGet, AfterDefaults, BeforeChildren
  <2> QED BY <2>1, <2>2, DeployAtStart
<1>2. CASE ReconcileOperatorDefaults
  <2>1. UNCHANGED <<children, now>> /\ pc' = AfterDefaults(work.obj)
    BY <1>2 DEF ReconcileOperatorDefaults, Goto
  <2>2. pc' \in BeforeChildren
    BY <2>1 DEF AfterDefaults, BeforeChildren
  <2>3. ObservedKept
    BY <1>2, <1>a, DefaultsStep DEF ObservedKept
  <2> QED BY <2>1, <2>2, <2>3, DeployAtStart
<1>3. CASE FinishReconcile
  <2>1. UNCHANGED <<children, now, pluginsCM, serverCM, sts>> /\ pc' = "idle" /\ pc = "finish"
    BY <1>3 DEF FinishReconcile, Done, children
  <2>2. CASE cr' = cr
    BY <2>1, <2>2, DeployAtStart DEF ObservedKept, BeforeChildren
  <2>3. CASE cr' # cr
    <3>1. cr'.spec = spec
      BY <1>3, <2>3, FinishStep DEF spec
    <3>2. /\ serverCM.content = spec.conf /\ pluginsCM.content = spec.plugins
          /\ sts.template = spec.template /\ sts.replicas = spec.replicas
          /\ RestartAsked /\ pluginsCM.updatedAt = NoTime /\ ~sts.created
      BY <2>1 DEF DeployInv, Progress, PluginsDone, ConfDone, StsDone, RestartDone,
                  SetDone, FlagsDone
    <3>3. ObservedMeansDeployed'
      BY <2>1, <3>1, <3>2 DEF ObservedMeansDeployed, RestartAsked
    <3> QED BY <2>1, <3>3
            DEF DeployInv, ConfStampPast, Quiet, Progress, PluginsDone, ConfDone, StsDone,
                RestartDone, SetDone, FlagsDone
  <2> QED BY <2>2, <2>3
<1>4. CASE EditSpec
  <2>1. UNCHANGED <<children, now, pc>>
    BY <1>4 DEF EditSpec, UserWrites
  <2>2. ObservedKept /\ (pc # "idle" => spec' = spec)
    BY <1>4, <1>a, EditStep DEF ObservedKept, spec
  <2> QED BY <1>a, <2>1, <2>2, DeployFrame
<1>5. CASE CacheCatchesUp
  <2>1. UNCHANGED <<children, now, pc>> /\ ObservedKept /\ spec' = spec
    BY <1>5 DEF CacheCatchesUp, ObservedKept, spec
  <2> QED BY <1>a, <2>1, DeployFrame
<1> SUFFICES ASSUME CopiesKept PROVE DeployInv'
  BY <1>1, <1>2, <1>3, <1>4, <1>5, StepCopies
<1>6. CASE \/ SkipPausedCluster \/ AddFinalizerIfNeeded \/ UpdateStatusConditions
           \/ RejectTLS \/ RejectScaleDown \/ CommandFails
           \/ CallFails \/ RecordedCallFails \/ FinalStatusWriteFails \/ Crash
  <2>1. UNCHANGED <<children, now>>
    BY <1>6 DEF SkipPausedCluster, AddFinalizerIfNeeded, UpdateStatusConditions, RejectTLS,
                RejectScaleDown, CommandFails, CallFails, RecordedCallFails,
                FinalStatusWriteFails, Crash
  <2>2. pc' \in {"idle", "updateStatusConditions", "reconcileTLS"}
    BY <1>6 DEF SkipPausedCluster, AddFinalizerIfNeeded, UpdateStatusConditions, RejectTLS,
                RejectScaleDown, CommandFails, CallFails, RecordedCallFails,
                FinalStatusWriteFails, Crash, Done, Requeue, Goto
  <2> QED BY <1>b, <2>1, <2>2, DeployAtStart DEF BeforeChildren
<1>7. CASE \/ SetPluginsOnPod \/ TogglePause \/ Resync \/ Tick \/ KubernetesStep
  <2>1. UNCHANGED <<children, pc>> /\ now' \in Nat /\ now' >= now
    BY <1>7, <1>a DEF SetPluginsOnPod, TogglePause, UserWrites, Resync, Tick, KubernetesStep,
                      StatefulSetControllerSyncs, PodStops, PodStarts
  <2> QED BY <1>b, <2>1, DeployFrame
<1>8. CASE MarkForQueueRebalance
  <2>1. UNCHANGED <<pluginsCM, serverCM, sts, now, children>> /\ pc # "idle"
    BY <1>8 DEF MarkForQueueRebalance, children
  <2>2. pc' = "idle" \/ pc' = AfterMark
    BY <1>8 DEF MarkForQueueRebalance, Requeue, Goto
  <2>3. CASE pc' = "idle"
    BY <1>b, <2>1, <2>3, DeployAtStart DEF BeforeChildren
  <2>4. CASE pc' = AfterMark
    <3>1. pc' # "idle" /\ spec' = spec
      BY <1>b, <2>4, AfterMarkSteps
    <3>2. Progress'
      BY <2>1, <2>4, <3>1, AfterMarkSteps
         DEF Progress, PluginsDone, ConfDone, StsDone, RestartDone, SetDone, FlagsDone
    <3>3. Quiet'
      BY <1>b, <1>d, <2>1, <2>4, AfterMarkSteps DEF Quiet, ObservedKept
    <3> QED BY <1>b, <2>1, <3>2, <3>3
            DEF DeployInv, ConfStampPast, ObservedMeansDeployed, ObservedKept
  <2> QED BY <2>2, <2>3, <2>4
<1>9. CASE ReconcilePluginsConfigMap
  <2>1. /\ UNCHANGED <<copies, serverCM, sts, now>> /\ pc = "pluginsConfigMap"
        /\ pluginsCM'.content = spec.plugins /\ pluginsCM'.updatedAt = pluginsCM.updatedAt
        /\ pc' \in {AfterPlugins, "annotatePlugins"}
    BY <1>9 DEF ReconcilePluginsConfigMap, GotoAfterWrite, TypeOK, ChildrenTypeOK
  <2>2. cr.observed # cr.gen
    BY <2>1 DEF DeployInv, Quiet
  <2>3. Progress'
    BY <1>c, <2>1, AfterMarkSteps
       DEF Progress, PluginsDone, ConfDone, StsDone, RestartDone, SetDone, FlagsDone
  <2> QED BY <1>c, <2>1, <2>2, <2>3
          DEF DeployInv, ConfStampPast, Quiet, ObservedMeansDeployed
<1>10. CASE AnnotatePluginsConfigMap
  <2>1. /\ UNCHANGED <<copies, serverCM, sts, now>> /\ pc = "annotatePlugins"
        /\ pluginsCM'.content = pluginsCM.content /\ pc' = AfterPlugins
    BY <1>10 DEF AnnotatePluginsConfigMap, GotoAfterWrite, TypeOK, ChildrenTypeOK
  <2>2. cr.observed # cr.gen /\ pluginsCM.content = spec.plugins
    BY <2>1 DEF DeployInv, Quiet, Progress, PluginsDone
  <2>3. Progress'
    BY <1>c, <2>1, <2>2, AfterMarkSteps
       DEF Progress, PluginsDone, ConfDone, StsDone, RestartDone, SetDone, FlagsDone
  <2> QED BY <1>c, <2>1, <2>2, <2>3
          DEF DeployInv, ConfStampPast, Quiet, ObservedMeansDeployed
<1>11. CASE ReconcileServerConfigMap
  <2>1. /\ UNCHANGED <<copies, pluginsCM, sts, now>> /\ pc = "serverConfigMap"
        /\ serverCM'.content = spec.conf /\ serverCM'.updatedAt = serverCM.updatedAt
        /\ pc' \in {"statefulSet", "annotateServerConf"}
    BY <1>11 DEF ReconcileServerConfigMap, GotoAfterWrite, TypeOK, ChildrenTypeOK
  <2>2. cr.observed # cr.gen /\ pluginsCM.content = spec.plugins
    BY <2>1 DEF DeployInv, Quiet, Progress, PluginsDone
  <2>3. Progress'
    BY <1>c, <2>1, <2>2
       DEF Progress, PluginsDone, ConfDone, StsDone, RestartDone, SetDone, FlagsDone
  <2> QED BY <1>c, <2>1, <2>2, <2>3
          DEF DeployInv, ConfStampPast, Quiet, ObservedMeansDeployed
<1>12. CASE AnnotateServerConfigMap
  <2>1. /\ UNCHANGED <<copies, pluginsCM, sts, now>> /\ pc = "annotateServerConf"
        /\ serverCM'.content = serverCM.content /\ serverCM'.updatedAt = now
        /\ pc' = "statefulSet"
    BY <1>12 DEF AnnotateServerConfigMap, GotoAfterWrite, TypeOK, ChildrenTypeOK
  <2>2. /\ cr.observed # cr.gen
        /\ pluginsCM.content = spec.plugins /\ serverCM.content = spec.conf
    BY <2>1 DEF DeployInv, Quiet, Progress, PluginsDone, ConfDone
  <2>3. Progress'
    BY <1>c, <2>1, <2>2
       DEF Progress, PluginsDone, ConfDone, StsDone, RestartDone, SetDone, FlagsDone
  <2>4. ConfStampPast'
    BY <1>a, <2>1 DEF ConfStampPast
  <2> QED BY <1>c, <2>1, <2>2, <2>3, <2>4 DEF DeployInv, Quiet, ObservedMeansDeployed
<1>13. CASE ReconcileStatefulSet
  <2>1. /\ UNCHANGED <<copies, pluginsCM, serverCM, now>> /\ pc = "statefulSet"
        /\ sts'.template = spec.template /\ sts'.replicas = spec.replicas
        /\ sts'.restartAt = sts.restartAt /\ sts'.created = sts.created
        /\ pc' \in {"annotateStatefulSet", "restartStatefulSet"}
        /\ Exists => pc' = "restartStatefulSet"
    BY <1>13 DEF ReconcileStatefulSet, desiredSts, GotoAfterWrite, Goto,
                 TypeOK, ChildrenTypeOK
  <2>2. pluginsCM.content = spec.plugins /\ serverCM.content = spec.conf
    BY <2>1 DEF DeployInv, Progress, PluginsDone, ConfDone
  <2>3. Progress'
    BY <1>c, <2>1, <2>2
       DEF Progress, PluginsDone, ConfDone, StsDone, RestartDone, SetDone, FlagsDone
  <2>4. Quiet'
    BY <1>c, <1>d, <2>1 DEF Quiet
  <2>5. ObservedMeansDeployed'
    BY <1>c, <1>d, <2>1 DEF DeployInv, ObservedMeansDeployed
  <2> QED BY <2>1, <2>3, <2>4, <2>5 DEF DeployInv, ConfStampPast
<1>14. CASE AnnotateStatefulSet
  <2>1. /\ UNCHANGED <<copies, pluginsCM, serverCM, now>> /\ pc = "annotateStatefulSet"
        /\ sts'.template = sts.template /\ sts'.replicas = sts.replicas
        /\ pc' = "restartStatefulSet"
    BY <1>14 DEF AnnotateStatefulSet, GotoAfterWrite, TypeOK, ChildrenTypeOK
  <2>2. /\ cr.observed # cr.gen
        /\ pluginsCM.content = spec.plugins /\ serverCM.content = spec.conf
        /\ sts.template = spec.template /\ sts.replicas = spec.replicas
    BY <2>1 DEF DeployInv, Quiet, Progress, PluginsDone, ConfDone, StsDone
  <2>3. Progress'
    BY <1>c, <2>1, <2>2
       DEF Progress, PluginsDone, ConfDone, StsDone, RestartDone, SetDone, FlagsDone
  <2> QED BY <1>c, <2>1, <2>2, <2>3
          DEF DeployInv, ConfStampPast, Quiet, ObservedMeansDeployed
<1>15. CASE RestartStatefulSetIfNeeded
  <2>1. /\ UNCHANGED <<copies, pluginsCM, serverCM, now>> /\ pc = "restartStatefulSet"
        /\ sts'.template = sts.template /\ sts'.replicas = sts.replicas
        /\ sts'.created = sts.created
        /\ pc' = AfterStatefulSet(work.obj)
        /\ IF restartNeeded /\ sts.restartAt # now THEN sts'.restartAt = now
           ELSE sts'.restartAt = sts.restartAt
    BY <1>15 DEF RestartStatefulSetIfNeeded, Goto, GotoAfterWrite, TypeOK, ChildrenTypeOK
  <2>2. /\ pluginsCM.content = spec.plugins /\ serverCM.content = spec.conf
        /\ sts.template = spec.template /\ sts.replicas = spec.replicas
    BY <2>1 DEF DeployInv, Progress, PluginsDone, ConfDone, StsDone
  <2>3. pc' \in {"reconcileStatus", "runCLICommands"}
    BY <2>1 DEF AfterStatefulSet
  <2>4. RestartAsked'
    BY <1>a, <2>1 DEF RestartAsked, restartNeeded, RestartedAfter, DeployInv, ConfStampPast
  <2>5. Progress'
    BY <1>c, <2>1, <2>2, <2>3, <2>4
       DEF Progress, PluginsDone, ConfDone, StsDone, RestartDone, SetDone, FlagsDone
  <2>6. ObservedMeansDeployed'
    BY <1>c, <2>1, <2>4 DEF DeployInv, ObservedMeansDeployed, RestartAsked
  <2> QED BY <2>1, <2>3, <2>5, <2>6 DEF DeployInv, ConfStampPast, Quiet
<1>16. CASE ReconcileStatus \/ RunQueueRebalanceCommand
  <2>1. /\ UNCHANGED <<children, pluginsCM, serverCM, sts, now>> /\ pc # "idle"
        /\ \/ pc' = "idle"
           \/ pc = "reconcileStatus" /\ pc' = "runCLICommands"
           \/ pc = "queueRebalance" /\ pc' = "finish"
    BY <1>16 DEF ReconcileStatus, RunQueueRebalanceCommand, Requeue, Goto, children
  <2>2. CASE pc' = "idle"
    BY <1>b, <2>1, <2>2, DeployAtStart DEF BeforeChildren
  <2>3. CASE pc' # "idle"
    <3>1. Progress' /\ Quiet'
      BY <1>b, <2>1, <2>3
         DEF DeployInv, Progress, RestartAsked, Quiet, PluginsDone, ConfDone, StsDone,
             RestartDone, SetDone, FlagsDone
    <3> QED BY <1>b, <2>1, <3>1
            DEF DeployInv, ConfStampPast, ObservedMeansDeployed, ObservedKept
  <2> QED BY <2>2, <2>3
<1>17. CASE RunCLICommandsIfAnnotated
  <2>1. /\ UNCHANGED <<children, pluginsCM, serverCM, sts, now>> /\ pc = "runCLICommands"
        /\ pc' = "idle" \/ (pc' = AfterReadyCheck /\ UNCHANGED copies)
    BY <1>17 DEF RunCLICommandsIfAnnotated, Requeue, Goto, children
  <2>2. CASE pc' = "idle"
    BY <1>b, <2>1, <2>2, DeployAtStart DEF BeforeChildren
  <2>3. CASE pc' = AfterReadyCheck /\ UNCHANGED copies
    <3>1. pc' \in {"setPlugins"} \union SetDone
      BY <2>3, AfterReadySteps
    <3>2. /\ pc' \in SetDone => pluginsCM.updatedAt = NoTime
          /\ pc' \in FlagsDone => ~sts.created
      BY <2>3, AfterReadySteps DEF SetDone, FlagsDone
    <3>3. pc' = "enableFeatureFlags" => sts.created
      BY <2>3, AfterReadySteps DEF SetDone, FlagsDone
    <3>4. Progress'
      BY <1>c, <2>1, <2>3, <3>1, <3>2
         DEF DeployInv, Progress, RestartAsked, PluginsDone, ConfDone, StsDone,
             RestartDone, SetDone, FlagsDone
    <3>5. Quiet'
      BY <1>c, <1>d, <2>1, <2>3, <3>1, <3>3, AfterReadySteps DEF Quiet, SetDone, FlagsDone
    <3> QED BY <1>b, <2>1, <3>4, <3>5
            DEF DeployInv, ConfStampPast, ObservedMeansDeployed, ObservedKept
  <2> QED BY <2>1, <2>2, <2>3
<1>18. CASE FinishSetPlugins
  <2>1. /\ UNCHANGED <<copies, serverCM, sts, now>> /\ pc = "setPlugins"
        /\ pluginsCM'.content = pluginsCM.content /\ pluginsCM'.updatedAt = NoTime
        /\ pc' = AfterSetPlugins
    BY <1>18 DEF FinishSetPlugins, TypeOK, ChildrenTypeOK
  <2>2. cr.observed # cr.gen
    BY <2>1 DEF DeployInv, Quiet
  <2>3. Progress'
    BY <1>c, <2>1, AfterReadySteps
       DEF DeployInv, Progress, RestartAsked, PluginsDone, ConfDone, StsDone, RestartDone,
           SetDone, FlagsDone
  <2> QED BY <1>c, <2>1, <2>2, <2>3
          DEF DeployInv, ConfStampPast, Quiet, ObservedMeansDeployed
<1>19. CASE RunEnableFeatureFlagsCommand
  <2>1. /\ UNCHANGED <<copies, pluginsCM, serverCM, now>> /\ pc = "enableFeatureFlags"
        /\ sts'.template = sts.template /\ sts'.replicas = sts.replicas
        /\ sts'.restartAt = sts.restartAt /\ sts'.created = FALSE
        /\ pc' = AfterFeatureFlags
    BY <1>19 DEF RunEnableFeatureFlagsCommand, GotoAfterWrite, TypeOK, ChildrenTypeOK
  <2>2. cr.observed # cr.gen
    BY <2>1 DEF DeployInv, Quiet
  <2>3. Progress'
    BY <1>c, <2>1, AfterReadySteps
       DEF DeployInv, Progress, RestartAsked, PluginsDone, ConfDone, StsDone, RestartDone,
           SetDone, FlagsDone
  <2> QED BY <1>c, <2>1, <2>2, <2>3
          DEF DeployInv, ConfStampPast, Quiet, ObservedMeansDeployed
<1>20. CASE AnswerLost
  <2>1. pc' = "idle" /\ serverCM'.updatedAt = serverCM.updatedAt /\ now' = now
    BY <1>20 DEF AnswerLost, Requeue, TypeOK, ChildrenTypeOK
  <2>2. pc # "idle" /\ cr.observed # cr.gen
    BY <1>20, <1>d DEF AnswerLost, DeployInv, Quiet
  <2>3. ObservedMeansDeployed'
    BY <1>b, <2>2 DEF ObservedMeansDeployed, ObservedKept
  <2> QED BY <2>1, <2>3
          DEF DeployInv, ConfStampPast, Quiet, Progress, PluginsDone, ConfDone, StsDone,
              RestartDone, SetDone, FlagsDone
<1> QED
  BY <1>1, <1>2, <1>3, <1>4, <1>5, <1>6, <1>7, <1>8, <1>9, <1>10, <1>11, <1>12, <1>13,
     <1>14, <1>15, <1>16, <1>17, <1>18, <1>19, <1>20
     DEF Next, ReconcileStep, Failure

\* What the theorems below rest on, as one inductive invariant.
ObservedInv ==
    /\ TypeOK /\ LatestCopies /\ ObservedExists /\ SpecsAgree /\ RestartInv /\ DeployInv

LEMMA InitObservedInv == Init => ObservedInv
<1> SUFFICES ASSUME Init PROVE ObservedInv
  OBVIOUS
<1>1. cr.gen = 1 /\ cr.observed = 0 /\ cache.obj = cr /\ pc = "idle" /\ now = 1
  BY DEF Init
<1>2. LatestCopies /\ ObservedExists /\ SpecsAgree
  BY <1>1 DEF LatestCopies, ObservedExists, SpecsAgree
<1>3. DeployInv
  BY <1>1 DEF Init, NoTime, DeployInv, ConfStampPast, Quiet, ObservedMeansDeployed, Progress,
              PluginsDone, ConfDone, StsDone, RestartDone, SetDone, FlagsDone
<1> QED BY <1>2, <1>3, InitTypeOK, InitRestartInv DEF ObservedInv

LEMMA StutterObservedInv ==
    ASSUME ObservedInv, TypeOK', UNCHANGED vars PROVE ObservedInv'
<1>1. LatestCopies' /\ ObservedExists' /\ SpecsAgree'
  BY DEF ObservedInv, vars, LatestCopies, ObservedExists, SpecsAgree, spec
<1>2. RestartInv'
  BY DEF ObservedInv, vars, RestartInv, ServerConfFirst, StampsOrdered, OutdatedPodsOwed,
         RestartOwed, Exists, restartNeeded, RestartedAfter
<1>3. UNCHANGED <<children, pc>> /\ now' \in Nat /\ now' >= now /\ spec' = spec /\ ObservedKept
  BY DEF ObservedInv, vars, children, TypeOK, ControlTypeOK, spec, ObservedKept
<1>4. DeployInv'
  BY <1>3, DeployFrame DEF ObservedInv
<1> QED BY <1>1, <1>2, <1>4 DEF ObservedInv

LEMMA StepObservedInv ==
    ASSUME ObservedInv, Next PROVE ObservedInv'
<1>1. TypeOK' /\ LatestCopies' /\ SpecsAgree' /\ RestartInv' /\ DeployInv'
  BY StepTypeOK, StepLatestCopies, StepSpecsAgree, StepRestartInv, StepDeployInv
     DEF ObservedInv
<1>2. ObservedExists'
  BY <1>1, StepGeneration
     DEF ObservedInv, TypeOK, CopiesTypeOK, Cluster, ObservedExists, GenerationStep
<1> QED BY <1>1, <1>2 DEF ObservedInv

LEMMA ObservedInvHolds == Spec => []ObservedInv
<1>1. ObservedInv /\ [Next]_vars => ObservedInv'
  <2>1. ASSUME ObservedInv, UNCHANGED vars PROVE TypeOK'
    BY <2>1, CopiesFrame, ChildrenFrame, NodesFrame
       DEF ObservedInv, vars, copies, children, nodes, TypeOK, ControlTypeOK
  <2> QED BY <2>1, StepObservedInv, StutterObservedInv
<1> QED BY <1>1, InitObservedInv, PTL DEF Spec

\* An observed generation is deployed, whatever edits, stale copies, conflicts, failing
\* calls and crashes came before: Reconcile's last lines report only what is there.
THEOREM ObservedMeansDeployedHolds == Spec => []ObservedMeansDeployed
<1>1. ObservedInv => ObservedMeansDeployed
  BY DEF ObservedInv, DeployInv
<1> QED BY <1>1, ObservedInvHolds, PTL

--------------------------------------------------------------------------------
(* The refinement. *)

\* What the abstract specification sees, before and after a step.
LEMMA DeclaredType ==
    LET S == [conf: Confs \union {None}, plugins: PluginSets \union {None},
              template: Templates \union {None}, replicas: 0..MaxReplicas]
        declared == [conf |-> cr.spec.conf, plugins |-> cr.spec.plugins,
                     template |-> cr.spec.template, replicas |-> cr.spec.replicas]
        actual == [conf |-> serverCM.content, plugins |-> pluginsCM.content,
                   template |-> sts.template, replicas |-> sts.replicas]
    IN  /\ TypeOK => declared \in S /\ actual \in S
        /\ TypeOK' => declared' \in S /\ actual' \in S
BY DEF TypeOK, CopiesTypeOK, ChildrenTypeOK, Cluster, SpecType

LEMMA InitDeclared == Init => Declared!Init
<1> SUFFICES ASSUME Init PROVE Declared!Init
  OBVIOUS
<1>1. cr.gen = 1 /\ cr.observed = 0
  BY DEF Init
<1> QED BY <1>1, InitTypeOK, DeclaredType DEF Declared!Init

\* A step that keeps both generations applies something, or nothing once the generation is
\* observed: what there is was, and still is, what that generation declares.
LEMMA ApplyOrStutter ==
    ASSUME TypeOK', ObservedMeansDeployed, ObservedMeansDeployed',
           cr'.gen = cr.gen, cr'.observed = cr.observed, cr'.spec = cr.spec
    PROVE  Declared!Apply \/ UNCHANGED Declared!vars
<1>1. CASE cr.observed = cr.gen
  <2>1. /\ serverCM'.content = serverCM.content /\ pluginsCM'.content = pluginsCM.content
        /\ sts'.template = sts.template /\ sts'.replicas = sts.replicas
    BY <1>1 DEF ObservedMeansDeployed
  <2> QED BY <2>1 DEF Declared!vars
<1>2. CASE cr.observed # cr.gen
  BY <1>2, DeclaredType DEF Declared!Apply
<1> QED BY <1>1, <1>2

LEMMA DeclareStep ==
    ASSUME TypeOK', cr'.gen = cr.gen + 1, cr'.observed = cr.observed, UNCHANGED children
    PROVE  Declared!Declare
BY DeclaredType DEF Declared!Declare, children

LEMMA StepDeclared ==
    ASSUME ObservedInv, ObservedInv', Next PROVE Declared!Next \/ UNCHANGED Declared!vars
<1>a. /\ TypeOK /\ TypeOK' /\ LatestCopies
      /\ ObservedMeansDeployed /\ ObservedMeansDeployed'
  BY DEF ObservedInv, DeployInv
<1>1. CASE CopiesKept
  BY <1>1, <1>a, ApplyOrStutter DEF CopiesKept, Declared!Next
<1>2. CASE StartReconcile \/ CacheCatchesUp
  BY <1>2, <1>a, ApplyOrStutter DEF StartReconcile, CacheCatchesUp, Declared!Next
<1>3. CASE ReconcileOperatorDefaults
  <2>1. UNCHANGED children
    BY <1>3 DEF ReconcileOperatorDefaults
  <2> QED BY <1>3, <1>a, <2>1, DefaultsStep, ApplyOrStutter, DeclareStep DEF Declared!Next
<1>4. CASE FinishReconcile
  <2>1. UNCHANGED <<serverCM, pluginsCM, sts>>
    BY <1>4 DEF FinishReconcile, children
  <2>2. CASE cr' = cr
    BY <1>a, <2>2, ApplyOrStutter DEF Declared!Next
  <2>3. CASE cr' # cr
    <3>1. cr'.spec = cr.spec /\ cr'.gen = cr.gen /\ cr'.observed = cr.gen
      BY <1>4, <1>a, <2>3, FinishStep
    <3>2. /\ serverCM.content = cr.spec.conf /\ pluginsCM.content = cr.spec.plugins
          /\ sts.template = cr.spec.template /\ sts.replicas = cr.spec.replicas
      BY <1>a, <2>1, <3>1 DEF ObservedMeansDeployed
    <3>3. Declared!Observe
      BY <2>1, <3>1, <3>2 DEF Declared!Observe
    <3> QED BY <3>3 DEF Declared!Next
  <2> QED BY <2>2, <2>3
<1>5. CASE EditSpec
  <2>1. UNCHANGED children
    BY <1>5 DEF EditSpec, UserWrites
  <2> QED BY <1>5, <1>a, <2>1, EditStep, DeclareStep DEF Declared!Next
<1> QED BY <1>a, <1>1, <1>2, <1>3, <1>4, <1>5, StepCopies

\* The reconcile loop implements the promise of a declarative resource: it observes only
\* what is deployed, and leaves an observed generation alone until the next edit.
THEOREM ImplementsDeclaredHolds == Spec => ImplementsDeclared
<1>1. ObservedInv /\ ObservedInv' /\ [Next]_vars => [Declared!Next]_(Declared!vars)
  <2>1. UNCHANGED vars => UNCHANGED Declared!vars
    BY DEF vars, Declared!vars
  <2> QED BY <2>1, StepDeclared
<1> QED
  BY <1>1, InitDeclared, ObservedInvHolds, PTL DEF Spec, ImplementsDeclared, Declared!Spec

--------------------------------------------------------------------------------
(* Plugins. NoLostPlugins is not inductive: it does not say that the loop over the pods *)
(* sets what the ConfigMap holds, nor that it has done so on the pods behind it when    *)
(* the annotation goes away.                                                            *)

\* There are no pods before there is a plugins ConfigMap for them to read.
PluginsFirst ==
    /\ Exists => pluginsCM.content # None
    /\ stsStatus.update # NoRevision => pluginsCM.content # None
    /\ \A p \in Pods : pods[p].up => pluginsCM.content # None /\ p < sts.replicas

\* The loop has set the plugins on the pods that it has passed.
SetBehind ==
    /\ pc # "setPlugins" => pod = 0
    /\ pc = "setPlugins" =>
         \A p \in Pods : p < pod /\ pods[p].up => pods[p].plugins = pluginsCM.content

PluginsInv == PluginsFirst /\ SetBehind /\ NoLostPlugins

LEMMA PluginsFrame ==
    ASSUME TypeOK, PluginsInv, UNCHANGED <<pluginsCM, stsStatus, pods>>,
           sts'.replicas \in Nat, sts'.replicas >= sts.replicas,
           Exists' => Exists \/ pluginsCM.content # None,
           lost \subseteq lost', pc = "annotatePlugins" => pc' = pc \/ "plugins" \in lost',
           pod' = pod \/ pod' = 0, pc' = pc \/ pc # "setPlugins" \/ pod' = 0
    PROVE  PluginsInv'
<1>1. sts.replicas \in Nat /\ pod \in Nat /\ Pods \subseteq Nat
  BY ConstantsAssumption DEF TypeOK, ChildrenTypeOK, ControlTypeOK, Pods
<1>2. PluginsFirst'
  BY <1>1 DEF PluginsInv, PluginsFirst
<1>3. SetBehind'
  <2>1. pc' = "setPlugins" /\ pod' # 0 => pc = "setPlugins" /\ pod' = pod
    BY DEF PluginsInv, SetBehind
  <2>2. pc' # "setPlugins" => pod' = 0
    BY DEF PluginsInv, SetBehind
  <2>3. \A p \in Pods : ~(p < 0)
    BY <1>1
  <2> QED BY <2>1, <2>2, <2>3 DEF PluginsInv, SetBehind
<1>4. NoLostPlugins'
  BY <1>1 DEF PluginsInv, PluginsFirst, NoLostPlugins
<1> QED BY <1>2, <1>3, <1>4 DEF PluginsInv

LEMMA StepPluginsInv ==
    ASSUME ObservedInv, ObservedInv', AbsentHasNoReplicas, PluginsInv, Next
    PROVE  PluginsInv'
<1>a. TypeOK /\ Progress /\ now >= 1 /\ Pods \subseteq Nat
  BY ConstantsAssumption DEF ObservedInv, DeployInv, RestartInv, StampsOrdered, Pods
<1>b. pc # "idle" => spec \in SpecType /\ spec.plugins # None /\ spec.template # None
  BY <1>a, WorkType, ConstantsAssumption DEF TypeOK, SpecType
<1>c. sts'.replicas \in Nat /\ sts'.replicas >= sts.replicas /\ (Exists => Exists')
  BY <1>a, StepReplicas, ConstantsAssumption
     DEF ReplicasStep, ObservedInv, TypeOK, ChildrenTypeOK
<1>d. sts.replicas \in Nat /\ pod \in Nat
  BY <1>a, ConstantsAssumption DEF TypeOK, ChildrenTypeOK, ControlTypeOK
<1>1. CASE \/ StartReconcile \/ SkipPausedCluster \/ ReconcileOperatorDefaults
           \/ AddFinalizerIfNeeded \/ UpdateStatusConditions \/ RejectTLS
           \/ MarkForQueueRebalance \/ ReconcileStatus \/ RejectScaleDown
           \/ RunCLICommandsIfAnnotated \/ RunQueueRebalanceCommand \/ CommandFails
           \/ FinishReconcile \/ RecordedCallFails \/ FinalStatusWriteFails
  <2>1. UNCHANGED <<pluginsCM, sts, stsStatus, pods, lost>>
    BY <1>1 DEF StartReconcile, SkipPausedCluster, ReconcileOperatorDefaults,
                AddFinalizerIfNeeded, UpdateStatusConditions, RejectTLS,
                MarkForQueueRebalance, ReconcileStatus, RejectScaleDown,
                RunCLICommandsIfAnnotated, RunQueueRebalanceCommand, CommandFails,
                FinishReconcile, RecordedCallFails, FinalStatusWriteFails,
                children, nodes, bounds
  <2>2. /\ pc # "annotatePlugins" /\ (pod' = pod \/ pod' = 0)
        /\ pc = "setPlugins" => pod' = 0
    BY <1>1 DEF StartReconcile, SkipPausedCluster, ReconcileOperatorDefaults,
                AddFinalizerIfNeeded, UpdateStatusConditions, RejectTLS,
                MarkForQueueRebalance, ReconcileStatus, RejectScaleDown,
                RunCLICommandsIfAnnotated, RunQueueRebalanceCommand, CommandFails,
                FinishReconcile, RecordedCallFails, FinalStatusWriteFails,
                Goto, Done, Requeue
  <2> QED BY <1>a, <1>c, <2>1, <2>2, PluginsFrame DEF Exists
<1>2. CASE \/ ReconcileServerConfigMap \/ AnnotateServerConfigMap \/ AnnotateStatefulSet
           \/ RestartStatefulSetIfNeeded \/ RunEnableFeatureFlagsCommand
  <2>1. /\ UNCHANGED <<pluginsCM, stsStatus, pods, pod, lost>>
        /\ pc # "annotatePlugins" /\ pc # "setPlugins"
    BY <1>2 DEF ReconcileServerConfigMap, AnnotateServerConfigMap, AnnotateStatefulSet,
                RestartStatefulSetIfNeeded, RunEnableFeatureFlagsCommand,
                Goto, GotoAfterWrite, nodes, bounds
  <2>2. sts'.template = sts.template
    BY <1>2, <1>a DEF ReconcileServerConfigMap, AnnotateServerConfigMap,
                AnnotateStatefulSet, RestartStatefulSetIfNeeded,
                RunEnableFeatureFlagsCommand, TypeOK, ChildrenTypeOK
  <2> QED BY <1>a, <1>c, <2>1, <2>2, PluginsFrame DEF Exists
<1>3. CASE ReconcileStatefulSet
  <2>1. /\ UNCHANGED <<pluginsCM, stsStatus, pods, pod, lost>> /\ pc = "statefulSet"
    BY <1>3 DEF ReconcileStatefulSet, Goto, GotoAfterWrite, nodes, bounds
  <2>2. pluginsCM.content # None
    BY <1>a, <1>b, <2>1 DEF Progress, PluginsDone, ConfDone
  <2> QED BY <1>a, <1>c, <2>1, <2>2, PluginsFrame
<1>4. CASE ReconcilePluginsConfigMap
  <2>1. /\ UNCHANGED <<sts, stsStatus, pods, pod, lost>> /\ pc = "pluginsConfigMap"
        /\ pluginsCM'.content # None
        /\ pluginsCM.content # None => pc' = "annotatePlugins"
        /\ pc' # "setPlugins"
    BY <1>4, <1>a, <1>b, AfterMarkSteps
       DEF ReconcilePluginsConfigMap, GotoAfterWrite, nodes, bounds, TypeOK, ChildrenTypeOK
  <2>2. PluginsFirst' /\ SetBehind'
    BY <2>1 DEF PluginsInv, PluginsFirst, SetBehind, Exists
  <2>3. NoLostPlugins'
    BY <2>1 DEF PluginsInv, PluginsFirst, NoLostPlugins
  <2> QED BY <2>2, <2>3 DEF PluginsInv
<1>5. CASE AnnotatePluginsConfigMap
  <2>1. /\ UNCHANGED <<sts, stsStatus, pods, pod, lost>> /\ pc = "annotatePlugins"
        /\ pluginsCM'.content = pluginsCM.content /\ pluginsCM'.updatedAt = now
        /\ pc' # "setPlugins"
    BY <1>5, <1>a, AfterMarkSteps
       DEF AnnotatePluginsConfigMap, GotoAfterWrite, nodes, bounds, TypeOK, ChildrenTypeOK
  <2>2. PluginsFirst' /\ SetBehind'
    BY <2>1 DEF PluginsInv, PluginsFirst, SetBehind, Exists
  <2>3. pluginsCM'.updatedAt # NoTime
    BY <1>a, <2>1 DEF TypeOK, ControlTypeOK, NoTime
  <2> QED BY <2>2, <2>3 DEF PluginsInv, NoLostPlugins
<1>6. CASE SetPluginsOnPod
  <2>1. /\ UNCHANGED <<pluginsCM, sts, stsStatus, lost, pc>>
        /\ pc = "setPlugins" /\ pod \in Pods /\ pod' = pod + 1
        /\ pods' = [pods EXCEPT ![pod].plugins = spec.plugins]
    BY <1>6 DEF SetPluginsOnPod, Running, children, bounds
  <2>2. spec.plugins = pluginsCM.content
    BY <1>a, <2>1 DEF Progress, PluginsDone, ConfDone, StsDone, RestartDone
  <2>3. /\ pods'[pod].up = pods[pod].up /\ pods'[pod].plugins = pluginsCM.content
        /\ \A p \in Pods : p # pod => pods'[p] = pods[p]
    BY <1>a, <2>1, <2>2 DEF TypeOK, NodesTypeOK
  <2>4. PluginsFirst' /\ NoLostPlugins'
    BY <2>1, <2>3 DEF PluginsInv, PluginsFirst, NoLostPlugins, Exists
  <2>5. \A p \in Pods : p < pod + 1 => p < pod \/ p = pod
    BY <1>a, <1>d
  <2>6. SetBehind'
    BY <2>1, <2>3, <2>5 DEF PluginsInv, SetBehind
  <2> QED BY <2>4, <2>6 DEF PluginsInv
<1>7. CASE FinishSetPlugins
  <2>1. /\ UNCHANGED <<sts, stsStatus, pods, lost>> /\ pc = "setPlugins"
        /\ pluginsCM'.content = pluginsCM.content /\ pod >= spec.replicas /\ pod' = 0
    BY <1>7, <1>a DEF FinishSetPlugins, nodes, bounds, TypeOK, ChildrenTypeOK
  <2>2. sts.replicas = spec.replicas
    BY <1>a, <2>1 DEF Progress, StsDone, RestartDone
  <2>3. \A p \in Pods : p < sts.replicas => p < pod
    BY <1>a, <1>d, <2>1, <2>2
  <2>4. PluginsFirst' /\ NoLostPlugins'
    BY <2>1, <2>3 DEF PluginsInv, PluginsFirst, SetBehind, NoLostPlugins, Exists
  <2>5. \A p \in Pods : ~(p < 0)
    BY <1>a
  <2> QED BY <2>1, <2>4, <2>5 DEF PluginsInv, SetBehind
<1>8. CASE CallFails \/ Crash
  <2>1. /\ UNCHANGED <<pluginsCM, sts, stsStatus, pods>>
        /\ lost' = lost \union MarkerAt(pc) /\ pod' = 0
    BY <1>8 DEF CallFails, Crash, Requeue, children, nodes
  <2>2. pc = "annotatePlugins" => "plugins" \in lost'
    BY <2>1 DEF MarkerAt
  <2> QED BY <1>a, <1>c, <2>1, <2>2, PluginsFrame DEF Exists
<1>9. CASE AnswerLost
  <2>1. /\ UNCHANGED <<stsStatus, pods>> /\ pc' = "idle" /\ pod' = 0 /\ lost \subseteq lost'
        /\ pc \in {"pluginsConfigMap", "serverConfigMap", "statefulSet"}
    BY <1>9 DEF AnswerLost, Requeue, nodes
  <2>2. CASE pc = "pluginsConfigMap"
    <3>1. /\ UNCHANGED sts /\ pluginsCM.content # None /\ pluginsCM'.content # None
          /\ "plugins" \in lost'
      BY <1>9, <1>a, <1>b, <2>2 DEF AnswerLost, TypeOK, ChildrenTypeOK
    <3> QED BY <2>1, <3>1 DEF PluginsInv, PluginsFirst, SetBehind, NoLostPlugins
  <2>3. CASE pc = "serverConfigMap"
    <3>1. UNCHANGED <<pluginsCM, sts>>
      BY <1>9, <2>3 DEF AnswerLost
    <3> QED BY <1>a, <1>c, <2>1, <2>3, <3>1, PluginsFrame DEF Exists
  <2>4. CASE pc = "statefulSet"
    <3>1. UNCHANGED pluginsCM
      BY <1>9, <2>4 DEF AnswerLost
    <3>2. pluginsCM.content # None
      BY <1>a, <1>b, <2>4 DEF Progress, PluginsDone, ConfDone
    <3> QED BY <1>a, <1>c, <2>1, <2>4, <3>1, <3>2, PluginsFrame
  <2> QED BY <2>1, <2>2, <2>3, <2>4
<1>10. CASE EditSpec \/ TogglePause \/ CacheCatchesUp \/ Resync \/ Tick
  <2>1. UNCHANGED <<pluginsCM, sts, stsStatus, pods, lost, pc, pod>>
    BY <1>10 DEF EditSpec, TogglePause, UserWrites, CacheCatchesUp, Resync, Tick,
                 children, nodes, bounds
  <2> QED BY <1>a, <1>c, <2>1, PluginsFrame DEF Exists
<1>11. CASE StatefulSetControllerSyncs
  <2>1. UNCHANGED <<pluginsCM, sts, pods, lost, pc, pod>> /\ Exists
    BY <1>11 DEF StatefulSetControllerSyncs, children, bounds
  <2> QED BY <2>1 DEF PluginsInv, PluginsFirst, SetBehind, NoLostPlugins, Exists
<1>12. ASSUME NEW p \in Pods, PodStops(p) \/ PodStarts(p) PROVE PluginsInv'
  <2>1. UNCHANGED <<pluginsCM, sts, stsStatus, lost, pc, pod>>
    BY <1>12 DEF PodStops, PodStarts, children, bounds
  <2>2. \A q \in Pods : q # p => pods'[q] = pods[q]
    BY <1>12, <1>a DEF PodStops, PodStarts, TypeOK, NodesTypeOK
  <2>3. \/ pods'[p].up = FALSE
        \/ /\ pods'[p].plugins = pluginsCM.content /\ p < sts.replicas
           /\ stsStatus.update # NoRevision
    BY <1>12, <1>a DEF PodStops, PodStarts, TypeOK, NodesTypeOK, Down
  <2> QED BY <2>1, <2>2, <2>3 DEF PluginsInv, PluginsFirst, SetBehind, NoLostPlugins, Exists
<1> QED
  BY <1>1, <1>2, <1>3, <1>4, <1>5, <1>6, <1>7, <1>8, <1>9, <1>10, <1>11, <1>12
     DEF Next, ReconcileStep, Failure, KubernetesStep

\* No running pod keeps outdated plugins unnoticed: a reconcile is about to annotate the
\* change or the annotation is there, until the loop has reached every pod.
THEOREM NoLostPluginsHolds == Spec => []NoLostPlugins
<1>1. Init => AbsentHasNoReplicas /\ PluginsInv
  BY DEF Init, AbsentHasNoReplicas, PluginsInv, PluginsFirst, SetBehind, NoLostPlugins,
         Exists, Down
<1>2. ObservedInv /\ ObservedInv' /\ AbsentHasNoReplicas /\ PluginsInv /\ [Next]_vars
      => AbsentHasNoReplicas' /\ PluginsInv'
  <2>1. PluginsInv /\ UNCHANGED vars => PluginsInv'
    BY DEF vars, PluginsInv, PluginsFirst, SetBehind, NoLostPlugins, Exists
  <2> QED BY <2>1, StepReplicas, StepPluginsInv DEF ObservedInv
<1>3. PluginsInv => NoLostPlugins
  BY DEF PluginsInv
<1> QED BY <1>1, <1>2, <1>3, ObservedInvHolds, PTL DEF Spec
=============================================================================
