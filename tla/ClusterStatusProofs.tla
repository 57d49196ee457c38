-------------------------- MODULE ClusterStatusProofs --------------------------
(***************************************************************************)
(* Theorems about ClusterStatus for all sets of specs, contents, templates *)
(* and edits, and every number of edits.                                   *)
(***************************************************************************)
EXTENDS ClusterStatus, TLAPS

(* Type correctness. *)

\* "latest" says that the informer shows what the API server holds; nothing is deleted.
Versions(object) ==
    /\ object.latest => object.seen = object.actual
    /\ object.seen # None => object.actual # None

AfterServerConf ==
    {"annotateServerConf", "statefulSet", "restartNeeded", "restartStatefulSet", "runCLICommands"}

\* The ConfigMap comes before the StatefulSet.
ChildrenExist ==
    /\ Versions(serverCM) /\ Versions(sts)
    /\ Actual(sts) # None => Actual(serverCM) # None
    /\ pc \in AfterServerConf => Actual(serverCM) # None

TypeInv == TypeOK /\ ChildrenExist

LEMMA WrittenTyped ==
    ASSUME NEW S, None \notin S, NEW o \in Object(S), Versions(o), NEW new \in S
    PROVE  /\ Written(o, new) \in Object(S) /\ Versions(Written(o, new))
           /\ Actual(Written(o, new)) = new /\ Seen(Written(o, new)) = Seen(o)
           /\ UpToDate(Written(o, new)) => UpToDate(o) /\ new = Actual(o)
<1>1. CASE new = o.actual
  BY <1>1 DEF Written, Object, Actual, Seen, UpToDate
<1>2. CASE new # o.actual
  <2>1. Written(o, new) = [o EXCEPT !.actual = new, !.latest = FALSE]
    BY <1>2 DEF Written
  <2>2. /\ Written(o, new) \in Object(S) /\ Written(o, new).actual = new
        /\ Written(o, new).seen = o.seen /\ Written(o, new).latest = FALSE
    BY <2>1 DEF Object
  <2> QED BY <2>2 DEF Versions, Actual, Seen, UpToDate
<1> QED BY <1>1, <1>2

LEMMA ShownTyped ==
    ASSUME NEW S, NEW o \in Object(S)
    PROVE  /\ Shown(o) \in Object(S) /\ Versions(Shown(o))
           /\ Actual(Shown(o)) = Actual(o) /\ Seen(Shown(o)) = Actual(o) /\ UpToDate(Shown(o))
BY DEF Shown, New, Object, Versions, Actual, Seen, UpToDate

LEMMA ObjectTyped ==
    ASSUME TypeOK
    PROVE  /\ Seen(serverCM) # None => Seen(serverCM) \in ConfigMap
           /\ Actual(serverCM) # None => Actual(serverCM) \in ConfigMap
           /\ Seen(sts) # None => Seen(sts) \in StatefulSet
           /\ Actual(sts) # None => Actual(sts) \in StatefulSet
BY DEF TypeOK, Object, Seen, Actual

LEMMA WorkTyped ==
    ASSUME TypeOK, pc # "idle"
    PROVE  /\ work \in [obj: Cluster, latest: BOOLEAN] /\ work.obj \in Cluster
           /\ work.obj.conf \in Confs /\ work.obj.template \in Templates /\ work.obj.gen \in Nat
BY DEF TypeOK, Cluster

LEMMA DesiredServerCMTyped ==
    ASSUME TypeOK, pc # "idle"
    PROVE  /\ desiredServerCM \in ConfigMap /\ desiredServerCM.content = work.obj.conf
           /\ Seen(serverCM) # None => desiredServerCM.updatedAt = Seen(serverCM).updatedAt
<1>1. work.obj.conf \in Confs
  BY WorkTyped
<1>2. CASE Seen(serverCM) = None
  BY <1>1, <1>2 DEF desiredServerCM, ConfigMap, NoTime
<1>3. CASE Seen(serverCM) # None
  BY <1>1, <1>3, ObjectTyped DEF desiredServerCM, ConfigMap
<1> QED BY <1>2, <1>3

LEMMA DesiredStsTyped ==
    ASSUME TypeOK, pc # "idle"
    PROVE  /\ desiredSts \in StatefulSet /\ desiredSts.template = work.obj.template
           /\ Seen(sts) # None => desiredSts.restartAt = Seen(sts).restartAt
           /\ Seen(sts) = None => desiredSts.restartAt = NoTime
<1>1. work.obj.template \in Templates
  BY WorkTyped
<1>2. CASE Seen(sts) = None
  BY <1>1, <1>2 DEF desiredSts, StatefulSet, NoTime
<1>3. CASE Seen(sts) # None
  BY <1>1, <1>3, ObjectTyped DEF desiredSts, StatefulSet
<1> QED BY <1>2, <1>3

\* The conditions that UpdateStatusConditions sets.
LEMMA ConditionsTyped ==
    ASSUME NEW o \in Cluster
    PROVE  /\ SetConditions(o) \in Cluster
           /\ SetConditions(o).template = o.template /\ SetConditions(o).conf = o.conf
           /\ SetConditions(o).gen = o.gen
           /\ SetConditions(o).ready = AllReplicasReadyCondition
           /\ SetConditions(o).noWarnings = NoWarningsCondition
<1> DEFINE r == AllReplicasReadyCondition
           a == ClusterAvailableCondition
           w == NoWarningsCondition
           s == IF o.success = "Unset" THEN "Unknown" ELSE o.success
<1>1. r \in Condition /\ a \in Condition /\ w \in Condition
  BY DEF AllReplicasReadyCondition, ClusterAvailableCondition, NoWarningsCondition, Condition, TrueIf
<1>2. s \in Condition \union {"Unset"}
  BY DEF Cluster, Condition
<1>3. SetConditions(o) = [o EXCEPT !.ready = r, !.available = a, !.noWarnings = w, !.success = s]
  BY DEF SetConditions
<1> HIDE DEF r, a, w, s
<1>4. /\ SetConditions(o) \in Cluster
      /\ SetConditions(o).template = o.template /\ SetConditions(o).conf = o.conf
      /\ SetConditions(o).gen = o.gen
      /\ SetConditions(o).ready = r /\ SetConditions(o).noWarnings = w
  BY <1>1, <1>2, <1>3 DEF Cluster
<1> QED BY <1>4 DEF r, w

LEMMA SuccessTyped ==
    ASSUME NEW o \in Cluster
    PROVE  /\ [o EXCEPT !.success = "False"] \in Cluster
           /\ [o EXCEPT !.success = "True", !.observed = o.gen] \in Cluster
BY DEF Cluster, Condition

\* What the steps of each kind keep: one that leaves the children alone, and one that
\* writes or shows one of them.
LEMMA ChildrenKept ==
    ASSUME TypeInv, UNCHANGED <<serverCM, sts>>,
           pc' \in AfterServerConf => pc \in AfterServerConf \/ Actual(serverCM) # None
    PROVE  ChildrenExist'
BY DEF TypeInv, ChildrenExist, Versions, Actual

LEMMA ServerCMWritten ==
    ASSUME TypeInv, NEW new \in ConfigMap, serverCM' = Written(serverCM, new), UNCHANGED sts
    PROVE  /\ serverCM' \in Object(ConfigMap) /\ ChildrenExist' /\ Actual(serverCM') = new
           /\ Seen(serverCM') = Seen(serverCM)
           /\ UpToDate(serverCM') => UpToDate(serverCM) /\ new = Actual(serverCM)
<1>1. serverCM \in Object(ConfigMap) /\ Versions(serverCM) /\ new # None
  BY NoneAssumption DEF TypeInv, TypeOK, ChildrenExist
<1>2. /\ serverCM' \in Object(ConfigMap) /\ Versions(serverCM') /\ Actual(serverCM') = new
      /\ Seen(serverCM') = Seen(serverCM)
      /\ UpToDate(serverCM') => UpToDate(serverCM) /\ new = Actual(serverCM)
  BY <1>1, WrittenTyped, NoneAssumption
<1>3. Versions(serverCM)' /\ Versions(sts)' /\ Actual(serverCM)' # None
  BY <1>1, <1>2 DEF TypeInv, ChildrenExist, Versions, Actual
<1> QED BY <1>2, <1>3 DEF ChildrenExist

LEMMA StsWritten ==
    ASSUME TypeInv, NEW new \in StatefulSet, sts' = Written(sts, new), UNCHANGED serverCM,
           Actual(serverCM) # None
    PROVE  /\ sts' \in Object(StatefulSet) /\ ChildrenExist' /\ Actual(sts') = new
           /\ Seen(sts') = Seen(sts)
           /\ UpToDate(sts') => UpToDate(sts) /\ new = Actual(sts)
<1>1. sts \in Object(StatefulSet) /\ Versions(sts)
  BY DEF TypeInv, TypeOK, ChildrenExist
<1>2. /\ sts' \in Object(StatefulSet) /\ Versions(sts') /\ Actual(sts') = new
      /\ Seen(sts') = Seen(sts)
      /\ UpToDate(sts') => UpToDate(sts) /\ new = Actual(sts)
  BY <1>1, WrittenTyped, NoneAssumption
<1>3. Versions(serverCM)' /\ Versions(sts)' /\ Actual(serverCM)' # None
  BY <1>2 DEF TypeInv, ChildrenExist, Versions, Actual
<1> QED BY <1>2, <1>3 DEF ChildrenExist

\* A reconcile that goes on.
LEMMA WentOnTyped ==
    ASSUME TypeOK, pc # "idle", pc' \in Steps \ {"idle"}, UNCHANGED <<cluster, work>>,
           serverCM' \in Object(ConfigMap), sts' \in Object(StatefulSet),
           UNCHANGED <<endpoints, tlsSecret, queued, pod, now, edits, lost>>
    PROVE  TypeOK'
BY DEF TypeOK

\* A reconcile that ends.
LEMMA EndedTyped ==
    ASSUME TypeInv, pc # "idle", pc' = "idle", work' = None, cluster' \in Cluster,
           queued' \in BOOLEAN, lost' \in BOOLEAN,
           UNCHANGED <<serverCM, sts, endpoints, tlsSecret, pod, now, edits>>
    PROVE  TypeInv'
<1>1. TypeOK'
  BY DEF TypeInv, TypeOK, Steps
<1>2. ChildrenExist'
  BY ChildrenKept DEF AfterServerConf
<1> QED BY <1>1, <1>2 DEF TypeInv

LEMMA FalseTyped ==
    ASSUME TypeInv, pc # "idle", SetReconcileSuccessFalse,
           UNCHANGED <<children, tlsSecret, pod, now, edits, lost>>
    PROVE  TypeInv'
<1>1. [work.obj EXCEPT !.success = "False"] \in Cluster
  BY WorkTyped, SuccessTyped DEF TypeInv
<1>2. /\ pc' = "idle" /\ work' = None /\ queued' = TRUE /\ cluster' \in Cluster
      /\ lost' \in BOOLEAN
  BY <1>1 DEF SetReconcileSuccessFalse, Requeue, TypeInv, TypeOK
<1> QED BY <1>2, EndedTyped DEF children

LEMMA RequeueTyped ==
    ASSUME TypeInv, pc # "idle", Requeue, lost' \in BOOLEAN,
           UNCHANGED <<cluster, children, tlsSecret, pod, now, edits>>
    PROVE  TypeInv'
<1>1. pc' = "idle" /\ work' = None /\ queued' = TRUE /\ cluster' \in Cluster
  BY DEF Requeue, TypeInv, TypeOK
<1> QED BY <1>1, EndedTyped DEF children

\* A step that is none of the reconciler's.
LEMMA OthersTyped ==
    ASSUME TypeOK, UNCHANGED <<pc, tlsSecret, edits, lost>>, queued' \in BOOLEAN,
           cluster' = cluster, work' = work, now' \in Nat,
           endpoints' \in {None, "address", "empty"},
           serverCM' \in Object(ConfigMap), sts' \in Object(StatefulSet),
           pod' \in [up: BOOLEAN, conf: Confs \cup {None}, rev: Revision]
    PROVE  TypeOK'
BY DEF TypeOK

LEMMA InitTyped == Init => TypeInv
<1> SUFFICES ASSUME Init PROVE TypeInv
  OBVIOUS
<1> DEFINE noRev == [template |-> None, restartAt |-> NoTime]
<1>0. work = None /\ pc = "idle" /\ queued = TRUE /\ now = 1 /\ edits = 0 /\ lost = FALSE
  BY DEF Init
<1>1. now \in Nat /\ edits \in 0..MaxEdits /\ noRev \in Revision
  BY <1>0, ConstantsAssumption DEF Revision, NoTime
<1>2. CASE InitNew
  <2>1. PICK s \in InitialSpecs :
          cluster = [gen |-> 1, conf |-> s.conf, template |-> s.template, observed |-> 0,
                     ready |-> "Unknown", available |-> "Unknown", noWarnings |-> "Unknown",
                     success |-> "Unset"]
    BY <1>2 DEF InitNew
  <2>2. s.conf \in Confs /\ s.template \in Templates
    BY ConstantsAssumption
  <2>3. cluster \in Cluster
    BY <2>1, <2>2 DEF Cluster, Condition
  <2>4. /\ serverCM = [seen |-> None, actual |-> None, latest |-> TRUE]
        /\ sts = [seen |-> None, actual |-> None, latest |-> TRUE]
        /\ endpoints = None /\ tlsSecret = None
        /\ pod = [up |-> FALSE, conf |-> None, rev |-> noRev]
    BY <1>2 DEF InitNew, New
  <2> HIDE DEF noRev
  <2>5. serverCM \in Object(ConfigMap) /\ sts \in Object(StatefulSet)
    BY <2>4 DEF Object
  <2>6. pod \in [up: BOOLEAN, conf: Confs \cup {None}, rev: Revision]
    BY <1>1, <2>4
  <2>7. TypeOK
    BY <1>0, <1>1, <2>3, <2>4, <2>5, <2>6 DEF TypeOK, Steps
  <2>8. ChildrenExist
    BY <1>0, <2>4 DEF ChildrenExist, Versions, Actual, AfterServerConf
  <2> QED BY <2>7, <2>8 DEF TypeInv
<1>3. CASE InitDeployed
  <2>1. PICK old \in DeployedSpecs, edit \in Edits :
        /\ cluster = [gen |-> 2, conf |-> edit[2].conf, template |-> edit[2].template, observed |-> 1,
                      ready |-> "True", available |-> "True", success |-> "True",
                      noWarnings |-> IF old.template \in Uneven THEN "False" ELSE "True"]
        /\ serverCM = New([content |-> old.conf, updatedAt |-> NoTime])
        /\ sts = New([template |-> old.template, restartAt |-> NoTime, ready |-> TRUE,
                      updating |-> FALSE])
        /\ endpoints = "address"
        /\ tlsSecret = IF old.template \in Secured THEN "complete" ELSE None
        /\ pod = [up |-> TRUE, conf |-> old.conf, rev |-> RevisionOf(Actual(sts))]
    BY <1>3 DEF InitDeployed
  <2>2. /\ edit[2].conf \in Confs /\ edit[2].template \in Templates
        /\ old.conf \in Confs /\ old.template \in Templates
    BY ConstantsAssumption
  <2>3. cluster \in Cluster
    <3> DEFINE w == IF old.template \in Uneven THEN "False" ELSE "True"
    <3>1. w \in Condition
      BY DEF Condition
    <3>2. cluster = [gen |-> 2, conf |-> edit[2].conf, template |-> edit[2].template,
                     observed |-> 1, ready |-> "True", available |-> "True",
                     success |-> "True", noWarnings |-> w]
      BY <2>1
    <3> HIDE DEF w
    <3> QED BY <2>2, <3>1, <3>2 DEF Cluster, Condition
  <2> DEFINE cm == [content |-> old.conf, updatedAt |-> NoTime]
             s == [template |-> old.template, restartAt |-> NoTime, ready |-> TRUE,
                   updating |-> FALSE]
  <2>4. cm \in ConfigMap /\ s \in StatefulSet /\ RevisionOf(s) \in Revision
    BY <2>2 DEF ConfigMap, StatefulSet, NoTime, RevisionOf, Revision
  <2>5. serverCM = [seen |-> cm, actual |-> cm, latest |-> TRUE]
        /\ sts = [seen |-> s, actual |-> s, latest |-> TRUE]
    BY <2>1 DEF New
  <2> HIDE DEF cm, s
  <2>6. /\ serverCM \in Object(ConfigMap) /\ sts \in Object(StatefulSet)
        /\ Versions(serverCM) /\ Versions(sts) /\ Actual(serverCM) # None /\ Actual(sts) = s
    BY <2>4, <2>5, NoneAssumption DEF Object, Versions, Actual
  <2>7. pod \in [up: BOOLEAN, conf: Confs \cup {None}, rev: Revision]
    BY <2>1, <2>2, <2>4, <2>6
  <2>8. endpoints \in {None, "address", "empty"} /\ tlsSecret \in {None, "incomplete", "complete"}
    BY <2>1
  <2>9. TypeOK
    BY <1>0, <1>1, <2>3, <2>6, <2>7, <2>8 DEF TypeOK, Steps
  <2>10. ChildrenExist
    BY <1>0, <2>6 DEF ChildrenExist
  <2> QED BY <2>9, <2>10 DEF TypeInv
<1> QED BY <1>2, <1>3 DEF Init

LEMMA NextTyped == TypeInv /\ [Next]_vars => TypeInv'
<1> SUFFICES ASSUME TypeInv, [Next]_vars PROVE TypeInv'
  OBVIOUS
<1>0. /\ TypeOK /\ ChildrenExist
      /\ serverCM \in Object(ConfigMap) /\ sts \in Object(StatefulSet)
      /\ queued \in BOOLEAN /\ lost \in BOOLEAN /\ now \in Nat
      /\ endpoints \in {None, "address", "empty"}
      /\ pod \in [up: BOOLEAN, conf: Confs \cup {None}, rev: Revision]
  BY DEF TypeInv, TypeOK
<1>1. CASE StartReconcile
  <2>1. [obj |-> cluster, latest |-> TRUE] \in [obj: Cluster, latest: BOOLEAN]
    BY <1>0 DEF TypeOK
  <2>2. TypeOK'
    BY <1>0, <1>1, <2>1 DEF StartReconcile, TypeOK, Steps, children
  <2>3. ChildrenExist'
    BY <1>1, ChildrenKept DEF StartReconcile, children, AfterServerConf
  <2> QED BY <2>2, <2>3 DEF TypeInv
<1>2. CASE UpdateStatusConditions
  <2> DEFINE new == SetConditions(work.obj)
  <2>1. /\ pc = "updateStatusConditions" /\ pc # "idle"
        /\ AfterConditions \in {"reconcileTLS", "serverConfigMap"}
        /\ UNCHANGED <<serverCM, sts, endpoints, tlsSecret, pod, now, edits, lost>>
    BY <1>2 DEF UpdateStatusConditions, AfterConditions, children
  <2>2. new \in Cluster /\ work \in [obj: Cluster, latest: BOOLEAN]
    BY <1>0, <2>1, WorkTyped, ConditionsTyped
  <2>3. \/ Goto(AfterConditions) /\ UNCHANGED <<cluster, work>>
        \/ /\ cluster' = new /\ work' = [work EXCEPT !.obj = new]
           /\ pc' = AfterConditions /\ queued' = TRUE
        \/ Requeue /\ UNCHANGED cluster
    BY <1>2 DEF UpdateStatusConditions
  <2> HIDE DEF new
  <2>4. CASE Goto(AfterConditions) /\ UNCHANGED <<cluster, work>>
    <3>1. pc' \in {"reconcileTLS", "serverConfigMap"} /\ UNCHANGED queued
      BY <2>1, <2>4 DEF Goto
    <3>2. TypeOK'
      BY <1>0, <2>1, <2>4, <3>1, WentOnTyped DEF Steps
    <3>3. ChildrenExist'
      BY <2>1, <3>1, ChildrenKept DEF AfterServerConf
    <3> QED BY <3>2, <3>3 DEF TypeInv
  <2>5. CASE /\ cluster' = new /\ work' = [work EXCEPT !.obj = new]
             /\ pc' = AfterConditions /\ queued' = TRUE
    <3>1. work' \in [obj: Cluster, latest: BOOLEAN]
      BY <2>2, <2>5
    <3>2. pc' \in {"reconcileTLS", "serverConfigMap"}
      BY <2>1, <2>5
    <3>3. TypeOK'
      BY <1>0, <2>1, <2>2, <2>5, <3>1, <3>2 DEF TypeOK, Steps
    <3>4. ChildrenExist'
      BY <2>1, <3>2, ChildrenKept DEF AfterServerConf
    <3> QED BY <3>3, <3>4 DEF TypeInv
  <2>6. CASE Requeue /\ UNCHANGED cluster
    BY <1>0, <2>1, <2>6, RequeueTyped DEF children
  <2> QED BY <2>3, <2>4, <2>5, <2>6
<1>3. CASE ReconcileTLS
  <2>1. TypeOK'
    BY <1>0, <1>3, WentOnTyped DEF ReconcileTLS, Goto, children, Steps
  <2>2. ChildrenExist'
    BY <1>3, ChildrenKept DEF ReconcileTLS, Goto, children, AfterServerConf
  <2> QED BY <2>1, <2>2 DEF TypeInv
<1>4. CASE RejectTLS
  BY <1>4, FalseTyped DEF RejectTLS
<1>5. CASE ReconcileServerConfigMap
  <2>1. /\ pc = "serverConfigMap"
        /\ UNCHANGED <<cluster, sts, endpoints, tlsSecret, work, pod, now, edits, lost, queued>>
    BY <1>5 DEF ReconcileServerConfigMap, Goto
  <2>2. desiredServerCM \in ConfigMap
    BY <1>0, <2>1, DesiredServerCMTyped
  <2>3. CASE Seen(serverCM) = desiredServerCM /\ Goto("statefulSet") /\ UNCHANGED serverCM
    <3>1. Actual(serverCM) # None
      BY <1>0, <2>2, <2>3, NoneAssumption DEF ChildrenExist, Versions, Seen, Actual
    <3>2. TypeOK'
      BY <1>0, <2>1, <2>3, WentOnTyped DEF Goto, Steps
    <3> QED BY <2>1, <2>3, <3>1, <3>2, ChildrenKept DEF TypeInv
  <2>4. CASE /\ serverCM' = Written(serverCM, desiredServerCM)
             /\ pc' \in {"statefulSet", "annotateServerConf"}
    <3>1. serverCM' \in Object(ConfigMap) /\ ChildrenExist'
      BY <2>1, <2>2, <2>4, ServerCMWritten
    <3>2. TypeOK'
      BY <1>0, <2>1, <2>4, <3>1, WentOnTyped DEF Steps
    <3> QED BY <3>1, <3>2 DEF TypeInv
  <2> QED BY <1>5, <2>3, <2>4 DEF ReconcileServerConfigMap, Goto
<1>6. CASE AnnotateServerConfigMap
  <2> DEFINE new == [Actual(serverCM) EXCEPT !.updatedAt = now]
  <2>1. pc = "annotateServerConf" /\ pc' = "statefulSet" /\ serverCM' = Written(serverCM, new)
        /\ UNCHANGED <<cluster, sts, endpoints, tlsSecret, work, pod, now, edits, lost, queued>>
    BY <1>6 DEF AnnotateServerConfigMap, Goto
  <2>2. Actual(serverCM) \in ConfigMap
    BY <1>0, <2>1, ObjectTyped DEF ChildrenExist, AfterServerConf
  <2>3. new \in ConfigMap
    BY <1>0, <2>2 DEF ConfigMap
  <2> HIDE DEF new
  <2>4. serverCM' \in Object(ConfigMap) /\ ChildrenExist'
    BY <2>1, <2>3, ServerCMWritten
  <2>5. TypeOK'
    BY <1>0, <2>1, <2>4, WentOnTyped DEF Steps
  <2> QED BY <2>4, <2>5 DEF TypeInv
<1>7. CASE ReconcileStatefulSet
  <2>1. pc = "statefulSet" /\ pc' = "restartNeeded"
        /\ UNCHANGED <<cluster, serverCM, endpoints, tlsSecret, work, pod, now, edits, lost, queued>>
    BY <1>7 DEF ReconcileStatefulSet, Goto
  <2>2. desiredSts \in StatefulSet /\ Actual(serverCM) # None
    BY <1>0, <2>1, DesiredStsTyped DEF ChildrenExist, AfterServerConf
  <2>3. CASE UNCHANGED sts
    <3>1. TypeOK'
      BY <1>0, <2>1, <2>3, WentOnTyped DEF Steps
    <3>2. ChildrenExist'
      BY <2>1, <2>2, <2>3, ChildrenKept
    <3> QED BY <3>1, <3>2 DEF TypeInv
  <2>4. CASE sts' = Written(sts, desiredSts)
    <3>1. sts' \in Object(StatefulSet) /\ ChildrenExist'
      BY <2>1, <2>2, <2>4, StsWritten
    <3>2. TypeOK'
      BY <1>0, <2>1, <3>1, WentOnTyped DEF Steps
    <3> QED BY <3>1, <3>2 DEF TypeInv
  <2> QED BY <1>7, <2>3, <2>4 DEF ReconcileStatefulSet
<1>8. CASE RestartNeeded
  <2>1. /\ pc = "restartNeeded"
        /\ UNCHANGED <<cluster, serverCM, sts, endpoints, tlsSecret, pod, now, edits, lost>>
        /\ \/ Requeue
           \/ /\ pc' \in {"restartStatefulSet", "runCLICommands"}
              /\ UNCHANGED <<queued, work>>
    BY <1>8 DEF RestartNeeded, Goto, children
  <2>2. CASE Requeue
    BY <1>0, <2>1, <2>2, RequeueTyped DEF children
  <2>3. CASE pc' \in {"restartStatefulSet", "runCLICommands"} /\ UNCHANGED <<queued, work>>
    <3>1. TypeOK'
      BY <1>0, <2>1, <2>3, WentOnTyped DEF Steps
    <3>2. ChildrenExist'
      BY <2>1, ChildrenKept DEF AfterServerConf
    <3> QED BY <3>1, <3>2 DEF TypeInv
  <2> QED BY <2>1, <2>2, <2>3
<1>9. CASE RestartStatefulSet
  <2> DEFINE new == [Actual(sts) EXCEPT !.restartAt = now]
  <2>1. /\ pc = "restartStatefulSet" /\ pc' = "runCLICommands" /\ sts' = Written(sts, new)
        /\ Actual(sts) # None
        /\ UNCHANGED <<cluster, serverCM, endpoints, tlsSecret, work, pod, now, edits, lost, queued>>
    BY <1>9 DEF RestartStatefulSet, Goto
  <2>2. Actual(sts) \in StatefulSet /\ Actual(serverCM) # None
    BY <1>0, <2>1, ObjectTyped DEF ChildrenExist
  <2>3. new \in StatefulSet
    BY <1>0, <2>2 DEF StatefulSet
  <2> HIDE DEF new
  <2>4. sts' \in Object(StatefulSet) /\ ChildrenExist'
    BY <2>1, <2>2, <2>3, StsWritten
  <2>5. TypeOK'
    BY <1>0, <2>1, <2>4, WentOnTyped DEF Steps
  <2> QED BY <2>4, <2>5 DEF TypeInv
<1>10. CASE RunCLICommandsIfAnnotated
  <2>1. /\ pc # "idle" /\ UNCHANGED <<children, tlsSecret, pod, now, edits, lost>>
        /\ SetReconcileSuccessFalse \/ (Requeue /\ UNCHANGED cluster)
    BY <1>10 DEF RunCLICommandsIfAnnotated
  <2> QED BY <1>0, <2>1, FalseTyped, RequeueTyped
<1>11. CASE FinishReconcile
  <2> DEFINE new == [work.obj EXCEPT !.success = "True", !.observed = work.obj.gen]
  <2>1. /\ pc # "idle" /\ pc' = "idle" /\ work' = None
        /\ cluster' = (IF work.latest THEN new ELSE cluster)
        /\ queued' = (queued \/ cluster' # cluster)
        /\ UNCHANGED <<serverCM, sts, endpoints, tlsSecret, pod, now, edits, lost>>
    BY <1>11 DEF FinishReconcile, EndWithStatus, children
  <2>2. new \in Cluster /\ cluster \in Cluster
    BY <1>0, <2>1, WorkTyped, SuccessTyped DEF TypeOK
  <2> HIDE DEF new
  <2>3. cluster' \in Cluster /\ queued' \in BOOLEAN /\ lost' \in BOOLEAN
    BY <1>0, <2>1, <2>2
  <2> QED BY <2>1, <2>3, EndedTyped
<1>12. CASE CreateOrUpdateFails
  BY <1>12, FalseTyped DEF CreateOrUpdateFails
<1>13. CASE AnnotateFails
  BY <1>13, RequeueTyped DEF AnnotateFails
<1>14. CASE RestartFails
  BY <1>0, <1>14, RequeueTyped DEF RestartFails
<1>15. CASE ServerConfigMapDelivered
  <2>1. /\ serverCM' = Shown(serverCM) /\ queued' = TRUE
        /\ UNCHANGED <<cluster, sts, endpoints, tlsSecret, work, pc, pod, now, edits, lost>>
    BY <1>15 DEF ServerConfigMapDelivered
  <2>2. serverCM' \in Object(ConfigMap) /\ Versions(serverCM') /\ Actual(serverCM') = Actual(serverCM)
    BY <1>0, <2>1, ShownTyped
  <2>3. TypeOK'
    BY <1>0, <2>1, <2>2, OthersTyped
  <2>4. ChildrenExist'
    BY <1>0, <2>1, <2>2 DEF ChildrenExist, Versions, Actual
  <2> QED BY <2>3, <2>4 DEF TypeInv
<1>16. CASE StatefulSetDelivered
  <2>1. /\ sts' = Shown(sts) /\ queued' = TRUE
        /\ UNCHANGED <<cluster, serverCM, endpoints, tlsSecret, work, pc, pod, now, edits, lost>>
    BY <1>16 DEF StatefulSetDelivered
  <2>2. sts' \in Object(StatefulSet) /\ Versions(sts') /\ Actual(sts') = Actual(sts)
    BY <1>0, <2>1, ShownTyped
  <2>3. TypeOK'
    BY <1>0, <2>1, <2>2, OthersTyped
  <2>4. ChildrenExist'
    BY <1>0, <2>1, <2>2 DEF ChildrenExist, Versions, Actual
  <2> QED BY <2>3, <2>4 DEF TypeInv
<1>17. CASE EndpointsDelivered
  <2>1. endpoints' \in {None, "address", "empty"}
        /\ UNCHANGED <<cluster, serverCM, sts, tlsSecret, work, pc, queued, pod, now, edits, lost>>
    BY <1>17 DEF EndpointsDelivered
  <2>2. TypeOK'
    BY <1>0, <2>1, OthersTyped
  <2> QED BY <2>1, <2>2, ChildrenKept DEF TypeInv
<1>18. CASE Resync
  <2>1. queued' = TRUE
        /\ UNCHANGED <<cluster, serverCM, sts, endpoints, tlsSecret, work, pc, pod, now, edits, lost>>
    BY <1>18 DEF Resync, children
  <2>2. TypeOK'
    BY <1>0, <2>1, OthersTyped
  <2> QED BY <2>1, <2>2, ChildrenKept DEF TypeInv
<1>19. CASE EditSpec
  <2>1. PICK edit \in Edits :
          cluster' = [cluster EXCEPT !.conf = edit[2].conf, !.template = edit[2].template,
                                     !.gen = @ + 1]
    BY <1>19 DEF EditSpec
  <2>2. /\ edits < MaxEdits /\ edits' = edits + 1 /\ queued' = TRUE
        /\ work' = (IF pc = "idle" THEN work ELSE [work EXCEPT !.latest = FALSE])
        /\ UNCHANGED <<serverCM, sts, endpoints, tlsSecret, pc, pod, now, lost>>
    BY <1>19 DEF EditSpec, children
  <2>3. edit[2].conf \in Confs /\ edit[2].template \in Templates
    BY ConstantsAssumption
  <2>4. cluster \in Cluster /\ cluster.gen + 1 \in Nat
    BY <1>0 DEF TypeOK, Cluster
  <2>5. cluster' = [cluster EXCEPT !.conf = edit[2].conf, !.template = edit[2].template,
                                   !.gen = cluster.gen + 1]
    BY <2>1, <2>4 DEF Cluster
  <2>6. cluster' \in Cluster
    BY <2>3, <2>4, <2>5 DEF Cluster
  <2>7. edits' \in 0..MaxEdits
    BY <1>0, <2>2, ConstantsAssumption DEF TypeOK
  <2>8. IF pc = "idle" THEN work' = None ELSE work' \in [obj: Cluster, latest: BOOLEAN]
    BY <1>0, <2>2 DEF TypeOK
  <2>9. TypeOK'
    BY <1>0, <2>2, <2>6, <2>7, <2>8 DEF TypeOK
  <2> QED BY <2>2, <2>9, ChildrenKept DEF TypeInv
<1>20. CASE WriteTLSSecret
  <2>1. tlsSecret' \in {None, "incomplete", "complete"}
        /\ UNCHANGED <<cluster, serverCM, sts, endpoints, work, pc, queued, pod, now, edits, lost>>
    BY <1>20 DEF WriteTLSSecret, children
  <2>2. TypeOK'
    BY <1>0, <2>1 DEF TypeOK
  <2> QED BY <2>1, <2>2, ChildrenKept DEF TypeInv
<1>21. CASE Tick
  <2>1. now' = now + 1
        /\ UNCHANGED <<cluster, serverCM, sts, endpoints, tlsSecret, work, pc, queued, pod, edits, lost>>
    BY <1>21 DEF Tick, children
  <2>2. TypeOK'
    BY <1>0, <2>1, OthersTyped
  <2> QED BY <2>1, <2>2, ChildrenKept DEF TypeInv
<1>22. CASE StatefulSetControllerSyncs
  <2> DEFINE u == pod.rev.template # None /\ ~(pod.up /\ pod.rev = RevisionOf(Actual(sts)))
             new == [Actual(sts) EXCEPT !.ready = pod.up, !.updating = u]
  <2>1. Actual(sts) # None /\ sts' = Written(sts, new)
        /\ UNCHANGED <<cluster, serverCM, endpoints, tlsSecret, work, pc, queued, pod, now, edits, lost>>
    BY <1>22 DEF StatefulSetControllerSyncs
  <2>2. Actual(sts) \in StatefulSet /\ Actual(serverCM) # None
    BY <1>0, <2>1, ObjectTyped DEF ChildrenExist
  <2>3. u \in BOOLEAN /\ pod.up \in BOOLEAN
    BY <1>0
  <2> HIDE DEF u
  <2>4. new \in StatefulSet
    BY <2>2, <2>3 DEF StatefulSet
  <2> HIDE DEF new
  <2>5. sts' \in Object(StatefulSet) /\ ChildrenExist'
    BY <2>1, <2>2, <2>4, StsWritten
  <2>6. TypeOK'
    BY <1>0, <2>1, <2>5, OthersTyped
  <2> QED BY <2>5, <2>6 DEF TypeInv
<1>23. CASE PodStops
  <2>1. pod' = [pod EXCEPT !.up = FALSE]
        /\ UNCHANGED <<cluster, serverCM, sts, endpoints, tlsSecret, work, pc, queued, now, edits, lost>>
    BY <1>23 DEF PodStops, children
  <2>2. pod' \in [up: BOOLEAN, conf: Confs \cup {None}, rev: Revision]
    BY <1>0, <2>1
  <2>3. TypeOK'
    BY <1>0, <2>1, <2>2, OthersTyped
  <2> QED BY <2>1, <2>3, ChildrenKept DEF TypeInv
<1>24. CASE PodStarts
  <2>1. Actual(sts) # None
        /\ pod' = [up |-> TRUE, conf |-> Actual(serverCM).content, rev |-> RevisionOf(Actual(sts))]
        /\ UNCHANGED <<cluster, serverCM, sts, endpoints, tlsSecret, work, pc, queued, now, edits, lost>>
    BY <1>24 DEF PodStarts, children
  <2>2. Actual(sts) \in StatefulSet /\ Actual(serverCM) \in ConfigMap
    BY <1>0, <2>1, ObjectTyped DEF ChildrenExist
  <2>3. RevisionOf(Actual(sts)) \in Revision /\ Actual(serverCM).content \in Confs
    BY <2>2 DEF RevisionOf, Revision, StatefulSet, ConfigMap
  <2>4. pod' \in [up: BOOLEAN, conf: Confs \cup {None}, rev: Revision]
    BY <2>1, <2>3
  <2>5. TypeOK'
    BY <1>0, <2>1, <2>4, OthersTyped
  <2> QED BY <2>1, <2>5, ChildrenKept DEF TypeInv
<1>25. CASE UNCHANGED vars
  <2>1. TypeOK'
    BY <1>0, <1>25 DEF TypeOK, vars
  <2> QED BY <1>25, <2>1, ChildrenKept DEF TypeInv, vars
<1> QED
  BY <1>1, <1>2, <1>3, <1>4, <1>5, <1>6, <1>7, <1>8, <1>9, <1>10, <1>11, <1>12, <1>13, <1>14,
     <1>15, <1>16, <1>17, <1>18, <1>19, <1>20, <1>21, <1>22, <1>23, <1>24, <1>25
  DEF Next, ReconcileStep, KubernetesStep

\* The variables keep their types, and the reconciler holds a copy of the resource exactly
\* while it reconciles (Reconcile, from the Get to its return).
THEOREM TypeCorrect == Spec => []TypeOK
<1>1. TypeInv => TypeOK
  BY DEF TypeInv
<1> QED BY InitTyped, NextTyped, <1>1, PTL DEF Spec

--------------------------------------------------------------------------------
(* The status at rest. *)

\* The copy is of the latest version until somebody else, or the reconciler itself, makes
\* an event that queues the next reconcile.
CopyIsLatest ==
    pc # "idle" => (work.latest => work.obj = cluster) /\ (~queued => work.latest)

TLSChecked ==
    pc \notin {"idle", "updateStatusConditions", "reconcileTLS"} /\ SecretTLSEnabled(work.obj)
        => tlsSecret = "complete"

\* As long as nothing has queued the next reconcile, the informers show what this one has
\* reported, and each child that is up to date is what its step has left.
Reported ==
    ~queued =>
        /\ pc \notin {"idle", "updateStatusConditions"} =>
             /\ work.obj.ready = AllReplicasReadyCondition
             /\ work.obj.noWarnings = NoWarningsCondition
        /\ pc \in AfterServerConf \ {"annotateServerConf"} /\ UpToDate(serverCM)
             => Actual(serverCM).content = work.obj.conf
        /\ pc = "annotateServerConf" => ~UpToDate(serverCM)
        /\ pc \in {"restartNeeded", "restartStatefulSet", "runCLICommands"} /\ UpToDate(sts)
             => Actual(sts) # None /\ Actual(sts).template = work.obj.template

StatusInv == TypeInv /\ CopyIsLatest /\ TLSChecked /\ Reported /\ StatusIsTrueAtRest

\* A reconcile that ends with the request in the queue.
LEMMA EndedQueued ==
    ASSUME pc' = "idle", queued' = TRUE
    PROVE  CopyIsLatest' /\ TLSChecked' /\ Reported' /\ StatusIsTrueAtRest'
BY DEF CopyIsLatest, TLSChecked, Reported, StatusIsTrueAtRest, AtRest

\* Events that queue the request while a reconcile goes on.
LEMMA QueuedMeanwhile ==
    ASSUME CopyIsLatest, TLSChecked, queued' = TRUE, UNCHANGED <<pc, cluster, work, tlsSecret>>
    PROVE  CopyIsLatest' /\ TLSChecked' /\ Reported' /\ StatusIsTrueAtRest'
BY DEF CopyIsLatest, TLSChecked, Reported, StatusIsTrueAtRest, AtRest, SecretTLSEnabled

\* What the reconciler does not read.
LEMMA NotRead ==
    ASSUME CopyIsLatest, TLSChecked, Reported, StatusIsTrueAtRest,
           UNCHANGED <<pc, queued, cluster, work, tlsSecret, serverCM, sts>>
    PROVE  CopyIsLatest' /\ TLSChecked' /\ Reported' /\ StatusIsTrueAtRest'
BY DEF CopyIsLatest, TLSChecked, Reported, StatusIsTrueAtRest, AtRest, SecretTLSEnabled,
       AllReplicasReadyCondition, NoWarningsCondition, Seen, Actual, UpToDate

\* A step of the reconcile that goes on.
LEMMA WentOn ==
    ASSUME CopyIsLatest, pc # "idle", pc' # "idle",
           UNCHANGED <<queued, cluster, work, tlsSecret>>
    PROVE  CopyIsLatest' /\ StatusIsTrueAtRest'
BY DEF CopyIsLatest, StatusIsTrueAtRest, AtRest

LEMMA TLSStaysChecked ==
    ASSUME TLSChecked, pc \notin {"idle", "updateStatusConditions", "reconcileTLS"},
           UNCHANGED <<work, tlsSecret>>
    PROVE  TLSChecked'
BY DEF TLSChecked, SecretTLSEnabled

LEMMA RestInit == Init => CopyIsLatest /\ TLSChecked /\ Reported /\ StatusIsTrueAtRest
BY DEF Init, CopyIsLatest, TLSChecked, Reported, StatusIsTrueAtRest, AtRest

\* The last step: it ends without an event only when it finds the status as it would set it.
LEMMA FinishedRight == StatusInv /\ FinishReconcile => StatusIsTrueAtRest'
<1> SUFFICES ASSUME StatusInv, FinishReconcile, AtRest'
             PROVE  /\ cluster'.observed = cluster'.gen /\ cluster'.success = "True"
                    /\ Actual(serverCM').content = cluster'.conf
                    /\ Actual(sts').template = cluster'.template
                    /\ cluster'.ready = TrueIf(Actual(sts').ready)
                    /\ cluster'.noWarnings = TrueIf(cluster'.template \notin Uneven)
                    /\ SecretTLSEnabled(cluster') => tlsSecret' = "complete"
  BY DEF StatusIsTrueAtRest
<1> DEFINE new == [work.obj EXCEPT !.success = "True", !.observed = work.obj.gen]
<1>1. /\ pc = "runCLICommands" /\ Seen(sts) # None
      /\ cluster' = (IF work.latest THEN new ELSE cluster)
      /\ queued' = (queued \/ cluster' # cluster)
      /\ UNCHANGED <<serverCM, sts, tlsSecret>>
  BY DEF FinishReconcile, EndWithStatus, children
<1>2. ~queued /\ cluster' = cluster /\ UpToDate(serverCM) /\ UpToDate(sts)
  BY <1>1 DEF AtRest, UpToDate
<1>3. work.latest /\ work.obj = cluster /\ cluster \in Cluster
  BY <1>1, <1>2 DEF StatusInv, CopyIsLatest, TypeInv, TypeOK
<1>4. new.observed = cluster.gen /\ new.success = "True" /\ cluster = new
  BY <1>1, <1>2, <1>3 DEF Cluster
<1> HIDE DEF new
<1>5. cluster.observed = cluster.gen /\ cluster.success = "True"
  BY <1>4
<1>6. /\ cluster.ready = AllReplicasReadyCondition /\ cluster.noWarnings = NoWarningsCondition
      /\ Actual(serverCM).content = cluster.conf
      /\ Actual(sts).template = cluster.template
  BY <1>1, <1>2, <1>3 DEF StatusInv, Reported, AfterServerConf
<1>7. Seen(sts) = Actual(sts)
  BY <1>2 DEF StatusInv, TypeInv, ChildrenExist, Versions, UpToDate, Seen, Actual
<1>8. /\ cluster.ready = TrueIf(Actual(sts).ready)
      /\ cluster.noWarnings = TrueIf(cluster.template \notin Uneven)
  BY <1>1, <1>6, <1>7 DEF AllReplicasReadyCondition, NoWarningsCondition
<1>9. SecretTLSEnabled(cluster) => tlsSecret = "complete"
  BY <1>1, <1>3 DEF StatusInv, TLSChecked
<1> QED BY <1>1, <1>2, <1>5, <1>6, <1>8, <1>9

LEMMA RestNext == StatusInv /\ [Next]_vars => StatusInv'
<1> SUFFICES ASSUME StatusInv, [Next]_vars PROVE StatusInv'
  OBVIOUS
<1> DEFINE Goal == CopyIsLatest' /\ TLSChecked' /\ Reported' /\ StatusIsTrueAtRest'
<1>0. /\ TypeInv /\ TypeInv' /\ TypeOK /\ ChildrenExist
      /\ serverCM \in Object(ConfigMap) /\ sts \in Object(StatefulSet) /\ queued \in BOOLEAN
      /\ CopyIsLatest /\ TLSChecked /\ Reported /\ StatusIsTrueAtRest
  BY NextTyped DEF StatusInv, TypeInv, TypeOK
<1>a. /\ UpToDate(serverCM) => Seen(serverCM) = Actual(serverCM)
      /\ UpToDate(sts) => Seen(sts) = Actual(sts)
  BY <1>0 DEF ChildrenExist, Versions, UpToDate, Seen, Actual
<1> SUFFICES Goal
  BY <1>0 DEF StatusInv
<1>1. CASE StartReconcile
  <2>1. /\ pc' = "updateStatusConditions" /\ work' = [obj |-> cluster, latest |-> TRUE]
        /\ UNCHANGED cluster
    BY <1>1 DEF StartReconcile
  <2> QED BY <2>1 DEF CopyIsLatest, TLSChecked, Reported, StatusIsTrueAtRest, AtRest, AfterServerConf
<1>2. CASE UpdateStatusConditions
  <2> DEFINE new == SetConditions(work.obj)
  <2>1. /\ pc = "updateStatusConditions" /\ UNCHANGED <<serverCM, sts, tlsSecret>>
        /\ AfterConditions \in {"reconcileTLS", "serverConfigMap"}
        /\ SecretTLSEnabled(work.obj) => AfterConditions = "reconcileTLS"
    BY <1>2 DEF UpdateStatusConditions, AfterConditions, children
  <2>2. /\ new.template = work.obj.template
        /\ new.ready = AllReplicasReadyCondition /\ new.noWarnings = NoWarningsCondition
    BY <1>0, <2>1, WorkTyped, ConditionsTyped
  <2>3. \/ new = work.obj /\ Goto(AfterConditions) /\ UNCHANGED <<cluster, work>>
        \/ /\ cluster' = new /\ work' = [work EXCEPT !.obj = new]
           /\ pc' = AfterConditions /\ queued' = TRUE
        \/ Requeue
    BY <1>2 DEF UpdateStatusConditions
  <2> HIDE DEF new
  <2>4. CASE new = work.obj /\ Goto(AfterConditions) /\ UNCHANGED <<cluster, work>>
    <3>1. pc' = AfterConditions /\ UNCHANGED queued
      BY <2>4 DEF Goto
    <3>2. CopyIsLatest' /\ StatusIsTrueAtRest'
      BY <1>0, <2>1, <2>4, <3>1, WentOn
    <3>3. TLSChecked'
      BY <2>1, <2>4, <3>1 DEF TLSChecked, SecretTLSEnabled
    <3>4. /\ work'.obj.ready = AllReplicasReadyCondition'
          /\ work'.obj.noWarnings = NoWarningsCondition'
      BY <2>1, <2>2, <2>4 DEF AllReplicasReadyCondition, NoWarningsCondition, Seen
    <3>5. Reported'
      BY <2>1, <3>1, <3>4 DEF Reported, AfterServerConf
    <3> QED BY <3>2, <3>3, <3>5
  <2>5. CASE /\ cluster' = new /\ work' = [work EXCEPT !.obj = new]
             /\ pc' = AfterConditions /\ queued' = TRUE
    <3>1. work'.obj = new
      BY <1>0, <2>1, <2>5, WorkTyped
    <3> QED BY <2>1, <2>2, <2>5, <3>1
            DEF CopyIsLatest, TLSChecked, Reported, StatusIsTrueAtRest, AtRest, SecretTLSEnabled
  <2>6. CASE Requeue
    BY <2>6, EndedQueued DEF Requeue
  <2> QED BY <2>3, <2>4, <2>5, <2>6
<1>3. CASE ReconcileTLS
  <2>1. /\ pc = "reconcileTLS" /\ pc' = "serverConfigMap" /\ tlsSecret = "complete"
        /\ UNCHANGED <<cluster, serverCM, sts, tlsSecret, work, queued>>
    BY <1>3 DEF ReconcileTLS, Goto, children
  <2>2. CopyIsLatest' /\ StatusIsTrueAtRest'
    BY <1>0, <2>1, WentOn
  <2>3. TLSChecked'
    BY <2>1 DEF TLSChecked
  <2>4. Reported'
    BY <1>0, <2>1 DEF Reported, AfterServerConf, AllReplicasReadyCondition, NoWarningsCondition, Seen
  <2> QED BY <2>2, <2>3, <2>4
<1>4. CASE RejectTLS
  BY <1>4, EndedQueued DEF RejectTLS, SetReconcileSuccessFalse, Requeue
<1>5. CASE ReconcileServerConfigMap
  <2>1. /\ pc = "serverConfigMap" /\ pc' \in {"annotateServerConf", "statefulSet"}
        /\ UNCHANGED <<cluster, sts, tlsSecret, work, queued>>
        /\ \/ Seen(serverCM) = desiredServerCM /\ pc' = "statefulSet" /\ UNCHANGED serverCM
           \/ /\ Seen(serverCM) # desiredServerCM /\ UpToDate(serverCM)
              /\ serverCM' = Written(serverCM, desiredServerCM)
    BY <1>5 DEF ReconcileServerConfigMap, Goto
  <2>2. desiredServerCM \in ConfigMap /\ desiredServerCM.content = work.obj.conf
    BY <1>0, <2>1, DesiredServerCMTyped
  <2>3. CopyIsLatest' /\ StatusIsTrueAtRest' /\ TLSChecked'
    BY <1>0, <2>1, WentOn, TLSStaysChecked
  <2>4. \/ UNCHANGED serverCM /\ Actual(serverCM').content = work.obj.conf /\ pc' = "statefulSet"
        \/ ~UpToDate(serverCM')
    <3>1. CASE Seen(serverCM) = desiredServerCM /\ pc' = "statefulSet" /\ UNCHANGED serverCM
      BY <1>a, <2>2, <3>1
    <3>2. CASE /\ Seen(serverCM) # desiredServerCM /\ UpToDate(serverCM)
               /\ serverCM' = Written(serverCM, desiredServerCM)
      BY <1>0, <1>a, <2>1, <2>2, <3>2, ServerCMWritten
    <3> QED BY <2>1, <3>1, <3>2
  <2>5. Reported'
    BY <1>0, <2>1, <2>4
    DEF Reported, AfterServerConf, AllReplicasReadyCondition, NoWarningsCondition, Seen, Actual, UpToDate
  <2> QED BY <2>3, <2>5
<1>6. CASE AnnotateServerConfigMap
  <2>1. /\ pc = "annotateServerConf" /\ pc' = "statefulSet" /\ UpToDate(serverCM)
        /\ UNCHANGED <<cluster, tlsSecret, work, queued>>
    BY <1>6 DEF AnnotateServerConfigMap, Goto
  <2>2. queued'
    BY <1>0, <2>1 DEF Reported
  <2> QED BY <1>0, <2>1, <2>2, WentOn, TLSStaysChecked DEF Reported
<1>7. CASE ReconcileStatefulSet
  <2>1. /\ pc = "statefulSet" /\ pc' = "restartNeeded"
        /\ UNCHANGED <<cluster, serverCM, tlsSecret, work, queued>>
        /\ \/ Seen(sts) = desiredSts /\ UNCHANGED sts
           \/ Seen(sts) # desiredSts /\ UpToDate(sts) /\ sts' = Written(sts, desiredSts)
    BY <1>7 DEF ReconcileStatefulSet, Goto
  <2>2. /\ desiredSts \in StatefulSet /\ desiredSts.template = work.obj.template
        /\ Actual(serverCM) # None
    BY <1>0, <2>1, DesiredStsTyped DEF ChildrenExist, AfterServerConf
  <2>3. CopyIsLatest' /\ StatusIsTrueAtRest' /\ TLSChecked'
    BY <1>0, <2>1, WentOn, TLSStaysChecked
  <2>4. /\ Seen(sts') = Seen(sts)
        /\ UpToDate(sts') => Actual(sts') # None /\ Actual(sts').template = work.obj.template
    <3>1. CASE Seen(sts) = desiredSts /\ UNCHANGED sts
      BY <1>a, <2>2, <3>1, NoneAssumption
    <3>2. CASE Seen(sts) # desiredSts /\ UpToDate(sts) /\ sts' = Written(sts, desiredSts)
      BY <1>0, <1>a, <2>1, <2>2, <3>2, StsWritten
    <3> QED BY <2>1, <3>1, <3>2
  <2>5. /\ AllReplicasReadyCondition' = AllReplicasReadyCondition
        /\ NoWarningsCondition' = NoWarningsCondition
    BY <2>4 DEF AllReplicasReadyCondition, NoWarningsCondition, Seen
  <2>6. Reported'
    BY <1>0, <2>1, <2>4, <2>5 DEF Reported, AfterServerConf, Actual, UpToDate
  <2> QED BY <2>3, <2>6
<1>8. CASE RestartNeeded
  <2>1. /\ pc = "restartNeeded" /\ UNCHANGED <<cluster, serverCM, sts, tlsSecret>>
        /\ \/ Requeue
           \/ /\ pc' \in {"restartStatefulSet", "runCLICommands"}
              /\ UNCHANGED <<queued, work>>
    BY <1>8 DEF RestartNeeded, Goto, children
  <2>2. CASE Requeue
    BY <2>2, EndedQueued DEF Requeue
  <2>3. CASE pc' \in {"restartStatefulSet", "runCLICommands"} /\ UNCHANGED <<queued, work>>
    <3>1. CopyIsLatest' /\ StatusIsTrueAtRest' /\ TLSChecked'
      BY <1>0, <2>1, <2>3, WentOn, TLSStaysChecked
    <3>2. Reported'
      BY <1>0, <2>1, <2>3 DEF Reported, AfterServerConf, AllReplicasReadyCondition,
         NoWarningsCondition, Seen, Actual, UpToDate
    <3> QED BY <3>1, <3>2
  <2> QED BY <2>1, <2>2, <2>3
<1>9. CASE RestartStatefulSet
  <2> DEFINE new == [Actual(sts) EXCEPT !.restartAt = now]
  <2>1. /\ pc = "restartStatefulSet" /\ pc' = "runCLICommands" /\ sts' = Written(sts, new)
        /\ Actual(sts) # None /\ UpToDate(sts)
        /\ UNCHANGED <<cluster, serverCM, tlsSecret, work, queued>>
    BY <1>9 DEF RestartStatefulSet, Goto
  <2>2. Actual(sts) \in StatefulSet /\ Actual(serverCM) # None /\ now \in Nat
    BY <1>0, <2>1, ObjectTyped DEF ChildrenExist, TypeOK
  <2>3. new \in StatefulSet /\ new.template = Actual(sts).template
    BY <2>2 DEF StatefulSet
  <2> HIDE DEF new
  <2>4. Actual(sts') = new /\ Seen(sts') = Seen(sts) /\ new # None
    BY <1>0, <2>1, <2>2, <2>3, StsWritten, NoneAssumption
  <2>5. CopyIsLatest' /\ StatusIsTrueAtRest' /\ TLSChecked'
    BY <1>0, <2>1, WentOn, TLSStaysChecked
  <2>6. /\ AllReplicasReadyCondition' = AllReplicasReadyCondition
        /\ NoWarningsCondition' = NoWarningsCondition
    BY <2>4 DEF AllReplicasReadyCondition, NoWarningsCondition, Seen
  <2>7. Reported'
    BY <1>0, <2>1, <2>3, <2>4, <2>6 DEF Reported, AfterServerConf, Actual, UpToDate
  <2> QED BY <2>5, <2>7
<1>10. CASE RunCLICommandsIfAnnotated
  BY <1>10, EndedQueued DEF RunCLICommandsIfAnnotated, SetReconcileSuccessFalse, Requeue
<1>11. CASE FinishReconcile
  <2>1. pc' = "idle"
    BY <1>11 DEF FinishReconcile, EndWithStatus
  <2>2. StatusIsTrueAtRest'
    BY <1>11, FinishedRight
  <2> QED BY <2>1, <2>2 DEF CopyIsLatest, TLSChecked, Reported, AfterServerConf
<1>12. CASE CreateOrUpdateFails
  BY <1>12, EndedQueued DEF CreateOrUpdateFails, SetReconcileSuccessFalse, Requeue
<1>13. CASE AnnotateFails
  BY <1>13, EndedQueued DEF AnnotateFails, Requeue
<1>14. CASE RestartFails
  BY <1>14, EndedQueued DEF RestartFails, Requeue
<1>15. CASE ServerConfigMapDelivered
  BY <1>0, <1>15, QueuedMeanwhile DEF ServerConfigMapDelivered
<1>16. CASE StatefulSetDelivered
  BY <1>0, <1>16, QueuedMeanwhile DEF StatefulSetDelivered
<1>17. CASE EndpointsDelivered
  BY <1>0, <1>17, NotRead DEF EndpointsDelivered
<1>18. CASE Resync
  BY <1>0, <1>18, QueuedMeanwhile DEF Resync
<1>19. CASE EditSpec
  <2>1. /\ queued' = TRUE /\ UNCHANGED <<pc, tlsSecret>>
        /\ work' = (IF pc = "idle" THEN work ELSE [work EXCEPT !.latest = FALSE])
    BY <1>19 DEF EditSpec
  <2>2. pc # "idle" => work'.obj = work.obj /\ work'.latest = FALSE
    BY <1>0, <2>1, WorkTyped
  <2> QED BY <1>0, <2>1, <2>2
          DEF CopyIsLatest, TLSChecked, Reported, StatusIsTrueAtRest, AtRest, SecretTLSEnabled
<1>20. CASE WriteTLSSecret
  <2>1. /\ SecretTLSEnabled(cluster) /\ tlsSecret # "complete"
        /\ UNCHANGED <<pc, queued, cluster, work, serverCM, sts>>
    BY <1>20 DEF WriteTLSSecret, children
  <2>2. CopyIsLatest' /\ Reported'
    BY <1>0, <2>1 DEF CopyIsLatest, Reported, AllReplicasReadyCondition, NoWarningsCondition,
       Seen, Actual, UpToDate
  <2>3. TLSChecked'
    BY <1>0, <2>1 DEF TLSChecked, SecretTLSEnabled
  <2>4. StatusIsTrueAtRest'
    BY <1>0, <2>1 DEF StatusIsTrueAtRest, AtRest, UpToDate
  <2> QED BY <2>2, <2>3, <2>4
<1>21. CASE Tick
  BY <1>0, <1>21, NotRead DEF Tick, children
<1>22. CASE StatefulSetControllerSyncs
  <2> DEFINE u == pod.rev.template # None /\ ~(pod.up /\ pod.rev = RevisionOf(Actual(sts)))
             new == [Actual(sts) EXCEPT !.ready = pod.up, !.updating = u]
  <2>1. /\ Actual(sts) # None /\ sts' = Written(sts, new) /\ new # Actual(sts)
        /\ UNCHANGED <<pc, queued, cluster, work, tlsSecret, serverCM>>
    BY <1>22 DEF StatefulSetControllerSyncs
  <2>2. Actual(sts) \in StatefulSet /\ Actual(serverCM) # None
    BY <1>0, <2>1, ObjectTyped DEF ChildrenExist
  <2>3. u \in BOOLEAN /\ pod.up \in BOOLEAN
    BY <1>0 DEF TypeOK
  <2> HIDE DEF u
  <2>4. new \in StatefulSet
    BY <2>2, <2>3 DEF StatefulSet
  <2> HIDE DEF new
  <2>5. ~UpToDate(sts') /\ Seen(sts') = Seen(sts)
    BY <1>0, <2>1, <2>2, <2>4, StsWritten
  <2>6. /\ AllReplicasReadyCondition' = AllReplicasReadyCondition
        /\ NoWarningsCondition' = NoWarningsCondition
    BY <2>5 DEF AllReplicasReadyCondition, NoWarningsCondition, Seen
  <2>7. CopyIsLatest' /\ TLSChecked'
    BY <1>0, <2>1 DEF CopyIsLatest, TLSChecked, SecretTLSEnabled
  <2>8. Reported' /\ StatusIsTrueAtRest'
    BY <1>0, <2>1, <2>5, <2>6 DEF Reported, StatusIsTrueAtRest, AtRest, Actual, UpToDate
  <2> QED BY <2>7, <2>8
<1>23. CASE PodStops
  BY <1>0, <1>23, NotRead DEF PodStops, children
<1>24. CASE PodStarts
  BY <1>0, <1>24, NotRead DEF PodStarts, children
<1>25. CASE UNCHANGED vars
  BY <1>0, <1>25, NotRead DEF vars
<1> QED
  BY <1>1, <1>2, <1>3, <1>4, <1>5, <1>6, <1>7, <1>8, <1>9, <1>10, <1>11, <1>12, <1>13, <1>14,
     <1>15, <1>16, <1>17, <1>18, <1>19, <1>20, <1>21, <1>22, <1>23, <1>24, <1>25
  DEF Next, ReconcileStep, KubernetesStep

\* Once no event is left to be delivered, the conditions of the resource are those of the
\* children as they are, whatever the reconciles read too early or could not write
\* (updateStatusConditions, setReconcileSuccess).
THEOREM StatusIsTrueAtRestHolds == Spec => []StatusIsTrueAtRest
<1>1. Init => StatusInv
  BY InitTyped, RestInit DEF StatusInv
<1>2. StatusInv => StatusIsTrueAtRest
  BY DEF StatusInv
<1> QED BY <1>1, RestNext, <1>2, PTL DEF Spec

--------------------------------------------------------------------------------
(* Restarts. *)

\* No stamp is of the future, and no node is of a later revision than the StatefulSet.
StampsInOrder ==
    /\ NoTime < now
    /\ Actual(sts) # None => Actual(sts).restartAt <= now
    /\ pod.up => Actual(sts) # None /\ pod.rev.restartAt <= Actual(sts).restartAt

\* Of a node that was not restarted after the contents changed the ConfigMap's stamp
\* keeps account; it is about to be written, was written, or was given up.
RestartIsNoted ==
    pod.up /\ pod.rev.restartAt = Actual(sts).restartAt /\ pod.conf # Actual(serverCM).content =>
        \/ NoTime < Actual(serverCM).updatedAt /\ Actual(sts).restartAt <= Actual(serverCM).updatedAt
        \/ pc = "annotateServerConf"
        \/ lost

RestartInv == TypeInv /\ StampsInOrder /\ RestartIsNoted

LEMMA RestartInit == Init => StampsInOrder /\ RestartIsNoted
<1> SUFFICES ASSUME Init PROVE StampsInOrder /\ RestartIsNoted
  OBVIOUS
<1>0. now = 1
  BY DEF Init
<1>1. CASE InitNew
  <2>1. Actual(sts) = None /\ pod.up = FALSE
    BY <1>1 DEF InitNew, New, Actual
  <2> QED BY <1>0, <2>1 DEF StampsInOrder, RestartIsNoted, NoTime
<1>2. CASE InitDeployed
  <2>1. PICK old \in DeployedSpecs :
          /\ serverCM = New([content |-> old.conf, updatedAt |-> NoTime])
          /\ sts = New([template |-> old.template, restartAt |-> NoTime, ready |-> TRUE,
                        updating |-> FALSE])
          /\ pod = [up |-> TRUE, conf |-> old.conf, rev |-> RevisionOf(Actual(sts))]
    BY <1>2 DEF InitDeployed
  <2>2. /\ Actual(serverCM).content = old.conf
        /\ Actual(sts) = [template |-> old.template, restartAt |-> NoTime, ready |-> TRUE,
                          updating |-> FALSE]
    BY <2>1 DEF New, Actual
  <2>3. old.template \in Templates
    BY ConstantsAssumption
  <2>4. Actual(sts) \in StatefulSet /\ Actual(sts).restartAt = NoTime
    BY <2>2, <2>3 DEF StatefulSet, NoTime
  <2>5. Actual(sts) # None
    BY <2>4, NoneAssumption
  <2>6. pod.rev.restartAt = NoTime /\ pod.conf = Actual(serverCM).content
    BY <2>1, <2>2, <2>4 DEF RevisionOf
  <2> QED BY <1>0, <2>4, <2>5, <2>6 DEF StampsInOrder, RestartIsNoted, NoTime
<1> QED BY <1>1, <1>2 DEF Init

\* Steps that leave the node, the contents and the stamps alone.
LEMMA StampsKept ==
    ASSUME TypeOK, StampsInOrder, RestartIsNoted, pod' = pod, now' \in {now, now + 1},
           lost => lost', pc = "annotateServerConf" => pc' = pc \/ lost',
           Actual(serverCM') = Actual(serverCM),
           Actual(sts) # None => Actual(sts') # None /\ Actual(sts').restartAt = Actual(sts).restartAt,
           Actual(sts) = None /\ Actual(sts') # None => Actual(sts').restartAt = NoTime
    PROVE  StampsInOrder' /\ RestartIsNoted'
<1>1. /\ now \in Nat
      /\ Actual(sts) # None => Actual(sts).restartAt \in Nat
  BY ObjectTyped DEF TypeOK, StatefulSet
<1>2. StampsInOrder'
  BY <1>1 DEF StampsInOrder, NoTime, Actual
<1>3. RestartIsNoted'
  BY <1>1 DEF StampsInOrder, RestartIsNoted, Actual
<1> QED BY <1>2, <1>3

LEMMA RestartNext == RestartInv /\ [Next]_vars => RestartInv'
<1> SUFFICES ASSUME RestartInv, [Next]_vars PROVE RestartInv'
  OBVIOUS
<1> DEFINE Goal == StampsInOrder' /\ RestartIsNoted'
<1>0. /\ TypeInv /\ TypeInv' /\ TypeOK /\ ChildrenExist /\ StampsInOrder /\ RestartIsNoted
      /\ serverCM \in Object(ConfigMap) /\ sts \in Object(StatefulSet)
      /\ now \in Nat /\ lost \in BOOLEAN
      /\ pod \in [up: BOOLEAN, conf: Confs \cup {None}, rev: Revision]
  BY NextTyped DEF RestartInv, TypeInv, TypeOK
<1>a. /\ UpToDate(serverCM) => Seen(serverCM) = Actual(serverCM)
      /\ UpToDate(sts) => Seen(sts) = Actual(sts)
  BY <1>0 DEF ChildrenExist, Versions, UpToDate, Seen, Actual
<1> SUFFICES Goal
  BY <1>0 DEF RestartInv
<1>1. CASE UNCHANGED <<serverCM, sts, pod, now>>
           /\ (lost => lost') /\ (pc = "annotateServerConf" => pc' = pc \/ lost')
  BY <1>0, <1>1, StampsKept
<1>2. CASE StartReconcile \/ UpdateStatusConditions \/ ReconcileTLS \/ RestartNeeded
  BY <1>1, <1>2 DEF StartReconcile, UpdateStatusConditions, ReconcileTLS, RestartNeeded, children
<1>3. CASE RejectTLS \/ RunCLICommandsIfAnnotated \/ FinishReconcile \/ CreateOrUpdateFails
           \/ AnnotateFails \/ RestartFails
  BY <1>1, <1>3 DEF RejectTLS, RunCLICommandsIfAnnotated, FinishReconcile, CreateOrUpdateFails,
     AnnotateFails, RestartFails, children
<1>4. CASE EndpointsDelivered \/ Resync \/ EditSpec \/ WriteTLSSecret \/ UNCHANGED vars
  <2>1. UNCHANGED <<serverCM, sts, pod, now, pc, lost>>
    BY <1>4 DEF EndpointsDelivered, Resync, EditSpec, WriteTLSSecret, vars, children
  <2> QED BY <1>1, <2>1
<1>5. CASE ReconcileServerConfigMap
  <2>1. /\ pc = "serverConfigMap" /\ UNCHANGED <<sts, pod, now, lost>>
        /\ \/ UNCHANGED serverCM
           \/ /\ UpToDate(serverCM) /\ serverCM' = Written(serverCM, desiredServerCM)
              /\ pc' = IF Seen(serverCM) = None THEN "statefulSet" ELSE "annotateServerConf"
    BY <1>5 DEF ReconcileServerConfigMap, Goto
  <2>2. CASE UNCHANGED serverCM
    BY <1>0, <2>1, <2>2, StampsKept
  <2>3. CASE /\ UpToDate(serverCM)
             /\ pc' = IF Seen(serverCM) = None THEN "statefulSet" ELSE "annotateServerConf"
    <3>1. StampsInOrder'
      BY <1>0, <2>1 DEF StampsInOrder, Actual
    <3>2. pc' = "annotateServerConf" \/ ~pod.up
      BY <1>0, <1>a, <2>3 DEF StampsInOrder, ChildrenExist
    <3> QED BY <2>1, <3>1, <3>2 DEF RestartIsNoted
  <2> QED BY <2>1, <2>2, <2>3
<1>6. CASE AnnotateServerConfigMap
  <2> DEFINE new == [Actual(serverCM) EXCEPT !.updatedAt = now]
  <2>1. /\ pc = "annotateServerConf" /\ serverCM' = Written(serverCM, new)
        /\ UNCHANGED <<sts, pod, now, lost>>
    BY <1>6 DEF AnnotateServerConfigMap
  <2>2. Actual(serverCM) \in ConfigMap
    BY <1>0, <2>1, ObjectTyped DEF ChildrenExist, AfterServerConf
  <2>3. new \in ConfigMap /\ new.updatedAt = now
    BY <1>0, <2>2 DEF ConfigMap
  <2> HIDE DEF new
  <2>4. Actual(serverCM') = new
    BY <1>0, <2>1, <2>3, ServerCMWritten
  <2>5. StampsInOrder'
    BY <1>0, <2>1 DEF StampsInOrder, Actual
  <2>6. RestartIsNoted'
    BY <1>0, <2>1, <2>3, <2>4 DEF StampsInOrder, RestartIsNoted, Actual
  <2> QED BY <2>5, <2>6
<1>7. CASE ReconcileStatefulSet
  <2>1. /\ pc = "statefulSet" /\ UNCHANGED <<serverCM, pod, now, lost>>
        /\ \/ UNCHANGED sts
           \/ UpToDate(sts) /\ sts' = Written(sts, desiredSts)
    BY <1>7 DEF ReconcileStatefulSet
  <2>2. /\ desiredSts \in StatefulSet /\ Actual(serverCM) # None
        /\ Seen(sts) # None => desiredSts.restartAt = Seen(sts).restartAt
        /\ Seen(sts) = None => desiredSts.restartAt = NoTime
    BY <1>0, <2>1, DesiredStsTyped DEF ChildrenExist, AfterServerConf
  <2>3. CASE UNCHANGED sts
    BY <1>0, <2>1, <2>3, StampsKept
  <2>4. CASE UpToDate(sts) /\ sts' = Written(sts, desiredSts)
    <3>1. Actual(sts') = desiredSts /\ desiredSts # None
      BY <1>0, <2>1, <2>2, <2>4, StsWritten, NoneAssumption
    <3> QED BY <1>0, <1>a, <2>1, <2>2, <2>4, <3>1, StampsKept
  <2> QED BY <2>1, <2>3, <2>4
<1>8. CASE RestartStatefulSet
  <2> DEFINE new == [Actual(sts) EXCEPT !.restartAt = now]
  <2>1. /\ pc = "restartStatefulSet" /\ sts' = Written(sts, new) /\ Actual(sts) # None
        /\ UNCHANGED <<serverCM, pod, now, lost>>
    BY <1>8 DEF RestartStatefulSet
  <2>2. Actual(sts) \in StatefulSet /\ Actual(serverCM) # None
    BY <1>0, <2>1, ObjectTyped DEF ChildrenExist
  <2>3. new \in StatefulSet /\ new.restartAt = now /\ Actual(sts).restartAt \in Nat
    BY <1>0, <2>2 DEF StatefulSet
  <2> HIDE DEF new
  <2>4. Actual(sts') = new /\ new # None
    BY <1>0, <2>1, <2>2, <2>3, StsWritten, NoneAssumption
  <2>5. pod.rev.restartAt \in Nat
    BY <1>0 DEF Revision
  <2>6. StampsInOrder'
    BY <1>0, <2>1, <2>3, <2>4, <2>5 DEF StampsInOrder, Actual
  \* A node of the new revision is one that this second has restarted before.
  <2>7. pod.up /\ pod.rev.restartAt = new.restartAt => Actual(sts).restartAt = new.restartAt
    BY <1>0, <2>3, <2>5 DEF StampsInOrder
  <2>8. RestartIsNoted'
    BY <1>0, <2>1, <2>4, <2>7 DEF RestartIsNoted, Actual
  <2> QED BY <2>6, <2>8
<1>9. CASE ServerConfigMapDelivered
  <2>1. serverCM' = Shown(serverCM) /\ UNCHANGED <<sts, pod, now, lost, pc>>
    BY <1>9 DEF ServerConfigMapDelivered
  <2>2. Actual(serverCM') = Actual(serverCM)
    BY <1>0, <2>1, ShownTyped
  <2> QED BY <1>0, <2>1, <2>2, StampsKept
<1>10. CASE StatefulSetDelivered
  <2>1. sts' = Shown(sts) /\ UNCHANGED <<serverCM, pod, now, lost, pc>>
    BY <1>10 DEF StatefulSetDelivered
  <2>2. Actual(sts') = Actual(sts)
    BY <1>0, <2>1, ShownTyped
  <2> QED BY <1>0, <2>1, <2>2, StampsKept
<1>11. CASE Tick
  BY <1>0, <1>11, StampsKept DEF Tick, children
<1>12. CASE StatefulSetControllerSyncs
  <2> DEFINE u == pod.rev.template # None /\ ~(pod.up /\ pod.rev = RevisionOf(Actual(sts)))
             new == [Actual(sts) EXCEPT !.ready = pod.up, !.updating = u]
  <2>1. /\ Actual(sts) # None /\ sts' = Written(sts, new)
        /\ UNCHANGED <<pc, serverCM, pod, now, lost>>
    BY <1>12 DEF StatefulSetControllerSyncs
  <2>2. Actual(sts) \in StatefulSet /\ Actual(serverCM) # None
    BY <1>0, <2>1, ObjectTyped DEF ChildrenExist
  <2>3. u \in BOOLEAN /\ pod.up \in BOOLEAN
    BY <1>0
  <2> HIDE DEF u
  <2>4. new \in StatefulSet /\ new.restartAt = Actual(sts).restartAt
    BY <2>2, <2>3 DEF StatefulSet
  <2> HIDE DEF new
  <2>5. Actual(sts') = new /\ new # None
    BY <1>0, <2>1, <2>2, <2>4, StsWritten, NoneAssumption
  <2> QED BY <1>0, <2>1, <2>4, <2>5, StampsKept
<1>13. CASE PodStops
  <2>1. pod' = [pod EXCEPT !.up = FALSE] /\ UNCHANGED <<serverCM, sts, now, lost, pc>>
    BY <1>13 DEF PodStops, children
  <2>2. pod'.up = FALSE
    BY <1>0, <2>1
  <2> QED BY <1>0, <2>1, <2>2 DEF StampsInOrder, RestartIsNoted
<1>14. CASE PodStarts
  <2>1. /\ Actual(sts) # None /\ UNCHANGED <<serverCM, sts, now, lost, pc>>
        /\ pod' = [up |-> TRUE, conf |-> Actual(serverCM).content, rev |-> RevisionOf(Actual(sts))]
    BY <1>14 DEF PodStarts, children
  <2>2. /\ pod'.conf = Actual(serverCM).content
        /\ pod'.rev.restartAt = Actual(sts).restartAt /\ Actual(sts).restartAt \in Nat
    BY <1>0, <2>1, ObjectTyped DEF RevisionOf, StatefulSet
  <2> QED BY <1>0, <2>1, <2>2 DEF StampsInOrder, RestartIsNoted, Actual
<1> QED
  BY <1>2, <1>3, <1>4, <1>5, <1>6, <1>7, <1>8, <1>9, <1>10, <1>11, <1>12, <1>13, <1>14
  DEF Next, ReconcileStep, KubernetesStep

\* A node that runs a rabbitmq.conf of the past in the StatefulSet's present revision is
\* restarted by the next reconcile, unless the annotation was given up
\* (restartStatefulSetIfNeeded, updateAnnotation).
THEOREM NoLostRestartHolds == Spec => []NoLostRestart
<1>1. Init => RestartInv
  BY InitTyped, RestartInit DEF RestartInv
<1>2. RestartInv => NoLostRestart
  BY DEF RestartInv, RestartIsNoted, NoLostRestart, AtRest, RevisionOf
<1> QED BY <1>1, RestartNext, <1>2, PTL DEF Spec

=============================================================================
