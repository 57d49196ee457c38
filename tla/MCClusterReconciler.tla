--------------------------- MODULE MCClusterReconciler ---------------------------
(* Instances of ClusterReconciler for TLC. *)
EXTENDS ClusterReconciler

S(conf, plugins, template, replicas, skip, tls, defaulted) ==
    [conf |-> conf, plugins |-> plugins, template |-> template, replicas |-> replicas,
     skipPostDeploySteps |-> skip, tls |-> tls, defaulted |-> defaulted]

V(conf, plugins, template, replicas) ==
    S(conf, plugins, template, replicas, FALSE, "valid", TRUE)
Undefaulted(spec0) == [spec0 EXCEPT !.defaulted = FALSE]
WithoutTLS(spec0) == [spec0 EXCEPT !.tls = "disabledListenersWithoutTLS"]

OneNode == {V("c1", "p1", "t1", 1)}
TwoNodes == {V("c1", "p1", "t1", 2)}
NewCluster == {Undefaulted(V("c1", "p1", "t1", 2))}

\* Each part changed alone, two at once, and a scale down.
SafetyEdits ==
    {V("c1", "p1", "t1", 2), V("c2", "p1", "t1", 2), V("c1", "p2", "t1", 2),
     V("c2", "p1", "t2", 2), V("c2", "p1", "t1", 1)}

\* Clusters of no, one and two nodes, changed alone in plugins or rabbitmq.conf, grown, rolled
\* out, and changed in the two ways the operator rejects.
FewNodes == {V("c1", "p1", "t1", n) : n \in 0..2}
LivenessEdits ==
    {V("c1", "p2", "t1", 1), V("c2", "p1", "t1", 1), V("c2", "p1", "t1", 2),
     WithoutTLS(V("c1", "p1", "t1", 2))}

\* Bound: a failure strikes a cluster of at most one node, which then does not grow.
FaultsInSmallClusters ==
    /\ faults' # faults => cr.spec.replicas < 2
    /\ cr'.spec.replicas > cr.spec.replicas => faults = 0

ConfEdit == {V("c2", "p1", "t1", 1)}
TemplateEdit == {V("c1", "p1", "t2", 2)}
=============================================================================
