--------------------------- MODULE MCClusterDeletion ---------------------------
(* Instances of ClusterDeletion for TLC: a cluster and its successor in one     *)
(* namespace, or two clusters of one name in two namespaces.                    *)
EXTENDS ClusterDeletion

CONSTANTS first, second, here, there

Successor == [c \in {first, second} |-> here]
TwoNamespaces == [c \in {first, second} |-> IF c = first THEN here ELSE there]
=============================================================================
