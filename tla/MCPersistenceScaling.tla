------------------------- MODULE MCPersistenceScaling -------------------------
(* Instances of PersistenceScaling for TLC: a cluster of two nodes, storage 0  *)
(* (ephemeral), 1 and 2, and edits of storage and replicas up and down.        *)
EXTENDS PersistenceScaling

S(replicas, capacity) == [replicas |-> replicas, capacity |-> capacity]

TwoNodes == {S(2, 1)}
EveryStorage == {S(2, 0), S(1, 1), S(2, 1)}

\* Expansion, shrinking, ephemeral storage, and replicas up and down with them.
AllEdits == {S(n, c) : n \in 1..2, c \in 0..2}
ExpandAndScaleDown == {S(2, 2), S(1, 1)}
=============================================================================
