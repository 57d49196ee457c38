---------------------------- MODULE ProductDelivery ----------------------------
(***************************************************************************)
(* What the pipeline promises: each product that is sent is saved under    *)
(* its id at least once, and only then settled, after which it is never    *)
(* saved again.  Nothing is said of the order in which products are saved, *)
(* or of how often each one is.                                            *)
(***************************************************************************)
EXTENDS Naturals

CONSTANTS
    Ids,            \* product ids
    Version         \* positive numbers, of the writes in the order they are asked for

VARIABLES
    sent,           \* products that were taken over
    saved,          \* those that were saved at least once
    settled,        \* those that are done with
    store           \* the version stored under each id, 0 if there is none

vars == <<sent, saved, settled, store>>

Product == [id: Ids, version: Version]

Init == sent = {} /\ saved = {} /\ settled = {} /\ store = [i \in Ids |-> 0]

IsNew(v) == \A m \in sent : m.version < v

Send(m) ==
    /\ IsNew(m.version)
    /\ sent' = sent \union {m}
    /\ UNCHANGED <<saved, settled, store>>

\* A write that does not come this way.
SaveDirectly(id, v) ==
    /\ IsNew(v)
    /\ store' = [store EXCEPT ![id] = v]
    /\ UNCHANGED <<sent, saved, settled>>

Save(m) ==
    /\ m \in sent \ settled
    /\ saved' = saved \union {m}
    /\ store' = [store EXCEPT ![m.id] = m.version]
    /\ UNCHANGED <<sent, settled>>

Settle(m) ==
    /\ m \in saved \ settled
    /\ settled' = settled \union {m}
    /\ UNCHANGED <<sent, saved, store>>

Next ==
    \/ \E m \in Product : Send(m) \/ Save(m) \/ Settle(m)
    \/ \E id \in Ids, v \in Version : SaveDirectly(id, v)

\* A product that was sent is saved, and one that was saved is settled.  Each version is
\* that of one product.
SaveFirst(v) == \E m \in Product \ saved : m.version = v /\ Save(m)
SettleVersion(v) == \E m \in Product : m.version = v /\ Settle(m)
Fairness == \A v \in Version : WF_vars(SaveFirst(v)) /\ WF_vars(SettleVersion(v))

Spec == Init /\ [][Next]_vars
FairSpec == Spec /\ Fairness
=============================================================================
