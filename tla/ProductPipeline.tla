----------------------------- MODULE ProductPipeline -----------------------------
(***************************************************************************)
(* How products reach the store.  Publishers send them to the exchange     *)
(* pos.products; the quorum queue pos.products.consumer, once the consumer *)
(* has declared it, takes every message; the consumer saves each product   *)
(* in Redis under its id and acknowledges the message afterwards, or, when *)
(* anything throws, gives it back to the queue.  The pos-service writes    *)
(* the same keys directly.                                                 *)
(*                                                                         *)
(* Every write asked for has a version, in the order in which they were    *)
(* asked for.  Where the queue puts a message that comes back is left open *)
(* (head or tail): it differs between queue types and versions.            *)
(***************************************************************************)
EXTENDS Naturals, Sequences, SequencesExt

CONSTANTS
    Ids,            \* product ids, the keys in Redis
    Prefetch,       \* deliveries that may wait for their acknowledgement
    MaxWrites,      \* bound on the messages published and the direct saves
    MaxPoison,      \* bound on published messages that are no product
    MaxFaults       \* bound on lost connections, crashes and failed saves

ASSUME ConstantsAssumption ==
    /\ Prefetch \in Nat \ {0}
    /\ MaxWrites \in Nat /\ MaxPoison \in Nat /\ MaxFaults \in Nat

VARIABLES
    declared,       \* the queue exists and is bound to the exchange
    queue,          \* its messages that are ready
    running,        \* the consumer is connected and its receiver registered
    deliveries,     \* what it has been sent and not settled, in that order
    pc,             \* "receive" or "ack": where it is with the first of them
    redis,          \* the version stored under each id, 0 if there is none
    writes,         \* versions given out
    poison, faults, \* how much of the bounds is used
    routed, saved,  \* history: products the queue took, products the consumer saved
    overtaken       \* history: ids with a message that came back behind a newer one,
                    \* or with a direct save ahead of a message under way

vars == <<declared, queue, running, deliveries, pc, redis, writes, poison, faults,
          routed, saved, overtaken>>
consumer == <<running, deliveries, pc>>
history == <<routed, saved, overtaken>>

Version == 1..MaxWrites
Message == [id: Ids, version: Version, product: BOOLEAN]

Pending == deliveries \o queue

\* Messages that are products, as ProductDelivery knows them.
Product == [id: Ids, version: Version]
Products(messages) == {[id |-> m.id, version |-> m.version] : m \in messages}

TypeOK ==
    /\ declared \in BOOLEAN /\ running \in BOOLEAN /\ pc \in {"receive", "ack"}
    /\ queue \in Seq(Message) /\ deliveries \in Seq(Message)
    /\ Len(deliveries) <= Prefetch /\ Len(Pending) <= writes
    /\ redis \in [Ids -> Version \union {0}]
    /\ writes \in 0..MaxWrites /\ poison \in 0..MaxPoison /\ faults \in 0..MaxFaults
    /\ routed \subseteq Message /\ saved \subseteq Message /\ overtaken \subseteq Ids

Init ==
    /\ declared = FALSE /\ queue = <<>>
    /\ running = FALSE /\ deliveries = <<>> /\ pc = "receive"
    /\ redis = [i \in Ids |-> 0]
    /\ writes = 0 /\ poison = 0 /\ faults = 0
    /\ routed = {} /\ saved = {} /\ overtaken = {}

--------------------------------------------------------------------------------
(* The writers. *)

NewVersion == writes < MaxWrites /\ writes' = writes + 1

\* An exchange without a queue drops what it gets, and the publisher hears nothing.
Route(message) ==
    IF declared THEN /\ queue' = Append(queue, message)
                     /\ routed' = IF message.product THEN routed \union {message} ELSE routed
                ELSE UNCHANGED <<queue, routed>>

Publish(id) ==
    /\ NewVersion
    /\ Route([id |-> id, version |-> writes', product |-> TRUE])
    /\ UNCHANGED <<declared, consumer, redis, poison, faults, saved, overtaken>>

\* By another publisher to the same exchange: what it sends is no product.
PublishPoison(id) ==
    /\ NewVersion /\ poison < MaxPoison /\ poison' = poison + 1
    /\ Route([id |-> id, version |-> writes', product |-> FALSE])
    /\ UNCHANGED <<declared, consumer, redis, faults, saved, overtaken>>

\* SaveProduct and SaveJson of the pos-service.
SaveDirectly(id) ==
    /\ NewVersion
    /\ redis' = [redis EXCEPT ![id] = writes']
    /\ overtaken' = IF \E m \in ToSet(Pending) : m.id = id THEN overtaken \union {id}
                                                           ELSE overtaken
    /\ UNCHANGED <<declared, queue, consumer, poison, faults, routed, saved>>

--------------------------------------------------------------------------------
(* The consumer. *)

\* Defective variant: a queue that is there already is not taken over.
ConfigureServicesOnce ==
    /\ ~running /\ ~declared
    /\ running' = TRUE /\ declared' = TRUE
    /\ UNCHANGED <<queue, deliveries, pc, redis, writes, poison, faults, history>>

\* ConfigureServices, up to RegisterReceiver; also the client's recovery.
ConfigureServices ==
    /\ ~running
    /\ running' = TRUE /\ declared' = TRUE
    /\ UNCHANGED <<queue, deliveries, pc, redis, writes, poison, faults, history>>

\* The broker sends as much as the prefetch count lets it.
Deliver ==
    /\ running /\ queue # <<>> /\ Len(deliveries) < Prefetch
    /\ LET room == Prefetch - Len(deliveries)
           n == IF room < Len(queue) THEN room ELSE Len(queue)
       IN  /\ deliveries' = deliveries \o SubSeq(queue, 1, n)
           /\ queue' = SubSeq(queue, n + 1, Len(queue))
    /\ UNCHANGED <<declared, running, pc, redis, writes, poison, faults, history>>

Receiving == running /\ deliveries # <<>> /\ pc = "receive"
message == Head(deliveries)

\* The ids with an older product behind a newer one.
Unordered(messages) ==
    {i \in Ids : \E j, k \in 1..Len(messages) :
        /\ j < k /\ messages[j].version > messages[k].version
        /\ \A m \in {messages[j], messages[k]} : m.product /\ m.id = i}

\* Messages come back to the head or the tail of the queue.
Return(messages, rest) ==
    /\ queue' \in {messages \o queue, queue \o messages}
    /\ deliveries' = rest
    /\ overtaken' = overtaken \union Unordered(rest \o queue')

Stored(m) == /\ redis' = [redis EXCEPT ![m.id] = m.version]
             /\ saved' = saved \union {m}

\* Defective variant: deliveries are handled side by side.
SaveAnyProduct ==
    /\ Receiving
    /\ \E i \in 1..Len(deliveries) :
         /\ deliveries[i].product
         /\ Stored(deliveries[i])
         /\ deliveries' = <<deliveries[i]>> \o RemoveAt(deliveries, i)
    /\ pc' = "ack"
    /\ UNCHANGED <<declared, queue, running, writes, poison, faults, routed, overtaken>>

SaveProduct ==
    /\ Receiving /\ message.product
    /\ Stored(message)
    /\ pc' = "ack"
    /\ UNCHANGED <<declared, queue, running, deliveries, writes, poison, faults, routed,
                   overtaken>>

BasicAck ==
    /\ running /\ pc = "ack"
    /\ deliveries' = Tail(deliveries) /\ pc' = "receive"
    /\ UNCHANGED <<declared, queue, running, redis, writes, poison, faults, history>>

\* Defective variant: the message is requeued and waits for an acknowledgement as well.
RejectAndKeep ==
    /\ Receiving /\ ~message.product
    /\ Return(<<message>>, deliveries)
    /\ UNCHANGED <<declared, running, pc, redis, writes, poison, faults, routed, saved>>

\* It cannot be deserialised: the catch block gives it back.
Reject ==
    /\ Receiving /\ ~message.product
    /\ Return(<<message>>, Tail(deliveries))
    /\ UNCHANGED <<declared, running, pc, redis, writes, poison, faults, routed, saved>>

--------------------------------------------------------------------------------
(* Failures. *)

Fault == faults < MaxFaults /\ faults' = faults + 1

\* Defective variant: the message is dropped instead of requeued.
SaveFailsForGood ==
    /\ Fault /\ Receiving /\ message.product
    /\ deliveries' = Tail(deliveries)
    /\ UNCHANGED <<declared, queue, running, pc, redis, writes, poison, history>>

\* StringSet throws, when Redis has not stored the product or when only the answer is
\* lost: the catch block gives the message back.
SaveFails ==
    /\ Fault /\ Receiving /\ message.product
    /\ Stored(message) \/ UNCHANGED <<redis, saved>>
    /\ Return(<<message>>, Tail(deliveries))
    /\ UNCHANGED <<declared, running, pc, writes, poison, routed>>

\* The consumer stops or its connection breaks, perhaps between the save and the
\* acknowledgement; the broker takes back what is not settled.
Disconnect ==
    /\ Fault /\ running
    /\ running' = FALSE /\ pc' = "receive"
    /\ Return(deliveries, <<>>)
    /\ UNCHANGED <<declared, redis, writes, poison, routed, saved>>

--------------------------------------------------------------------------------

Next ==
    \/ \E id \in Ids : Publish(id) \/ PublishPoison(id) \/ SaveDirectly(id)
    \/ ConfigureServices \/ Deliver \/ SaveProduct \/ BasicAck \/ Reject
    \/ SaveFails \/ Disconnect

Spec == Init /\ [][Next]_vars

\* The consumer is started again and its receiver called, and the broker delivers.
Fairness ==
    /\ WF_vars(ConfigureServices) /\ WF_vars(Deliver)
    /\ WF_vars(SaveProduct \/ BasicAck \/ Reject)

FairSpec == Spec /\ Fairness

--------------------------------------------------------------------------------
(* Properties. *)

\* A product that the queue took is saved before its message is gone, whatever fails.
NoLostProduct == routed \subseteq saved \union ToSet(Pending)

\* An older product replaces a newer one only if a message came back behind a newer one
\* of its id, or a direct save was made ahead of one: not by a redelivery in order, after
\* a crash between the save and the acknowledgement, say.
StoredInOrder ==
    [][\A i \in Ids \ overtaken' : redis'[i] >= redis[i]]_redis

\* Each product that the queue took is saved at least once, whatever fails, and done with
\* only then: the pipeline implements ProductDelivery, fairness included.  What the queue
\* took and no longer holds is settled.  A message that is no product comes back for ever;
\* with fewer of them than deliveries that may wait, every product still gets through.
Delivery == INSTANCE ProductDelivery WITH
    sent <- Products(routed), saved <- Products(saved),
    settled <- Products(routed \ ToSet(Pending)), store <- redis
ImplementsDelivery == Delivery!FairSpec
=============================================================================
