------------------------- MODULE ProductPipelineProofs -------------------------
(***************************************************************************)
(* Theorems about ProductPipeline for every set of products, every         *)
(* prefetch count and every number of writes, poison messages and faults.  *)
(***************************************************************************)
EXTENDS ProductPipeline, SequenceTheorems, TLAPS

(* The messages under way, as a sequence and as a set. *)

LEMMA ToSetConcat ==
    ASSUME NEW S, NEW s \in Seq(S), NEW t \in Seq(S)
    PROVE  /\ s \o t \in Seq(S) /\ Len(s \o t) = Len(s) + Len(t)
           /\ ToSet(s \o t) = ToSet(s) \union ToSet(t)
<1>1. Range(s \o t) = Range(s) \union Range(t)
  BY RangeConcatenation
<1>2. ToSet(s \o t) = Range(s \o t) /\ ToSet(s) = Range(s) /\ ToSet(t) = Range(t)
  BY DEF Range, ToSet
<1>3. s \o t \in Seq(S) /\ Len(s \o t) = Len(s) + Len(t)
  BY ConcatProperties
<1> QED BY <1>1, <1>2, <1>3

LEMMA ToSetOfOne == ASSUME NEW e PROVE ToSet(<<e>>) = {e}
BY DEF ToSet

LEMMA ToSetTyped == ASSUME NEW S, NEW s \in Seq(S) PROVE ToSet(s) \subseteq S
BY DEF ToSet

LEMMA HeadAndTail ==
    ASSUME NEW S, NEW s \in Seq(S), s # <<>>
    PROVE  /\ Head(s) \in S /\ Tail(s) \in Seq(S) /\ <<Head(s)>> \in Seq(S)
           /\ s = <<Head(s)>> \o Tail(s)
           /\ ToSet(s) = {Head(s)} \union ToSet(Tail(s))
<1>1. Head(s) \in S /\ Tail(s) \in Seq(S) /\ <<Head(s)>> \in Seq(S)
  BY HeadTailProperties
<1>2. s = <<Head(s)>> \o Tail(s)
  <2>1. Len(s) \in Nat /\ Len(s) >= 1 /\ Len(Tail(s)) = Len(s) - 1 /\ Head(s) = s[1]
        /\ \A i \in 1..Len(Tail(s)) : Tail(s)[i] = s[i + 1]
    BY HeadTailProperties, EmptySeq, LenProperties
  <2>2. /\ <<Head(s)>> \o Tail(s) \in Seq(S)
        /\ Len(<<Head(s)>> \o Tail(s)) = Len(s)
        /\ \A i \in 1..Len(s) : (<<Head(s)>> \o Tail(s))[i] =
               IF i <= 1 THEN <<Head(s)>>[i] ELSE Tail(s)[i - 1]
    BY <1>1, <2>1, ConcatProperties
  <2> QED BY <2>1, <2>2, SeqEqual
<1>3. ToSet(<<Head(s)>> \o Tail(s)) = ToSet(<<Head(s)>>) \union ToSet(Tail(s))
  BY <1>1, ToSetConcat, ZenonT(60)
<1>4. ToSet(<<Head(s)>>) = {Head(s)}
  BY ToSetOfOne
<1> QED BY <1>1, <1>2, <1>3, <1>4

LEMMA PendingTyped ==
    ASSUME TypeOK
    PROVE  /\ Pending \in Seq(Message) /\ Len(Pending) = Len(deliveries) + Len(queue)
           /\ ToSet(Pending) = ToSet(deliveries) \union ToSet(queue)
           /\ ToSet(Pending) \subseteq Message
BY ConcatProperties, ToSetConcat, ToSetTyped DEF TypeOK, Pending

(* What each kind of step does to them. *)

\* A message that is routed is the last one.
LEMMA RouteEffect ==
    ASSUME TypeOK, NEW m \in Message, Route(m), UNCHANGED deliveries
    PROVE  /\ queue' \in Seq(Message)
           /\ \/ declared /\ Pending' = Append(Pending, m)
                 /\ routed' = IF m.product THEN routed \union {m} ELSE routed
              \/ Pending' = Pending /\ routed' = routed
<1>1. CASE declared
  <2>1. /\ queue' = Append(queue, m)
        /\ routed' = IF m.product THEN routed \union {m} ELSE routed
    BY <1>1 DEF Route
  <2>2. queue' \in Seq(Message)
    BY <2>1, AppendProperties DEF TypeOK
  <2>3. Pending' = Append(Pending, m)
    <3>1. queue' = queue \o <<m>> /\ <<m>> \in Seq(Message)
      BY <2>1, AppendIsConcat DEF TypeOK
    <3>2. Append(Pending, m) = (deliveries \o queue) \o <<m>>
      BY PendingTyped, AppendIsConcat DEF Pending
    <3> QED BY <3>1, <3>2, ConcatAssociative, SMTT(30) DEF Pending, TypeOK
  <2> QED BY <1>1, <2>1, <2>2, <2>3
<1>2. CASE ~declared
  BY <1>2 DEF Route, Pending, TypeOK
<1> QED BY <1>1, <1>2

\* A delivery moves messages from the queue to the consumer, in their order.
LEMMA DeliverEffect ==
    ASSUME TypeOK, Deliver
    PROVE  /\ queue' \in Seq(Message) /\ deliveries' \in Seq(Message)
           /\ Len(deliveries') <= Prefetch
           /\ Pending' = Pending
           /\ deliveries # <<>> => deliveries' # <<>> /\ Head(deliveries') = Head(deliveries)
<1> DEFINE room == Prefetch - Len(deliveries)
           n == IF room < Len(queue) THEN room ELSE Len(queue)
           first == SubSeq(queue, 1, n)
           second == SubSeq(queue, n + 1, Len(queue))
<1>1. /\ deliveries' = deliveries \o first /\ queue' = second
      /\ queue # <<>> /\ Len(deliveries) < Prefetch
  BY DEF Deliver
<1>2. /\ deliveries \in Seq(Message) /\ queue \in Seq(Message)
      /\ Len(deliveries) \in Nat /\ Len(queue) \in Nat /\ Len(queue) # 0 /\ Prefetch \in Nat
  BY <1>1, ConstantsAssumption, EmptySeq, LenProperties DEF TypeOK
<1>3. n \in 1..Len(queue) /\ n <= room
  BY <1>1, <1>2
<1>4. /\ first \in Seq(Message) /\ Len(first) = n
      /\ second \in Seq(Message)
  <2> HIDE DEF n
  <2>1. \A i \in 1..Len(queue) : queue[i] \in Message
    BY <1>2, ElementOfSeq
  <2> QED BY <1>2, <1>3, <2>1, SubSeqProperties
<1>5. first \o second = queue
  <2> HIDE DEF n
  <2>1. first \o second = SubSeq(queue, 1, Len(queue))
    BY <1>2, <1>3, ConcatAdjacentSubSeq
  <2> QED BY <1>2, <2>1, SubSeqFull
<1> HIDE DEF first, second, n
<1>6. /\ deliveries' \in Seq(Message) /\ Len(deliveries') = Len(deliveries) + n
      /\ \A i \in 1..Len(deliveries) : deliveries'[i] = deliveries[i]
  <2>1. /\ deliveries \o first \in Seq(Message)
        /\ Len(deliveries \o first) = Len(deliveries) + Len(first)
        /\ \A i \in 1..Len(deliveries) + Len(first) : (deliveries \o first)[i] =
               IF i <= Len(deliveries) THEN deliveries[i] ELSE first[i - Len(deliveries)]
    BY <1>2, <1>4, ConcatProperties
  <2> QED BY <1>1, <1>2, <1>3, <1>4, <2>1
<1>7. Pending' = Pending
  <2>1. (deliveries \o first) \o second = deliveries \o (first \o second)
    BY <1>2, <1>4, ConcatAssociative, SMTT(30)
  <2> QED BY <1>1, <1>5, <2>1 DEF Pending
<1>8. ASSUME deliveries # <<>>
      PROVE  deliveries' # <<>> /\ Head(deliveries') = Head(deliveries)
  <2>1. Len(deliveries) >= 1
    BY <1>2, <1>8, EmptySeq
  <2>2. Len(deliveries') >= 1 /\ deliveries'[1] = deliveries[1]
    BY <1>2, <1>3, <1>6, <2>1
  <2>3. deliveries' # <<>>
    BY <2>2
  <2> QED BY <1>2, <1>6, <1>8, <2>2, <2>3, HeadTailProperties
<1> QED BY <1>1, <1>2, <1>3, <1>4, <1>6, <1>7, <1>8

\* What comes back is the same messages, in another order.
LEMMA ReturnEffect ==
    ASSUME TypeOK, NEW back \in Seq(Message), NEW rest \in Seq(Message),
           deliveries = back \o rest, Return(back, rest)
    PROVE  /\ queue' \in Seq(Message) /\ deliveries' \in Seq(Message)
           /\ Len(deliveries') <= Prefetch
           /\ Pending' \in Seq(Message) /\ Len(Pending') = Len(Pending)
           /\ ToSet(Pending') = ToSet(Pending)
           /\ overtaken' = overtaken \union Unordered(Pending')
<1>1. PICK q \in {back \o queue, queue \o back} :
        /\ queue' = q /\ deliveries' = rest
        /\ overtaken' = overtaken \union Unordered(Pending')
  BY DEF Return, Pending
<1>2. /\ queue \in Seq(Message) /\ Len(queue) \in Nat /\ Len(back) \in Nat /\ Len(rest) \in Nat
      /\ Len(deliveries) = Len(back) + Len(rest) /\ Len(deliveries) <= Prefetch
      /\ ToSet(deliveries) = ToSet(back) \union ToSet(rest) /\ Prefetch \in Nat
  BY ConcatProperties, ToSetConcat, LenProperties, ConstantsAssumption DEF TypeOK
<1>3. /\ q \in Seq(Message) /\ Len(q) = Len(queue) + Len(back)
      /\ ToSet(q) = ToSet(queue) \union ToSet(back)
  <2>1. /\ back \o queue \in Seq(Message) /\ Len(back \o queue) = Len(back) + Len(queue)
        /\ ToSet(back \o queue) = ToSet(back) \union ToSet(queue)
    BY <1>2, ToSetConcat
  <2>2. /\ queue \o back \in Seq(Message) /\ Len(queue \o back) = Len(queue) + Len(back)
        /\ ToSet(queue \o back) = ToSet(queue) \union ToSet(back)
    BY <1>2, ToSetConcat
  <2>3. Len(back) + Len(queue) = Len(queue) + Len(back)
    BY <1>2
  <2> QED BY <1>1, <2>1, <2>2, <2>3
<1>4. Pending' = rest \o q
  BY <1>1 DEF Pending
<1>5. /\ rest \o q \in Seq(Message) /\ Len(rest \o q) = Len(rest) + Len(q)
      /\ ToSet(rest \o q) = ToSet(rest) \union ToSet(q)
  <2>1. q \in Seq(Message) /\ rest \in Seq(Message)
    BY <1>3
  <2> QED BY ONLY <2>1, ToSetConcat
<1> QED BY <1>1, <1>2, <1>3, <1>4, <1>5, PendingTyped

LEMMA GiveBackEffect ==
    ASSUME TypeOK, deliveries # <<>>, Return(<<message>>, Tail(deliveries))
    PROVE  /\ queue' \in Seq(Message) /\ deliveries' \in Seq(Message)
           /\ Len(deliveries') <= Prefetch
           /\ Pending' \in Seq(Message) /\ Len(Pending') = Len(Pending)
           /\ ToSet(Pending') = ToSet(Pending)
           /\ overtaken' = overtaken \union Unordered(Pending')
<1>1. /\ Tail(deliveries) \in Seq(Message) /\ <<message>> \in Seq(Message)
      /\ deliveries = <<message>> \o Tail(deliveries)
  BY HeadAndTail DEF TypeOK, message
<1> QED BY <1>1, ReturnEffect

LEMMA DisconnectEffect ==
    ASSUME TypeOK, Return(deliveries, <<>>)
    PROVE  /\ queue' \in Seq(Message) /\ deliveries' \in Seq(Message)
           /\ Len(deliveries') <= Prefetch
           /\ Pending' \in Seq(Message) /\ Len(Pending') = Len(Pending)
           /\ ToSet(Pending') = ToSet(Pending)
           /\ overtaken' = overtaken \union Unordered(Pending')
<1>1. deliveries \in Seq(Message) /\ <<>> \in Seq(Message)
  BY EmptySeq DEF TypeOK
<1>2. deliveries = deliveries \o <<>>
  BY <1>1, ConcatEmptySeq
<1> QED BY <1>1, <1>2, ReturnEffect

\* An acknowledgement takes the first of them away.
LEMMA AckEffect ==
    ASSUME TypeOK, deliveries # <<>>, BasicAck
    PROVE  /\ deliveries' \in Seq(Message) /\ Len(deliveries') < Len(deliveries)
           /\ message \in Message /\ Pending = <<message>> \o Pending'
           /\ Pending' \in Seq(Message) /\ Len(Pending') < Len(Pending)
           /\ ToSet(Pending) = {message} \union ToSet(Pending')
<1> DEFINE rest == Tail(deliveries)
<1>1. /\ rest \in Seq(Message) /\ message \in Message /\ <<message>> \in Seq(Message)
      /\ deliveries = <<message>> \o rest /\ deliveries' = rest /\ queue' = queue
      /\ queue \in Seq(Message)
  BY HeadAndTail DEF TypeOK, message, BasicAck
<1>2. Len(<<message>>) = 1
  OBVIOUS
<1> HIDE DEF rest
<1>3. Len(deliveries) = 1 + Len(rest)
  BY <1>1, <1>2, ToSetConcat
<1>4. rest \o queue \in Seq(Message) /\ Pending' = rest \o queue
  BY <1>1, ToSetConcat DEF Pending
<1>5. Pending = <<message>> \o (rest \o queue)
  BY <1>1, ConcatAssociative DEF Pending
<1> DEFINE after == rest \o queue
<1>6. after \in Seq(Message) /\ Pending' = after /\ Pending = <<message>> \o after
  BY <1>4, <1>5
<1> HIDE DEF after
<1>7. Len(Pending) = 1 + Len(after) /\ ToSet(Pending) = {message} \union ToSet(after)
  <2>1. /\ Len(<<message>> \o after) = Len(<<message>>) + Len(after)
        /\ ToSet(<<message>> \o after) = ToSet(<<message>>) \union ToSet(after)
    BY <1>1, <1>6, ToSetConcat, ZenonT(60)
  <2>2. ToSet(<<message>>) = {message}
    BY ToSetOfOne
  <2> QED BY <1>2, <1>6, <2>1, <2>2
<1>8. Len(rest) \in Nat /\ Len(after) \in Nat
  BY <1>1, <1>6, LenProperties
<1>9. Len(deliveries') < Len(deliveries)
  BY <1>1, <1>3, <1>8
<1>10. Len(Pending') < Len(Pending)
  BY <1>6, <1>7, <1>8
<1> QED BY <1>1, <1>6, <1>7, <1>9, <1>10

LEMMA MessageTyped ==
    ASSUME TypeOK, NEW id \in Ids, NewVersion, NEW product \in BOOLEAN
    PROVE  /\ writes' \in Version /\ writes' = writes + 1
           /\ [id |-> id, version |-> writes', product |-> product] \in Message
<1>1. writes' \in Version /\ writes' = writes + 1
  BY ConstantsAssumption DEF NewVersion, TypeOK, Version
<1> QED BY <1>1 DEF Message

LEMMA UnorderedTyped == ASSUME NEW s PROVE Unordered(s) \subseteq Ids
BY DEF Unordered

LEMMA StoredTyped ==
    ASSUME TypeOK, NEW m \in Message, Stored(m)
    PROVE  redis' \in [Ids -> Version \union {0}] /\ saved' \subseteq Message
<1>1. m.id \in Ids /\ m.version \in Version
  BY DEF Message
<1> QED BY <1>1 DEF TypeOK, Stored

--------------------------------------------------------------------------------
(* Type correctness. *)

\* A message that is to be acknowledged is there, and saved.
AckIsSaved == pc = "ack" => deliveries # <<>> /\ message \in saved

TypeInv == TypeOK /\ AckIsSaved

LEMMA InitTyped == Init => TypeOK
<1> SUFFICES ASSUME Init PROVE TypeOK
  OBVIOUS
<1>1. <<>> \in Seq(Message) /\ Len(<<>>) = 0 /\ Pending = <<>>
  BY EmptySeq, ConcatEmptySeq DEF Init, Pending
<1>2. redis \in [Ids -> Version \union {0}]
  BY DEF Init
<1>3. Len(deliveries) <= Prefetch /\ Len(Pending) <= writes
  BY <1>1, ConstantsAssumption DEF Init
<1>4. writes \in 0..MaxWrites /\ poison \in 0..MaxPoison /\ faults \in 0..MaxFaults
  BY ConstantsAssumption DEF Init
<1> QED BY <1>1, <1>2, <1>3, <1>4 DEF Init, TypeOK

LEMMA PublishedTyped ==
    ASSUME TypeOK, NewVersion, NEW m \in Message, Route(m),
           UNCHANGED <<declared, consumer, redis, faults, saved, overtaken>>,
           poison' \in 0..MaxPoison
    PROVE  TypeOK'
<1>1. writes' \in 0..MaxWrites /\ writes' = writes + 1 /\ writes \in Nat
  BY ConstantsAssumption DEF NewVersion, TypeOK
<1>2. queue' \in Seq(Message) /\ routed' \subseteq Message
  BY RouteEffect DEF TypeOK, consumer
<1>3. Len(Pending') <= writes'
  <2>1. Pending' = Pending \/ Pending' = Append(Pending, m)
    BY RouteEffect DEF consumer
  <2>2. Len(Pending) <= writes /\ Len(Pending) \in Nat /\ Len(Append(Pending, m)) = Len(Pending) + 1
    BY PendingTyped, LenProperties, AppendProperties DEF TypeOK
  <2> QED BY <1>1, <2>1, <2>2
<1> QED BY <1>1, <1>2, <1>3 DEF TypeOK, consumer

LEMMA ReturnedTyped ==
    ASSUME TypeOK, queue' \in Seq(Message), deliveries' \in Seq(Message),
           Len(deliveries') <= Prefetch, Len(Pending') = Len(Pending),
           overtaken' = overtaken \union Unordered(Pending'),
           redis' \in [Ids -> Version \union {0}], saved' \subseteq Message,
           faults' \in 0..MaxFaults, running' \in BOOLEAN, pc' \in {"receive", "ack"},
           UNCHANGED <<declared, writes, poison, routed>>
    PROVE  TypeOK'
<1>1. overtaken' \subseteq Ids
  BY UnorderedTyped DEF TypeOK
<1> QED BY <1>1 DEF TypeOK

LEMMA NextTyped == TypeInv /\ [Next]_vars => TypeOK'
<1> SUFFICES ASSUME TypeInv, [Next]_vars PROVE TypeOK'
  OBVIOUS
<1>0. TypeOK /\ AckIsSaved
  BY DEF TypeInv
<1> USE <1>0
<1>1. ASSUME NEW id \in Ids, Publish(id) PROVE TypeOK'
  <2> DEFINE m == [id |-> id, version |-> writes', product |-> TRUE]
  <2>1. m \in Message /\ NewVersion
    BY <1>1, MessageTyped DEF Publish
  <2>2. Route(m) /\ UNCHANGED <<declared, consumer, redis, poison, faults, saved, overtaken>>
    BY <1>1 DEF Publish
  <2> HIDE DEF m
  <2>3. poison' \in 0..MaxPoison
    BY <2>2 DEF TypeOK
  <2> QED BY <2>1, <2>2, <2>3, PublishedTyped
<1>2. ASSUME NEW id \in Ids, PublishPoison(id) PROVE TypeOK'
  <2> DEFINE m == [id |-> id, version |-> writes', product |-> FALSE]
  <2>1. m \in Message /\ NewVersion
    BY <1>2, MessageTyped DEF PublishPoison
  <2>2. Route(m) /\ UNCHANGED <<declared, consumer, redis, faults, saved, overtaken>>
    BY <1>2 DEF PublishPoison
  <2> HIDE DEF m
  <2>3. poison' \in 0..MaxPoison
    BY <1>2, ConstantsAssumption DEF PublishPoison, TypeOK
  <2> QED BY <2>1, <2>2, <2>3, PublishedTyped
<1>3. ASSUME NEW id \in Ids, SaveDirectly(id) PROVE TypeOK'
  <2>1. /\ NewVersion /\ redis' = [redis EXCEPT ![id] = writes']
        /\ overtaken' \subseteq Ids
        /\ UNCHANGED <<declared, queue, running, deliveries, pc, poison, faults, routed, saved>>
    BY <1>3 DEF SaveDirectly, consumer, TypeOK
  <2>2. writes' \in Version /\ writes' = writes + 1
    BY <2>1, MessageTyped
  <2>3. writes' \in 0..MaxWrites /\ writes' >= writes
    BY <2>2 DEF TypeOK, Version
  <2>4. redis' \in [Ids -> Version \union {0}]
    BY <2>1, <2>2 DEF TypeOK
  <2>5. Pending' = Pending /\ Len(Pending) \in Nat
    BY <2>1, PendingTyped, LenProperties DEF Pending
  <2> QED BY <2>1, <2>3, <2>4, <2>5 DEF TypeOK
<1>4. CASE ConfigureServices
  BY <1>4 DEF ConfigureServices, TypeOK, Pending, history
<1>5. CASE Deliver
  <2>1. /\ queue' \in Seq(Message) /\ deliveries' \in Seq(Message)
        /\ Len(deliveries') <= Prefetch /\ Pending' = Pending
    BY <1>5, DeliverEffect
  <2> QED BY <1>5, <2>1 DEF Deliver, TypeOK, history
<1>6. CASE SaveProduct
  <2>1. message \in Message
    BY <1>6, HeadAndTail DEF SaveProduct, Receiving, message, TypeOK
  <2>2. redis' \in [Ids -> Version \union {0}] /\ saved' \subseteq Message
    BY <1>6, <2>1, StoredTyped DEF SaveProduct
  <2> QED BY <1>6, <2>2 DEF SaveProduct, TypeOK, Pending
<1>7. CASE BasicAck
  <2>0. deliveries # <<>>
    BY <1>7 DEF BasicAck, AckIsSaved
  <2>1. /\ deliveries' \in Seq(Message) /\ Len(deliveries') < Len(deliveries)
        /\ Len(Pending') < Len(Pending) /\ Pending' \in Seq(Message)
    BY <1>7, <2>0, AckEffect
  <2>2. /\ Len(deliveries') \in Nat /\ Len(deliveries) \in Nat /\ Prefetch \in Nat
        /\ Len(Pending') \in Nat /\ Len(Pending) \in Nat /\ writes \in Nat
    BY <2>1, PendingTyped, LenProperties, ConstantsAssumption DEF TypeOK
  <2>3. Len(deliveries') <= Prefetch /\ Len(Pending') <= writes
    BY <2>1, <2>2 DEF TypeOK
  <2> QED BY <1>7, <2>1, <2>3 DEF BasicAck, TypeOK, history
<1>8. CASE Reject
  <2>1. deliveries # <<>> /\ Return(<<message>>, Tail(deliveries))
    BY <1>8 DEF Reject, Receiving
  <2>2. /\ UNCHANGED <<declared, running, pc, redis, writes, poison, faults, routed, saved>>
    BY <1>8 DEF Reject
  <2> QED BY <2>1, <2>2, GiveBackEffect, ReturnedTyped DEF TypeOK
<1>9. CASE SaveFails
  <2>1. deliveries # <<>> /\ Return(<<message>>, Tail(deliveries))
    BY <1>9 DEF SaveFails, Receiving
  <2>2. /\ UNCHANGED <<declared, running, pc, writes, poison, routed>>
        /\ faults' \in 0..MaxFaults
    BY <1>9, ConstantsAssumption DEF SaveFails, Fault, TypeOK
  <2>3. message \in Message
    BY <2>1, HeadAndTail DEF message, TypeOK
  <2>4. redis' \in [Ids -> Version \union {0}] /\ saved' \subseteq Message
    BY <1>9, <2>3, StoredTyped DEF SaveFails, TypeOK
  <2> QED BY <2>1, <2>2, <2>4, GiveBackEffect, ReturnedTyped DEF TypeOK
<1>10. CASE Disconnect
  <2>1. /\ Return(deliveries, <<>>) /\ running' = FALSE /\ pc' = "receive"
        /\ UNCHANGED <<declared, redis, writes, poison, routed, saved>>
        /\ faults' \in 0..MaxFaults
    BY <1>10, ConstantsAssumption DEF Disconnect, Fault, TypeOK
  <2> QED BY <2>1, DisconnectEffect, ReturnedTyped DEF TypeOK
<1>11. CASE UNCHANGED vars
  BY <1>11 DEF vars, TypeOK, Pending
<1> QED BY <1>1, <1>2, <1>3, <1>4, <1>5, <1>6, <1>7, <1>8, <1>9, <1>10, <1>11 DEF Next

LEMMA AckNext == TypeInv /\ [Next]_vars => AckIsSaved'
<1> SUFFICES ASSUME TypeInv, [Next]_vars, pc' = "ack"
             PROVE  deliveries' # <<>> /\ message' \in saved'
  BY DEF AckIsSaved
<1>0. TypeOK /\ (pc = "ack" => deliveries # <<>> /\ message \in saved)
  BY DEF TypeInv, AckIsSaved
<1>1. CASE UNCHANGED <<pc, deliveries, saved>>
  BY <1>0, <1>1 DEF message
<1>2. CASE Deliver
  <2>1. pc' = pc /\ saved' = saved
    BY <1>2 DEF Deliver, history
  <2> QED BY <1>0, <1>2, <2>1, DeliverEffect DEF message
<1>3. CASE SaveProduct
  BY <1>3 DEF SaveProduct, Receiving, Stored, message
<1>4. CASE BasicAck \/ Reject \/ SaveFails \/ Disconnect
  BY <1>4 DEF BasicAck, Reject, SaveFails, Disconnect, Receiving
<1>5. ASSUME NEW id \in Ids, Publish(id) \/ PublishPoison(id) \/ SaveDirectly(id)
      PROVE  UNCHANGED <<pc, deliveries, saved>>
  BY <1>5 DEF Publish, PublishPoison, SaveDirectly, consumer
<1>6. CASE ConfigureServices
  BY <1>1, <1>6 DEF ConfigureServices, history
<1>7. CASE UNCHANGED vars
  BY <1>1, <1>7 DEF vars
<1> QED BY <1>1, <1>2, <1>3, <1>4, <1>5, <1>6, <1>7 DEF Next

LEMMA TypeInvHolds == Spec => []TypeInv
<1>1. Init => TypeInv
  BY InitTyped DEF TypeInv, AckIsSaved, Init
<1>2. TypeInv /\ [Next]_vars => TypeInv'
  BY NextTyped, AckNext DEF TypeInv
<1> QED BY <1>1, <1>2, PTL DEF Spec

(* TypeOK: never are more deliveries unsettled than the prefetch count lets through,   *)
(* nor more messages under way than were published; what is given back is not counted  *)
(* twice.                                                                              *)
THEOREM TypeCorrect == Spec => []TypeOK
BY TypeInvHolds, PTL DEF TypeInv

--------------------------------------------------------------------------------
(* NoLostProduct. *)

\* The products under way are those that the queue took and that are not settled; what is
\* saved was taken by the queue; and nothing has a version that was not given out.
Tracked ==
    /\ \A m \in routed : m.product /\ m.version <= writes
    /\ saved \subseteq routed
    /\ \A m \in ToSet(Pending) : m.version <= writes /\ (m.product => m \in routed)
    /\ NoLostProduct

PipelineInv == TypeInv /\ Tracked

LEMMA VersionsAreNumbers ==
    ASSUME TypeOK
    PROVE  /\ writes \in Nat /\ \A m \in Message : m.version \in Nat
           /\ \A m \in Message : m.id \in Ids /\ m.version \in Version /\ m.product \in BOOLEAN
BY ConstantsAssumption DEF TypeOK, Message, Version

\* A step that takes no message over: what leaves is saved, and what is saved was taken.
LEMMA TrackedKept ==
    ASSUME TypeOK, Tracked, writes' = writes \/ writes' = writes + 1, UNCHANGED routed,
           ToSet(Pending') \subseteq ToSet(Pending), saved \subseteq saved', saved' \subseteq routed,
           \A m \in ToSet(Pending) : m \in ToSet(Pending') \/ m \in saved'
    PROVE  Tracked'
<1>1. /\ writes \in Nat /\ \A m \in Message : m.version \in Nat
      /\ ToSet(Pending) \subseteq Message /\ routed \subseteq Message
  BY VersionsAreNumbers, PendingTyped DEF TypeOK
<1>2. \A m \in Message : m.version <= writes => m.version <= writes'
  BY <1>1
<1>3. (ToSet(Pending))' = ToSet(Pending')
  BY DEF ToSet
<1>4. \A m \in routed' : m.product /\ m.version <= writes'
  BY <1>1, <1>2 DEF Tracked
<1>5. \A m \in ToSet(Pending') : m.version <= writes' /\ (m.product => m \in routed')
  BY <1>1, <1>2 DEF Tracked
<1>6. routed' \subseteq saved' \union ToSet(Pending')
  BY DEF Tracked, NoLostProduct
<1> QED BY <1>3, <1>4, <1>5, <1>6 DEF Tracked, NoLostProduct

\* A message that is routed has the newest version.
LEMMA RoutedTracked ==
    ASSUME TypeOK, Tracked, NEW m \in Message, m.version = writes', writes' = writes + 1,
           Route(m), UNCHANGED <<deliveries, saved>>
    PROVE  Tracked'
<1>1. /\ writes \in Nat /\ \A n \in Message : n.version \in Nat
      /\ ToSet(Pending) \subseteq Message /\ routed \subseteq Message
  BY VersionsAreNumbers, PendingTyped DEF TypeOK
<1>2. CASE Pending' = Pending /\ routed' = routed
  BY <1>2, TrackedKept DEF Tracked
<1>3. CASE /\ Pending' = Append(Pending, m)
           /\ routed' = IF m.product THEN routed \union {m} ELSE routed
  <2>1. ToSet(Pending') = ToSet(Pending) \union {m}
    <3>1. Pending \in Seq(Message) /\ <<m>> \in Seq(Message)
      BY PendingTyped
    <3>2. Pending' = Pending \o <<m>>
      BY <1>3, <3>1, AppendIsConcat
    <3>3. ToSet(Pending \o <<m>>) = ToSet(Pending) \union ToSet(<<m>>)
      BY <3>1, ToSetConcat, ZenonT(60)
    <3> QED BY <3>2, <3>3, ToSetOfOne
  <2>2. \A n \in Message : n.version <= writes => n.version <= writes'
    BY <1>1
  <2>3. m.version <= writes'
    BY <1>1
  <2>4. \A n \in routed' : n.product /\ n.version <= writes'
    BY <1>1, <1>3, <2>2, <2>3 DEF Tracked
  <2>5. \A n \in ToSet(Pending') : n.version <= writes' /\ (n.product => n \in routed')
    BY <1>1, <1>3, <2>1, <2>2, <2>3 DEF Tracked
  <2>6. routed' \subseteq saved' \union ToSet(Pending') /\ saved' \subseteq routed'
    BY <1>3, <2>1 DEF Tracked, NoLostProduct
  <2>7. (ToSet(Pending))' = ToSet(Pending')
    BY DEF ToSet
  <2> QED BY <2>4, <2>5, <2>6, <2>7 DEF Tracked, NoLostProduct
<1> QED BY <1>2, <1>3, RouteEffect

\* The first delivery, when it is a product, was taken by the queue.
LEMMA FirstDelivery ==
    ASSUME TypeOK, Tracked, deliveries # <<>>
    PROVE  /\ message \in Message /\ message \in ToSet(Pending)
           /\ message.product => message \in routed
<1>1. message \in Message /\ message \in ToSet(deliveries)
  BY HeadAndTail DEF TypeOK, message
<1> QED BY <1>1, PendingTyped DEF Tracked

LEMMA TrackedNext == PipelineInv /\ [Next]_vars => Tracked'
<1> SUFFICES ASSUME PipelineInv, [Next]_vars PROVE Tracked'
  OBVIOUS
<1>0. TypeOK /\ AckIsSaved /\ Tracked /\ saved \subseteq routed
  BY DEF PipelineInv, TypeInv, Tracked
<1>1. ASSUME NEW id \in Ids, Publish(id) PROVE Tracked'
  <2> DEFINE m == [id |-> id, version |-> writes', product |-> TRUE]
  <2>1. m \in Message /\ m.version = writes' /\ writes' = writes + 1
    BY <1>0, <1>1, MessageTyped DEF Publish
  <2>2. Route(m) /\ UNCHANGED <<deliveries, saved>>
    BY <1>1 DEF Publish, consumer
  <2> HIDE DEF m
  <2> QED BY <1>0, <2>1, <2>2, RoutedTracked
<1>2. ASSUME NEW id \in Ids, PublishPoison(id) PROVE Tracked'
  <2> DEFINE m == [id |-> id, version |-> writes', product |-> FALSE]
  <2>1. m \in Message /\ m.version = writes' /\ writes' = writes + 1
    BY <1>0, <1>2, MessageTyped DEF PublishPoison
  <2>2. Route(m) /\ UNCHANGED <<deliveries, saved>>
    BY <1>2 DEF PublishPoison, consumer
  <2> HIDE DEF m
  <2> QED BY <1>0, <2>1, <2>2, RoutedTracked
<1>3. ASSUME NEW id \in Ids, SaveDirectly(id) PROVE Tracked'
  <2>1. /\ writes' = writes + 1 /\ UNCHANGED <<routed, saved>> /\ Pending' = Pending
    BY <1>3 DEF SaveDirectly, NewVersion, consumer, Pending
  <2> QED BY <1>0, <2>1, TrackedKept
<1>4. CASE ConfigureServices
  <2>1. UNCHANGED <<writes, routed, saved>> /\ Pending' = Pending
    BY <1>4 DEF ConfigureServices, history, Pending
  <2> QED BY <1>0, <2>1, TrackedKept
<1>5. CASE Deliver
  <2>1. UNCHANGED <<writes, routed, saved>> /\ Pending' = Pending
    BY <1>0, <1>5, DeliverEffect DEF Deliver, history
  <2> QED BY <1>0, <2>1, TrackedKept
<1>6. CASE SaveProduct
  <2>1. /\ UNCHANGED <<writes, routed>> /\ saved' = saved \union {message}
        /\ Pending' = Pending /\ deliveries # <<>> /\ message.product
    BY <1>6 DEF SaveProduct, Stored, Receiving, Pending
  <2> QED BY <1>0, <2>1, FirstDelivery, TrackedKept
<1>7. CASE BasicAck
  <2>1. UNCHANGED <<writes, routed, saved>> /\ deliveries # <<>> /\ message \in saved
    BY <1>0, <1>7 DEF BasicAck, history, AckIsSaved
  <2>2. ToSet(Pending) = {message} \union ToSet(Pending')
    BY <1>0, <1>7, <2>1, AckEffect
  <2> QED BY <1>0, <2>1, <2>2, TrackedKept
<1>8. CASE Reject
  <2>1. /\ UNCHANGED <<writes, routed, saved>> /\ deliveries # <<>>
        /\ Return(<<message>>, Tail(deliveries))
    BY <1>8 DEF Reject, Receiving
  <2> QED BY <1>0, <2>1, GiveBackEffect, TrackedKept
<1>9. CASE SaveFails
  <2>1. /\ UNCHANGED <<writes, routed>> /\ deliveries # <<>> /\ message.product
        /\ Return(<<message>>, Tail(deliveries))
        /\ saved' = saved \/ saved' = saved \union {message}
    BY <1>9 DEF SaveFails, Stored, Receiving
  <2> QED BY <1>0, <2>1, FirstDelivery, GiveBackEffect, TrackedKept
<1>10. CASE Disconnect
  <2>1. UNCHANGED <<writes, routed, saved>> /\ Return(deliveries, <<>>)
    BY <1>10 DEF Disconnect
  <2> QED BY <1>0, <2>1, DisconnectEffect, TrackedKept
<1>11. CASE UNCHANGED vars
  <2>1. UNCHANGED <<writes, routed, saved>> /\ Pending' = Pending
    BY <1>11 DEF vars, Pending
  <2> QED BY <1>0, <2>1, TrackedKept
<1> QED BY <1>1, <1>2, <1>3, <1>4, <1>5, <1>6, <1>7, <1>8, <1>9, <1>10, <1>11 DEF Next

LEMMA PipelineInvHolds == Spec => []PipelineInv
<1>1. Init => Tracked
  <2> SUFFICES ASSUME Init PROVE Tracked
    OBVIOUS
  <2>1. ToSet(Pending) = {}
    BY EmptySeq, ConcatEmptySeq DEF Init, Pending, ToSet
  <2> QED BY <2>1 DEF Init, Tracked, NoLostProduct
<1>2. TypeInv /\ Tracked /\ [Next]_vars => Tracked'
  BY TrackedNext DEF PipelineInv
<1> QED BY <1>1, <1>2, TypeInvHolds, PTL DEF Spec, PipelineInv

(* NoLostProduct: ReceiveMessage saves a product before it acknowledges its message,   *)
(* and gives it back when anything throws, so a product that the queue took is saved   *)
(* or still under way, whatever crashes, lost connections and failed saves there are.  *)
THEOREM NoLostProductHolds == Spec => []NoLostProduct
BY PipelineInvHolds, PTL DEF PipelineInv, Tracked

--------------------------------------------------------------------------------
(* The pipeline implements ProductDelivery. *)

AsProduct(m) == [id |-> m.id, version |-> m.version]
Settled == routed \ ToSet(Pending)

LEMMA ProductsOfUnion ==
    ASSUME NEW S, NEW m PROVE Products(S \union {m}) = Products(S) \union {AsProduct(m)}
BY DEF Products, AsProduct

\* A product message is known by its id and version.
LEMMA ProductsTellApart ==
    ASSUME NEW S \in SUBSET Message, NEW m \in Message, m.product, \A n \in S : n.product
    PROVE  AsProduct(m) \in Products(S) <=> m \in S
<1>1. ASSUME m \in S PROVE AsProduct(m) \in Products(S)
  BY <1>1 DEF Products, AsProduct
<1>2. ASSUME AsProduct(m) \in Products(S) PROVE m \in S
  <2>1. PICK n \in S : AsProduct(m) = [id |-> n.id, version |-> n.version]
    BY <1>2 DEF Products
  <2>2. m.id = n.id /\ m.version = n.version
    BY <2>1 DEF AsProduct
  <2>3. n \in Message /\ n.product
    BY <2>1
  <2>4. m.product \in BOOLEAN /\ n.product \in BOOLEAN
    BY <2>3 DEF Message
  <2>5. m = n
    <3>1. m = [id |-> m.id, version |-> m.version, product |-> m.product]
      BY DEF Message
    <3>2. n = [id |-> n.id, version |-> n.version, product |-> n.product]
      BY <2>3 DEF Message
    <3>3. m.product = n.product
      BY <2>3, <2>4
    <3> QED BY <2>2, <3>1, <3>2, <3>3
  <2> QED BY <2>1, <2>5
<1> QED BY <1>1, <1>2

LEMMA ProductTyped ==
    ASSUME NEW m \in Message
    PROVE  /\ AsProduct(m) \in Product
           /\ AsProduct(m).id = m.id /\ AsProduct(m).version = m.version
BY DEF Message, Product, AsProduct

\* The version of a new message is above those that were sent.
LEMMA NewVersionIsNew ==
    ASSUME TypeOK, Tracked, writes' = writes + 1 PROVE Delivery!IsNew(writes')
<1>1. writes \in Nat /\ \A m \in routed : m.version \in Nat /\ m.version <= writes
  BY VersionsAreNumbers DEF TypeOK, Tracked
<1>2. \A p \in Products(routed) : \E m \in routed : p.version = m.version
  BY DEF Products
<1> QED BY <1>1, <1>2 DEF Delivery!IsNew

\* The abstract state changes with these.
LEMMA Stutters ==
    ASSUME UNCHANGED <<routed, saved, redis>>, Settled' = Settled
    PROVE  UNCHANGED Delivery!vars
BY DEF Delivery!vars, Products, Settled

LEMMA SentIsSend ==
    ASSUME TypeOK, Tracked, NEW m \in Message, m.version = writes', writes' = writes + 1,
           Route(m), UNCHANGED <<deliveries, saved, redis>>
    PROVE  [Delivery!Next]_(Delivery!vars)
<1>0. m \notin routed /\ writes \in Nat
  BY VersionsAreNumbers DEF Tracked
<1>1. CASE Pending' = Pending /\ routed' = routed
  BY <1>1, Stutters DEF Settled
<1>2. CASE /\ Pending' = Append(Pending, m)
           /\ routed' = IF m.product THEN routed \union {m} ELSE routed
  <2>1. ToSet(Pending') = ToSet(Pending) \union {m}
    <3>1. Pending \in Seq(Message) /\ <<m>> \in Seq(Message)
      BY PendingTyped
    <3>2. Pending' = Pending \o <<m>>
      BY <1>2, <3>1, AppendIsConcat
    <3>3. ToSet(Pending \o <<m>>) = ToSet(Pending) \union ToSet(<<m>>)
      BY <3>1, ToSetConcat
    <3> QED BY <3>2, <3>3, ToSetOfOne
  <2>2. Settled' = Settled
    BY <1>0, <1>2, <2>1 DEF Settled
  <2>3. CASE ~m.product
    BY <1>2, <2>2, <2>3, Stutters
  <2>4. CASE m.product
    <3>1. routed' = routed \union {m}
      BY <1>2, <2>4
    <3>2. Products(routed)' = Products(routed) \union {AsProduct(m)}
      BY <3>1, ProductsOfUnion DEF Products
    <3>3. Delivery!IsNew(AsProduct(m).version)
      BY NewVersionIsNew, ProductTyped
    <3>4. UNCHANGED <<Products(saved), Products(Settled), redis>>
      BY <2>2 DEF Products
    <3>5. Delivery!Send(AsProduct(m))
      BY <3>2, <3>3, <3>4 DEF Delivery!Send, Settled
    <3>6. AsProduct(m) \in Delivery!Product
      BY ProductTyped DEF Product, Delivery!Product
    <3> QED BY <3>5, <3>6 DEF Delivery!Next
  <2> QED BY <2>3, <2>4
<1> QED BY <1>1, <1>2, RouteEffect

\* The consumer's save of its first delivery, which is not settled.
LEMMA StoredIsSave ==
    ASSUME TypeOK, Tracked, deliveries # <<>>, message.product, Stored(message),
           UNCHANGED routed, Settled' = Settled
    PROVE  Delivery!Next
<1>1. message \in Message /\ message \in ToSet(Pending) /\ message \in routed
  BY FirstDelivery
<1>2. routed \in SUBSET Message /\ Settled \in SUBSET Message
      /\ \A n \in routed : n.product
  BY DEF TypeOK, Settled, Tracked
<1>3. AsProduct(message) \in Products(routed)
  BY <1>1, <1>2, ProductsTellApart
<1>4. AsProduct(message) \notin Products(Settled)
  BY <1>1, <1>2, ProductsTellApart DEF Settled
<1>5. Products(saved)' = Products(saved) \union {AsProduct(message)}
  BY ProductsOfUnion DEF Stored, Products
<1>6. redis' = [redis EXCEPT ![AsProduct(message).id] = AsProduct(message).version]
  BY <1>1, ProductTyped DEF Stored
<1>7. UNCHANGED <<Products(routed), Products(Settled)>>
  BY DEF Products
<1>8. Delivery!Save(AsProduct(message))
  BY <1>3, <1>4, <1>5, <1>6, <1>7 DEF Delivery!Save, Settled
<1>9. AsProduct(message) \in Delivery!Product
  BY <1>1, ProductTyped DEF Product, Delivery!Product
<1> QED BY <1>8, <1>9 DEF Delivery!Next

LEMMA AckIsSettle ==
    ASSUME TypeOK, AckIsSaved, Tracked, BasicAck
    PROVE  [Delivery!Next]_(Delivery!vars)
<1>1. /\ deliveries # <<>> /\ message \in saved /\ saved \subseteq routed
      /\ UNCHANGED <<routed, saved, redis>>
  BY DEF AckIsSaved, BasicAck, history, Tracked
<1>2. ToSet(Pending) = {message} \union ToSet(Pending')
  BY <1>1, AckEffect
<1>3. CASE message \in ToSet(Pending')
  <2>1. Settled' = Settled
    BY <1>1, <1>2, <1>3 DEF Settled, ToSet
  <2> QED BY <1>1, <2>1, Stutters
<1>4. CASE message \notin ToSet(Pending')
  <2>1. Settled' = Settled \union {message}
    <3>1. (ToSet(Pending))' = ToSet(Pending')
      BY DEF ToSet
    <3> QED BY <1>1, <1>2, <1>4, <3>1 DEF Settled
  <2>2. /\ routed \in SUBSET Message /\ Settled \in SUBSET Message /\ saved \in SUBSET Message
        /\ \A n \in routed : n.product
    BY DEF TypeOK, Settled, Tracked
  <2>3. message \in Message /\ message.product /\ \A n \in saved : n.product
    BY <1>1, <2>2
  <2>4. AsProduct(message) \in Products(saved)
    BY <1>1, <2>2, <2>3, ProductsTellApart
  <2>5. AsProduct(message) \notin Products(Settled)
    BY <1>2, <2>2, <2>3, ProductsTellApart DEF Settled
  <2>6. Products(Settled)' = Products(Settled) \union {AsProduct(message)}
    BY <2>1, ProductsOfUnion DEF Products
  <2>7. UNCHANGED <<Products(routed), Products(saved), redis>>
    BY <1>1 DEF Products
  <2>8. Delivery!Settle(AsProduct(message))
    BY <2>4, <2>5, <2>6, <2>7 DEF Delivery!Settle, Settled
  <2>9. AsProduct(message) \in Delivery!Product
    BY <2>3, ProductTyped DEF Product, Delivery!Product
  <2> QED BY <2>8, <2>9 DEF Delivery!Next
<1> QED BY <1>3, <1>4

LEMMA NextImplementsDelivery ==
    PipelineInv /\ [Next]_vars => [Delivery!Next]_(Delivery!vars)
<1> SUFFICES ASSUME PipelineInv, [Next]_vars PROVE [Delivery!Next]_(Delivery!vars)
  OBVIOUS
<1>0. TypeOK /\ AckIsSaved /\ Tracked
  BY DEF PipelineInv, TypeInv
<1>a. ASSUME UNCHANGED routed, ToSet(Pending') = ToSet(Pending) PROVE Settled' = Settled
  <2>1. (ToSet(Pending))' = ToSet(Pending')
    BY DEF ToSet
  <2> QED BY <1>a, <2>1 DEF Settled
<1>1. ASSUME NEW id \in Ids, Publish(id) PROVE [Delivery!Next]_(Delivery!vars)
  <2> DEFINE m == [id |-> id, version |-> writes', product |-> TRUE]
  <2>1. m \in Message /\ m.version = writes' /\ writes' = writes + 1
    BY <1>0, <1>1, MessageTyped DEF Publish
  <2>2. Route(m) /\ UNCHANGED <<deliveries, saved, redis>>
    BY <1>1 DEF Publish, consumer
  <2> HIDE DEF m
  <2> QED BY <1>0, <2>1, <2>2, SentIsSend
<1>2. ASSUME NEW id \in Ids, PublishPoison(id) PROVE [Delivery!Next]_(Delivery!vars)
  <2> DEFINE m == [id |-> id, version |-> writes', product |-> FALSE]
  <2>1. m \in Message /\ m.version = writes' /\ writes' = writes + 1
    BY <1>0, <1>2, MessageTyped DEF PublishPoison
  <2>2. Route(m) /\ UNCHANGED <<deliveries, saved, redis>>
    BY <1>2 DEF PublishPoison, consumer
  <2> HIDE DEF m
  <2> QED BY <1>0, <2>1, <2>2, SentIsSend
<1>3. ASSUME NEW id \in Ids, SaveDirectly(id) PROVE [Delivery!Next]_(Delivery!vars)
  <2>1. /\ NewVersion /\ UNCHANGED <<routed, saved>> /\ Pending' = Pending
        /\ redis' = [redis EXCEPT ![id] = writes']
    BY <1>3 DEF SaveDirectly, consumer, Pending
  <2>2. writes' \in Version /\ writes' = writes + 1
    BY <1>0, <2>1, MessageTyped
  <2>3. Delivery!IsNew(writes')
    BY <1>0, <2>2, NewVersionIsNew
  <2>4. UNCHANGED <<Products(routed), Products(saved), Products(Settled)>>
    BY <1>a, <2>1 DEF Products
  <2>5. Delivery!SaveDirectly(id, writes')
    BY <2>1, <2>3, <2>4 DEF Delivery!SaveDirectly, Settled
  <2> QED BY <2>2, <2>5 DEF Delivery!Next
<1>4. CASE ConfigureServices
  BY <1>4, <1>a, Stutters DEF ConfigureServices, history, Pending
<1>5. CASE Deliver
  <2>1. UNCHANGED <<routed, saved, redis>> /\ Pending' = Pending
    BY <1>0, <1>5, DeliverEffect DEF Deliver, history
  <2> QED BY <1>a, <2>1, Stutters
<1>6. CASE SaveProduct
  <2>1. /\ UNCHANGED routed /\ Pending' = Pending
        /\ deliveries # <<>> /\ message.product /\ Stored(message)
    BY <1>6 DEF SaveProduct, Receiving, Pending
  <2> QED BY <1>0, <1>a, <2>1, StoredIsSave
<1>7. CASE BasicAck
  BY <1>0, <1>7, AckIsSettle
<1>8. CASE Reject
  <2>1. /\ UNCHANGED <<routed, saved, redis>> /\ deliveries # <<>>
        /\ Return(<<message>>, Tail(deliveries))
    BY <1>8 DEF Reject, Receiving
  <2> QED BY <1>0, <1>a, <2>1, GiveBackEffect, Stutters
<1>9. CASE SaveFails
  <2>1. /\ UNCHANGED routed /\ deliveries # <<>> /\ message.product
        /\ Return(<<message>>, Tail(deliveries))
        /\ Stored(message) \/ UNCHANGED <<redis, saved>>
    BY <1>9 DEF SaveFails, Receiving
  <2>2. Settled' = Settled
    BY <1>0, <1>a, <2>1, GiveBackEffect
  <2> QED BY <1>0, <2>1, <2>2, StoredIsSave, Stutters
<1>10. CASE Disconnect
  <2>1. UNCHANGED <<routed, saved, redis>> /\ Return(deliveries, <<>>)
    BY <1>10 DEF Disconnect
  <2> QED BY <1>0, <1>a, <2>1, DisconnectEffect, Stutters
<1>11. CASE UNCHANGED vars
  BY <1>11, <1>a, Stutters DEF vars, Pending
<1> QED BY <1>1, <1>2, <1>3, <1>4, <1>5, <1>6, <1>7, <1>8, <1>9, <1>10, <1>11 DEF Next

(* Each step of the queue and its consumer is a step of ProductDelivery or none: only  *)
(* what was taken over is saved, only what was saved is settled, and what is settled   *)
(* is not saved again, although messages come back in any order and a crash may come   *)
(* between the save and the acknowledgement.                                           *)
THEOREM ImplementsDeliverySteps == Spec => Delivery!Spec
<1>1. Init => Delivery!Init
  BY DEF Init, Delivery!Init, Products
<1> QED BY <1>1, PipelineInvHolds, NextImplementsDelivery, PTL DEF Spec, Delivery!Spec

--------------------------------------------------------------------------------
(* StoredInOrder. *)

\* As long as nothing of an id was overtaken, the products of it that are under way are in
\* the order of their versions, and none is older than what is stored.
InOrder ==
    /\ \A i \in Ids : redis[i] <= writes
    /\ \A i \in Ids \ overtaken :
        /\ i \notin Unordered(Pending)
        /\ \A m \in ToSet(Pending) : m.product /\ m.id = i => redis[i] <= m.version

OrderInv == PipelineInv /\ InOrder

LEMMA NotUnordered ==
    ASSUME NEW s, NEW i \in Ids, i \notin Unordered(s), NEW j \in 1..Len(s), NEW k \in 1..Len(s),
           j < k, s[j].product, s[j].id = i, s[k].product, s[k].id = i
    PROVE  ~ (s[j].version > s[k].version)
BY DEF Unordered

LEMMA UnorderedPair ==
    ASSUME NEW s, NEW i \in Unordered(s)
    PROVE  \E j, k \in 1..Len(s) :
               /\ j < k /\ s[j].version > s[k].version
               /\ s[j].product /\ s[j].id = i /\ s[k].product /\ s[k].id = i
BY DEF Unordered

LEMMA StoredVersion == ASSUME TypeOK, NEW i \in Ids PROVE redis[i] \in Nat
BY ConstantsAssumption DEF TypeOK, Version

\* The first of them is the oldest of its id.
LEMMA FirstIsOldest ==
    ASSUME TypeOK, deliveries # <<>>, message.product, message.id \notin Unordered(Pending),
           NEW n \in ToSet(Pending), n.product, n.id = message.id
    PROVE  message.version <= n.version
<1>1. message \in Message /\ n \in Message /\ Pending \in Seq(Message)
  BY HeadAndTail, PendingTyped DEF TypeOK, message
<1>2. message.version \in Nat /\ n.version \in Nat /\ message.id \in Ids
  BY <1>1, VersionsAreNumbers
<1>3. Len(Pending) >= 1 /\ Pending[1] = message /\ Len(Pending) \in Nat
  <2>1. /\ Len(deliveries) \in Nat /\ Len(queue) \in Nat /\ Len(deliveries) # 0
        /\ message = deliveries[1]
    BY LenProperties, EmptySeq DEF TypeOK, message
  <2>2. Len(Pending) = Len(deliveries) + Len(queue)
    BY PendingTyped
  <2>3. Pending[1] = deliveries[1]
    BY <2>1, ConcatProperties DEF Pending, TypeOK
  <2> QED BY <2>1, <2>2, <2>3
<1>4. PICK k \in 1..Len(Pending) : Pending[k] = n
  BY <1>1, LenProperties DEF ToSet
<1>5. CASE k = 1
  BY <1>2, <1>3, <1>4, <1>5
<1>6. CASE k # 1
  <2>1. 1 \in 1..Len(Pending) /\ 1 < k
    BY <1>3, <1>4, <1>6
  <2>2. ~ (Pending[1].version > Pending[k].version)
    BY <1>2, <1>3, <1>4, <2>1, NotUnordered
  <2> QED BY <1>2, <1>3, <1>4, <2>2
<1> QED BY <1>5, <1>6

\* Nothing new under way and nothing stored.
LEMMA OrderKept ==
    ASSUME InOrder, UNCHANGED <<redis, writes>>, overtaken \subseteq overtaken',
           ToSet(Pending') \subseteq ToSet(Pending),
           \A i \in Ids \ overtaken' : i \notin Unordered(Pending')
    PROVE  InOrder'
<1>1. (ToSet(Pending))' = ToSet(Pending') /\ Unordered(Pending)' = Unordered(Pending')
  BY DEF ToSet, Unordered
<1>2. \A i \in Ids : redis'[i] <= writes'
  BY DEF InOrder
<1>3. \A i \in Ids \ overtaken' :
        /\ i \notin Unordered(Pending')
        /\ \A m \in ToSet(Pending') : m.product /\ m.id = i => redis'[i] <= m.version
  BY DEF InOrder
<1> QED BY <1>1, <1>2, <1>3 DEF InOrder

\* The first delivery is stored, and stays where it is or comes back.
LEMMA OrderStored ==
    ASSUME TypeOK, Tracked, InOrder, UNCHANGED writes, overtaken \subseteq overtaken',
           deliveries # <<>>, message.product, Stored(message),
           ToSet(Pending') = ToSet(Pending),
           \A i \in Ids \ overtaken' : i \notin Unordered(Pending')
    PROVE  InOrder'
<1>1. /\ message \in Message /\ message \in ToSet(Pending) /\ message.id \in Ids
      /\ redis' = [redis EXCEPT ![message.id] = message.version]
      /\ message.version <= writes
  BY FirstDelivery, VersionsAreNumbers DEF Stored, Tracked
<1>2. (ToSet(Pending))' = ToSet(Pending') /\ Unordered(Pending)' = Unordered(Pending')
  BY DEF ToSet, Unordered
<1>3. \A i \in Ids : redis'[i] = IF i = message.id THEN message.version ELSE redis[i]
  BY <1>1 DEF TypeOK
<1>4. \A i \in Ids : redis'[i] <= writes'
  BY <1>1, <1>3 DEF InOrder
<1>5. ASSUME NEW i \in Ids \ overtaken', NEW n \in ToSet(Pending'), n.product, n.id = i
      PROVE  redis'[i] <= n.version
  <2>1. i \in Ids \ overtaken /\ n \in ToSet(Pending)
    BY <1>5
  <2>2. CASE i = message.id
    <3>1. message.id \notin Unordered(Pending)
      BY <2>1, <2>2 DEF InOrder
    <3>2. message.version <= n.version
      BY <1>5, <2>1, <2>2, <3>1, FirstIsOldest
    <3> QED BY <1>3, <2>2, <3>2
  <2>3. CASE i # message.id
    BY <1>3, <1>5, <2>1, <2>3 DEF InOrder
  <2> QED BY <2>2, <2>3
<1> QED BY <1>2, <1>4, <1>5 DEF InOrder

\* A message that is routed is the newest of all.
LEMMA OrderRouted ==
    ASSUME TypeOK, Tracked, InOrder, NEW m \in Message, m.version = writes',
           writes' = writes + 1, Route(m), UNCHANGED <<deliveries, redis, overtaken>>
    PROVE  InOrder'
<1>1. /\ writes \in Nat /\ \A n \in Message : n.version \in Nat
      /\ Pending \in Seq(Message) /\ ToSet(Pending) \subseteq Message
      /\ \A i \in Ids : redis[i] \in Nat
  BY VersionsAreNumbers, PendingTyped, StoredVersion
<1>2. (ToSet(Pending))' = ToSet(Pending') /\ Unordered(Pending)' = Unordered(Pending')
  BY DEF ToSet, Unordered
<1>3. \A i \in Ids : redis'[i] <= writes'
  BY <1>1 DEF InOrder
<1>4. CASE Pending' = Pending
  BY <1>2, <1>3, <1>4 DEF InOrder
<1>5. CASE Pending' = Append(Pending, m)
  <2> DEFINE s == Append(Pending, m)
             n == Len(Pending)
  <2>1. /\ s \in Seq(Message) /\ Len(s) = n + 1 /\ n \in Nat
        /\ \A k \in 1..n : s[k] = Pending[k]
        /\ s[n + 1] = m
    BY <1>1, AppendProperties, LenProperties
  <2>2. \A k \in 1..n : Pending[k] \in ToSet(Pending)
    BY <1>1, LenProperties DEF ToSet
  <2>3. s = Pending'
    BY <1>5
  <2> HIDE DEF s, n
  <2>4. ASSUME NEW i \in Ids \ overtaken' PROVE i \notin Unordered(s)
    <3>1. SUFFICES ASSUME i \in Unordered(s) PROVE FALSE
      OBVIOUS
    <3>2. PICK j, k \in 1..(n + 1) :
            /\ j < k /\ s[j].version > s[k].version
            /\ s[j].product /\ s[j].id = i /\ s[k].product /\ s[k].id = i
      BY <2>1, <3>1, UnorderedPair
    <3>3. j \in 1..n /\ s[j] = Pending[j]
      BY <2>1, <3>2
    <3>4. CASE k = n + 1
      <4>1. Pending[j].version <= writes /\ Pending[j].version \in Nat
        BY <1>1, <2>2, <3>3 DEF Tracked
      <4> QED BY <1>1, <2>1, <3>2, <3>3, <3>4, <4>1
    <3>5. CASE k # n + 1
      <4>1. k \in 1..n /\ s[k] = Pending[k]
        BY <2>1, <3>2, <3>5
      <4>2. i \notin Unordered(Pending)
        BY <2>4 DEF InOrder
      <4>3. ~ (Pending[j].version > Pending[k].version)
        BY <3>2, <3>3, <4>1, <4>2, NotUnordered DEF n
      <4> QED BY <3>2, <3>3, <4>1, <4>3
    <3> QED BY <3>4, <3>5
  <2>5. ToSet(s) = ToSet(Pending) \union {m}
    <3>1. <<m>> \in Seq(Message) /\ s = Pending \o <<m>>
      BY <1>1, AppendIsConcat DEF s
    <3>2. ToSet(Pending \o <<m>>) = ToSet(Pending) \union ToSet(<<m>>)
      BY <1>1, <3>1, ToSetConcat, ZenonT(60)
    <3> QED BY <3>1, <3>2, ToSetOfOne
  <2>6. ASSUME NEW i \in Ids \ overtaken', NEW x \in ToSet(s), x.product, x.id = i
        PROVE  redis'[i] <= x.version
    <3>1. CASE x = m
      BY <1>1, <2>6, <3>1 DEF InOrder
    <3>2. CASE x # m
      BY <2>5, <2>6, <3>2 DEF InOrder
    <3> QED BY <3>1, <3>2
  <2> QED BY <1>2, <1>3, <2>3, <2>4, <2>6 DEF InOrder
<1> QED BY <1>4, <1>5, RouteEffect

LEMMA UnorderedAfterTheFirst ==
    ASSUME NEW m \in Message, NEW s \in Seq(Message)
    PROVE  Unordered(s) \subseteq Unordered(<<m>> \o s)
<1> SUFFICES ASSUME NEW i \in Unordered(s) PROVE i \in Unordered(<<m>> \o s)
  OBVIOUS
<1> DEFINE t == <<m>> \o s
<1>1. PICK j, k \in 1..Len(s) :
        /\ j < k /\ s[j].version > s[k].version
        /\ s[j].product /\ s[j].id = i /\ s[k].product /\ s[k].id = i
  BY UnorderedPair
<1>2. <<m>> \in Seq(Message) /\ Len(<<m>>) = 1 /\ Len(s) \in Nat
  BY LenProperties
<1>3. /\ Len(t) = 1 + Len(s)
      /\ \A n \in 1..(1 + Len(s)) : t[n] = IF n <= 1 THEN <<m>>[n] ELSE s[n - 1]
  BY <1>2, ConcatProperties
<1> HIDE DEF t
<1>4. /\ j + 1 \in 1..Len(t) /\ k + 1 \in 1..Len(t) /\ j + 1 < k + 1
      /\ t[j + 1] = s[j] /\ t[k + 1] = s[k]
  BY <1>1, <1>2, <1>3
<1>5. i \in Ids
  BY DEF Unordered
<1>6. i \in Unordered(t)
  BY <1>1, <1>4, <1>5 DEF Unordered
<1> QED BY <1>6 DEF t

LEMMA OrderNext == OrderInv /\ [Next]_vars => InOrder'
<1> SUFFICES ASSUME OrderInv, [Next]_vars PROVE InOrder'
  OBVIOUS
<1>0. TypeOK /\ AckIsSaved /\ Tracked /\ InOrder
  BY DEF OrderInv, PipelineInv, TypeInv
<1>a. \A i \in Ids \ overtaken : i \notin Unordered(Pending)
  BY <1>0 DEF InOrder
<1>1. ASSUME NEW id \in Ids, Publish(id) PROVE InOrder'
  <2> DEFINE m == [id |-> id, version |-> writes', product |-> TRUE]
  <2>1. m \in Message /\ m.version = writes' /\ writes' = writes + 1
    BY <1>0, <1>1, MessageTyped DEF Publish
  <2>2. Route(m) /\ UNCHANGED <<deliveries, redis, overtaken>>
    BY <1>1 DEF Publish, consumer
  <2> HIDE DEF m
  <2> QED BY <1>0, <2>1, <2>2, OrderRouted
<1>2. ASSUME NEW id \in Ids, PublishPoison(id) PROVE InOrder'
  <2> DEFINE m == [id |-> id, version |-> writes', product |-> FALSE]
  <2>1. m \in Message /\ m.version = writes' /\ writes' = writes + 1
    BY <1>0, <1>2, MessageTyped DEF PublishPoison
  <2>2. Route(m) /\ UNCHANGED <<deliveries, redis, overtaken>>
    BY <1>2 DEF PublishPoison, consumer
  <2> HIDE DEF m
  <2> QED BY <1>0, <2>1, <2>2, OrderRouted
<1>3. ASSUME NEW id \in Ids, SaveDirectly(id) PROVE InOrder'
  <2>1. /\ NewVersion /\ Pending' = Pending /\ redis' = [redis EXCEPT ![id] = writes']
        /\ overtaken' = IF \E m \in ToSet(Pending) : m.id = id THEN overtaken \union {id}
                                                               ELSE overtaken
    BY <1>3 DEF SaveDirectly, consumer, Pending
  <2>2. (ToSet(Pending))' = ToSet(Pending) /\ Unordered(Pending)' = Unordered(Pending)
    BY <2>1 DEF ToSet, Unordered
  <2>3. writes' = writes + 1 /\ writes \in Nat /\ \A i \in Ids : redis[i] \in Nat
    BY <1>0, <2>1, VersionsAreNumbers, StoredVersion DEF NewVersion
  <2>4. \A i \in Ids : redis'[i] = IF i = id THEN writes' ELSE redis[i]
    BY <1>0, <2>1 DEF TypeOK
  <2>5. \A i \in Ids : redis'[i] <= writes'
    BY <1>0, <2>3, <2>4 DEF InOrder
  <2>6. ASSUME NEW i \in Ids \ overtaken', NEW m \in ToSet(Pending), m.product, m.id = i
        PROVE  redis'[i] <= m.version
    <3>1. i # id /\ i \in Ids \ overtaken
      BY <2>1, <2>6
    <3> QED BY <1>0, <2>4, <2>6, <3>1 DEF InOrder
  <2>7. \A i \in Ids \ overtaken' : i \notin Unordered(Pending)
    BY <1>a, <2>1
  <2> QED BY <2>2, <2>5, <2>6, <2>7 DEF InOrder
<1>4. CASE ConfigureServices
  <2>1. UNCHANGED <<redis, writes, overtaken>> /\ Pending' = Pending
    BY <1>4 DEF ConfigureServices, history, Pending
  <2> QED BY <1>0, <1>a, <2>1, OrderKept
<1>5. CASE Deliver
  <2>1. UNCHANGED <<redis, writes, overtaken>> /\ Pending' = Pending
    BY <1>0, <1>5, DeliverEffect DEF Deliver, history
  <2> QED BY <1>0, <1>a, <2>1, OrderKept
<1>6. CASE SaveProduct
  <2>1. /\ UNCHANGED <<writes, overtaken>> /\ Pending' = Pending
        /\ deliveries # <<>> /\ message.product /\ Stored(message)
    BY <1>6 DEF SaveProduct, Receiving, Pending
  <2> QED BY <1>0, <1>a, <2>1, OrderStored
<1>7. CASE BasicAck
  <2>1. UNCHANGED <<redis, writes, overtaken>> /\ deliveries # <<>>
    BY <1>0, <1>7 DEF BasicAck, history, AckIsSaved
  <2>2. /\ message \in Message /\ Pending' \in Seq(Message) /\ Pending = <<message>> \o Pending'
        /\ ToSet(Pending') \subseteq ToSet(Pending)
    BY <1>0, <1>7, <2>1, AckEffect
  <2> DEFINE after == Pending'
  <2>3. after \in Seq(Message) /\ Pending = <<message>> \o after
    BY <2>2
  <2> HIDE DEF after
  <2>4. Unordered(after) \subseteq Unordered(Pending)
    BY <2>2, <2>3, UnorderedAfterTheFirst
  <2>5. \A i \in Ids \ overtaken' : i \notin Unordered(Pending')
    BY <1>a, <2>1, <2>4 DEF after
  <2> QED BY <1>0, <2>1, <2>2, <2>5, OrderKept
<1>8. CASE Reject
  <2>1. /\ UNCHANGED <<redis, writes>> /\ deliveries # <<>>
        /\ Return(<<message>>, Tail(deliveries))
    BY <1>8 DEF Reject, Receiving
  <2> QED BY <1>0, <2>1, GiveBackEffect, OrderKept
<1>9. CASE SaveFails
  <2>1. /\ UNCHANGED writes /\ deliveries # <<>> /\ message.product
        /\ Return(<<message>>, Tail(deliveries))
        /\ Stored(message) \/ UNCHANGED redis
    BY <1>9 DEF SaveFails, Receiving
  <2> QED BY <1>0, <2>1, GiveBackEffect, OrderKept, OrderStored
<1>10. CASE Disconnect
  <2>1. UNCHANGED <<redis, writes>> /\ Return(deliveries, <<>>)
    BY <1>10 DEF Disconnect
  <2> QED BY <1>0, <2>1, DisconnectEffect, OrderKept
<1>11. CASE UNCHANGED vars
  <2>1. UNCHANGED <<redis, writes, overtaken>> /\ Pending' = Pending
    BY <1>11 DEF vars, Pending
  <2> QED BY <1>0, <1>a, <2>1, OrderKept
<1> QED BY <1>1, <1>2, <1>3, <1>4, <1>5, <1>6, <1>7, <1>8, <1>9, <1>10, <1>11 DEF Next

LEMMA OrderInvHolds == Spec => []OrderInv
<1>1. Init => InOrder
  <2> SUFFICES ASSUME Init PROVE InOrder
    OBVIOUS
  <2>1. Len(Pending) = 0 /\ Pending = <<>>
    BY EmptySeq, ConcatEmptySeq DEF Init, Pending
  <2>2. ToSet(Pending) = {}
    BY <2>1 DEF ToSet
  <2>3. Unordered(Pending) = {}
    BY <2>1 DEF Unordered
  <2> QED BY <2>2, <2>3 DEF Init, InOrder
<1>2. PipelineInv /\ InOrder /\ [Next]_vars => InOrder'
  BY OrderNext DEF OrderInv
<1> QED BY <1>1, <1>2, PipelineInvHolds, PTL DEF Spec, OrderInv

LEMMA StoreGrows ==
    OrderInv /\ [Next]_vars => [\A i \in Ids \ overtaken' : redis'[i] >= redis[i]]_redis
<1> SUFFICES ASSUME OrderInv, Next, redis' # redis, NEW i \in Ids \ overtaken'
             PROVE  redis'[i] >= redis[i]
  BY DEF vars
<1>0. TypeOK /\ Tracked /\ InOrder
  BY DEF OrderInv, PipelineInv, TypeInv
<1>1. /\ redis \in [Ids -> Version \union {0}] /\ redis[i] \in Nat /\ redis[i] <= writes
      /\ writes \in Nat
  BY <1>0, StoredVersion, VersionsAreNumbers DEF TypeOK, InOrder
<1>2. \/ \E id \in Ids : SaveDirectly(id)
      \/ SaveProduct \/ (SaveFails /\ Stored(message))
  <2>1. ASSUME NEW id \in Ids, Publish(id) \/ PublishPoison(id) PROVE FALSE
    BY <2>1 DEF Publish, PublishPoison
  <2>2. ASSUME ConfigureServices \/ Deliver \/ BasicAck \/ Reject \/ Disconnect PROVE FALSE
    BY <2>2 DEF ConfigureServices, Deliver, BasicAck, Reject, Disconnect
  <2>3. SaveFails => Stored(message)
    BY DEF SaveFails
  <2> QED BY <2>1, <2>2, <2>3 DEF Next
<1>3. ASSUME NEW id \in Ids, SaveDirectly(id) PROVE redis'[i] >= redis[i]
  <2>1. redis' = [redis EXCEPT ![id] = writes'] /\ writes' = writes + 1
    BY <1>3 DEF SaveDirectly, NewVersion
  <2> QED BY <1>1, <2>1
<1>4. CASE SaveProduct \/ (SaveFails /\ Stored(message))
  <2>1. /\ deliveries # <<>> /\ message.product /\ overtaken \subseteq overtaken'
        /\ redis' = [redis EXCEPT ![message.id] = message.version]
    BY <1>4 DEF SaveProduct, SaveFails, Receiving, Stored, Return
  <2>2. message \in Message /\ message \in ToSet(Pending) /\ message.version \in Nat
    BY <1>0, <2>1, FirstDelivery, VersionsAreNumbers
  <2>3. i = message.id => redis[i] <= message.version
    BY <1>0, <2>1, <2>2 DEF InOrder
  <2> QED BY <1>1, <2>1, <2>2, <2>3
<1> QED BY <1>2, <1>3, <1>4

(* StoredInOrder: a save replaces a newer version of a product only if a message of    *)
(* that product came back behind a newer one, or the pos-service saved it ahead of     *)
(* one: repeating a save after a crash, or after a lost acknowledgement, does not.     *)
THEOREM StoredInOrderHolds == Spec => StoredInOrder
BY OrderInvHolds, StoreGrows, PTL DEF Spec, StoredInOrder
=============================================================================
