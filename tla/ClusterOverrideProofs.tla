-------------------------- MODULE ClusterOverrideProofs --------------------------
(***************************************************************************)
(* Theorems about what the override of a RabbitmqCluster does to the lists *)
(* of the container rabbitmq, for every list of variables and of mounts.   *)
(*                                                                         *)
(* The merge and the sort are functions defined by recursion over a list.  *)
(* The induction that they call for is over a set of naturals.             *)
(***************************************************************************)
EXTENDS ClusterResourcesProofs, WellFoundedInduction

(* Induction and recursion over the positions of a list. *)

\* A set that has 0, and with each number below n the next one, has all up to n.
LEMMA Induction ==
    ASSUME NEW n \in Nat, NEW T, 0 \in T, \A i \in 0..(n - 1) : i \in T => i + 1 \in T
    PROVE  0..n \subseteq T
<1> SUFFICES ASSUME {i \in 0..n : i \notin T} # {}
             PROVE  FALSE
  OBVIOUS
<1> DEFINE missing == {i \in 0..n : i \notin T}
           less == OpToRel(<, Nat)
<1>1. \A i, j \in Nat : i < j => <<i, j>> \in less
  BY DEF OpToRel
<1>2. IsWellFoundedOn(less, Nat)
  BY NatLessThanWellFounded, Zenon
<1>3. missing \subseteq Nat /\ missing # {}
  OBVIOUS
<1> HIDE DEF missing, less
<1>4. PICK m \in missing : \A i \in missing : <<i, m>> \notin less
  BY <1>2, <1>3, WFMin
<1> USE DEF missing
<1>5. m \in 0..n /\ m # 0 /\ m \notin T
  OBVIOUS
<1>6. m - 1 \in 0..(n - 1) /\ m - 1 \in Nat /\ m \in Nat /\ m - 1 < m
  BY <1>5
<1>7. m - 1 \notin missing
  BY <1>1, <1>4, <1>6
<1>8. m - 1 \in T
  BY <1>6, <1>7
<1> QED BY <1>5, <1>6, <1>8

IsStep(step, n, X) == step \in [X \X (1..n) -> X]

Iterates(f, n, X, first, step) ==
    /\ f \in [0..n -> X]
    /\ f[0] = first /\ \A i \in 1..n : f[i] = step[<<f[i - 1], i>>]

\* A function that is given by its first value and by each step from one to the next exists.
LEMMA Recursion ==
    ASSUME NEW n \in Nat, NEW X, NEW first \in X, NEW step, IsStep(step, n, X)
    PROVE  \E f : Iterates(f, n, X, first, step)
<1> USE DEF IsStep
<1> DEFINE Steps(f, m) == f[0] = first /\ \A i \in 1..m : f[i] = step[<<f[i - 1], i>>]
           T == {m \in 0..n : \E f \in [0..m -> X] : Steps(f, m)}
<1>1. 0 \in T
  <2> DEFINE f == [i \in 0..0 |-> first]
  <2>1. f \in [0..0 -> X] /\ Steps(f, 0)
    OBVIOUS
  <2>2. 0 \in 0..n
    OBVIOUS
  <2> HIDE DEF f, Steps
  <2> QED BY <2>1, <2>2
<1>2. ASSUME NEW m \in 0..(n - 1), m \in T
      PROVE  m + 1 \in T
  <2>1. PICK f \in [0..m -> X] : Steps(f, m)
    BY <1>2
  <2> DEFINE next == step[<<f[m], m + 1>>]
             g == [i \in 0..(m + 1) |-> IF i = m + 1 THEN next ELSE f[i]]
  <2>2. m + 1 \in 1..n /\ f[m] \in X
    BY <1>2
  <2>3. next \in X
    BY <2>2
  <2>4. g \in [0..(m + 1) -> X]
    BY <2>3
  <2>5. g[0] = first
    BY <2>1
  <2>6. \A i \in 1..(m + 1) : g[i] = step[<<g[i - 1], i>>]
    <3> SUFFICES ASSUME NEW i \in 1..(m + 1)
                 PROVE  g[i] = step[<<g[i - 1], i>>]
      OBVIOUS
    <3>1. CASE i = m + 1
      <4>1. g[i - 1] = f[m] /\ g[i] = next
        BY <3>1
      <4> QED BY <4>1, <3>1
    <3>2. CASE i \in 1..m
      <4>1. g[i - 1] = f[i - 1] /\ g[i] = f[i]
        BY <3>2
      <4> QED BY <4>1, <3>2, <2>1
    <3> QED BY <3>1, <3>2
  <2>7. m + 1 \in 0..n
    BY <2>2
  <2> QED BY <2>4, <2>5, <2>6, <2>7
<1>3. 0..n \subseteq T
  <2> HIDE DEF T
  <2> QED BY <1>1, <1>2, Induction
<1>4. n \in T
  <2> HIDE DEF T
  <2> QED BY <1>3
<1> QED BY <1>4 DEF Iterates

--------------------------------------------------------------------------------
(* The elements of a list that are in a set. *)

OnlyStep(list, set, before, i) ==
    IF list[i] \in set THEN Append(before, list[i]) ELSE before

OnlySteps(taken, S, list, set) ==
    /\ taken \in [0..Len(list) -> Seq(S)]
    /\ taken[0] = <<>> /\ Only(list, set) = taken[Len(list)]
    /\ \A i \in 1..Len(list) : taken[i] = OnlyStep(list, set, taken[i - 1], i)

\* The recursion that defines Only has a solution, which has its steps.
LEMMA OnlyDef ==
    ASSUME NEW S, NEW list \in Seq(S), NEW set
    PROVE  \E taken : OnlySteps(taken, S, list, set)
<1> DEFINE n == Len(list)
           X == Seq(S)
           empty == <<>>
           Step(before, i) == OnlyStep(list, set, before, i)
           Body(f) == [i \in 0..n |-> IF i = 0 THEN empty ELSE Step(f[i - 1], i)]
           taken == CHOOSE f : f = Body(f)
           step == [p \in X \X (1..n) |-> Step(p[1], p[2])]
<1>1. n \in Nat /\ empty \in X
  OBVIOUS
<1>2. \A before \in X, i \in 1..n : Step(before, i) \in X
  BY DEF OnlyStep
<1>3. Only(list, set) = taken[n]
  BY DEF Only, OnlyStep
<1> HIDE DEF n, X, empty, Step
<1>4. IsStep(step, n, X)
  BY <1>2 DEF IsStep
<1>5. \A before \in X, i \in 1..n : step[<<before, i>>] = Step(before, i)
  OBVIOUS
<1> HIDE DEF step
<1>6. PICK f : Iterates(f, n, X, empty, step)
  BY <1>1, <1>4, Recursion
<1>7. f = Body(f)
  <2>1. \A i \in 1..n : f[i - 1] \in X
    BY <1>1, <1>6 DEF Iterates
  <2>2. \A i \in 0..n : f[i] = IF i = 0 THEN empty ELSE Step(f[i - 1], i)
    BY <1>1, <1>5, <1>6, <2>1 DEF Iterates
  <2> QED BY <1>6, <2>2 DEF Iterates
<1>8. taken = Body(taken)
  <2> HIDE DEF Body
  <2> QED BY <1>7, Zenon
<1> HIDE DEF taken
<1>9. taken[0] = empty /\ \A i \in 1..n : taken[i] = Step(taken[i - 1], i)
  BY <1>1, <1>8
<1>10. \A i \in 0..n : taken[i] \in X
  <2> DEFINE T == {i \in 0..n : taken[i] \in X}
  <2>1. 0 \in T
    BY <1>1, <1>9
  <2>2. \A i \in 0..(n - 1) : i \in T => i + 1 \in T
    BY <1>1, <1>2, <1>9
  <2> HIDE DEF T
  <2>3. 0..n \subseteq T
    BY <1>1, <2>1, <2>2, Induction
  <2> QED BY <2>3 DEF T
<1>11. taken \in [0..n -> X]
  BY <1>8, <1>10
<1> QED BY <1>3, <1>9, <1>11 DEF OnlySteps, n, X, empty, Step

\* What is taken are the elements that are in the set, and the first one comes first.
LEMMA OnlyProperties ==
    ASSUME NEW S, NEW list \in Seq(S), NEW set
    PROVE  /\ Only(list, set) \in Seq(S)
           /\ ToSet(Only(list, set)) = ToSet(list) \cap set
           /\ Len(list) > 0 /\ list[1] \in set =>
                  Len(Only(list, set)) > 0 /\ Only(list, set)[1] = list[1]
           /\ ToSet(list) \subseteq set => Only(list, set) = list
<1> DEFINE n == Len(list)
<1>0. PICK taken : OnlySteps(taken, S, list, set)
  BY OnlyDef
<1>1. /\ taken \in [0..n -> Seq(S)]
      /\ taken[0] = <<>> /\ Only(list, set) = taken[n]
      /\ \A i \in 1..n : taken[i] = OnlyStep(list, set, taken[i - 1], i)
  BY <1>0 DEF OnlySteps
<1> DEFINE Taken(i) ==
               /\ \A k \in 1..Len(taken[i]) :
                      taken[i][k] \in set /\ \E j \in 1..i : taken[i][k] = list[j]
               /\ \A j \in 1..i : list[j] \in set => \E k \in 1..Len(taken[i]) : taken[i][k] = list[j]
           First(i) == i > 0 /\ list[1] \in set => Len(taken[i]) > 0 /\ taken[i][1] = list[1]
           All(i) == (\A j \in 1..n : list[j] \in set) =>
                         Len(taken[i]) = i /\ \A j \in 1..i : taken[i][j] = list[j]
           T == {i \in 0..n : Taken(i) /\ First(i) /\ All(i)}
<1>2. n \in Nat
  OBVIOUS
<1>3. 0 \in T
  BY <1>1, <1>2
<1>4. ASSUME NEW i \in 0..(n - 1), i \in T
      PROVE  i + 1 \in T
  <2>1. i \in 0..n /\ i + 1 \in 1..n /\ (i + 1) - 1 = i /\ i + 1 \in 0..n
    BY <1>2
  <2>2. taken[i] \in Seq(S) /\ list[i + 1] \in S
    BY <1>1, <2>1
  <2>3. taken[i + 1] = OnlyStep(list, set, taken[i], i + 1)
    BY <1>1, <2>1
  <2>4. Taken(i) /\ First(i) /\ All(i)
    BY <1>4
  <2> DEFINE before == taken[i]
             after == taken[i + 1]
             element == list[i + 1]
  <2>5. CASE element \in set
    <3>1. after = Append(before, element)
      BY <2>3, <2>5 DEF OnlyStep
    <3>2. /\ Len(after) = Len(before) + 1 /\ after[Len(before) + 1] = element
          /\ \A k \in 1..Len(before) : after[k] = before[k]
          /\ Len(before) \in Nat
      BY <2>2, <3>1
    <3> HIDE DEF before, after, element
    <3>3. Taken(i + 1)
      <4>1. ASSUME NEW k \in 1..Len(after)
            PROVE  after[k] \in set /\ \E j \in 1..(i + 1) : after[k] = list[j]
        <5>1. CASE k = Len(before) + 1
          BY <2>1, <2>5, <3>2, <5>1 DEF element
        <5>2. CASE k \in 1..Len(before)
          <6>1. after[k] = before[k]
            BY <3>2, <5>2
          <6>2. before[k] \in set /\ \E j \in 1..i : before[k] = list[j]
            BY <2>4, <5>2 DEF before
          <6>3. 1..i \subseteq 1..(i + 1)
            BY <2>1
          <6> QED BY <6>1, <6>2, <6>3
        <5> QED BY <3>2, <5>1, <5>2
      <4>2. ASSUME NEW j \in 1..(i + 1), list[j] \in set
            PROVE  \E k \in 1..Len(after) : after[k] = list[j]
        <5>1. CASE j = i + 1
          BY <3>2, <5>1 DEF element
        <5>2. CASE j \in 1..i
          <6>1. PICK k \in 1..Len(before) : before[k] = list[j]
            BY <2>4, <4>2, <5>2 DEF before
          <6> QED BY <3>2, <6>1
        <5> QED BY <2>1, <5>1, <5>2
      <4> QED BY <4>1, <4>2 DEF after
    <3>4. First(i + 1)
      <4> SUFFICES ASSUME list[1] \in set
                   PROVE  Len(after) > 0 /\ after[1] = list[1]
        BY DEF after
      <4>1. CASE i = 0
        <5>1. Len(before) = 0
          BY <1>1, <4>1 DEF before
        <5> QED BY <3>2, <4>1, <5>1 DEF element
      <4>2. CASE i > 0
        <5>1. Len(before) > 0 /\ before[1] = list[1]
          BY <2>4, <4>2 DEF before
        <5> QED BY <3>2, <5>1
      <4> QED BY <2>1, <4>1, <4>2
    <3>5. All(i + 1)
      <4> SUFFICES ASSUME \A j \in 1..n : list[j] \in set
                   PROVE  Len(after) = i + 1 /\ \A j \in 1..(i + 1) : after[j] = list[j]
        BY DEF after
      <4>1. Len(before) = i /\ \A j \in 1..i : before[j] = list[j]
        BY <2>4 DEF before
      <4>2. Len(after) = i + 1 /\ after[i + 1] = list[i + 1]
        BY <3>2, <4>1 DEF element
      <4>3. \A j \in 1..i : after[j] = list[j]
        BY <3>2, <4>1
      <4> QED BY <2>1, <4>2, <4>3
    <3> QED BY <2>1, <3>3, <3>4, <3>5
  <2>6. CASE element \notin set
    <3>1. after = before
      BY <2>3, <2>6 DEF OnlyStep
    <3>2. Taken(i + 1)
      BY <2>1, <2>4, <2>6, <3>1
    <3>3. First(i + 1)
      BY <2>1, <2>4, <2>6, <3>1
    <3>4. All(i + 1)
      BY <2>1, <2>4, <2>6, <3>1
    <3> QED BY <2>1, <3>2, <3>3, <3>4
  <2> QED BY <2>5, <2>6
<1>5. n \in T
  <2> HIDE DEF T
  <2>1. 0..n \subseteq T
    BY <1>2, <1>3, <1>4, Induction
  <2> QED BY <1>2, <2>1
<1>6. Taken(n) /\ First(n) /\ All(n)
  BY <1>5
<1> HIDE DEF T
<1>7. taken[n] \in Seq(S) /\ Only(list, set) = taken[n]
  BY <1>1, <1>2
<1>8. ToSet(list) = {list[j] : j \in 1..n} /\ ToSet(taken[n]) = {taken[n][k] : k \in 1..Len(taken[n])}
  BY <1>7 DEF ToSet
<1>9. ToSet(taken[n]) = ToSet(list) \cap set
  <2>1. ASSUME NEW x \in ToSet(taken[n])
        PROVE  x \in ToSet(list) \cap set
    BY <1>6, <1>8
  <2>2. ASSUME NEW x \in ToSet(list) \cap set
        PROVE  x \in ToSet(taken[n])
    <3>1. PICK j \in 1..n : x = list[j]
      BY <1>8
    <3>2. PICK k \in 1..Len(taken[n]) : taken[n][k] = list[j]
      BY <1>6, <3>1
    <3> QED BY <1>8, <3>1, <3>2
  <2> QED BY <2>1, <2>2
<1>10. ToSet(list) \subseteq set => taken[n] = list
  <2> SUFFICES ASSUME ToSet(list) \subseteq set
               PROVE  taken[n] = list
    OBVIOUS
  <2>1. Len(taken[n]) = n /\ \A j \in 1..n : taken[n][j] = list[j]
    BY <1>6, <1>8
  <2> QED BY <1>7, <2>1
<1> QED BY <1>2, <1>6, <1>7, <1>9, <1>10

--------------------------------------------------------------------------------
(* The pass that swaps elements to their slots. *)

SwapStep(slot, before, i) ==
    IF slot[before[i]] = 0 THEN before ELSE Swap(before, i, slot[before[i]])

SwapSteps(swapped, list, slot) ==
    /\ swapped \in [0..Len(list) -> [1..Len(list) -> ToSet(list)]]
    /\ swapped[0] = list /\ SwapToSlots(list, slot) = swapped[Len(list)]
    /\ \A i \in 1..Len(list) : swapped[i] = SwapStep(slot, swapped[i - 1], i)

\* A swap moves two elements and changes no others.
LEMMA SwapMoves ==
    ASSUME NEW n \in Nat, NEW X, NEW list \in [1..n -> X], NEW i \in 1..n, NEW j \in 1..n
    PROVE  /\ Swap(list, i, j) \in [1..n -> X]
           /\ Swap(list, i, j)[j] = list[i] /\ Swap(list, i, j)[i] = list[j]
           /\ \A k \in 1..n : k # i /\ k # j => Swap(list, i, j)[k] = list[k]
BY DEF Swap

\* The recursion that defines the pass has a solution, which has its steps.
LEMMA SwapDef ==
    ASSUME NEW S, NEW list \in Seq(S), NEW slot \in [ToSet(list) -> 0..Len(list)]
    PROVE  \E swapped : SwapSteps(swapped, list, slot)
<1> DEFINE n == Len(list)
           X == [1..n -> ToSet(list)]
           Step(before, i) == SwapStep(slot, before, i)
           Body(f) == [i \in 0..n |-> IF i = 0 THEN list ELSE Step(f[i - 1], i)]
           swapped == CHOOSE f : f = Body(f)
           step == [p \in X \X (1..n) |-> Step(p[1], p[2])]
<1>1. n \in Nat /\ list \in X
  BY DEF ToSet
<1>2. \A before \in X, i \in 1..n : Step(before, i) \in X
  <2> SUFFICES ASSUME NEW before \in X, NEW i \in 1..n
               PROVE  SwapStep(slot, before, i) \in X
    OBVIOUS
  <2>1. slot[before[i]] \in 0..n
    BY <1>1
  <2>2. CASE slot[before[i]] = 0
    BY <2>2 DEF SwapStep
  <2>3. CASE slot[before[i]] \in 1..n
    <3>1. Swap(before, i, slot[before[i]]) \in X
      BY <1>1, <2>3, SwapMoves
    <3> QED BY <2>3, <3>1 DEF SwapStep
  <2> QED BY <1>1, <2>1, <2>2, <2>3
<1>3. SwapToSlots(list, slot) = swapped[n]
  BY DEF SwapToSlots, SwapStep
<1> HIDE DEF n, X, Step
<1>4. IsStep(step, n, X)
  BY <1>2 DEF IsStep
<1>5. \A before \in X, i \in 1..n : step[<<before, i>>] = Step(before, i)
  OBVIOUS
<1> HIDE DEF step
<1>6. PICK f : Iterates(f, n, X, list, step)
  BY <1>1, <1>4, Recursion
<1>7. f = Body(f)
  <2>1. \A i \in 1..n : f[i - 1] \in X
    BY <1>1, <1>6 DEF Iterates
  <2>2. f[0] = list /\ \A i \in 1..n : f[i] = Step(f[i - 1], i)
    BY <1>5, <1>6, <2>1 DEF Iterates
  <2>3. \A i \in 0..n : f[i] = IF i = 0 THEN list ELSE Step(f[i - 1], i)
    BY <1>1, <2>2
  <2> QED BY <1>6, <2>3 DEF Iterates
<1>8. swapped = Body(swapped)
  <2> HIDE DEF Body
  <2> QED BY <1>7, Zenon
<1> HIDE DEF swapped
<1>9. swapped[0] = list /\ \A i \in 1..n : swapped[i] = Step(swapped[i - 1], i)
  BY <1>1, <1>8
<1>10. \A i \in 0..n : swapped[i] \in X
  <2> DEFINE T == {i \in 0..n : swapped[i] \in X}
  <2>1. 0 \in T
    BY <1>1, <1>9
  <2>2. \A i \in 0..(n - 1) : i \in T => i + 1 \in T
    BY <1>1, <1>2, <1>9
  <2> HIDE DEF T
  <2>3. 0..n \subseteq T
    BY <1>1, <2>1, <2>2, Induction
  <2> QED BY <2>3 DEF T
<1>11. swapped \in [0..n -> X]
  BY <1>8, <1>10
<1> QED BY <1>3, <1>9, <1>11 DEF SwapSteps, n, X, Step

\* Nothing is lost: the elements are those of the list.
LEMMA SwapKeepsElements ==
    ASSUME NEW S, NEW list \in Seq(S), NEW slot \in [ToSet(list) -> 0..Len(list)]
    PROVE  /\ SwapToSlots(list, slot) \in [1..Len(list) -> ToSet(list)]
           /\ ToSet(SwapToSlots(list, slot)) = ToSet(list)
<1> DEFINE n == Len(list)
           X == [1..n -> ToSet(list)]
           Holds(l) == \A x \in ToSet(list) : \E k \in 1..n : l[k] = x
<1>1. PICK swapped : SwapSteps(swapped, list, slot)
  BY SwapDef
<1>2. /\ swapped \in [0..n -> X]
      /\ swapped[0] = list /\ SwapToSlots(list, slot) = swapped[n]
      /\ \A i \in 1..n : swapped[i] = SwapStep(slot, swapped[i - 1], i)
  BY <1>1 DEF SwapSteps
<1>3. n \in Nat
  OBVIOUS
<1> DEFINE T == {i \in 0..n : Holds(swapped[i])}
<1>4. 0 \in T
  BY <1>2, <1>3 DEF ToSet
<1>5. ASSUME NEW i \in 0..(n - 1), i \in T
      PROVE  i + 1 \in T
  <2> DEFINE before == swapped[i]
             after == swapped[i + 1]
             place == slot[before[i + 1]]
  <2>1. i \in 0..n /\ i + 1 \in 1..n /\ (i + 1) - 1 = i /\ i + 1 \in 0..n
    BY <1>3
  <2>2. before \in X /\ after = SwapStep(slot, before, i + 1) /\ Holds(before)
    BY <1>2, <1>5, <2>1
  <2>3. place \in 0..n
    BY <2>1, <2>2
  <2>4. CASE place = 0
    BY <2>1, <2>2, <2>4 DEF SwapStep
  <2>5. CASE place \in 1..n
    <3>1. after = Swap(before, i + 1, place)
      BY <2>2, <2>5 DEF SwapStep
    <3>2. /\ after[place] = before[i + 1] /\ after[i + 1] = before[place]
          /\ \A k \in 1..n : k # i + 1 /\ k # place => after[k] = before[k]
      <4> HIDE DEF after, place
      <4> QED BY <1>3, <2>1, <2>2, <2>5, <3>1 DEF Swap
    <3>3. Holds(after)
      <4> SUFFICES ASSUME NEW x \in ToSet(list)
                   PROVE  \E k \in 1..n : after[k] = x
        OBVIOUS
      <4>1. PICK k \in 1..n : before[k] = x
        BY <2>2
      <4> QED BY <2>1, <2>5, <3>2, <4>1
    <3> QED BY <2>1, <3>3
  <2> QED BY <1>3, <2>3, <2>4, <2>5
<1>6. n \in T
  <2> HIDE DEF T
  <2>1. 0..n \subseteq T
    BY <1>3, <1>4, <1>5, Induction
  <2> QED BY <1>3, <2>1
<1>7. Holds(swapped[n]) /\ swapped[n] \in X
  BY <1>2, <1>3, <1>6
<1>8. ToSet(swapped[n]) = ToSet(list)
  BY <1>3, <1>7 DEF ToSet
<1> QED BY <1>2, <1>7, <1>8

--------------------------------------------------------------------------------
(* The merge of two lists by their keys. *)

MergeStep(original, patch, before, i) ==
    LET others == ToSet(original) \ ToSet(patch)
        front == {k \in others \ ToSet(before) : Precedes(k, patch[i], original)}
    IN  IF patch[i] \in ToSet(before) THEN before
        ELSE before \o Only(original, front) \o <<patch[i]>>

MergeRest(original, patch, keys) ==
    Only(original, (ToSet(original) \ ToSet(patch)) \ ToSet(keys))

MergeSteps(merged, S, original, patch) ==
    /\ merged \in [0..Len(patch) -> Seq(S)]
    /\ merged[0] = <<>>
    /\ \A i \in 1..Len(patch) : merged[i] = MergeStep(original, patch, merged[i - 1], i)
    /\ MergedKeys(original, patch) =
           merged[Len(patch)] \o MergeRest(original, patch, merged[Len(patch)])

\* Where the elements of a concatenation are.
LEMMA PositionsOfConcat ==
    ASSUME NEW S, NEW s \in Seq(S), NEW t \in Seq(S)
    PROVE  /\ s \o t \in Seq(S) /\ Len(s \o t) = Len(s) + Len(t)
           /\ \A i \in 1..Len(s) : (s \o t)[i] = s[i]
           /\ \A i \in 1..Len(t) : (s \o t)[Len(s) + i] = t[i]
           /\ \A i \in (Len(s) + 1)..(Len(s) + Len(t)) : (s \o t)[i] = t[i - Len(s)]
OBVIOUS

\* The elements of a concatenation.
LEMMA ElementsOfConcat ==
    ASSUME NEW S, NEW s \in Seq(S), NEW t \in Seq(S)
    PROVE  s \o t \in Seq(S) /\ ToSet(s \o t) = ToSet(s) \cup ToSet(t)
<1>1. /\ s \o t \in Seq(S) /\ Len(s \o t) = Len(s) + Len(t)
      /\ \A i \in 1..Len(s) : (s \o t)[i] = s[i]
      /\ \A i \in 1..Len(t) : (s \o t)[Len(s) + i] = t[i]
      /\ \A i \in (Len(s) + 1)..(Len(s) + Len(t)) : (s \o t)[i] = t[i - Len(s)]
  BY PositionsOfConcat
<1>2. ASSUME NEW x \in ToSet(s \o t)
      PROVE  x \in ToSet(s) \cup ToSet(t)
  <2>1. PICK i \in 1..(Len(s) + Len(t)) : x = (s \o t)[i]
    BY <1>1 DEF ToSet
  <2>2. CASE i <= Len(s)
    BY <1>1, <2>1, <2>2 DEF ToSet
  <2>3. CASE i > Len(s)
    <3>1. i - Len(s) \in 1..Len(t)
      BY <2>3
    <3> QED BY <1>1, <2>1, <2>3, <3>1 DEF ToSet
  <2> QED BY <2>2, <2>3
<1>3. ASSUME NEW x \in ToSet(s)
      PROVE  x \in ToSet(s \o t)
  BY <1>1 DEF ToSet
<1>4. ASSUME NEW x \in ToSet(t)
      PROVE  x \in ToSet(s \o t)
  <2>1. PICK i \in 1..Len(t) : x = t[i]
    BY DEF ToSet
  <2>2. Len(s) + i \in 1..Len(s \o t)
    BY <1>1
  <2> QED BY <1>1, <2>1, <2>2 DEF ToSet
<1> QED BY <1>1, <1>2, <1>3, <1>4

LEMMA SingleElement ==
    ASSUME NEW S, NEW x \in S
    PROVE  <<x>> \in Seq(S) /\ ToSet(<<x>>) = {x} /\ Len(<<x>>) = 1 /\ <<x>>[1] = x
BY DEF ToSet

\* The recursion that defines the merge has a solution, which has its steps.
LEMMA MergeDef ==
    ASSUME NEW S, NEW original \in Seq(S), NEW patch \in Seq(S)
    PROVE  \E merged : MergeSteps(merged, S, original, patch)
<1> DEFINE n == Len(patch)
           X == Seq(S)
           empty == <<>>
           Step(before, i) == MergeStep(original, patch, before, i)
           Body(f) == [i \in 0..n |-> IF i = 0 THEN empty ELSE Step(f[i - 1], i)]
           merged == CHOOSE f : f = Body(f)
           step == [p \in X \X (1..n) |-> Step(p[1], p[2])]
<1>1. n \in Nat /\ empty \in X
  OBVIOUS
<1>2. \A before \in X, i \in 1..n : Step(before, i) \in X
  <2> SUFFICES ASSUME NEW before \in Seq(S), NEW i \in 1..n
               PROVE  MergeStep(original, patch, before, i) \in Seq(S)
    OBVIOUS
  <2> DEFINE front == {k \in (ToSet(original) \ ToSet(patch)) \ ToSet(before) :
                           Precedes(k, patch[i], original)}
  <2>1. patch[i] \in S
    OBVIOUS
  <2>2. Only(original, front) \in Seq(S)
    <3> HIDE DEF front
    <3> QED BY OnlyProperties
  <2>3. <<patch[i]>> \in Seq(S)
    BY <2>1, SingleElement
  <2>4. before \o Only(original, front) \o <<patch[i]>> \in Seq(S)
    <3> HIDE DEF front
    <3> QED BY <2>2, <2>3
  <2> QED BY <2>4 DEF MergeStep
<1>3. MergedKeys(original, patch) = merged[n] \o MergeRest(original, patch, merged[n])
  BY DEF MergedKeys, MergeStep, MergeRest
<1> HIDE DEF n, X, empty, Step
<1>4. IsStep(step, n, X)
  BY <1>2 DEF IsStep
<1>5. \A before \in X, i \in 1..n : step[<<before, i>>] = Step(before, i)
  OBVIOUS
<1> HIDE DEF step
<1>6. PICK f : Iterates(f, n, X, empty, step)
  BY <1>1, <1>4, Recursion
<1>7. f = Body(f)
  <2>1. \A i \in 1..n : f[i - 1] \in X
    BY <1>1, <1>6 DEF Iterates
  <2>2. f[0] = empty /\ \A i \in 1..n : f[i] = Step(f[i - 1], i)
    BY <1>5, <1>6, <2>1 DEF Iterates
  <2>3. \A i \in 0..n : f[i] = IF i = 0 THEN empty ELSE Step(f[i - 1], i)
    BY <1>1, <2>2
  <2> QED BY <1>6, <2>3 DEF Iterates
<1>8. merged = Body(merged)
  <2> HIDE DEF Body
  <2> QED BY <1>7, Zenon
<1> HIDE DEF merged
<1>9. merged[0] = empty /\ \A i \in 1..n : merged[i] = Step(merged[i - 1], i)
  BY <1>1, <1>8
<1>10. \A i \in 0..n : merged[i] \in X
  <2> DEFINE T == {i \in 0..n : merged[i] \in X}
  <2>1. 0 \in T
    BY <1>1, <1>9
  <2>2. \A i \in 0..(n - 1) : i \in T => i + 1 \in T
    BY <1>1, <1>2, <1>9
  <2> HIDE DEF T
  <2>3. 0..n \subseteq T
    BY <1>1, <2>1, <2>2, Induction
  <2> QED BY <2>3 DEF T
<1>11. merged \in [0..n -> X]
  BY <1>8, <1>10
<1> QED BY <1>3, <1>9, <1>11 DEF MergeSteps, n, X, empty, Step

\* A merge loses no key of the original, and with an empty patch it is the original.
LEMMA MergedProperties ==
    ASSUME NEW S, NEW original \in Seq(S), NEW patch \in Seq(S)
    PROVE  /\ MergedKeys(original, patch) \in Seq(S)
           /\ ToSet(original) \subseteq ToSet(MergedKeys(original, patch))
           /\ patch = <<>> => MergedKeys(original, patch) = original
<1> DEFINE n == Len(patch)
<1>1. PICK merged : MergeSteps(merged, S, original, patch)
  BY MergeDef
<1> DEFINE keys == merged[n]
           rest == MergeRest(original, patch, keys)
           left == (ToSet(original) \ ToSet(patch)) \ ToSet(keys)
           Taken(i) == \A j \in 1..i : patch[j] \in ToSet(merged[i])
           T == {i \in 0..n : Taken(i)}
<1>2. /\ merged \in [0..n -> Seq(S)] /\ merged[0] = <<>>
      /\ \A i \in 1..n : merged[i] = MergeStep(original, patch, merged[i - 1], i)
      /\ MergedKeys(original, patch) = keys \o rest
  BY <1>1 DEF MergeSteps
<1>3. n \in Nat
  OBVIOUS
<1>4. 0 \in T
  BY <1>3
<1>5. ASSUME NEW i \in 0..(n - 1), i \in T
      PROVE  i + 1 \in T
  <2> DEFINE key == patch[i + 1]
             before == merged[i]
             front == {k \in (ToSet(original) \ ToSet(patch)) \ ToSet(before) :
                           Precedes(k, key, original)}
             new == before \o Only(original, front)
  <2>1. i \in 0..n /\ i + 1 \in 1..n /\ (i + 1) - 1 = i /\ i + 1 \in 0..n
    BY <1>3
  <2>2. /\ before \in Seq(S) /\ key \in S /\ Taken(i)
        /\ merged[i + 1] = MergeStep(original, patch, before, i + 1)
    <3>1. key \in S
      BY <2>1
    <3>2. before \in Seq(S)
      BY <1>2, <2>1
    <3>3. Taken(i)
      BY <1>5
    <3>4. merged[i + 1] = MergeStep(original, patch, merged[(i + 1) - 1], i + 1)
      BY <1>2, <2>1
    <3> QED BY <2>1, <3>1, <3>2, <3>3, <3>4
  <2>3. merged[i + 1] = IF key \in ToSet(before) THEN before ELSE new \o <<key>>
    BY <2>2 DEF MergeStep
  <2>4. ToSet(before) \cup {key} \subseteq ToSet(merged[i + 1])
    <3>1. Only(original, front) \in Seq(S)
      <4> HIDE DEF front
      <4> QED BY OnlyProperties
    <3> HIDE DEF front
    <3>2. new \in Seq(S) /\ ToSet(before) \subseteq ToSet(new)
      BY <2>2, <3>1, ElementsOfConcat
    <3>3. <<key>> \in Seq(S) /\ ToSet(<<key>>) = {key}
      BY <2>2, SingleElement
    <3> HIDE DEF new
    <3>4. ToSet(new \o <<key>>) = ToSet(new) \cup {key}
      <4> DEFINE last == <<key>>
      <4>1. last \in Seq(S) /\ ToSet(last) = {key}
        BY <3>3
      <4> HIDE DEF last
      <4>2. ToSet(new \o last) = ToSet(new) \cup {key}
        BY <3>2, <4>1, ElementsOfConcat
      <4> QED BY <4>2 DEF last
    <3> QED BY <2>3, <3>2, <3>4
  <2>5. Taken(i + 1)
    <3> SUFFICES ASSUME NEW j \in 1..(i + 1)
                 PROVE  patch[j] \in ToSet(merged[i + 1])
      OBVIOUS
    <3>1. CASE j = i + 1
      BY <2>4, <3>1
    <3>2. CASE j \in 1..i
      BY <2>2, <2>4, <3>2
    <3> QED BY <2>1, <3>1, <3>2
  <2> QED BY <2>1, <2>5
<1>6. Taken(n) /\ keys \in Seq(S)
  <2>1. n \in T
    <3> HIDE DEF T
    <3>1. 0..n \subseteq T
      BY <1>3, <1>4, <1>5, Induction
    <3> QED BY <1>3, <3>1
  <2> QED BY <1>2, <1>3, <2>1
<1>7. ToSet(patch) \subseteq ToSet(keys)
  BY <1>6 DEF ToSet
<1>8. /\ rest \in Seq(S) /\ ToSet(rest) = ToSet(original) \cap left
      /\ ToSet(original) \subseteq left => rest = original
  <2>1. rest = Only(original, left)
    BY DEF MergeRest
  <2> HIDE DEF rest, left
  <2> QED BY <2>1, OnlyProperties
<1>9. keys \o rest \in Seq(S) /\ ToSet(keys \o rest) = ToSet(keys) \cup ToSet(rest)
  <2> HIDE DEF keys, rest
  <2> QED BY <1>6, <1>8, ElementsOfConcat
<1>10. ToSet(original) \subseteq ToSet(keys \o rest)
  BY <1>7, <1>8, <1>9
<1>11. ASSUME patch = <<>>
       PROVE  keys \o rest = original
  <2>1. keys = <<>> /\ ToSet(patch) = {} /\ ToSet(keys) = {}
    BY <1>2, <1>11 DEF ToSet
  <2>2. rest = original
    BY <1>8, <2>1
  <2> QED BY <2>1, <2>2
<1> QED BY <1>2, <1>9, <1>10, <1>11

--------------------------------------------------------------------------------
(* The variables. *)

\* What the pass has dealt with: up to i the objects of Kubernetes are in their slots, and
\* none of those ahead comes before the name of the pod.
ObjectsSorted(l, n, i) ==
    /\ \A j \in 1..i : l[j] \in ToSet(K8sObjects) => l[1] = "MY_POD_NAME"
    /\ \A j \in 1..i : l[j] = "MY_POD_NAMESPACE" => l[2] = "MY_POD_NAMESPACE"
    /\ \A j \in 1..i : l[j] = "K8S_SERVICE_NAME" => l[3] = "K8S_SERVICE_NAME"
    /\ \A j \in (i + 1)..n :
           l[j] \in {"MY_POD_NAMESPACE", "K8S_SERVICE_NAME"} =>
               \E h \in 1..(j - 1) : l[h] = "MY_POD_NAME"

LEMMA Objects ==
    /\ ToSet(K8sObjects) = {"MY_POD_NAME", "MY_POD_NAMESPACE", "K8S_SERVICE_NAME"}
    /\ EnvSlot("MY_POD_NAME") = 1 /\ EnvSlot("MY_POD_NAMESPACE") = 2
    /\ EnvSlot("K8S_SERVICE_NAME") = 3
    /\ \A name : EnvSlot(name) \in 0..3
    /\ \A name : name \notin ToSet(K8sObjects) => EnvSlot(name) = 0
BY DEF ToSet, K8sObjects, EnvSlot

LEMMA ObjectsSortedStep ==
    ASSUME NEW n \in Nat, n >= 3, NEW X, NEW l \in [1..n -> X], NEW i \in 0..(n - 1),
           ObjectsSorted(l, n, i),
           NEW m, m = IF EnvSlot(l[i + 1]) = 0 THEN l ELSE Swap(l, i + 1, EnvSlot(l[i + 1]))
    PROVE  ObjectsSorted(m, n, i + 1)
<1> DEFINE k == i + 1
<1>0. k \in 1..n /\ \A j \in 1..k : j = k \/ j \in 1..i
  OBVIOUS
<1>1. CASE l[k] \notin ToSet(K8sObjects)
  <2>1. m = l
    BY <1>1, Objects
  <2> QED BY <1>0, <1>1, <2>1, Objects DEF ObjectsSorted
<1>2. CASE l[k] = "MY_POD_NAME"
  <2>1. m = Swap(l, k, 1)
    BY <1>2, Objects
  <2>2. /\ m[1] = "MY_POD_NAME" /\ m[k] = l[1]
        /\ \A j \in 2..n : j # k => m[j] = l[j]
    BY <1>0, <1>2, <2>1 DEF Swap
  <2>3. l[1] \in ToSet(K8sObjects) => l[1] = "MY_POD_NAME"
    <3>1. CASE i = 0
      BY <1>2, <3>1
    <3>2. CASE i > 0
      BY <3>2 DEF ObjectsSorted
    <3> QED BY <3>1, <3>2
  <2>4. \A j \in 1..k : m[j] \in {"MY_POD_NAMESPACE", "K8S_SERVICE_NAME"} =>
            j \in 2..i /\ m[j] = l[j]
    BY <1>0, <2>2, <2>3, Objects
  <2>5. \A j \in 1..k : m[j] = "MY_POD_NAMESPACE" => m[2] = "MY_POD_NAMESPACE"
    BY <1>0, <1>2, <2>2, <2>3, <2>4, Objects DEF ObjectsSorted
  <2>6. \A j \in 1..k : m[j] = "K8S_SERVICE_NAME" => m[3] = "K8S_SERVICE_NAME"
    BY <1>0, <1>2, <2>2, <2>3, <2>4, Objects DEF ObjectsSorted
  <2>7. \A j \in (k + 1)..n : \E h \in 1..(j - 1) : m[h] = "MY_POD_NAME"
    BY <2>2
  <2> QED BY <2>2, <2>5, <2>6, <2>7 DEF ObjectsSorted
<1>3. CASE l[k] \in {"MY_POD_NAMESPACE", "K8S_SERVICE_NAME"}
  <2>1. PICK h \in 1..i : l[h] = "MY_POD_NAME"
    BY <1>0, <1>3 DEF ObjectsSorted
  <2>2. l[1] = "MY_POD_NAME" /\ k \in 2..n /\ i >= 1
    BY <1>3, <2>1, Objects DEF ObjectsSorted
  <2> DEFINE place == EnvSlot(l[k])
  <2>3. place \in 2..3 /\ m = Swap(l, k, place)
    BY <1>3, Objects
  <2>4. /\ m[1] = "MY_POD_NAME" /\ m[place] = l[k] /\ m[k] = l[place]
        /\ \A j \in 1..n : j # k /\ j # place => m[j] = l[j]
    BY <1>0, <2>2, <2>3 DEF Swap
  <2>5. \A j \in 1..k : m[j] = "MY_POD_NAMESPACE" => m[2] = "MY_POD_NAMESPACE"
    <3>1. CASE l[k] = "MY_POD_NAMESPACE"
      BY <2>4, <3>1, Objects
    <3>2. CASE l[k] = "K8S_SERVICE_NAME"
      <4>1. place = 3
        BY <3>2, Objects
      <4> SUFFICES ASSUME NEW j \in 1..k, m[j] = "MY_POD_NAMESPACE"
                   PROVE  m[2] = "MY_POD_NAMESPACE"
        OBVIOUS
      <4>2. CASE k = 2
        BY <2>2, <2>4, <4>2
      <4>3. CASE k = 3
        BY <1>0, <2>2, <2>4, <3>2, <4>1, <4>3 DEF ObjectsSorted
      <4>4. CASE k > 3
        <5>1. m[2] = l[2]
          BY <2>4, <4>1, <4>4
        <5>2. \E g \in 1..i : l[g] = "MY_POD_NAMESPACE"
          BY <1>0, <2>4, <3>2, <4>1, <4>4
        <5> QED BY <5>1, <5>2 DEF ObjectsSorted
      <4> QED BY <2>2, <4>2, <4>3, <4>4
    <3> QED BY <1>3, <3>1, <3>2
  <2>6. \A j \in 1..k : m[j] = "K8S_SERVICE_NAME" => m[3] = "K8S_SERVICE_NAME"
    <3>1. CASE l[k] = "K8S_SERVICE_NAME"
      BY <2>4, <3>1, Objects
    <3>2. CASE l[k] = "MY_POD_NAMESPACE"
      <4>1. place = 2
        BY <3>2, Objects
      <4> SUFFICES ASSUME NEW j \in 1..k, m[j] = "K8S_SERVICE_NAME"
                   PROVE  m[3] = "K8S_SERVICE_NAME"
        OBVIOUS
      <4>2. CASE k = 2
        BY <1>0, <2>2, <2>4, <3>2, <4>1, <4>2
      <4>3. CASE k > 2
        <5>1. \E g \in 1..i : l[g] = "K8S_SERVICE_NAME"
          BY <1>0, <2>4, <3>2, <4>1, <4>3
        <5>2. l[3] = "K8S_SERVICE_NAME"
          BY <5>1 DEF ObjectsSorted
        <5>3. k # 3
          BY <3>2, <5>2
        <5> QED BY <2>4, <4>1, <5>2, <5>3
      <4> QED BY <2>2, <4>2, <4>3
    <3> QED BY <1>3, <3>1, <3>2
  <2>7. \A j \in (k + 1)..n : \E g \in 1..(j - 1) : m[g] = "MY_POD_NAME"
    BY <2>4
  <2> QED BY <2>4, <2>5, <2>6, <2>7 DEF ObjectsSorted
<1> QED BY <1>1, <1>2, <1>3, Objects

\* No other object of Kubernetes comes before the first place of the pod's name.
PodNameFirst(env) ==
    \A j \in 1..Len(env) :
        env[j] \in {"MY_POD_NAMESPACE", "K8S_SERVICE_NAME"} =>
            \E h \in 1..(j - 1) : env[h] = "MY_POD_NAME"

\* A list that has the three objects has their slots.
LEMMA RoomForObjects ==
    ASSUME NEW S, NEW env \in Seq(S), ToSet(K8sObjects) \subseteq ToSet(env)
    PROVE  Len(env) >= 3
<1> DEFINE n == Len(env)
<1>1. n \in Nat /\ ToSet(env) = {env[j] : j \in 1..n}
  BY DEF ToSet
<1> HIDE DEF n
<1>2. PICK a \in 1..n : env[a] = "MY_POD_NAME"
  BY <1>1, Objects
<1>3. PICK b \in 1..n : env[b] = "MY_POD_NAMESPACE"
  BY <1>1, Objects
<1>4. PICK c \in 1..n : env[c] = "K8S_SERVICE_NAME"
  BY <1>1, Objects
<1>5. n \in Nat /\ a # b /\ a # c /\ b # c
  BY <1>1, <1>2, <1>3, <1>4
<1> QED BY <1>5 DEF n

\* A list that has the three objects, the pod's name first, is sorted by one pass.
LEMMA EnvIsSorted ==
    ASSUME NEW S, NEW env \in Seq(S), ToSet(K8sObjects) \subseteq ToSet(env), PodNameFirst(env)
    PROVE  /\ sortEnvVar(env) \in [1..Len(env) -> ToSet(env)] /\ Len(env) >= 3
           /\ sortEnvVar(env)[1] = "MY_POD_NAME"
           /\ sortEnvVar(env)[2] = "MY_POD_NAMESPACE"
           /\ sortEnvVar(env)[3] = "K8S_SERVICE_NAME"
<1> DEFINE n == Len(env)
           slot == [name \in ToSet(env) |-> EnvSlot(name)]
<1>1. n \in Nat /\ env \in [1..n -> ToSet(env)] /\ ToSet(env) = {env[j] : j \in 1..n}
  BY DEF ToSet
<1> HIDE DEF n
<1>0. n \in Nat
  BY <1>1
<1>2. n >= 3
  BY RoomForObjects DEF n
<1>3. slot \in [ToSet(env) -> 0..n]
  <2>1. \A name \in ToSet(env) : EnvSlot(name) \in 0..n
    <3>1. 0..3 \subseteq 0..n
      BY <1>0, <1>2
    <3> QED BY <3>1, Objects
  <2> QED BY <2>1
<1>4. PICK swapped : SwapSteps(swapped, env, slot)
  <2> HIDE DEF slot
  <2> QED BY <1>3, SwapDef DEF n
<1>5. /\ swapped \in [0..n -> [1..n -> ToSet(env)]]
      /\ swapped[0] = env /\ sortEnvVar(env) = swapped[n]
      /\ \A i \in 1..n : swapped[i] = SwapStep(slot, swapped[i - 1], i)
  BY <1>4 DEF SwapSteps, sortEnvVar, n
<1> DEFINE T == {i \in 0..n : ObjectsSorted(swapped[i], n, i)}
<1>6. 0 \in T
  <2>1. ObjectsSorted(env, n, 0)
    BY <1>1 DEF PodNameFirst, ObjectsSorted, n
  <2> QED BY <1>1, <1>5, <2>1
<1>7. ASSUME NEW i \in 0..(n - 1), i \in T
      PROVE  i + 1 \in T
  <2> DEFINE l == swapped[i]
             m == swapped[i + 1]
             elements == ToSet(env)
  <2>1. i \in 0..n /\ i + 1 \in 1..n /\ (i + 1) - 1 = i /\ i + 1 \in 0..n
    BY <1>1
  <2>2. l \in [1..n -> elements] /\ ObjectsSorted(l, n, i)
    BY <1>5, <1>7, <2>1
  <2>3. m = SwapStep(slot, l, i + 1) /\ slot[l[i + 1]] = EnvSlot(l[i + 1])
    BY <1>5, <2>1, <2>2
  <2>4. m = IF EnvSlot(l[i + 1]) = 0 THEN l ELSE Swap(l, i + 1, EnvSlot(l[i + 1]))
    BY <2>3 DEF SwapStep
  <2> HIDE DEF n, l, m, elements
  <2>5. ObjectsSorted(m, n, i + 1)
    BY <1>1, <1>2, <2>2, <2>4, ObjectsSortedStep
  <2> QED BY <2>1, <2>5 DEF m
<1>8. n \in T
  <2> HIDE DEF T
  <2>1. 0..n \subseteq T
    BY <1>1, <1>6, <1>7, Induction
  <2> QED BY <1>1, <2>1
<1>9. ObjectsSorted(swapped[n], n, n) /\ swapped[n] \in [1..n -> ToSet(env)]
  BY <1>1, <1>5, <1>8
<1>10. ToSet(K8sObjects) \subseteq {swapped[n][j] : j \in 1..n}
  <2>1. ToSet(swapped[n]) = ToSet(env)
    <3> HIDE DEF slot
    <3> QED BY <1>3, <1>5, <1>4, SwapKeepsElements DEF SwapSteps, n
  <2>2. ToSet(swapped[n]) = {swapped[n][j] : j \in 1..n}
    BY <1>9 DEF ToSet
  <2> QED BY <2>1, <2>2
<1> QED BY <1>2, <1>5, <1>9, <1>10, Objects DEF ObjectsSorted, n

\* The pod's name stays first when a list is put behind that has none of the other objects,
\* or after it, or behind the pod's name.
LEMMA PodNameStaysFirst ==
    ASSUME NEW S, NEW s \in Seq(S), NEW t \in Seq(S), PodNameFirst(s),
           \/ "MY_POD_NAME" \in ToSet(s)
           \/ Len(t) > 0 /\ t[1] = "MY_POD_NAME"
           \/ ToSet(t) \cap {"MY_POD_NAMESPACE", "K8S_SERVICE_NAME"} = {}
    PROVE  PodNameFirst(s \o t)
<1>1. /\ Len(s \o t) = Len(s) + Len(t) /\ Len(s) \in Nat /\ Len(t) \in Nat
      /\ \A i \in 1..Len(s) : (s \o t)[i] = s[i]
      /\ \A i \in 1..Len(t) : (s \o t)[Len(s) + i] = t[i]
      /\ \A i \in (Len(s) + 1)..(Len(s) + Len(t)) : (s \o t)[i] = t[i - Len(s)]
  BY PositionsOfConcat
<1> SUFFICES ASSUME NEW j \in 1..(Len(s) + Len(t)),
                    (s \o t)[j] \in {"MY_POD_NAMESPACE", "K8S_SERVICE_NAME"}
             PROVE  \E h \in 1..(j - 1) : (s \o t)[h] = "MY_POD_NAME"
  BY <1>1 DEF PodNameFirst
<1>2. CASE j <= Len(s)
  <2>1. PICK h \in 1..(j - 1) : s[h] = "MY_POD_NAME"
    BY <1>1, <1>2 DEF PodNameFirst
  <2>2. h \in 1..Len(s)
    BY <1>1, <1>2
  <2> QED BY <1>1, <2>1, <2>2
<1>3. CASE j > Len(s)
  <2>1. j - Len(s) \in 1..Len(t) /\ (s \o t)[j] = t[j - Len(s)]
    BY <1>1, <1>3
  <2>2. CASE "MY_POD_NAME" \in ToSet(s)
    <3>1. PICK h \in 1..Len(s) : s[h] = "MY_POD_NAME"
      BY <2>2 DEF ToSet
    <3>2. h \in 1..(j - 1)
      BY <1>1, <1>3
    <3> QED BY <1>1, <3>1, <3>2
  <2>3. CASE Len(t) > 0 /\ t[1] = "MY_POD_NAME"
    <3>1. (s \o t)[Len(s) + 1] = "MY_POD_NAME"
      BY <1>1, <2>3
    <3>2. j # Len(s) + 1
      BY <3>1
    <3>3. Len(s) + 1 \in 1..(j - 1)
      BY <1>1, <1>3, <3>2
    <3> QED BY <3>1, <3>3
  <2>4. CASE ToSet(t) \cap {"MY_POD_NAMESPACE", "K8S_SERVICE_NAME"} = {}
    <3>1. t[j - Len(s)] \in ToSet(t)
      BY <2>1 DEF ToSet
    <3> QED BY <2>1, <2>4, <3>1
  <2> QED BY <2>2, <2>3, <2>4
<1> QED BY <1>1, <1>2, <1>3

\* The variables of the operator, and what precedes what among them.
LEMMA EnvVarsOrder ==
    /\ EnvVars \in Seq(ToSet(EnvVars)) /\ Len(EnvVars) > 0 /\ EnvVars[1] = "MY_POD_NAME"
    /\ ToSet(K8sObjects) \subseteq ToSet(EnvVars)
    /\ PodNameFirst(EnvVars)
    /\ EnvVars[2] = "MY_POD_NAMESPACE" /\ EnvVars[3] = "K8S_SERVICE_NAME"
    /\ \A key : ~Precedes(key, "MY_POD_NAME", EnvVars)
    /\ \A key, other : Precedes(other, key, EnvVars) /\ other # "MY_POD_NAME" =>
                           Precedes("MY_POD_NAME", key, EnvVars)
    /\ \A key \in {"MY_POD_NAMESPACE", "K8S_SERVICE_NAME"} :
           Precedes("MY_POD_NAME", key, EnvVars)
<1> DEFINE others == <<"RABBITMQ_NODENAME", "K8S_HOSTNAME_SUFFIX">>
           names == {"MY_POD_NAME", "MY_POD_NAMESPACE", "K8S_SERVICE_NAME", "RABBITMQ_NODENAME",
                     "K8S_HOSTNAME_SUFFIX"}
<1>1. /\ K8sObjects \in Seq(names) /\ Len(K8sObjects) = 3 /\ K8sObjects[1] = "MY_POD_NAME"
      /\ K8sObjects[2] = "MY_POD_NAMESPACE" /\ K8sObjects[3] = "K8S_SERVICE_NAME"
      /\ others \in Seq(names) /\ Len(others) = 2 /\ others[1] = "RABBITMQ_NODENAME"
      /\ others[2] = "K8S_HOSTNAME_SUFFIX"
  BY DEF K8sObjects
<1>2. /\ EnvVars \in Seq(names) /\ Len(EnvVars) = 5 /\ DOMAIN EnvVars = 1..5
      /\ EnvVars[1] = "MY_POD_NAME" /\ EnvVars[2] = "MY_POD_NAMESPACE"
      /\ EnvVars[3] = "K8S_SERVICE_NAME" /\ EnvVars[4] = "RABBITMQ_NODENAME"
      /\ EnvVars[5] = "K8S_HOSTNAME_SUFFIX"
  <2>1. EnvVars = K8sObjects \o others
    BY DEF EnvVars
  <2> HIDE DEF others, names
  <2>2. ASSUME NEW s \in Seq(names), NEW t \in Seq(names), Len(s) = 3, Len(t) = 2
        PROVE  /\ s \o t \in Seq(names) /\ Len(s \o t) = 5 /\ DOMAIN (s \o t) = 1..5
               /\ (s \o t)[1] = s[1] /\ (s \o t)[2] = s[2] /\ (s \o t)[3] = s[3]
               /\ (s \o t)[4] = t[1] /\ (s \o t)[5] = t[2]
    <3>1. /\ s \o t \in Seq(names) /\ Len(s \o t) = Len(s) + Len(t)
          /\ \A i \in 1..Len(s) : (s \o t)[i] = s[i]
          /\ \A i \in 1..Len(t) : (s \o t)[Len(s) + i] = t[i]
      BY PositionsOfConcat
    <3>2. s \o t \in Seq(names) /\ Len(s \o t) = 5 /\ DOMAIN (s \o t) = 1..5
      BY <2>2, <3>1
    <3>3. (s \o t)[1] = s[1] /\ (s \o t)[2] = s[2] /\ (s \o t)[3] = s[3]
      BY <2>2, <3>1
    <3>4. (s \o t)[3 + 1] = t[1] /\ (s \o t)[3 + 2] = t[2]
      BY <2>2, <3>1
    <3> QED BY <3>2, <3>3, <3>4
  <2> QED BY <1>1, <2>1, <2>2
<1>8. EnvVars \in Seq(ToSet(EnvVars))
  BY <1>2 DEF ToSet
<1>3. ToSet(K8sObjects) \subseteq ToSet(EnvVars)
  <2>1. 1 \in 1..5 /\ 2 \in 1..5 /\ 3 \in 1..5
    OBVIOUS
  <2> QED BY <1>2, <2>1, Objects DEF ToSet
<1>4. PodNameFirst(EnvVars)
  BY <1>2 DEF PodNameFirst
<1>5. \A key : ~Precedes(key, "MY_POD_NAME", EnvVars)
  BY <1>2 DEF Precedes
<1>6. \A key, other : Precedes(other, key, EnvVars) => Precedes("MY_POD_NAME", key, EnvVars)
  <2> SUFFICES ASSUME NEW key, NEW other, Precedes(other, key, EnvVars)
               PROVE  Precedes("MY_POD_NAME", key, EnvVars)
    OBVIOUS
  <2>1. PICK i \in 1..5, j \in 1..5 : i < j /\ EnvVars[j] = key
    BY <1>2 DEF Precedes
  <2>2. 1 \in 1..5 /\ 1 < j
    BY <2>1
  <2> QED BY <1>2, <2>1, <2>2 DEF Precedes
<1>7. \A key \in {"MY_POD_NAMESPACE", "K8S_SERVICE_NAME"} :
          Precedes("MY_POD_NAME", key, EnvVars)
  BY <1>2 DEF Precedes
<1> QED BY <1>2, <1>3, <1>4, <1>5, <1>6, <1>7, <1>8

\* One key of the patch with what it brings along: the pod's name stays first, if the patch
\* names it first or not at all.
LEMMA PodNameFirstStep ==
    ASSUME NEW S, NEW patch \in Seq(S), EnvVars \in Seq(S), NEW before \in Seq(S),
           NEW i \in 1..Len(patch), PodNameFirst(before),
           "MY_POD_NAME" \in ToSet(patch) =>
               \/ "MY_POD_NAME" \in ToSet(before)
               \/ patch[i] = "MY_POD_NAME"
    PROVE  /\ PodNameFirst(MergeStep(EnvVars, patch, before, i))
           /\ "MY_POD_NAME" \in ToSet(patch) =>
                  "MY_POD_NAME" \in ToSet(MergeStep(EnvVars, patch, before, i))
<1> DEFINE key == patch[i]
           others == ToSet(EnvVars) \ ToSet(patch)
           front == {k \in others \ ToSet(before) : Precedes(k, key, EnvVars)}
           ahead == Only(EnvVars, front)
           last == <<key>>
           step == MergeStep(EnvVars, patch, before, i)
<1>1. step = IF key \in ToSet(before) THEN before ELSE (before \o ahead) \o last
  BY DEF MergeStep
<1>2. key \in S /\ key \in ToSet(patch)
  BY DEF ToSet
<1>3. CASE key \in ToSet(before)
  BY <1>1, <1>3
<1>4. CASE key \notin ToSet(before)
  <2>1. step = (before \o ahead) \o last
    BY <1>1, <1>4
  <2>2. last \in Seq(S) /\ ToSet(last) = {key} /\ Len(last) > 0 /\ last[1] = key
    BY <1>2, SingleElement
  <2>3. /\ ahead \in Seq(S) /\ ToSet(ahead) = ToSet(EnvVars) \cap front
        /\ EnvVars[1] \in front => Len(ahead) > 0 /\ ahead[1] = EnvVars[1]
    <3> HIDE DEF front
    <3> QED BY EnvVarsOrder, OnlyProperties
  <2>4. "MY_POD_NAME" \in ToSet(EnvVars)
    BY EnvVarsOrder, Objects
  <2>5. /\ "MY_POD_NAME" \notin ToSet(patch) /\ "MY_POD_NAME" \notin ToSet(before)
        /\ front # {} \/ key \in {"MY_POD_NAMESPACE", "K8S_SERVICE_NAME"}
        => "MY_POD_NAME" \in front
    <3> SUFFICES ASSUME "MY_POD_NAME" \notin ToSet(patch), "MY_POD_NAME" \notin ToSet(before),
                        front # {} \/ key \in {"MY_POD_NAMESPACE", "K8S_SERVICE_NAME"}
                 PROVE  Precedes("MY_POD_NAME", key, EnvVars)
      BY <2>4
    <3>1. CASE key \in {"MY_POD_NAMESPACE", "K8S_SERVICE_NAME"}
      BY <3>1, EnvVarsOrder
    <3>2. CASE front # {}
      <4>1. PICK k \in front : Precedes(k, key, EnvVars)
        BY <3>2
      <4> QED BY <4>1, EnvVarsOrder
    <3> QED BY <3>1, <3>2
  <2>6. key = "MY_POD_NAME" => front = {}
    BY EnvVarsOrder
  <2>7. front # {} => "MY_POD_NAME" \in ToSet(before) \/ "MY_POD_NAME" \in front
    BY <2>5, <2>6
  <2>8. \/ "MY_POD_NAME" \in ToSet(before) \/ key = "MY_POD_NAME"
        \/ key \notin {"MY_POD_NAMESPACE", "K8S_SERVICE_NAME"} \/ "MY_POD_NAME" \in ToSet(ahead)
    BY <2>3, <2>4, <2>5
  <2> HIDE DEF front, ahead, last, key, step
  <2>9. before \o ahead \in Seq(S) /\ PodNameFirst(before \o ahead)
    <3>1. \/ "MY_POD_NAME" \in ToSet(before)
          \/ Len(ahead) > 0 /\ ahead[1] = "MY_POD_NAME"
          \/ ToSet(ahead) \cap {"MY_POD_NAMESPACE", "K8S_SERVICE_NAME"} = {}
      BY <2>3, <2>7, EnvVarsOrder
    <3> QED BY <2>3, <3>1, PodNameStaysFirst, PositionsOfConcat
  <2>10. ToSet(before \o ahead) = ToSet(before) \cup ToSet(ahead)
    BY <2>3, ElementsOfConcat
  <2>11. PodNameFirst((before \o ahead) \o last)
    <3> DEFINE list == before \o ahead
    <3>1. \/ "MY_POD_NAME" \in ToSet(list)
          \/ Len(last) > 0 /\ last[1] = "MY_POD_NAME"
          \/ ToSet(last) \cap {"MY_POD_NAMESPACE", "K8S_SERVICE_NAME"} = {}
      BY <2>2, <2>8, <2>10
    <3>2. list \in Seq(S) /\ PodNameFirst(list)
      BY <2>9
    <3> HIDE DEF list
    <3>3. PodNameFirst(list \o last)
      BY <2>2, <3>1, <3>2, PodNameStaysFirst
    <3> QED BY <3>3 DEF list
  <2>12. ToSet((before \o ahead) \o last) = ToSet(before) \cup ToSet(ahead) \cup {key}
    <3> DEFINE list == before \o ahead
    <3>1. list \in Seq(S) /\ ToSet(list) = ToSet(before) \cup ToSet(ahead)
      BY <2>9, <2>10
    <3> HIDE DEF list
    <3>2. ToSet(list \o last) = ToSet(list) \cup {key}
      BY <2>2, <3>1, ElementsOfConcat
    <3> QED BY <3>1, <3>2 DEF list
  <2> QED BY <2>1, <2>11, <2>12 DEF key, step
<1> QED BY <1>3, <1>4

\* A merged list has the pod's name before the other objects of Kubernetes, if the patch
\* names it first or not at all.
LEMMA MergedPodNameFirst ==
    ASSUME NEW S, NEW patch \in Seq(S), EnvVars \in Seq(S),
           "MY_POD_NAME" \in ToSet(patch) => patch[1] = "MY_POD_NAME"
    PROVE  PodNameFirst(MergedKeys(EnvVars, patch))
<1> DEFINE n == Len(patch)
<1>1. PICK merged : MergeSteps(merged, S, EnvVars, patch)
  BY MergeDef
<1> DEFINE Taken(i) == "MY_POD_NAME" \in ToSet(patch) /\ i > 0 =>
                            "MY_POD_NAME" \in ToSet(merged[i])
           T == {i \in 0..n : PodNameFirst(merged[i]) /\ Taken(i)}
           keys == merged[n]
           left == (ToSet(EnvVars) \ ToSet(patch)) \ ToSet(keys)
           rest == Only(EnvVars, left)
<1>2. /\ merged \in [0..n -> Seq(S)] /\ merged[0] = <<>>
      /\ \A i \in 1..n : merged[i] = MergeStep(EnvVars, patch, merged[i - 1], i)
      /\ MergedKeys(EnvVars, patch) = keys \o rest
  BY <1>1 DEF MergeSteps, MergeRest
<1>3. n \in Nat /\ ToSet(patch) = {patch[j] : j \in 1..n}
  BY DEF ToSet
<1>4. 0 \in T
  BY <1>2, <1>3 DEF PodNameFirst
<1>5. ASSUME NEW i \in 0..(n - 1), i \in T
      PROVE  i + 1 \in T
  <2> DEFINE before == merged[i]
  <2>1. i \in 0..n /\ i + 1 \in 1..n /\ (i + 1) - 1 = i /\ i + 1 \in 0..n
    BY <1>3
  <2>2. /\ before \in Seq(S) /\ PodNameFirst(before) /\ Taken(i)
        /\ merged[i + 1] = MergeStep(EnvVars, patch, before, i + 1)
    BY <1>2, <1>5, <2>1
  <2>3. "MY_POD_NAME" \in ToSet(patch) =>
            "MY_POD_NAME" \in ToSet(before) \/ patch[i + 1] = "MY_POD_NAME"
    <3>1. CASE i = 0
      BY <3>1
    <3>2. CASE i > 0
      BY <2>2, <3>2
    <3> QED BY <2>1, <3>1, <3>2
  <2>4. /\ PodNameFirst(merged[i + 1])
        /\ "MY_POD_NAME" \in ToSet(patch) => "MY_POD_NAME" \in ToSet(merged[i + 1])
    <3> DEFINE next == MergeStep(EnvVars, patch, before, i + 1)
    <3> HIDE DEF before
    <3>1. /\ PodNameFirst(next)
          /\ "MY_POD_NAME" \in ToSet(patch) => "MY_POD_NAME" \in ToSet(next)
      BY <2>1, <2>2, <2>3, PodNameFirstStep
    <3> QED BY <2>2, <3>1
  <2> QED BY <2>1, <2>4
<1>6. n \in T
  <2> HIDE DEF T
  <2>1. 0..n \subseteq T
    BY <1>3, <1>4, <1>5, Induction
  <2> QED BY <1>3, <2>1
<1>7. keys \in Seq(S) /\ PodNameFirst(keys) /\ Taken(n)
  BY <1>2, <1>3, <1>6
<1>8. /\ rest \in Seq(S) /\ ToSet(rest) = ToSet(EnvVars) \cap left
      /\ EnvVars[1] \in left => Len(rest) > 0 /\ rest[1] = EnvVars[1]
  <2> HIDE DEF left
  <2> QED BY EnvVarsOrder, OnlyProperties
<1>9. "MY_POD_NAME" \in ToSet(keys) \/ "MY_POD_NAME" \in left
  <2>1. CASE "MY_POD_NAME" \in ToSet(patch)
    BY <1>3, <1>7, <2>1
  <2>2. CASE "MY_POD_NAME" \notin ToSet(patch)
    BY <2>2, EnvVarsOrder, Objects
  <2> QED BY <2>1, <2>2
<1>10. "MY_POD_NAME" \in ToSet(keys) \/ (Len(rest) > 0 /\ rest[1] = "MY_POD_NAME")
  BY <1>8, <1>9, EnvVarsOrder
<1>11. PodNameFirst(keys \o rest)
  <2> HIDE DEF keys, rest
  <2> QED BY <1>7, <1>8, <1>10, PodNameStaysFirst
<1> QED BY <1>2, <1>11

\* A list is one of its own elements, and of any larger set's.
LEMMA ListOfItsElements ==
    ASSUME NEW X, NEW list \in Seq(X), NEW S, ToSet(list) \subseteq S
    PROVE  list \in Seq(S)
<1>1. \A i \in 1..Len(list) : list[i] \in S
  BY DEF ToSet
<1> QED BY <1>1

\* In a list that begins with the three objects, all others come after them.
LEMMA ObjectsPrecede ==
    ASSUME NEW n \in Nat, n >= 3, NEW X, NEW list \in [1..n -> X], list[1] = "MY_POD_NAME",
           list[2] = "MY_POD_NAMESPACE", list[3] = "K8S_SERVICE_NAME"
    PROVE  \A name \in ToSet(list) \ ToSet(K8sObjects), object \in ToSet(K8sObjects) :
               Precedes(object, name, list)
<1> SUFFICES ASSUME NEW name \in ToSet(list) \ ToSet(K8sObjects),
                    NEW object \in ToSet(K8sObjects)
             PROVE  Precedes(object, name, list)
  OBVIOUS
<1>1. PICK j \in 1..n : list[j] = name
  BY DEF ToSet
<1>2. j # 1 /\ j # 2 /\ j # 3
  BY <1>1, Objects
<1>3. \E i \in 1..3 : list[i] = object
  BY Objects
<1> QED BY <1>1, <1>2, <1>3 DEF Precedes

\* The variables of the container, whatever the override's are.
LEMMA VariablesResolve ==
    ASSUME NEW override, NEW X, override.env \in Seq(X), ~override.sidecarFirst,
           "MY_POD_NAME" \in ToSet(override.env) => Head(override.env) = "MY_POD_NAME"
    PROVE  \A name \in ToSet(Env(override)) \ ToSet(K8sObjects), object \in ToSet(K8sObjects) :
               Precedes(object, name, Env(override))
<1> DEFINE patch == override.env
           S == ToSet(patch) \cup ToSet(EnvVars)
           merged == MergedKeys(EnvVars, patch)
<1>1. patch \in Seq(S) /\ EnvVars \in Seq(S)
  BY EnvVarsOrder, ListOfItsElements
<1>2. Env(override) = IF patch = <<>> THEN merged ELSE sortEnvVar(merged)
  BY DEF Env
<1>3. "MY_POD_NAME" \in ToSet(patch) => patch[1] = "MY_POD_NAME"
  BY DEF ToSet
<1> HIDE DEF patch, S
<1>4. /\ merged \in Seq(S) /\ ToSet(EnvVars) \subseteq ToSet(merged)
      /\ patch = <<>> => merged = EnvVars
  BY <1>1, MergedProperties
<1>5. CASE patch = <<>>
  <2> DEFINE n == Len(EnvVars)
  <2>1. n \in Nat /\ n >= 3 /\ EnvVars \in [1..n -> ToSet(EnvVars)]
    <3>1. n = 5
      BY DEF EnvVars, K8sObjects
    <3>2. EnvVars \in [1..n -> ToSet(EnvVars)]
      BY EnvVarsOrder DEF ToSet
    <3> QED BY <3>1, <3>2
  <2> HIDE DEF n
  <2>2. Env(override) = EnvVars
    BY <1>2, <1>4, <1>5
  <2> QED BY <2>1, <2>2, EnvVarsOrder, ObjectsPrecede
<1>6. CASE patch # <<>>
  <2> DEFINE n == Len(merged)
             sorted == sortEnvVar(merged)
  <2>1. PodNameFirst(merged)
    BY <1>1, <1>3, MergedPodNameFirst
  <2>2. ToSet(K8sObjects) \subseteq ToSet(merged)
    BY <1>4, EnvVarsOrder
  <2> HIDE DEF merged
  <2>3. /\ sorted \in [1..n -> ToSet(merged)] /\ n >= 3 /\ n \in Nat
        /\ sorted[1] = "MY_POD_NAME" /\ sorted[2] = "MY_POD_NAMESPACE"
        /\ sorted[3] = "K8S_SERVICE_NAME"
    BY <1>4, <2>1, <2>2, EnvIsSorted
  <2>4. Env(override) = sorted
    BY <1>2, <1>6
  <2> HIDE DEF n, sorted
  <2> QED BY <2>3, <2>4, ObjectsPrecede
<1> QED BY <1>5, <1>6

--------------------------------------------------------------------------------
(* The mounts. *)

IsOuter(mount) == mount[1] = "rabbitmq-erlang-cookie"

\* What the pass has dealt with: if the volume of the outer directory is among it, then it
\* has come to the front.
OuterInFront(l, i) == (\E j \in 1..i : IsOuter(l[j])) => IsOuter(l[1])

LEMMA OuterInFrontStep ==
    ASSUME NEW n \in Nat, n >= 2, NEW X, NEW l \in [1..n -> X], NEW i \in 0..(n - 1),
           OuterInFront(l, i),
           NEW m, m = IF MountSlot(l[i + 1]) = 0 THEN l ELSE Swap(l, i + 1, MountSlot(l[i + 1]))
    PROVE  OuterInFront(m, i + 1)
<1> DEFINE k == i + 1
<1>0. k \in 1..n /\ \A j \in 1..k : j = k \/ j \in 1..i
  OBVIOUS
<1>1. CASE IsOuter(l[k])
  <2>1. MountSlot(l[k]) = 1
    BY <1>1 DEF IsOuter, MountSlot
  <2>2. m[1] = l[k]
    BY <1>0, <2>1 DEF Swap
  <2> QED BY <1>1, <2>2 DEF OuterInFront
<1>2. CASE l[k][1] = "persistence"
  <2>1. MountSlot(l[k]) = 2 /\ ~IsOuter(l[k])
    BY <1>2 DEF IsOuter, MountSlot
  <2>2. /\ m[2] = l[k] /\ m[k] = l[2]
        /\ \A j \in 1..n : j # k /\ j # 2 => m[j] = l[j]
    BY <1>0, <2>1 DEF Swap
  <2> SUFFICES ASSUME NEW j \in 1..k, IsOuter(m[j])
               PROVE  IsOuter(m[1])
    BY DEF OuterInFront
  <2>3. j # 2
    BY <2>1, <2>2
  <2>4. CASE j = 1
    BY <2>4
  <2>5. CASE j # 1
    <3>1. k > 2 /\ m[1] = l[1] /\ 2 \in 1..i
      BY <1>0, <2>2, <2>3, <2>5
    <3>2. \E h \in 1..i : IsOuter(l[h])
      BY <1>0, <2>2, <2>3, <3>1
    <3> QED BY <3>1, <3>2 DEF OuterInFront
  <2> QED BY <2>4, <2>5
<1>3. CASE ~IsOuter(l[k]) /\ l[k][1] # "persistence"
  <2>1. m = l
    BY <1>3 DEF IsOuter, MountSlot
  <2> QED BY <1>0, <1>3, <2>1 DEF OuterInFront
<1> QED BY <1>1, <1>2, <1>3

LEMMA MountSlots ==
    ASSUME NEW X, NEW n \in Nat, n >= 2
    PROVE  [m \in X |-> MountSlot(m)] \in [X -> 0..n]
<1>1. \A m : MountSlot(m) \in 0..2
  BY DEF MountSlot
<1>2. 0..2 \subseteq 0..n
  OBVIOUS
<1> QED BY <1>1, <1>2

\* Sorting loses no mount.
LEMMA MountsAreKept ==
    ASSUME NEW S, NEW mounts \in Seq(S), Len(mounts) >= 2
    PROVE  /\ sortVolumeMounts(mounts) \in [1..Len(mounts) -> ToSet(mounts)]
           /\ ToSet(sortVolumeMounts(mounts)) = ToSet(mounts)
<1> DEFINE slot == [m \in ToSet(mounts) |-> MountSlot(m)]
<1>1. Len(mounts) \in Nat
  OBVIOUS
<1>2. slot \in [ToSet(mounts) -> 0..Len(mounts)]
  BY <1>1, MountSlots
<1>3. sortVolumeMounts(mounts) = SwapToSlots(mounts, slot)
  BY DEF sortVolumeMounts
<1> HIDE DEF slot
<1> QED BY <1>2, <1>3, SwapKeepsElements

\* One pass brings a mount of the outer directory's volume to the front, if there is one.
LEMMA OuterComesFirst ==
    ASSUME NEW S, NEW mounts \in Seq(S), Len(mounts) >= 2,
           NEW outer \in ToSet(mounts), IsOuter(outer)
    PROVE  IsOuter(sortVolumeMounts(mounts)[1])
<1> DEFINE n == Len(mounts)
           slot == [m \in ToSet(mounts) |-> MountSlot(m)]
           sorted == sortVolumeMounts(mounts)
<1>1. n \in Nat /\ n >= 2
  OBVIOUS
<1>2. slot \in [ToSet(mounts) -> 0..n]
  BY <1>1, MountSlots
<1>3. sorted = SwapToSlots(mounts, slot)
  BY DEF sortVolumeMounts
<1>4. sorted \in [1..n -> ToSet(mounts)] /\ ToSet(sorted) = ToSet(mounts)
  BY MountsAreKept
<1>5. PICK swapped : SwapSteps(swapped, mounts, slot)
  <2> HIDE DEF slot
  <2> QED BY <1>2, SwapDef
<1>6. /\ swapped \in [0..n -> [1..n -> ToSet(mounts)]]
      /\ swapped[0] = mounts /\ sorted = swapped[n]
      /\ \A i \in 1..n : swapped[i] = SwapStep(slot, swapped[i - 1], i)
  BY <1>3, <1>5 DEF SwapSteps
<1> HIDE DEF n, sorted
<1> DEFINE T == {i \in 0..n : OuterInFront(swapped[i], i)}
<1>7. 0 \in T
  BY <1>1 DEF OuterInFront
<1>8. ASSUME NEW i \in 0..(n - 1), i \in T
      PROVE  i + 1 \in T
  <2> DEFINE l == swapped[i]
             m == swapped[i + 1]
             elements == ToSet(mounts)
  <2>1. i \in 0..n /\ i + 1 \in 1..n /\ (i + 1) - 1 = i /\ i + 1 \in 0..n
    BY <1>1
  <2>2. l \in [1..n -> elements] /\ OuterInFront(l, i)
    BY <1>6, <1>8, <2>1
  <2>3. m = SwapStep(slot, l, i + 1) /\ slot[l[i + 1]] = MountSlot(l[i + 1])
    BY <1>6, <2>1, <2>2
  <2>4. m = IF MountSlot(l[i + 1]) = 0 THEN l ELSE Swap(l, i + 1, MountSlot(l[i + 1]))
    BY <2>3 DEF SwapStep
  <2> HIDE DEF l, m, elements
  <2>5. OuterInFront(m, i + 1)
    BY <1>1, <2>2, <2>4, OuterInFrontStep
  <2> QED BY <2>1, <2>5 DEF m
<1>9. n \in T
  <2> HIDE DEF T
  <2>1. 0..n \subseteq T
    BY <1>1, <1>7, <1>8, Induction
  <2> QED BY <1>1, <2>1
<1>10. OuterInFront(sorted, n)
  BY <1>6, <1>9
<1>11. \E j \in 1..n : IsOuter(sorted[j])
  <2>1. ToSet(sorted) = {sorted[j] : j \in 1..n}
    BY <1>4 DEF ToSet, n
  <2> QED BY <1>4, <2>1
<1> QED BY <1>4, <1>10, <1>11 DEF OuterInFront, n, sorted

\* The two directories of the operator, the outer one first.
LEMMA DataPaths ==
    /\ Paths(DataMounts) = <<"/var/lib/rabbitmq/", "/var/lib/rabbitmq/mnesia/">>
    /\ DataMounts[1][2] = "/var/lib/rabbitmq/"
    /\ DataMounts[2][2] = "/var/lib/rabbitmq/mnesia/"
BY DEF Paths, DataMounts

LEMMA PathsOfAList ==
    ASSUME NEW mounts, NEW n \in Nat, NEW M, mounts \in [1..n -> M]
    PROVE  /\ DOMAIN Paths(mounts) = 1..n
           /\ \A i \in 1..n : Paths(mounts)[i] = mounts[i][2]
           /\ Paths(mounts) \in Seq(ToSet(Paths(mounts)))
<1>1. DOMAIN Paths(mounts) = 1..n /\ \A i \in 1..n : Paths(mounts)[i] = mounts[i][2]
  BY DEF Paths
<1>2. Paths(mounts) \in [1..n -> ToSet(Paths(mounts))]
  BY <1>1 DEF ToSet, Paths
<1> QED BY <1>1, <1>2

\* The merged mounts: both directories are mounted, and without a patch the outer one first.
LEMMA MergedDataMounts ==
    ASSUME NEW M, NEW patch \in Seq(M)
    PROVE  LET merged == MergedMounts(DataMounts, patch)
           IN  /\ merged \in Seq(ToSet(merged)) /\ Len(merged) >= 2
               /\ \A i \in {1, 2} :
                      \E j \in 1..Len(merged) : merged[j][2] = DataMounts[i][2]
               /\ patch = <<>> =>
                      /\ Len(merged) = 2
                      /\ \A i \in {1, 2} : merged[i][2] = DataMounts[i][2]
<1> DEFINE merged == MergedMounts(DataMounts, patch)
           original == Paths(DataMounts)
           keys == Paths(patch)
           S == ToSet(original) \cup ToSet(keys)
           paths == MergedKeys(original, keys)
           mount(path) == MountAt(path, IF path \in ToSet(keys) THEN patch ELSE DataMounts)
           n == Len(paths)
<1>1. /\ original \in Seq(S) /\ Len(original) = 2
      /\ original[1] = DataMounts[1][2] /\ original[2] = DataMounts[2][2]
      /\ original[1] # original[2]
  <2>1. ToSet(original) = {"/var/lib/rabbitmq/", "/var/lib/rabbitmq/mnesia/"}
    BY DataPaths DEF ToSet
  <2>2. original \in Seq({"/var/lib/rabbitmq/", "/var/lib/rabbitmq/mnesia/"})
    BY DataPaths
  <2>3. Len(original) = 2
    BY DataPaths
  <2> HIDE DEF S, original
  <2>4. original \in Seq(S)
    BY <2>2, <2>1, ListOfItsElements DEF S
  <2> QED BY <2>3, <2>4, DataPaths DEF original
<1>2. keys \in Seq(S) /\ (patch = <<>> => keys = <<>>)
  <2>1. patch \in [1..Len(patch) -> M] /\ Len(patch) \in Nat
    OBVIOUS
  <2>2. keys \in Seq(ToSet(keys))
    BY <2>1, PathsOfAList
  <2>3. patch = <<>> => keys = <<>>
    BY DEF Paths
  <2> HIDE DEF keys
  <2>4. keys \in Seq(S)
    BY <2>2, ListOfItsElements DEF S
  <2> QED BY <2>3, <2>4
<1>3. /\ paths \in Seq(S) /\ ToSet(original) \subseteq ToSet(paths)
      /\ patch = <<>> => paths = original
  <2> HIDE DEF original, keys, S
  <2> QED BY <1>1, <1>2, MergedProperties
<1>4. merged = [i \in DOMAIN paths |-> <<mount(paths[i])[1], paths[i]>>]
  BY DEF MergedMounts
<1> HIDE DEF original, keys, S, paths, mount, merged
<1>5. n \in Nat /\ DOMAIN paths = 1..n
  BY <1>3
<1>6. DOMAIN merged = 1..n /\ \A i \in 1..n : merged[i][2] = paths[i]
  BY <1>4, <1>5
<1>7. merged \in [1..n -> ToSet(merged)]
  BY <1>4, <1>5 DEF ToSet
<1>8. merged \in Seq(ToSet(merged)) /\ Len(merged) = n
  BY <1>5, <1>7
<1>9. \A i \in {1, 2} : \E j \in 1..n : paths[j] = original[i]
  <2>1. \A i \in {1, 2} : original[i] \in ToSet(original)
    BY <1>1 DEF ToSet
  <2> QED BY <1>3, <1>5, <2>1 DEF ToSet
<1>10. n >= 2
  <2>1. PICK j \in 1..n : paths[j] = original[1]
    BY <1>9
  <2>2. PICK k \in 1..n : paths[k] = original[2]
    BY <1>9
  <2> QED BY <1>1, <1>5, <2>1, <2>2
<1>11. patch = <<>> => n = 2 /\ \A i \in {1, 2} : paths[i] = original[i]
  BY <1>1, <1>3
<1>12. \A i \in {1, 2} : \E j \in 1..n : merged[j][2] = DataMounts[i][2]
  BY <1>1, <1>6, <1>9
<1> QED BY <1>1, <1>6, <1>8, <1>10, <1>11, <1>12 DEF merged

\* The directories of the container, whatever the override mounts.
LEMMA OuterIsMountedFirst ==
    ASSUME NEW override, NEW M, override.mounts \in Seq(M), ~override.sidecarFirst,
           {m \in ToSet(MountOrder(override)) : IsOuter(m)} = {DataMounts[1]}
    PROVE  Precedes(DataMounts[1][2], DataMounts[2][2], Paths(MountOrder(override)))
<1> DEFINE merged == MergedMounts(DataMounts, override.mounts)
           order == MountOrder(override)
           n == Len(merged)
<1>1. order = IF override.mounts = <<>> THEN merged ELSE sortVolumeMounts(merged)
  BY DEF MountOrder
<1>2. /\ merged \in Seq(ToSet(merged)) /\ n >= 2
      /\ \A i \in {1, 2} : \E j \in 1..n : merged[j][2] = DataMounts[i][2]
      /\ override.mounts = <<>> => n = 2 /\ \A i \in {1, 2} : merged[i][2] = DataMounts[i][2]
  BY MergedDataMounts
<1>3. {m \in ToSet(order) : IsOuter(m)} = {DataMounts[1]}
  OBVIOUS
<1> HIDE DEF merged, order
<1>4. n \in Nat /\ merged \in [1..n -> ToSet(merged)]
  BY <1>2
<1>5. CASE override.mounts = <<>>
  <2>1. order = merged /\ n = 2 /\ 1 \in 1..n /\ 2 \in 1..n
    BY <1>1, <1>2, <1>5
  <2>2. /\ DOMAIN Paths(order) = 1..n
        /\ Paths(order)[1] = DataMounts[1][2] /\ Paths(order)[2] = DataMounts[2][2]
    <3>1. merged[1][2] = DataMounts[1][2] /\ merged[2][2] = DataMounts[2][2]
      BY <1>2, <1>5
    <3> DEFINE elements == ToSet(merged)
    <3>2. order \in [1..n -> elements]
      BY <1>4, <2>1
    <3> HIDE DEF n, elements
    <3>3. DOMAIN Paths(order) = 1..n /\ \A i \in 1..n : Paths(order)[i] = order[i][2]
      BY <1>4, <3>2, PathsOfAList
    <3> QED BY <2>1, <3>1, <3>3
  <2> QED BY <2>1, <2>2 DEF Precedes, order
<1>6. CASE override.mounts # <<>>
  <2>1. order = sortVolumeMounts(merged)
    BY <1>1, <1>6
  <2>2. DataMounts[1] \in ToSet(order) /\ IsOuter(DataMounts[1])
    BY <1>3
  <2>3. order \in [1..n -> ToSet(merged)] /\ ToSet(order) = ToSet(merged)
    BY <1>2, <2>1, MountsAreKept
  <2>4. IsOuter(order[1])
    BY <1>2, <2>1, <2>2, <2>3, OuterComesFirst
  <2>5. ToSet(order) = {order[j] : j \in 1..n}
    BY <2>3 DEF ToSet
  <2>6. order[1] = DataMounts[1]
    <3>1. order[1] \in ToSet(order)
      BY <1>2, <1>4, <2>5
    <3> QED BY <1>3, <2>4, <3>1
  <2>7. PICK i \in 1..n : merged[i][2] = DataMounts[2][2]
    BY <1>2
  <2>8. PICK j \in 1..n : order[j] = merged[i]
    BY <1>4, <2>3, <2>5
  <2>9. j # 1
    BY <2>6, <2>7, <2>8, DataPaths
  <2>10. 1 \in 1..n /\ 1 < j
    BY <1>2, <1>4, <2>9
  <2>11. /\ DOMAIN Paths(order) = 1..n
         /\ Paths(order)[1] = DataMounts[1][2] /\ Paths(order)[j] = DataMounts[2][2]
    <3> DEFINE elements == ToSet(merged)
    <3>1. order \in [1..n -> elements]
      BY <2>3
    <3> HIDE DEF n, elements
    <3>2. DOMAIN Paths(order) = 1..n /\ \A k \in 1..n : Paths(order)[k] = order[k][2]
      BY <1>4, <3>1, PathsOfAList
    <3> QED BY <2>6, <2>7, <2>8, <2>10, <3>2
  <2> QED BY <2>10, <2>11 DEF Precedes, order
<1> QED BY <1>5, <1>6

--------------------------------------------------------------------------------
(* The theorems. *)

\* The spec's override is one of those that users give, or none.
LEMMA OverrideLists ==
    ASSUME NEW s \in SpecType
    PROVE  s.override.env \in Seq(STRING) /\ s.override.mounts \in Seq(STRING \X STRING)
<1>1. s.override \in Overrides \cup {NoOverride}
  BY DEF SpecType
<1>2. CASE s.override \in Overrides
  <2>1. s.override \in [env: Seq(STRING), mounts: Seq(STRING \X STRING), sidecarFirst: BOOLEAN]
    BY <1>2, ConstantsAssumption
  <2> QED BY <2>1
<1>3. CASE s.override = NoOverride
  <2>1. s.override.env = <<>> /\ s.override.mounts = <<>>
    BY <1>3 DEF NoOverride
  <2>2. \A X : <<>> \in Seq(X)
    OBVIOUS
  <2> QED BY <2>1, <2>2
<1> QED BY <1>1, <1>2, <1>3

\* Neither sort indexes behind the end of the list it is given, which would stop the operator:
\* no override takes from the container rabbitmq what the operator has put there
\* (sortEnvVar and sortVolumeMounts, which swap with the fixed places 0, 1 and 2).
THEOREM SortsStayInRange ==
    ASSUME NEW s \in SpecType
    PROVE  /\ \A name : EnvSlot(name) <= Len(MergedKeys(EnvVars, s.override.env))
           /\ \A m : MountSlot(m) <= Len(MergedMounts(DataMounts, s.override.mounts))
<1> DEFINE env == s.override.env
           mounts == s.override.mounts
           S == ToSet(env) \cup ToSet(EnvVars)
           merged == MergedKeys(EnvVars, env)
<1>1. env \in Seq(STRING) /\ mounts \in Seq(STRING \X STRING)
  BY OverrideLists
<1>2. env \in Seq(S) /\ EnvVars \in Seq(S)
  BY <1>1, EnvVarsOrder, ListOfItsElements
<1>3. merged \in Seq(S) /\ ToSet(K8sObjects) \subseteq ToSet(merged)
  <2> HIDE DEF env, S
  <2> QED BY <1>2, MergedProperties, EnvVarsOrder
<1>4. Len(merged) \in Nat /\ Len(merged) >= 3
  <2> HIDE DEF S, merged
  <2> QED BY <1>3, RoomForObjects
<1>5. \A name : EnvSlot(name) \in 0..3
  BY Objects
<1>6. Len(MergedMounts(DataMounts, mounts)) \in Nat /\ Len(MergedMounts(DataMounts, mounts)) >= 2
  <2> HIDE DEF mounts
  <2>1. /\ MergedMounts(DataMounts, mounts) \in Seq(ToSet(MergedMounts(DataMounts, mounts)))
        /\ Len(MergedMounts(DataMounts, mounts)) >= 2
    BY <1>1, MergedDataMounts
  <2> QED BY <2>1
<1>7. \A m : MountSlot(m) \in 0..2
  BY DEF MountSlot
<1>8. \A name : EnvSlot(name) <= Len(merged)
  <2> HIDE DEF merged
  <2> QED BY <1>4, <1>5
<1>9. \A m : MountSlot(m) <= Len(MergedMounts(DataMounts, mounts))
  BY <1>6, <1>7
<1> QED BY <1>8, <1>9

\* Whatever variables the override adds, replaces or moves, those that refer to the three
\* objects of Kubernetes come after them, if it names the pod's first or not at all
\* (the StrategicMergePatch of podTemplateSpec, and sortEnvVar).
THEOREM ReferencesResolveHolds == Spec => []ReferencesResolve
<1>1. ResourcesInv => ReferencesResolve
  <2> SUFFICES ASSUME ResourcesInv, Settled, ~cr.override.sidecarFirst,
                      "MY_POD_NAME" \in ToSet(cr.override.env) =>
                          Head(cr.override.env) = "MY_POD_NAME"
               PROVE  \A name \in ToSet(sts.env) \ ToSet(K8sObjects),
                         object \in ToSet(K8sObjects) : Precedes(object, name, sts.env)
    BY DEF ReferencesResolve
  <2>1. cr \in SpecType /\ sts.env = Env(cr.override)
    BY SettledMeansMade DEF StatefulSetMade
  <2>2. cr.override.env \in Seq(STRING)
    BY <2>1, OverrideLists
  <2> DEFINE override == cr.override
  <2> HIDE DEF override
  <2>3. \A name \in ToSet(Env(override)) \ ToSet(K8sObjects), object \in ToSet(K8sObjects) :
            Precedes(object, name, Env(override))
    BY <2>2, VariablesResolve DEF override
  <2> QED BY <2>1, <2>3 DEF override
<1> QED BY ResourcesInit, ResourcesNext, <1>1, PTL DEF Spec

\* Whatever the override mounts, the nodes' data directory is mounted after the one it lies
\* in, if the volume of that one is mounted there and nowhere else (the StrategicMergePatch
\* of podTemplateSpec, and sortVolumeMounts).
THEOREM DataIsNotShadowedHolds == Spec => []DataIsNotShadowed
<1>1. ResourcesInv => DataIsNotShadowed
  <2> SUFFICES ASSUME ResourcesInv, Settled, ~cr.override.sidecarFirst,
                      {m \in ToSet(sts.order) : m[1] = "rabbitmq-erlang-cookie"} = {DataMounts[1]}
               PROVE  Precedes(DataMounts[1][2], DataMounts[2][2], Paths(sts.order))
    BY DEF DataIsNotShadowed
  <2>1. cr \in SpecType /\ sts.order = MountOrder(cr.override)
    BY SettledMeansMade DEF StatefulSetMade
  <2>2. cr.override.mounts \in Seq(STRING \X STRING)
    BY <2>1, OverrideLists
  <2>3. {m \in ToSet(MountOrder(cr.override)) : IsOuter(m)} = {DataMounts[1]}
    BY <2>1 DEF IsOuter
  <2> QED BY <2>1, <2>2, <2>3, OuterIsMountedFirst
<1> QED BY ResourcesInit, ResourcesNext, <1>1, PTL DEF Spec

================================================================================
