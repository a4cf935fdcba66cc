------------------------- MODULE CausalBuffer_proofs -------------------------
(***************************************************************************)
(* For every horizon, buffer size and number of ticks: the causal buffer   *)
(* hands packets up in order, each once and none skipped; and a buffer at  *)
(* least as large as the horizon never drops a packet it accepted.         *)
(***************************************************************************)
EXTENDS CausalBuffer, FiniteSetTheorems, WellFoundedInduction, TLAPS

\* A non-empty set of naturals has a least element.
LEMMA LeastElement ==
  ASSUME NEW S \in SUBSET Nat, S # {}
  PROVE  \E x \in S : \A y \in S : x <= y
<1> DEFINE R == OpToRel(<, Nat)
<1>1. IsWellFoundedOn(R, Nat)
  BY NatLessThanWellFounded
<1>2. \A x, y \in Nat : x < y => <<x, y>> \in R
  BY DEF OpToRel
<1> HIDE DEF R
<1>3. PICK x \in S : \A y \in S : ~ (<<y, x>> \in R)
  BY <1>1, WFMin, Zenon
<1>4. \A y \in S : ~(y < x)
  BY <1>2, <1>3, Zenon
<1>5. \A y \in S : x <= y
  <2>1. x \in Nat /\ \A y \in S : y \in Nat
    OBVIOUS
  <2> QED
    BY <1>4, <2>1
<1> QED
  BY <1>5

USE CausalAssumption DEF CausalAssumption

\* The part of Inv that the order of delivery rests on: the size of the buffer, which
\* needs cardinalities, is left out.
OrderInv ==
  /\ TypeOK
  /\ InOrder
  /\ \A t \in buffer : committed_tick + 1 < t /\ t <= committed_tick + Horizon

\* The rest of it.
SizeInv == Cardinality(buffer) <= IF MaxBuffer = 0 THEN 1 ELSE MaxBuffer

\* An accepted packet: no eviction moves committed_tick, and what is released is the
\* run that starts with the next tick.
LEMMA AcceptRun ==
  ASSUME OrderInv, NEW t \in 1..sent, Accept(t)
  PROVE  \E m \in committed_tick..(committed_tick + Horizon) :
           LET held == (buffer \ Evicted) \cup {t}
           IN /\ EndsRun(held, committed_tick, m)
              /\ committed_tick' = m
              /\ buffer' = held \ (committed_tick + 1)..m
              /\ delivered' = [i \in 1..m |-> i]
              /\ m <= sent
<1>1. PICK e \in committed_tick..(committed_tick + Horizon) :
        /\ FollowsEvicted(e)
        /\ LET held == (buffer \ Evicted) \cup {t}
           IN \E m \in e..(e + Horizon) :
                /\ EndsRun(held, e, m)
                /\ committed_tick' = m
                /\ buffer' = held \ (e + 1)..m
                /\ delivered' = [i \in 1..(Len(delivered) + m - e) |->
                                   IF i <= Len(delivered) THEN delivered[i]
                                   ELSE e + i - Len(delivered)]
  BY DEF Accept
<1>2. committed_tick \in Nat /\ sent \in Nat /\ buffer \subseteq 1..sent
  BY DEF OrderInv, TypeOK, InOrder
<1>3. committed_tick + 1 \notin Evicted
  <2>1. Evicted \subseteq buffer
    BY Zenon DEF Evicted
  <2>2. committed_tick + 1 \notin buffer
    BY <1>2 DEF OrderInv
  <2> QED
    BY <2>1, <2>2
<1>4. e = committed_tick
  BY <1>1, <1>2, <1>3 DEF FollowsEvicted, EndsRun
<1>5. delivered = [i \in 1..committed_tick |-> i] /\ Len(delivered) = committed_tick
  BY <1>2 DEF OrderInv, InOrder
<1> DEFINE held == (buffer \ Evicted) \cup {t}
<1>6. PICK m \in e..(e + Horizon) :
        /\ EndsRun(held, e, m)
        /\ committed_tick' = m
        /\ buffer' = held \ (e + 1)..m
        /\ delivered' = [i \in 1..(Len(delivered) + m - e) |->
                           IF i <= Len(delivered) THEN delivered[i]
                           ELSE e + i - Len(delivered)]
  BY <1>1
<1>7. delivered' = [i \in 1..m |-> i]
  BY <1>2, <1>4, <1>5, <1>6
<1>8. m <= sent
  <2>1. CASE m = committed_tick
    BY <2>1 DEF OrderInv, InOrder
  <2>2. CASE m # committed_tick
    <3>1. m \in held
      BY <2>2, <1>2, <1>4, <1>6 DEF EndsRun
    <3>2. t <= sent /\ \A u \in buffer : u <= sent
      BY <1>2
    <3> QED
      BY <3>1, <3>2
  <2> QED
    BY <2>1, <2>2
<1> QED
  BY <1>4, <1>6, <1>7, <1>8

LEMMA OrderInit == Init => OrderInv
  BY DEF Init, OrderInv, TypeOK, InOrder

LEMMA OrderStep == OrderInv /\ [Next]_vars => OrderInv'
<1> SUFFICES ASSUME OrderInv, [Next]_vars PROVE OrderInv'
  OBVIOUS
<1>1. CASE Send
  BY <1>1 DEF Send, OrderInv, TypeOK, InOrder
<1>2. ASSUME NEW t \in 1..MaxTick, NEW low \in BOOLEAN, Arrive(t, low)
      PROVE  OrderInv'
  <2>1. CASE Throttled(low) \/ BeyondHorizon(t) \/ Committed(t)
    BY <1>2, <2>1 DEF Arrive, process_packet, OrderInv, TypeOK, InOrder
  <2>2. CASE ~(Throttled(low) \/ BeyondHorizon(t) \/ Committed(t))
    <3>1. /\ t \in 1..sent /\ sent' = sent /\ sent \in 0..MaxTick
          /\ committed_tick \in Nat
          /\ committed_tick < t /\ t <= committed_tick + Horizon
          /\ Accept(t)
      BY <1>2, <2>2 DEF Arrive, process_packet, Throttled, BeyondHorizon, Committed,
                        OrderInv, TypeOK
    <3> DEFINE held == (buffer \ Evicted) \cup {t}
    <3>2. PICK m \in committed_tick..(committed_tick + Horizon) :
            /\ EndsRun(held, committed_tick, m)
            /\ committed_tick' = m
            /\ buffer' = held \ (committed_tick + 1)..m
            /\ delivered' = [i \in 1..m |-> i]
            /\ m <= sent
      BY <3>1, AcceptRun
    <3>3. \A u \in held : u \in 1..sent /\ committed_tick < u /\ u <= committed_tick + Horizon
      BY <3>1 DEF OrderInv, TypeOK, InOrder
    <3>4. \A u \in buffer' : u \in 1..sent /\ m + 1 < u /\ u <= m + Horizon
      BY <3>1, <3>2, <3>3 DEF EndsRun
    <3>5. delivered' \in Seq(Nat)
      BY <3>1, <3>2
    <3>6. buffer' \subseteq 1..sent' /\ buffer' \subseteq 1..MaxTick
      BY <3>1, <3>4
    <3>7. TypeOK'
      BY <3>1, <3>2, <3>5, <3>6 DEF TypeOK
    <3>8. InOrder'
      BY <3>1, <3>2, <3>6 DEF InOrder
    <3> QED
      BY <3>2, <3>4, <3>7, <3>8 DEF OrderInv
  <2> QED
    BY <2>1, <2>2
<1>3. CASE UNCHANGED vars
  BY <1>3 DEF vars, OrderInv, TypeOK, InOrder
<1> QED
  BY <1>1, <1>2, <1>3 DEF Next

\* Packets come out in tick order from 1 on, each once and none skipped.
THEOREM OrderHolds == Spec => []OrderInv
  BY OrderInit, OrderStep, PTL DEF Spec

LEMMA DeliveryInit == Init => Order!Init
  BY DEF Init, Order!Init

LEMMA DeliveryStep == OrderInv /\ [Next]_vars => [Order!Next]_(Order!deliveryVars)
<1> SUFFICES ASSUME OrderInv, [Next]_vars
             PROVE  Order!Next \/ UNCHANGED Order!deliveryVars
  OBVIOUS
<1>1. CASE Send
  BY <1>1 DEF Send, Order!Next, Order!Send
<1>2. ASSUME NEW t \in 1..MaxTick, NEW low \in BOOLEAN, Arrive(t, low)
      PROVE  Order!Next \/ UNCHANGED Order!deliveryVars
  <2>1. CASE Throttled(low) \/ BeyondHorizon(t) \/ Committed(t)
    BY <1>2, <2>1 DEF Arrive, process_packet, Order!deliveryVars
  <2>2. CASE ~(Throttled(low) \/ BeyondHorizon(t) \/ Committed(t))
    <3>1. t \in 1..sent /\ sent' = sent /\ Accept(t) /\ sent \in Nat
      BY <1>2, <2>2 DEF Arrive, process_packet, OrderInv, TypeOK
    <3>2. PICK m \in committed_tick..(committed_tick + Horizon) :
            delivered' = [i \in 1..m |-> i] /\ m <= sent
      BY <3>1, AcceptRun
    <3>3. /\ delivered = [i \in 1..committed_tick |-> i]
          /\ Len(delivered) = committed_tick /\ committed_tick \in Nat
      BY DEF OrderInv, TypeOK, InOrder
    <3>4. m \in Len(delivered)..sent
      BY <3>1, <3>2, <3>3
    <3>5. delivered' = [i \in 1..m |-> IF i <= Len(delivered) THEN delivered[i] ELSE i]
      BY <3>2, <3>3
    <3> QED
      BY <3>1, <3>4, <3>5 DEF Order!Next, Order!Deliver
  <2> QED
    BY <2>1, <2>2
<1>3. CASE UNCHANGED vars
  BY <1>3 DEF vars, Order!deliveryVars
<1> QED
  BY <1>1, <1>2, <1>3 DEF Next

\* process_packet implements in-order, exactly-once delivery, whatever the network's
\* order and repetitions and whatever is evicted or throttled.
THEOREM DeliversInOrder == Spec => ImplementsInOrderDelivery
  BY DeliveryInit, DeliveryStep, OrderHolds, PTL
     DEF Spec, ImplementsInOrderDelivery, Order!Spec

-----------------------------------------------------------------------------

\* The held-back ticks lie strictly between the next one and the horizon, so there are
\* fewer of them than the horizon.
LEMMA WindowSize == OrderInv => IsFiniteSet(buffer) /\ Cardinality(buffer) < Horizon
<1> SUFFICES ASSUME OrderInv
             PROVE  IsFiniteSet(buffer) /\ Cardinality(buffer) < Horizon
  OBVIOUS
<1> DEFINE lo == committed_tick + 2
           hi == committed_tick + Horizon
<1>1. committed_tick \in Nat /\ lo \in Int /\ hi \in Int /\ buffer \subseteq Nat
  BY DEF OrderInv, TypeOK
<1>2. buffer \subseteq lo..hi
  BY <1>1 DEF OrderInv
<1>3. /\ IsFiniteSet(lo..hi)
      /\ Cardinality(lo..hi) = IF lo > hi THEN 0 ELSE hi - lo + 1
  BY <1>1, FS_Interval
<1>4. IsFiniteSet(buffer) /\ Cardinality(buffer) <= Cardinality(lo..hi)
  BY <1>2, <1>3, FS_Subset
<1>5. Cardinality(buffer) \in Nat
  BY <1>4, FS_CardinalityType
<1> QED
  BY <1>1, <1>3, <1>4, <1>5

\* What is evicted is older than what is not.
LEMMA EvictedOlder ==
  ASSUME OrderInv, NEW t \in Evicted, NEW u \in buffer \ Evicted
  PROVE  t < u
<1> DEFINE Above(x) == {y \in buffer : y > x}
<1>1. t \in buffer /\ t \in Nat /\ u \in Nat /\ buffer \subseteq Nat /\ MaxBuffer \in Nat
  <2>1. t \in buffer
    BY Zenon DEF Evicted
  <2>2. buffer \subseteq Nat
    BY DEF OrderInv, TypeOK
  <2> QED
    BY <2>1, <2>2
<1>2. Cardinality(Above(t)) + 1 >= MaxBuffer /\ ~(Cardinality(Above(u)) + 1 >= MaxBuffer)
  BY DEF Evicted
<1>3. IsFiniteSet(buffer)
  BY WindowSize
<1>4. IsFiniteSet(Above(t)) /\ IsFiniteSet(Above(u))
  BY <1>3, FS_Subset
<1>5. ASSUME u <= t PROVE FALSE
  <2>1. Above(t) \subseteq Above(u)
    <3>1. \A y \in buffer : y > t => y > u
      BY <1>1, <1>5
    <3> QED
      BY <3>1, Zenon
  <2>2. Cardinality(Above(t)) <= Cardinality(Above(u))
    BY <2>1, <1>4, FS_Subset
  <2>3. Cardinality(Above(t)) \in Nat /\ Cardinality(Above(u)) \in Nat
    BY <1>4, FS_CardinalityType
  <2> HIDE DEF Above
  <2> QED
    BY <1>1, <1>2, <2>2, <2>3
<1> QED
  BY <1>1, <1>5

\* Two entries are never evicted at once from a buffer that kept its bound.
LEMMA EvictsOne ==
  ASSUME OrderInv, SizeInv, NEW a \in Evicted, NEW b \in Evicted, a < b
  PROVE  FALSE
<1> DEFINE AboveB == {y \in buffer : y > b}
           Rest == (buffer \ {a}) \ {b}
<1>1. a \in buffer /\ b \in buffer /\ buffer \subseteq Nat /\ MaxBuffer \in Nat
  BY DEF Evicted, OrderInv, TypeOK
<1>2. ~(Cardinality(buffer) < MaxBuffer) /\ Cardinality(AboveB) + 1 >= MaxBuffer
  BY DEF Evicted
<1>3. IsFiniteSet(buffer) /\ Cardinality(buffer) \in Nat
  BY WindowSize, FS_CardinalityType
<1>4. IsFiniteSet(Rest) /\ Cardinality(Rest) = Cardinality(buffer) - 2
  <2>1. IsFiniteSet(buffer \ {a}) /\ Cardinality(buffer \ {a}) = Cardinality(buffer) - 1
    BY <1>1, <1>3, FS_RemoveElement
  <2>2. b \in buffer \ {a}
    BY <1>1
  <2>3. IsFiniteSet(Rest) /\ Cardinality(Rest) = Cardinality(buffer \ {a}) - 1
    BY <2>1, <2>2, FS_RemoveElement
  <2> HIDE DEF Rest
  <2> QED
    BY <1>3, <2>1, <2>3
<1>5. IsFiniteSet(AboveB) /\ Cardinality(AboveB) <= Cardinality(Rest)
  <2>1. AboveB \subseteq Rest
    BY <1>1
  <2> QED
    BY <1>4, <2>1, FS_Subset
<1>6. Cardinality(AboveB) \in Nat /\ Cardinality(Rest) \in Nat
  BY <1>4, <1>5, FS_CardinalityType
<1> HIDE DEF AboveB, Rest
<1> QED
  BY <1>1, <1>2, <1>3, <1>4, <1>5, <1>6 DEF SizeInv

\* Making room leaves room for one more.
LEMMA EvictionMakesRoom ==
  ASSUME OrderInv, SizeInv
  PROVE  /\ IsFiniteSet(buffer \ Evicted)
         /\ Cardinality(buffer \ Evicted) + 1 <= IF MaxBuffer = 0 THEN 1 ELSE MaxBuffer
<1> DEFINE kept == buffer \ Evicted
<1>1. IsFiniteSet(buffer) /\ Cardinality(buffer) \in Nat /\ buffer \in SUBSET Nat
  BY WindowSize, FS_CardinalityType DEF OrderInv, TypeOK
<1>2. IsFiniteSet(kept) /\ Cardinality(kept) <= Cardinality(buffer)
  BY <1>1, FS_Subset
<1>3. Cardinality(kept) \in Nat
  BY <1>2, FS_CardinalityType
<1>4. CASE Cardinality(buffer) < MaxBuffer
  <2> HIDE DEF kept
  <2>1. Cardinality(kept) + 1 <= MaxBuffer /\ MaxBuffer # 0
    BY <1>1, <1>2, <1>3, <1>4
  <2> QED
    BY <1>2, <2>1 DEF kept
<1>5. CASE ~(Cardinality(buffer) < MaxBuffer) /\ MaxBuffer = 0
  <2>1. kept = {}
    <3>1. ASSUME NEW t \in buffer PROVE t \in Evicted
      <4> DEFINE above == {u \in buffer : u > t}
      <4>1. IsFiniteSet(above)
        BY <1>1, FS_Subset
      <4>2. Cardinality(above) \in Nat
        BY <4>1, FS_CardinalityType
      <4>3. Cardinality(above) + 1 >= MaxBuffer
        <5> HIDE DEF above
        <5> QED
          BY <1>5, <4>2
      <4> QED
        BY <1>5, <4>3 DEF Evicted
    <3> QED
      BY <3>1
  <2>2. Cardinality(kept) = 0
    BY <2>1, FS_EmptySet
  <2> HIDE DEF kept
  <2>3. Cardinality(kept) + 1 <= 1
    BY <2>2
  <2> QED
    BY <1>2, <1>5, <2>3 DEF kept
<1>6. CASE ~(Cardinality(buffer) < MaxBuffer) /\ MaxBuffer # 0
  <2>1. Cardinality(buffer) = MaxBuffer /\ buffer # {}
    <3>1. Cardinality(buffer) = MaxBuffer
      BY <1>1, <1>6 DEF SizeInv
    <3> QED
      BY <3>1, <1>6, FS_EmptySet
  <2>2. PICK x \in buffer : \A y \in buffer : x <= y
    BY <1>1, <2>1, LeastElement
  <2> DEFINE above == {u \in buffer : u > x}
  <2>3. above = buffer \ {x}
    <3>1. \A y \in buffer : y > x <=> y # x
      BY <1>1, <2>2
    <3> QED
      BY <3>1, Zenon
  <2>4. IsFiniteSet(above) /\ Cardinality(above) = MaxBuffer - 1
    BY <1>1, <2>1, <2>2, <2>3, FS_RemoveElement
  <2>5. Cardinality(above) + 1 >= MaxBuffer
    <3> HIDE DEF above
    <3> QED
      BY <2>4
  <2>6. x \in Evicted
    BY <1>6, <2>2, <2>5 DEF Evicted
  <2>7. kept \subseteq above
    BY <2>3, <2>6
  <2>8. Cardinality(kept) <= Cardinality(above)
    BY <2>4, <2>7, FS_Subset
  <2>9. Cardinality(kept) + 1 <= MaxBuffer
    <3> HIDE DEF above, kept
    <3> QED
      BY <1>3, <2>4, <2>8
  <2> QED
    BY <1>2, <1>6, <2>9
<1> QED
  BY <1>4, <1>5, <1>6

\* The buffer keeps its bound.
LEMMA SizeStep == OrderInv /\ SizeInv /\ [Next]_vars => SizeInv'
<1> SUFFICES ASSUME OrderInv, SizeInv, [Next]_vars PROVE SizeInv'
  OBVIOUS
<1>1. CASE buffer' = buffer
  BY <1>1 DEF SizeInv
<1>2. ASSUME NEW t \in 1..sent, Accept(t) PROVE SizeInv'
  <2> DEFINE held == (buffer \ Evicted) \cup {t}
             bound == IF MaxBuffer = 0 THEN 1 ELSE MaxBuffer
  <2>1. IsFiniteSet(buffer \ Evicted) /\ Cardinality(buffer \ Evicted) + 1 <= bound
    BY EvictionMakesRoom
  <2>2. Cardinality(buffer \ Evicted) \in Nat
    BY <2>1, FS_CardinalityType
  <2>3. IsFiniteSet(held)
    BY <2>1, FS_AddElement
  <2>4. Cardinality(held) <= Cardinality(buffer \ Evicted) + 1
    <3>1. \/ Cardinality(held) = Cardinality(buffer \ Evicted)
          \/ Cardinality(held) = Cardinality(buffer \ Evicted) + 1
      BY <2>1, FS_AddElement
    <3> QED
      BY <2>2, <3>1
  <2>5. buffer' \subseteq held
    BY <1>2, AcceptRun
  <2>6. IsFiniteSet(buffer') /\ Cardinality(buffer') <= Cardinality(held)
    BY <2>3, <2>5, FS_Subset
  <2>7. Cardinality(buffer') \in Nat /\ Cardinality(held) \in Nat /\ bound \in Nat
    BY <2>3, <2>6, FS_CardinalityType
  <2>8. Cardinality(buffer') <= bound
    <3> HIDE DEF held, bound
    <3> QED
      BY <2>1, <2>2, <2>4, <2>6, <2>7
  <2> QED
    BY <2>8 DEF SizeInv
<1>3. CASE Send \/ UNCHANGED vars
  BY <1>1, <1>3 DEF Send, vars
<1>4. ASSUME NEW t \in 1..MaxTick, NEW low \in BOOLEAN, Arrive(t, low) PROVE SizeInv'
  BY <1>1, <1>2, <1>4 DEF Arrive, process_packet, OrderInv, TypeOK
<1> QED
  BY <1>3, <1>4 DEF Next

LEMMA SizeInit == Init => SizeInv
<1> SUFFICES ASSUME Init PROVE SizeInv
  OBVIOUS
<1>1. Cardinality(buffer) = 0
  BY FS_EmptySet DEF Init
<1> QED
  BY <1>1 DEF SizeInv

\* The whole invariant: types, the gap at the front and the window behind it, the bound
\* on what is held back, and the order of what was handed up.
THEOREM InvHolds == Spec => []Inv
<1>1. Spec => [](OrderInv /\ SizeInv)
  BY OrderInit, OrderStep, SizeInit, SizeStep, PTL DEF Spec
<1>2. OrderInv /\ SizeInv => Inv
  BY DEF OrderInv, SizeInv, Inv, WindowInv
<1> QED
  BY <1>1, <1>2, PTL

\* What process_packet forgets without handing it up are the oldest packets of a full
\* buffer, whatever it releases in the same call.
THEOREM OnlyOldestForgotten == Spec => ForgetsOldest
<1> DEFINE Oldest == \A t \in buffer \ buffer' :
                       \/ t <= committed_tick'
                       \/ /\ Cardinality(buffer) >= MaxBuffer
                          /\ \A u \in buffer \cap buffer' : t < u
<1>1. ASSUME OrderInv, SizeInv, [Next]_vars PROVE [Oldest]_vars
  <2> SUFFICES ASSUME NEW v \in buffer \ buffer', ~(v <= committed_tick')
               PROVE  /\ Cardinality(buffer) >= MaxBuffer
                      /\ \A u \in buffer \cap buffer' : v < u
    OBVIOUS
  <2>1. CASE Send \/ UNCHANGED vars
    BY <2>1 DEF Send, vars
  <2>2. ASSUME NEW t \in 1..MaxTick, NEW low \in BOOLEAN, Arrive(t, low)
        PROVE  /\ Cardinality(buffer) >= MaxBuffer
               /\ \A u \in buffer \cap buffer' : v < u
    <3>1. CASE buffer' = buffer
      BY <3>1
    <3>2. CASE t \in 1..sent /\ Accept(t)
      <4>1. PICK m \in committed_tick..(committed_tick + Horizon) :
              /\ committed_tick' = m
              /\ buffer' = ((buffer \ Evicted) \cup {t}) \ (committed_tick + 1)..m
        BY <1>1, <3>2, AcceptRun
      <4>2. v \in Nat /\ committed_tick \in Nat
        BY <1>1 DEF OrderInv, TypeOK
      <4>3. v \in Evicted
        BY <4>1, <4>2
      <4>4. Cardinality(buffer) >= MaxBuffer
        <5>1. Cardinality(buffer) \in Nat
          BY <1>1, WindowSize, FS_CardinalityType
        <5> QED
          BY <4>3, <5>1 DEF Evicted
      <4>5. ASSUME NEW u \in buffer \cap buffer' PROVE v < u
        <5>1. CASE u \in Evicted
          <6>1. u \in Nat /\ u # v
            BY <1>1 DEF OrderInv, TypeOK
          <6>2. ~(u < v)
            BY <1>1, <4>3, <5>1, EvictsOne
          <6> QED
            BY <4>2, <6>1, <6>2
        <5>2. CASE u \notin Evicted
          BY <1>1, <4>3, <5>2, EvictedOlder
        <5> QED
          BY <5>1, <5>2
      <4> QED
        BY <4>4, <4>5
    <3> QED
      BY <1>1, <2>2, <3>1, <3>2 DEF Arrive, process_packet, OrderInv, TypeOK
  <2> QED
    BY <1>1, <2>1, <2>2 DEF Next
<1>2. OrderInv /\ SizeInv /\ [Next]_vars => [Oldest]_vars
  BY <1>1
<1>3. Spec => []SizeInv
  BY OrderInit, OrderStep, SizeInit, SizeStep, PTL DEF Spec
<1> QED
  BY <1>2, <1>3, OrderHolds, PTL DEF Spec, ForgetsOldest, Oldest

\* The defaults (horizon 50, buffer 10_000) are of this kind: the eviction loop of
\* process_packet never runs and an accepted packet stays until it is handed up.
THEOREM AmpleNeverForgets == Spec => NeverForgets
<1> DEFINE Kept == MaxBuffer >= Horizon =>
                     \A t \in buffer : t \in buffer' \/ t <= committed_tick'
<1>1. ASSUME OrderInv, [Next]_vars PROVE [Kept]_vars
  <2> SUFFICES ASSUME MaxBuffer >= Horizon, NEW u \in buffer
               PROVE  u \in buffer' \/ u <= committed_tick'
    OBVIOUS
  <2>1. Evicted = {}
    BY <1>1, WindowSize, FS_CardinalityType DEF Evicted
  <2>2. CASE Send \/ UNCHANGED vars
    BY <2>2 DEF Send, vars
  <2>3. ASSUME NEW t \in 1..MaxTick, NEW low \in BOOLEAN, Arrive(t, low)
        PROVE  u \in buffer' \/ u <= committed_tick'
    <3>1. CASE buffer' = buffer
      BY <3>1
    <3>2. CASE t \in 1..sent /\ Accept(t)
      <4>1. PICK m \in committed_tick..(committed_tick + Horizon) :
              /\ committed_tick' = m
              /\ buffer' = ((buffer \ Evicted) \cup {t}) \ (committed_tick + 1)..m
        BY <1>1, <3>2, AcceptRun
      <4>2. u \in Nat /\ committed_tick \in Nat
        BY <1>1 DEF OrderInv, TypeOK
      <4> QED
        BY <2>1, <4>1, <4>2
    <3> QED
      BY <1>1, <2>3, <3>1, <3>2 DEF Arrive, process_packet, OrderInv, TypeOK
  <2> QED
    BY <1>1, <2>2, <2>3 DEF Next
<1>2. OrderInv /\ [Next]_vars => [Kept]_vars
  BY <1>1
<1> QED
  BY <1>2, OrderHolds, PTL DEF Spec, NeverForgets, Kept
==============================================================================
