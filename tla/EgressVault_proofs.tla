------------------------- MODULE EgressVault_proofs -------------------------
(***************************************************************************)
(* For every burst length and number of packets: the vault keeps the order *)
(* of its packets and loses none while its receiver lives; radio silence   *)
(* is late by one flush at most; the metronome ends bursts and nothing     *)
(* else.                                                                   *)
(***************************************************************************)
EXTENDS EgressVault, SequenceTheorems, TLAPS

\* What a pop from the front and an append at the back do to the packets as a whole.
LEMMA Associative == \A s, t, u \in Seq(Nat) : (s \o t) \o u = s \o (t \o u)
  BY ConcatAssociative, SMTT(60)

LEMMA AppendKeepsOrder ==
  ASSUME NEW r \in Seq(Nat), NEW l \in Seq(Nat), NEW q \in Seq(Nat), NEW p \in Nat
  PROVE  r \o l \o Append(q, p) = Append(r \o l \o q, p)
<1> DEFINE a == r \o l
           b == <<p>>
<1>1. a \in Seq(Nat) /\ b \in Seq(Nat) /\ a \o q \in Seq(Nat)
  BY ConcatProperties
<1>2. Append(q, p) = q \o b /\ Append(a \o q, p) = (a \o q) \o b
  BY <1>1, AppendIsConcat, Zenon
<1> HIDE DEF a, b
<1>3. (a \o q) \o b = a \o (q \o b)
  <2>1. \A t, u \in Seq(Nat) : (a \o t) \o u = a \o (t \o u)
    BY <1>1, Associative, ZenonT(60)
  <2>2. \A u \in Seq(Nat) : (a \o q) \o u = a \o (q \o u)
    BY <2>1, ZenonT(60)
  <2> QED
    BY <1>1, <2>2, ZenonT(60)
<1>4. a \o Append(q, p) = Append(a \o q, p)
  BY <1>2, <1>3, ZenonT(60)
<1> QED
  BY <1>4 DEF a

LEMMA MoveKeepsOrder ==
  ASSUME NEW r \in Seq(Nat), NEW l \in Seq(Nat), NEW q \in Seq(Nat), q # <<>>
  PROVE  r \o Append(l, Head(q)) \o Tail(q) = r \o l \o q
<1> DEFINE h == <<Head(q)>>
           d == Tail(q)
<1>1. Head(q) \in Nat /\ d \in Seq(Nat) /\ h \in Seq(Nat) /\ r \o l \in Seq(Nat)
  BY HeadTailProperties, ConcatProperties
<1>2. q = h \o d
  OBVIOUS
<1>3. Append(l, Head(q)) = l \o h
  BY <1>1, AppendIsConcat, Zenon
<1> HIDE DEF h, d
<1>4. (r \o l) \o h = r \o (l \o h)
  <2>1. \A u \in Seq(Nat) : (r \o l) \o u = r \o (l \o u)
    BY Associative, ZenonT(60)
  <2> QED
    BY <1>1, <2>1, ZenonT(60)
<1>5. ((r \o l) \o h) \o d = (r \o l) \o (h \o d)
  <2>1. \A t, u \in Seq(Nat) : ((r \o l) \o t) \o u = (r \o l) \o (t \o u)
    BY <1>1, Associative, ZenonT(60)
  <2> QED
    BY <1>1, <2>1, ZenonT(60)
<1>6. r \o Append(l, Head(q)) \o d = r \o l \o q
  BY <1>2, <1>3, <1>4, <1>5
<1> QED
  BY <1>6 DEF d

USE VaultAssumption DEF VaultAssumption

LEMMA GearIsTyped ==
  ASSUME NEW g \in Gears
  PROVE  /\ g.mode \in {"High", "Submarine", "SubmarineBurst"}
         /\ g.deadline_ms \in Nat
         /\ g.mode = "Submarine" => ~should_transmit(g)
         /\ g = Submarine => g.mode = "Submarine"
         /\ check_expiry(g) \in Gears
  BY DEF Gears, High, Submarine, SubmarineBurst, should_transmit, check_expiry, Expired

LEMMA TypeInit == Init => Inv
  BY DEF Init, Inv, TypeOK, Accounting, StrayInv, OneStrayFlush, Gears, High

LEMMA TypeStep == TypeOK /\ [Next]_vars => TypeOK'
<1> SUFFICES ASSUME TypeOK, [Next]_vars PROVE TypeOK'
  OBVIOUS
<1> USE DEF TypeOK
<1>1. ASSUME NEW g \in Gears, set_gear(g) PROVE TypeOK'
  BY <1>1 DEF set_gear
<1>2. CASE go_submarine \/ go_high_gear \/ trigger_burst
  <2>1. High \in Gears /\ Submarine \in Gears
    BY DEF Gears
  <2>2. now + Burst <= MaxTime => new_burst \in Gears
    BY DEF Gears, new_burst
  <2> QED
    BY <1>1, <1>2, <2>1, <2>2 DEF go_submarine, go_high_gear, trigger_burst
<1>3. CASE push_response
  BY <1>3 DEF push_response
<1>4. CASE DropReceiver
  BY <1>4 DEF DropReceiver
<1>9. CASE ClockTick
  BY <1>9 DEF ClockTick
<1>5. CASE Sleep \/ LockGear \/ Decide \/ LockQueue \/ FlushEnd
  BY <1>5 DEF Sleep, LockGear, Decide, LockQueue, FlushEnd
<1>6. CASE CheckExpiry
  BY <1>6, GearIsTyped DEF CheckExpiry
<1>7. CASE FlushOne
  <2>1. PICK packet \in 1..MaxPackets :
          /\ PopFront(packet)
          /\ IF rx_open
               THEN released' = Append(released, packet) /\ UNCHANGED <<pc, lost>>
               ELSE lost' = Append(lost, packet) /\ pc' = "sleep" /\ UNCHANGED released
    BY <1>7 DEF FlushOne
  <2>2. queue' \in Seq(Nat)
    BY <2>1, HeadTailProperties DEF PopFront
  <2>3. packet \in Nat
    OBVIOUS
  <2>4. Append(released, packet) \in Seq(Nat) /\ Append(lost, packet) \in Seq(Nat)
    BY <2>3, AppendProperties
  <2>5. CASE rx_open
    BY <1>7, <2>1, <2>2, <2>4, <2>5 DEF FlushOne
  <2>6. CASE ~rx_open
    BY <1>7, <2>1, <2>2, <2>4, <2>6 DEF FlushOne
  <2> QED
    BY <2>5, <2>6
<1>8. CASE UNCHANGED vars
  BY <1>8 DEF vars
<1> QED
  BY <1>2, <1>3, <1>4, <1>5, <1>6, <1>7, <1>8, <1>9 DEF Next, Metronome

LEMMA StrayStep == TypeOK /\ StrayInv /\ [Next]_vars => StrayInv'
<1> SUFFICES ASSUME TypeOK, StrayInv, [Next]_vars PROVE StrayInv'
  OBVIOUS
<1> USE DEF TypeOK, StrayInv, OneStrayFlush
<1>1. CASE go_submarine \/ go_high_gear \/ trigger_burst
  BY <1>1 DEF go_submarine, go_high_gear, trigger_burst, set_gear
<1>2. CASE push_response \/ DropReceiver \/ ClockTick
  BY <1>2 DEF push_response, DropReceiver, ClockTick
<1>3. CASE Sleep \/ LockGear \/ LockQueue \/ FlushEnd
  BY <1>3 DEF Sleep, LockGear, LockQueue, FlushEnd
<1>4. CASE CheckExpiry
  BY <1>4 DEF CheckExpiry
<1>5. CASE Decide
  BY <1>5, GearIsTyped DEF Decide
<1>6. CASE FlushOne
  BY <1>6 DEF FlushOne
<1>7. CASE UNCHANGED vars
  BY <1>7 DEF vars
<1> QED
  BY <1>1, <1>2, <1>3, <1>4, <1>5, <1>6, <1>7 DEF Next, Metronome

LEMMA AccountingStep == TypeOK /\ Accounting /\ [Next]_vars => Accounting'
<1> SUFFICES ASSUME TypeOK, Accounting, [Next]_vars PROVE Accounting'
  OBVIOUS
<1>7. /\ released \in Seq(Nat) /\ lost \in Seq(Nat) /\ queue \in Seq(Nat)
      /\ rx_open \in BOOLEAN /\ pushed \in Nat
  BY DEF TypeOK
<1>1. CASE go_submarine \/ go_high_gear \/ trigger_burst
  <2>1. UNCHANGED <<queue, rx_open, pushed, released, lost>>
    BY <1>1 DEF go_submarine, go_high_gear, trigger_burst, set_gear
  <2> QED
    BY <2>1 DEF Accounting
<1>2. CASE push_response
  <2>1. /\ queue' = Append(queue, pushed + 1) /\ pushed' = pushed + 1
        /\ released' = released /\ lost' = lost /\ rx_open' = rx_open
    BY <1>2 DEF push_response
  <2>2. released \o lost \o Append(queue, pushed + 1)
          = Append(released \o lost \o queue, pushed + 1)
    BY <1>7, AppendKeepsOrder, SMTT(60)
  <2>3. Append([i \in 1..pushed |-> i], pushed + 1) = [i \in 1..(pushed + 1) |-> i]
    BY <1>7
  <2> QED
    BY <2>1, <2>2, <2>3 DEF Accounting
<1>3. CASE DropReceiver \/ ClockTick
  BY <1>3 DEF DropReceiver, ClockTick, Accounting
<1>4. CASE Sleep \/ LockGear \/ CheckExpiry \/ Decide \/ LockQueue \/ FlushEnd
  <2>1. UNCHANGED <<queue, rx_open, pushed, released, lost>>
    BY <1>4 DEF Sleep, LockGear, CheckExpiry, Decide, LockQueue, FlushEnd
  <2> QED
    BY <2>1 DEF Accounting
<1>5. CASE FlushOne
  <2>1. /\ queue # <<>> /\ queue' = Tail(queue)
        /\ pushed' = pushed /\ rx_open' = rx_open
        /\ IF rx_open
             THEN released' = Append(released, Head(queue)) /\ lost' = lost
             ELSE lost' = Append(lost, Head(queue)) /\ released' = released
    BY <1>5 DEF FlushOne, PopFront
  <2>4. Head(queue) \in Nat
    BY <1>7, <2>1, HeadTailProperties
  <2>2. CASE rx_open
    <3>1. Append(released, Head(queue)) \in Seq(Nat) /\ lost = <<>>
      BY <1>7, <2>2, <2>4 DEF Accounting
    <3>2. Append(released, Head(queue)) \o <<>> = Append(released, Head(queue))
          /\ released \o <<>> = released
      BY <1>7, <3>1, ConcatEmptySeq
    <3>3. <<>> \o Append(released, Head(queue)) = Append(released, Head(queue))
          /\ <<>> \o released = released
      BY <1>7, <3>1, ConcatEmptySeq
    <3>4. <<>> \o Append(released, Head(queue)) \o Tail(queue) = <<>> \o released \o queue
      <4>1. <<>> \in Seq(Nat)
        BY EmptySeq
      <4> QED
        BY <1>7, <2>1, <4>1, MoveKeepsOrder
    <3> QED
      BY <2>1, <2>2, <3>1, <3>2, <3>3, <3>4 DEF Accounting
  <2>3. CASE ~rx_open
    <3>1. released \o Append(lost, Head(queue)) \o Tail(queue) = released \o lost \o queue
      BY <1>7, <2>1, MoveKeepsOrder, ZenonT(60)
    <3> QED
      BY <2>1, <2>3, <3>1 DEF Accounting
  <2> QED
    BY <2>2, <2>3
<1>6. CASE UNCHANGED vars
  BY <1>6 DEF vars, Accounting
<1> QED
  BY <1>1, <1>2, <1>3, <1>4, <1>5, <1>6 DEF Next, Metronome

\* The invariant holds for every burst length, clock and number of packets, whatever the
\* interleaving of pushes, gear shifts and flushes.
THEOREM InvHolds == Spec => []Inv
<1>1. Inv /\ [Next]_vars => Inv'
  BY TypeStep, StrayStep, AccountingStep DEF Inv
<1> QED
  BY TypeInit, <1>1, PTL DEF Spec

\* Packets keep their order, and none is lost while the receiver lives, whatever the
\* interleaving of pushes, gear shifts and flushes.
THEOREM PacketsAccountedFor == Spec => []Accounting
  BY InvHolds, PTL DEF Inv

\* After a shift to Submarine at most one flush still goes out.
THEOREM SilenceLateByOneFlush == Spec => []StrayInv
  BY InvHolds, PTL DEF Inv

\* The metronome never overrides a shift: it only ends a burst past its deadline.
THEOREM MetronomeOnlyEndsBursts == Spec => OnlyEndsBursts
<1>1. TypeOK /\ Metronome =>
        \/ UNCHANGED gear
        \/ gear.mode = "SubmarineBurst" /\ now >= gear.deadline_ms /\ gear' = Submarine
  BY DEF Metronome, Sleep, LockGear, CheckExpiry, Decide, LockQueue, FlushOne, FlushEnd,
         check_expiry, Expired
<1> QED
  BY <1>1, InvHolds, PTL DEF Spec, OnlyEndsBursts, Inv
==============================================================================
