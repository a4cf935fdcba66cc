----------------------------- MODULE Kernel_proofs -----------------------------
(***************************************************************************)
(* The kernel, for rings of any depth, indices of any width, any number of *)
(* frames and datagrams, and a bus of any length with any devices on it.   *)
(*                                                                         *)
(* Transmission: if a slot is always freed within the spins, the driver    *)
(* and the device keep the ring intact, also where stores become visible   *)
(* out of order; the frames go out in the order sent; and through the      *)
(* staging buffer, the socket's queues and the ring the heartbeats leave   *)
(* with no epoch missing and the echoes in the order of the datagrams.     *)
(*                                                                         *)
(* Reception: the buffers go round in their order, so that no posted       *)
(* buffer is lost or overwritten and no older frame follows a newer one.   *)
(*                                                                         *)
(* The probe: at most one device goes live, with its queues set up as the  *)
(* driver uses them, and none is given up that could be used; the boot     *)
(* code takes a bounded number of steps.                                   *)
(*                                                                         *)
(* The heap, for a pool of any size and layouts of any size and alignment: *)
(* free lists and blocks in use partition the pool, nothing is left to     *)
(* merge, a request fails only for want of room, pointers are aligned, and *)
(* the allocator implements DisjointHeap.                                  *)
(***************************************************************************)
EXTENDS KernelLoop, VirtioRx, VirtioProbe, BuddyAllocator, FiniteSetTheorems,
        SequenceTheorems, WellFoundedInduction, TLAPS

-----------------------------------------------------------------------------
(* Counters and their remainders.                                           *)

\* Division with remainder.
LEMMA DivMod ==
  ASSUME NEW a \in Int, NEW b \in Nat \ {0}
  PROVE  a \div b \in Int /\ a % b \in 0..(b - 1) /\ a = b * (a \div b) + (a % b)
<1>1. a \div b \in Int
  OBVIOUS
<1>2. a % b \in 0..(b - 1)
  OBVIOUS
<1>3. a = b * (a \div b) + (a % b)
  OBVIOUS
<1> QED
  BY <1>1, <1>2, <1>3

LEMMA Remainder ==
  ASSUME NEW a \in Int, NEW b \in Nat \ {0}, NEW q \in Int, NEW r \in 0..(b - 1),
         a = b * q + r
  PROVE  a % b = r
  OBVIOUS

\* Numbers that differ by a multiple of b have the same remainder.
Congruent(a, c, b) == \E k \in Int : a = b * k + c

LEMMA SameRemainder ==
  ASSUME NEW a \in Int, NEW c \in Int, NEW b \in Nat \ {0}, Congruent(a, c, b)
  PROVE  a % b = c % b
<1>1. PICK k \in Int : a = b * k + c
  BY DEF Congruent
<1> DEFINE q == c \div b
           r == c % b
<1>2. q \in Int /\ r \in 0..(b - 1) /\ c = b * q + r
  BY DivMod
<1> HIDE DEF q, r
<1>3. k + q \in Int /\ b * (k + q) = b * k + b * q
  BY <1>2
<1>4. b * k \in Int /\ b * q \in Int
  BY <1>2
<1>5. a = b * (k + q) + r
  BY <1>1, <1>2, <1>3, <1>4
<1>6. a % b = r
  BY <1>2, <1>3, <1>5, Remainder
<1> QED
  BY <1>6 DEF r

\* Numbers less than b apart have different remainders.
LEMMA Distinct ==
  ASSUME NEW a \in Int, NEW c \in Int, NEW b \in Nat \ {0}, a < c, c < a + b
  PROVE  a % b # c % b
<1> SUFFICES ASSUME a % b = c % b PROVE FALSE
  OBVIOUS
<1> DEFINE p == a \div b
           q == c \div b
           r == a % b
<1>1. /\ p \in Int /\ q \in Int /\ r \in 0..(b - 1)
      /\ a = b * p + r /\ c = b * q + r
  BY DivMod
<1> HIDE DEF p, q, r
<1>2. /\ b * p \in Int /\ b * q \in Int /\ b * (q - p) = b * q - b * p /\ q - p \in Int
  BY <1>1
<1>3. 0 < b * (q - p) /\ b * (q - p) < b
  BY <1>1, <1>2
<1> DEFINE d == q - p
<1>4. d \in Int /\ 0 < b * d /\ b * d < b
  BY <1>2, <1>3
<1> HIDE DEF d
<1>5. CASE d <= 0
  <2>1. b * d <= 0
    BY <1>4, <1>5
  <2> QED
    BY <1>4, <2>1
<1>6. CASE d >= 1
  <2>1. b * d >= b
    BY <1>4, <1>6
  <2> QED
    BY <1>4, <2>1
<1> QED
  BY <1>4, <1>5, <1>6

\* A counter modulo m, reduced modulo a divisor b of m.
Divides(b, m) == b \in Nat \ {0} /\ m \in Nat \ {0} /\ m % b = 0

LEMMA ModMod ==
  ASSUME NEW a \in Int, NEW e \in Int, NEW m, NEW b, Divides(b, m)
  PROVE  ((a % m) + e) % b = (a + e) % b
<1>0. m \in Nat \ {0} /\ b \in Nat \ {0} /\ m % b = 0
  BY DEF Divides
<1>d. m \div b \in Int /\ m = b * (m \div b) + (m % b)
  BY <1>0, DivMod
<1>1. PICK k \in Int : m = b * k
  <2>1. PICK k \in Int : k = m \div b
    BY <1>d, Zenon
  <2>2. m = b * k + 0
    BY <1>0, <1>d, <2>1, Zenon
  <2> QED
    BY <1>0, <2>2
<1>2. PICK q \in Int : a = m * q + (a % m)
  BY <1>0, DivMod
<1>3. k * q \in Int /\ m * q = b * (k * q) /\ b * (k * q) \in Int
  BY <1>0, <1>1
<1>4. a % m \in Int
  BY <1>0, DivMod
<1>5. a + e = b * (k * q) + ((a % m) + e)
  <2>1. PICK z \in Int, r \in Int : z = b * (k * q) /\ r = a % m
    BY <1>3, <1>4, Zenon
  <2>2. a = z + r
    BY <1>2, <1>3, <2>1
  <2>3. a + e = z + (r + e)
    BY <2>2
  <2> QED
    BY <2>1, <2>3
<1>6. Congruent(a + e, (a % m) + e, b)
  BY <1>3, <1>5, Zenon DEF Congruent
<1>7. a + e \in Int /\ (a % m) + e \in Int
  BY <1>4
<1>8. PICK x \in Int, y \in Int : x = a + e /\ y = (a % m) + e
  BY <1>7, Zenon
<1>9. Congruent(x, y, b)
  BY <1>6, <1>8, Zenon
<1>10. x % b = y % b
  BY <1>0, <1>9, SameRemainder
<1> QED
  BY <1>8, <1>10, Zenon

\* The difference of two counters modulo m that are less than m apart.
LEMMA Difference ==
  ASSUME NEW a \in Int, NEW c \in Int, NEW m \in Nat \ {0}, c <= a, a < c + m
  PROVE  ((a % m) - (c % m)) % m = a - c
<1> DEFINE p == a \div m
           q == c \div m
           r == a % m
           s == c % m
<1>1. p \in Int /\ r \in Int /\ a = m * p + r
  BY DivMod
<1>2. q \in Int /\ s \in Int /\ c = m * q + s
  BY DivMod
<1> HIDE DEF p, q, r, s
<1>3. m * p \in Int /\ m * q \in Int /\ m * (q - p) = m * q - m * p /\ q - p \in Int
  BY <1>1, <1>2
<1>4. r - s = m * (q - p) + (a - c)
  BY <1>1, <1>2, <1>3
<1>5. a - c \in 0..(m - 1)
  OBVIOUS
<1>6. r - s \in Int
  BY <1>1, <1>2
<1>7. (r - s) % m = a - c
  BY <1>3, <1>4, <1>5, <1>6, Remainder, Zenon
<1> QED
  BY <1>7 DEF r, s

\* The remainder of a natural number is no larger than it.
LEMMA Smaller ==
  ASSUME NEW a \in Nat, NEW b \in Nat \ {0}
  PROVE  a % b \in 0..(b - 1) /\ a % b <= a /\ (a < b => a % b = a)
<1>1. a % b \in 0..(b - 1)
  BY DivMod
<1>2. a < b => a % b = a
  OBVIOUS
<1>3. a % b <= a
  BY <1>1, <1>2
<1> QED
  BY <1>1, <1>2, <1>3

\* One more on a counter modulo m.
LEMMA Counted ==
  ASSUME NEW a \in Int, NEW m \in Nat \ {0}
  PROVE  ((a % m) + 1) % m = (a + 1) % m
<1>1. m % m = 0
  OBVIOUS
<1>2. Divides(m, m)
  BY <1>1 DEF Divides
<1>3. \A n : Divides(n, n) => ((a % n) + 1) % n = (a + 1) % n
  BY ModMod
<1> QED
  BY <1>2, <1>3, Zenon

-----------------------------------------------------------------------------
(* The ring.                                                                *)

\* Frames a slot has been taken for, frames whose ring entry is visible, frames fetched.
Slotted == sent - IF pc = "wait" THEN 1 ELSE 0
Laid == sent - IF pc \in {"wait", "fill", "ring", "late"} THEN 1 ELSE 0
Fetched == Len(wire) + IF fetched = Nobody THEN 0 ELSE 1

\* Where the driver stands.
DriverInv ==
  /\ slot = Slotted % Depth
  /\ pc \in {"fill", "ring", "index", "late"} => idx = (sent - 1) % Depth
  /\ pc \in {"wait", "fill", "ring", "index", "late", "notify", "settle"} => sent > 0
  /\ pc = "late" => ~ordered
  /\ avail_idx = Published % IdxMod

\* Where the device stands.
DeviceInv ==
  /\ last_avail = Fetched % IdxMod /\ used_idx = Len(wire) % IdxMod
  /\ Fetched <= Published /\ Published <= Len(wire) + Depth
  /\ pc \in {"fill", "ring", "index"} => Published < Len(wire) + Depth

\* What the two have in common.
SharedInv ==
  /\ \A n \in (Len(wire) + 1)..Published : buffers[(n - 1) % Depth] = n
  /\ pc \in {"ring", "index"} => buffers[idx] = sent
  /\ \A s \in Slots : s < Laid => ring[s] = s
  /\ fetched # Nobody => fetched = Len(wire) % Depth \/ (~ordered /\ Len(wire) < Depth)
  /\ \A i \in 1..Len(wire) : wire[i] = i \/ (~ordered /\ i <= Depth)

RingIInv == TypeOK /\ DriverInv /\ DeviceInv /\ SharedInv

-----------------------------------------------------------------------------

LEMMA Bounds ==
  /\ Depth \in Nat \ {0} /\ IdxMod \in Nat \ {0} /\ IdxMod % Depth = 0 /\ Depth < IdxMod
  /\ MaxFrames \in Nat /\ Slots = 0..(Depth - 1) /\ Nobody = Depth /\ Nobody \notin Slots
<1>1. /\ Depth \in Nat \ {0} /\ IdxMod \in Nat \ {0} /\ IdxMod % Depth = 0 /\ Depth < IdxMod
      /\ MaxFrames \in Nat
  BY VirtqueueAssumption DEF VirtqueueAssumption
<1>2. Slots = 0..(Depth - 1) /\ Nobody = Depth
  BY DEF Slots, Nobody
<1>3. Depth \notin 0..(Depth - 1)
  BY <1>1
<1> QED
  BY <1>1, <1>2, <1>3

\* A counter modulo the depth is a slot, modulo the width an index.
LEMMA SlotOf ==
  ASSUME NEW a \in Int
  PROVE  a % Depth \in Slots /\ a % IdxMod \in 0..(IdxMod - 1)
  BY Bounds, DivMod

\* An index plus a little, as a slot, by the number it stands for.
LEMMA IndexSlot ==
  ASSUME NEW a \in Int, NEW e \in Int
  PROVE  ((a % IdxMod) + e) % Depth = (a + e) % Depth
<1>1. Divides(Depth, IdxMod)
  BY Bounds DEF Divides
<1> QED
  BY <1>1, ModMod

\* The entry of a frame in the rings, and its index, by the number of the frame.
LEMMA Reduced ==
  ASSUME NEW a \in Int
  PROVE  (a % IdxMod) % Depth = a % Depth
<1>1. PICK e \in Int : e = 0
  OBVIOUS
<1>2. ((a % IdxMod) + e) % Depth = (a + e) % Depth
  BY IndexSlot
<1>3. a % IdxMod \in Int
  BY SlotOf, Bounds
<1>4. (a % IdxMod) + e = a % IdxMod /\ a + e = a
  BY <1>1, <1>3
<1> QED
  BY <1>2, <1>4

LEMMA Wraps ==
  ASSUME NEW a \in Int
  PROVE  Inc(a % IdxMod) = (a + 1) % IdxMod
  BY Bounds, Counted DEF Inc

LEMMA InSlot ==
  ASSUME NEW a \in Int, a >= 0
  PROVE  /\ a % Depth \in Slots /\ a % Depth \in Int /\ a % Depth < Depth
         /\ a % Depth <= a /\ (a < Depth => a % Depth = a)
<1>1. PICK d \in Nat \ {0} : d = Depth
  BY Bounds
<1>2. a \in Nat
  OBVIOUS
<1>3. a % d \in 0..(d - 1) /\ a % d <= a /\ (a < d => a % d = a)
  BY <1>2, Smaller
<1>4. a % d \in Int /\ a % d < d
  BY <1>3
<1> QED
  BY <1>1, <1>3, <1>4, SlotOf

\* The numbers of a state in which the driver stands where it stands.
LEMMA Numbers ==
  ASSUME TypeOK
  PROVE  /\ sent \in Int /\ Len(wire) \in Nat /\ wire \in Seq(0..MaxFrames)
         /\ Published \in Int /\ Slotted \in Int /\ Laid \in Int /\ Fetched \in Nat
         /\ avail_idx \in Int /\ used_idx \in Int /\ last_avail \in Int
<1>1. /\ sent \in Int /\ wire \in Seq(0..MaxFrames)
      /\ avail_idx \in Int /\ used_idx \in Int /\ last_avail \in Int
  BY Bounds DEF TypeOK
<1>2. Len(wire) \in Nat
  BY <1>1
<1>3. Published \in Int /\ Slotted \in Int /\ Laid \in Int
  BY <1>1 DEF Published, Slotted, Laid
<1>4. Fetched \in Nat
  BY <1>2 DEF Fetched
<1> QED
  BY <1>1, <1>2, <1>3, <1>4

LEMMA RingInit == Init => RingIInv
<1> SUFFICES ASSUME Init PROVE RingIInv
  OBVIOUS
<1>1. /\ ordered \in Orders
      /\ pc = "idle" /\ slot = 0 /\ idx = 0 /\ sent = 0
      /\ avail_idx = 0 /\ used_idx = 0
      /\ ring = [i \in Slots |-> 0] /\ buffers = [i \in Slots |-> 0]
      /\ last_avail = 0 /\ fetched = Nobody
      /\ wire = <<>> /\ Len(wire) = 0
  BY DEF Init
<1>2. awake \in BOOLEAN
  BY Zenon DEF Init
<1>3. 0 \in Slots /\ 0 \in 0..(IdxMod - 1) /\ 0 \in 0..MaxFrames
  BY Bounds
<1>4. /\ ring \in [Slots -> Slots] /\ buffers \in [Slots -> 0..MaxFrames]
      /\ wire \in Seq(0..MaxFrames)
  BY <1>1, <1>3
<1>5. TypeOK
  BY <1>1, <1>2, <1>3, <1>4 DEF TypeOK
<1>6. Published = 0 /\ Slotted = 0 /\ Laid = 0 /\ Fetched = 0
  <2>1. Fetched = 0
    BY <1>1 DEF Fetched
  <2>2. pc \notin {"wait", "fill", "ring", "index", "late"}
    BY <1>1
  <2>3. Published = sent - 0 /\ Slotted = sent - 0 /\ Laid = sent - 0
    BY <2>2 DEF Published, Slotted, Laid
  <2> QED
    BY <1>1, <2>1, <2>3
<1>7. 0 % Depth = 0 /\ 0 % IdxMod = 0
  BY Bounds, Smaller
<1>8. DriverInv
  BY <1>1, <1>6, <1>7 DEF DriverInv
<1>9. DeviceInv
  BY <1>1, <1>6, <1>7, Bounds DEF DeviceInv
<1>10. SharedInv
  BY <1>1, <1>6, Bounds DEF SharedInv
<1> QED
  BY <1>5, <1>8, <1>9, <1>10 DEF RingIInv

LEMMA RingTypes ==
  ASSUME TypeOK, [Next]_vars
  PROVE  TypeOK'
<1>t. /\ pc \in {"idle", "wait", "fill", "ring", "index", "late", "notify", "settle"}
      /\ ordered \in Orders /\ slot \in Slots /\ idx \in Slots
      /\ sent \in 0..MaxFrames
      /\ avail_idx \in 0..(IdxMod - 1) /\ used_idx \in 0..(IdxMod - 1)
      /\ last_avail \in 0..(IdxMod - 1)
      /\ ring \in [Slots -> Slots] /\ buffers \in [Slots -> 0..MaxFrames]
      /\ fetched \in Slots \cup {Nobody}
      /\ awake \in BOOLEAN
      /\ wire \in Seq(0..MaxFrames)
  BY DEF TypeOK
<1>i. /\ avail_idx \in Int /\ used_idx \in Int /\ last_avail \in Int /\ slot + 1 \in Int
      /\ avail_idx + 1 \in Int /\ used_idx + 1 \in Int /\ last_avail + 1 \in Int
      /\ avail_idx - 1 \in Int
  BY <1>t, Bounds
<1>m. /\ Inc(avail_idx) \in 0..(IdxMod - 1) /\ Inc(used_idx) \in 0..(IdxMod - 1)
      /\ Inc(last_avail) \in 0..(IdxMod - 1) /\ (slot + 1) % Depth \in Slots
      /\ avail_idx % Depth \in Slots /\ (avail_idx - 1) % Depth \in Slots
      /\ last_avail % Depth \in Slots
  BY <1>i, SlotOf DEF Inc
<1>1. CASE Start
  <2>1. sent' \in 0..MaxFrames /\ pc' = "wait"
    BY <1>t, <1>1, Bounds DEF Start
  <2> QED
    BY <1>t, <1>1, <2>1 DEF Start, TypeOK, sharedVars, deviceVars
<1>2. CASE WaitSlot
  BY <1>t, <1>m, <1>2 DEF WaitSlot, TypeOK, sharedVars, deviceVars
<1>3. CASE Fill
  BY <1>t, <1>3 DEF Fill, TypeOK, deviceVars
<1>4. CASE PublishRing
  BY <1>t, <1>m, <1>4 DEF PublishRing, StoreRing, TypeOK, deviceVars
<1>5. CASE PublishIndex \/ EarlyIndex
  BY <1>t, <1>m, <1>5 DEF PublishIndex, EarlyIndex, StoreIndex, TypeOK, deviceVars
<1>6. CASE LateRing
  BY <1>t, <1>m, <1>6 DEF LateRing, TypeOK, deviceVars
<1>7. CASE Notify \/ Settle
  BY <1>t, <1>7 DEF Notify, Settle, Rings, TypeOK, sharedVars, deviceVars
<1>8. CASE Fetch
  <2>1. fetched' \in Slots
    BY <1>t, <1>m, <1>8 DEF Fetch
  <2> QED
    BY <1>t, <1>m, <1>8, <2>1 DEF Fetch, TypeOK, driverVars, sharedVars
<1>9. CASE Transmit
  <2>1. buffers[fetched] \in 0..MaxFrames
    BY <1>t, <1>9 DEF Transmit
  <2>2. wire' \in Seq(0..MaxFrames)
    BY <1>t, <1>9, <2>1 DEF Transmit
  <2> QED
    BY <1>t, <1>m, <1>9, <2>2 DEF Transmit, TypeOK, driverVars, sharedVars
<1>10. CASE GoIdle
  BY <1>t, <1>10 DEF GoIdle, TypeOK, driverVars, sharedVars, deviceVars
<1>11. CASE UNCHANGED vars
  BY <1>t, <1>11 DEF vars, TypeOK, driverVars, sharedVars, deviceVars
<1> QED
  BY <1>1, <1>2, <1>3, <1>4, <1>5, <1>6, <1>7, <1>8, <1>9, <1>10, <1>11 DEF Next, Driver, Device

\* Starting, ringing the doorbell and settling touch no counter of the ring.
LEMMA StandStill ==
  ASSUME RingIInv, Start \/ Notify \/ Settle \/ GoIdle \/ UNCHANGED vars
  PROVE  DriverInv' /\ DeviceInv' /\ SharedInv'
<1>1. UNCHANGED <<ordered, slot, idx, avail_idx, ring, buffers, last_avail, fetched, wire, used_idx>>
  BY DEF Start, Notify, Settle, GoIdle, vars, driverVars, sharedVars, deviceVars
<1>2. \/ pc = "idle" /\ pc' = "wait" /\ sent' = sent + 1
      \/ pc \in {"notify", "settle"} /\ pc' \in {"settle", "idle"} /\ sent' = sent
      \/ pc' = pc /\ sent' = sent
  BY DEF Start, Notify, Settle, GoIdle, vars, driverVars
<1>n. sent \in Int
  BY Numbers DEF RingIInv
<1>3. /\ Published' = Published /\ Slotted' = Slotted /\ Laid' = Laid
      /\ Fetched' = Fetched
  <2>1. Fetched' = Fetched
    BY <1>1, Zenon DEF Fetched
  <2>2. CASE pc = "idle" /\ pc' = "wait" /\ sent' = sent + 1
    BY <1>n, <2>1, <2>2 DEF Published, Slotted, Laid
  <2>3. CASE pc \in {"notify", "settle"} /\ pc' \in {"settle", "idle"} /\ sent' = sent
    BY <1>n, <2>1, <2>3 DEF Published, Slotted, Laid
  <2>4. CASE pc' = pc /\ sent' = sent
    BY <2>1, <2>4 DEF Published, Slotted, Laid
  <2> QED
    BY <1>2, <2>2, <2>3, <2>4
<1>i. DriverInv /\ DeviceInv /\ SharedInv
  BY DEF RingIInv
<1>4. DriverInv'
  <2>1. slot' = Slotted' % Depth /\ avail_idx' = Published' % IdxMod
    BY <1>1, <1>3, <1>i DEF DriverInv
  <2>2. pc' \in {"fill", "ring", "index", "late"} => pc' = pc /\ sent' = sent
    BY <1>2
  <2>3. pc' \in {"fill", "ring", "index", "late"} => idx' = (sent' - 1) % Depth
    BY <1>1, <1>i, <2>2 DEF DriverInv
  <2>4. pc' = "late" => ~ordered'
    BY <1>1, <1>i, <2>2 DEF DriverInv
  <2>5. pc' \in {"wait", "fill", "ring", "index", "late", "notify", "settle"} => sent' > 0
    <3>1. sent \in Nat
      BY Bounds DEF RingIInv, TypeOK
    <3> QED
      BY <1>2, <1>i, <3>1 DEF DriverInv
  <2> QED
    BY <2>1, <2>3, <2>4, <2>5 DEF DriverInv
<1>5. DeviceInv'
  <2>1. pc' \in {"fill", "ring", "index"} => pc' = pc
    BY <1>2
  <2> QED
    BY <1>1, <1>3, <1>i, <2>1 DEF DeviceInv
<1>6. SharedInv'
  <2>1. pc' \in {"ring", "index"} => pc' = pc /\ sent' = sent
    BY <1>2
  <2> QED
    BY <1>1, <1>3, <1>i, <2>1 DEF SharedInv
<1> QED
  BY <1>4, <1>5, <1>6

LEMMA TakesSlot ==
  ASSUME Patient, RingIInv, WaitSlot
  PROVE  DriverInv' /\ DeviceInv' /\ SharedInv'
<1>1. /\ pc = "wait" /\ pc' = "fill" /\ HasRoom /\ idx' = slot /\ slot' = (slot + 1) % Depth
      /\ UNCHANGED <<ordered, sent, avail_idx, ring, buffers, last_avail, fetched, wire, used_idx>>
  BY DEF WaitSlot, sharedVars, deviceVars
<1>n. /\ sent \in Int /\ Len(wire) \in Nat /\ Fetched \in Nat
      /\ Published = sent - 1 /\ Slotted = sent - 1 /\ Laid = sent - 1
  BY <1>1, Numbers DEF RingIInv, Published, Slotted, Laid
<1>3. Published' = sent - 1 /\ Slotted' = sent /\ Laid' = sent - 1 /\ Fetched' = Fetched
  <2>1. Fetched' = Fetched
    BY <1>1, Zenon DEF Fetched
  <2> QED
    BY <1>1, <1>n, <2>1 DEF Published, Slotted, Laid
<1>i. DriverInv /\ DeviceInv /\ SharedInv
  BY DEF RingIInv
<1>4. DriverInv'
  <2>1. slot = (sent - 1) % Depth /\ sent > 0 /\ avail_idx = (sent - 1) % IdxMod
    BY <1>1, <1>n, <1>i DEF DriverInv
  <2>2. slot' = sent % Depth
    <3>1. PICK p \in Int : p = sent - 1 /\ p + 1 = sent
      BY <1>n
    <3>2. ((p % Depth) + 1) % Depth = (p + 1) % Depth
      BY Bounds, Counted
    <3> QED
      BY <1>1, <2>1, <3>1, <3>2
  <2> QED
    BY <1>1, <1>3, <2>1, <2>2 DEF DriverInv
<1>5. DeviceInv'
  <2>1. /\ Fetched <= sent - 1 /\ sent - 1 <= Len(wire) + Depth
        /\ avail_idx = (sent - 1) % IdxMod /\ used_idx = Len(wire) % IdxMod
        /\ last_avail = Fetched % IdxMod
    BY <1>n, <1>i DEF DriverInv, DeviceInv
  <2>2. Len(wire) <= Fetched
    BY <1>n DEF Fetched
  <2>3. (avail_idx - used_idx) % IdxMod = sent - 1 - Len(wire)
    <3>1. PICK p \in Int, l \in Int : p = sent - 1 /\ l = Len(wire)
      BY <1>n
    <3>2. l <= p /\ p < l + IdxMod
      BY <1>n, <2>1, <2>2, <3>1, Bounds
    <3>3. ((p % IdxMod) - (l % IdxMod)) % IdxMod = p - l
      BY <3>2, Bounds, Difference
    <3> QED
      BY <2>1, <3>1, <3>3
  <2>4. sent - 1 - Len(wire) < Depth
    BY <1>1, <2>3 DEF HasRoom
  <2>5. sent - 1 < Len(wire) + Depth
    BY <1>n, <2>4, Bounds
  <2> QED
    BY <1>1, <1>3, <2>1, <2>5 DEF DeviceInv
<1>6. SharedInv'
  BY <1>1, <1>n, <1>3, <1>i DEF SharedInv
<1> QED
  BY <1>4, <1>5, <1>6

\* The buffer filled belongs to none of the frames the device still has.
LEMMA NotOwned ==
  ASSUME RingIInv, pc \in {"fill", "ring"}, NEW n \in (Len(wire) + 1)..Published
  PROVE  (n - 1) % Depth # idx
<1>1. /\ sent \in Int /\ Len(wire) \in Nat /\ Published = sent - 1
  BY Numbers DEF RingIInv, Published
<1>2. idx = (sent - 1) % Depth /\ Published < Len(wire) + Depth
  BY DEF RingIInv, DriverInv, DeviceInv
<1>3. PICK a \in Int, c \in Int : a = n - 1 /\ c = sent - 1
  BY <1>1
<1>4. a < c /\ c < a + Depth
  BY <1>1, <1>2, <1>3, Bounds
<1>5. a % Depth # c % Depth
  BY <1>4, Bounds, Distinct
<1> QED
  BY <1>2, <1>3, <1>5

LEMMA Fills ==
  ASSUME RingIInv, Fill
  PROVE  DriverInv' /\ DeviceInv' /\ SharedInv'
<1>1. /\ pc = "fill" /\ pc' = "ring" /\ buffers' = [buffers EXCEPT ![idx] = sent]
      /\ UNCHANGED <<ordered, slot, idx, sent, avail_idx, ring, last_avail, fetched, wire, used_idx>>
  BY DEF Fill, deviceVars
<1>3. Published' = Published /\ Slotted' = Slotted /\ Laid' = Laid /\ Fetched' = Fetched
  <2>1. Fetched' = Fetched
    BY <1>1, Zenon DEF Fetched
  <2> QED
    BY <1>1, <2>1 DEF Published, Slotted, Laid
<1>i. DriverInv /\ DeviceInv /\ SharedInv
  BY DEF RingIInv
<1>4. DriverInv' /\ DeviceInv'
  BY <1>1, <1>3, <1>i DEF DriverInv, DeviceInv
<1>b. buffers \in [Slots -> 0..MaxFrames] /\ idx \in Slots
  BY DEF RingIInv, TypeOK
<1>5. ASSUME NEW n \in (Len(wire) + 1)..Published
      PROVE  buffers'[(n - 1) % Depth] = n
  <2>1. (n - 1) % Depth # idx
    BY <1>1, NotOwned
  <2>2. (n - 1) % Depth \in Slots
    <3>1. n - 1 \in Int
      BY Numbers DEF RingIInv
    <3> QED
      BY <3>1, SlotOf
  <2>3. buffers[(n - 1) % Depth] = n
    BY <1>i DEF SharedInv
  <2> QED
    BY <1>1, <1>b, <2>1, <2>2, <2>3
<1>6. buffers'[idx] = sent
  BY <1>1, <1>b
<1>7. SharedInv'
  BY <1>1, <1>3, <1>i, <1>5, <1>6 DEF SharedInv
<1> QED
  BY <1>4, <1>7

\* The ring entry of the frame is the slot it is in, by two counters of different widths.
LEMMA EntryIs ==
  ASSUME RingIInv, pc = "ring" \/ pc = "late"
  PROVE  /\ pc = "ring" => avail_idx % Depth = idx
         /\ pc = "late" => (avail_idx - 1) % Depth = idx
<1>1. sent \in Int /\ Published = sent - IF pc = "ring" THEN 1 ELSE 0
  BY Numbers DEF RingIInv, Published
<1>2. idx = (sent - 1) % Depth /\ avail_idx = Published % IdxMod
  BY DEF RingIInv, DriverInv
<1>3. CASE pc = "ring"
  <2>1. PICK p \in Int : p = sent - 1
    BY <1>1
  <2>2. (p % IdxMod) % Depth = p % Depth
    BY Reduced
  <2> QED
    BY <1>1, <1>2, <1>3, <2>1, <2>2
<1>4. CASE pc = "late"
  <2>e. PICK e \in Int : e = -1
    OBVIOUS
  <2>1. ((sent % IdxMod) + e) % Depth = (sent + e) % Depth
    BY <1>1, IndexSlot
  <2>2. sent % IdxMod \in Int
    BY <1>1, SlotOf, Bounds
  <2>3. (sent % IdxMod) + e = (sent % IdxMod) - 1 /\ sent + e = sent - 1
    BY <1>1, <2>e, <2>2
  <2>4. Published = sent
    BY <1>1, <1>4
  <2> QED
    BY <1>2, <1>4, <2>1, <2>3, <2>4
<1> QED
  BY <1>3, <1>4

LEMMA LaysRing ==
  ASSUME RingIInv, PublishRing \/ LateRing
  PROVE  DriverInv' /\ DeviceInv' /\ SharedInv'
<1>1. /\ (pc = "ring" /\ pc' = "index") \/ (pc = "late" /\ pc' = "notify")
      /\ ring' = [ring EXCEPT ![idx] = idx]
      /\ UNCHANGED <<ordered, slot, idx, sent, avail_idx, buffers, last_avail, fetched, wire, used_idx>>
  <2>1. CASE PublishRing
    <3>1. avail_idx % Depth = idx
      BY <2>1, EntryIs DEF PublishRing
    <3> QED
      BY <2>1, <3>1 DEF PublishRing, StoreRing, deviceVars
  <2>2. CASE LateRing
    <3>1. (avail_idx - 1) % Depth = idx
      BY <2>2, EntryIs DEF LateRing
    <3> QED
      BY <2>2, <3>1 DEF LateRing, deviceVars
  <2> QED
    BY <2>1, <2>2
<1>n. /\ sent \in Int /\ Laid = sent - 1
  BY <1>1, Numbers DEF RingIInv, Laid
<1>3. Published' = Published /\ Slotted' = Slotted /\ Laid' = sent /\ Fetched' = Fetched
  <2>1. Fetched' = Fetched
    BY <1>1, Zenon DEF Fetched
  <2> QED
    BY <1>1, <1>n, <2>1 DEF Published, Slotted, Laid
<1>i. DriverInv /\ DeviceInv /\ SharedInv
  BY DEF RingIInv
<1>4. DriverInv'
  BY <1>1, <1>3, <1>i DEF DriverInv
<1>5. DeviceInv'
  BY <1>1, <1>3, <1>i DEF DeviceInv
<1>6. ASSUME NEW s \in Slots, s < sent PROVE ring'[s] = s
  <2>1. ring \in [Slots -> Slots]
    BY DEF RingIInv, TypeOK
  <2>2. CASE s = idx
    BY <1>1, <2>1, <2>2
  <2>3. CASE s # idx
    <3>1. sent > 0 /\ idx = (sent - 1) % Depth
      BY <1>1, <1>i DEF DriverInv
    <3>2. PICK p \in Int : p = sent - 1 /\ p >= 0
      BY <1>n, <3>1
    <3>3. s < Depth /\ s \in Int
      BY Bounds
    <3>4. p < Depth => idx = p
      BY <3>1, <3>2, InSlot
    <3>5. s < p
      <4>1. s <= p /\ s # p
        BY <1>6, <1>n, <2>3, <3>2, <3>3, <3>4, Bounds
      <4> QED
        BY <3>2, <3>3, <4>1
    <3>7. s < Laid
      BY <1>n, <3>2, <3>5
    <3>6. ring[s] = s
      BY <1>i, <3>7 DEF SharedInv
    <3> QED
      BY <1>1, <2>1, <2>3, <3>6
  <2> QED
    BY <2>2, <2>3
<1>7. SharedInv'
  BY <1>1, <1>3, <1>i, <1>6 DEF SharedInv
<1> QED
  BY <1>4, <1>5, <1>7

LEMMA Publishes ==
  ASSUME RingIInv, PublishIndex \/ EarlyIndex
  PROVE  DriverInv' /\ DeviceInv' /\ SharedInv'
<1>1. /\ \/ pc = "index" /\ pc' = "notify"
         \/ pc = "ring" /\ pc' = "late" /\ ~ordered
      /\ avail_idx' = Inc(avail_idx)
      /\ UNCHANGED <<ordered, slot, idx, sent, ring, buffers, last_avail, fetched, wire, used_idx>>
  BY DEF PublishIndex, EarlyIndex, StoreIndex, deviceVars
<1>n. sent \in Int /\ Published = sent - 1 /\ Len(wire) \in Nat /\ Fetched \in Nat
  BY <1>1, Numbers DEF RingIInv, Published
<1>3. Published' = sent /\ Slotted' = Slotted /\ Laid' = Laid /\ Fetched' = Fetched
  <2>1. Fetched' = Fetched
    BY <1>1, Zenon DEF Fetched
  <2> QED
    BY <1>1, <1>n, <2>1 DEF Published, Slotted, Laid
<1>i. DriverInv /\ DeviceInv /\ SharedInv
  BY DEF RingIInv
<1>4. DriverInv'
  <2>1. PICK p \in Int : p = sent - 1 /\ p + 1 = sent
    BY <1>n
  <2>2. Inc(p % IdxMod) = (p + 1) % IdxMod
    BY Wraps
  <2>3. avail_idx = p % IdxMod
    BY <1>n, <1>i, <2>1 DEF DriverInv
  <2>4. avail_idx' = sent % IdxMod
    BY <1>1, <2>1, <2>2, <2>3
  <2> QED
    BY <1>1, <1>3, <1>i, <2>4 DEF DriverInv
<1>5. DeviceInv'
  <2>1. Fetched <= sent - 1 /\ sent - 1 < Len(wire) + Depth
    BY <1>1, <1>n, <1>i DEF DeviceInv
  <2>2. Fetched <= sent /\ sent <= Len(wire) + Depth
    BY <1>n, <2>1, Bounds
  <2> QED
    BY <1>1, <1>3, <1>i, <2>2 DEF DeviceInv
<1>6. ASSUME NEW n \in (Len(wire) + 1)..sent PROVE buffers[(n - 1) % Depth] = n
  <2>1. CASE n = sent
    BY <1>1, <1>i, <2>1 DEF DriverInv, SharedInv
  <2>2. CASE n # sent
    <3>1. n \in (Len(wire) + 1)..Published
      BY <1>n, <2>2
    <3> QED
      BY <1>i, <3>1 DEF SharedInv
  <2> QED
    BY <2>1, <2>2
<1>7. SharedInv'
  BY <1>1, <1>3, <1>i, <1>6 DEF SharedInv
<1> QED
  BY <1>4, <1>5, <1>7

LEMMA Fetches ==
  ASSUME RingIInv, Fetch
  PROVE  DriverInv' /\ DeviceInv' /\ SharedInv'
<1>1. /\ fetched = Nobody /\ last_avail # avail_idx
      /\ fetched' = ring[last_avail % Depth] /\ last_avail' = Inc(last_avail)
      /\ UNCHANGED <<ordered, pc, slot, idx, sent, avail_idx, ring, buffers, wire, used_idx>>
  BY DEF Fetch, driverVars, sharedVars
<1>n. /\ sent \in Int /\ Len(wire) \in Nat /\ Fetched = Len(wire)
      /\ Published \in Int /\ Published <= sent
  <2>1. sent \in Int /\ Len(wire) \in Nat
    BY Numbers DEF RingIInv
  <2>2. Fetched = Len(wire)
    BY <1>1, <2>1 DEF Fetched
  <2> QED
    BY <2>1, <2>2 DEF Published
<1>i. DriverInv /\ DeviceInv /\ SharedInv
  BY DEF RingIInv
<1>r. ring \in [Slots -> Slots]
  BY DEF RingIInv, TypeOK
<1>l. PICK l \in Int : l = Len(wire) /\ l >= 0
  BY <1>n
<1>2. last_avail = l % IdxMod /\ last_avail % Depth = l % Depth
  <2>1. (l % IdxMod) % Depth = l % Depth
    BY Reduced
  <2>2. last_avail = l % IdxMod
    BY <1>i, <1>n, <1>l DEF DeviceInv
  <2> QED
    BY <2>1, <2>2
<1>s. /\ l % Depth \in Slots /\ l % Depth \in Int /\ l % Depth < Depth
      /\ l % Depth <= l /\ (l < Depth => l % Depth = l)
  BY <1>l, InSlot
<1>f. fetched' = ring[l % Depth] /\ fetched' \in Slots /\ fetched' # Nobody
  BY <1>1, <1>2, <1>r, <1>s, Bounds
<1>3. Published' = Published /\ Slotted' = Slotted /\ Laid' = Laid /\ Fetched' = l + 1
  <2>1. Fetched' = l + 1
    BY <1>1, <1>l, <1>f DEF Fetched
  <2> QED
    BY <1>1, <2>1 DEF Published, Slotted, Laid
<1>4. DriverInv'
  BY <1>1, <1>3, <1>i DEF DriverInv
<1>p. l + 1 <= Published
  <2>1. l <= Published
    BY <1>n, <1>l, <1>i DEF DeviceInv
  <2>2. Published # l
    BY <1>1, <1>2, <1>i DEF DriverInv
  <2> QED
    BY <1>n, <2>1, <2>2
<1>5. DeviceInv'
  <2>1. last_avail' = (l + 1) % IdxMod
    BY <1>1, <1>2, Wraps
  <2> QED
    BY <1>1, <1>3, <1>i, <1>p, <2>1 DEF DeviceInv
<1>6. fetched' = l % Depth \/ (~ordered /\ l < Depth)
  <2>1. CASE l % Depth < Laid
    BY <1>i, <1>f, <1>s, <2>1 DEF SharedInv
  <2>2. CASE ~(l % Depth < Laid)
    <3>1. CASE pc = "late"
      <4>1. Laid = sent - 1 /\ Published = sent
        BY <1>n, <3>1 DEF Laid, Published
      <4>2. l < Depth
        BY <1>n, <1>p, <1>s, <2>2, <4>1, Bounds
      <4> QED
        BY <1>i, <3>1, <4>2 DEF DriverInv
    <3>2. CASE pc # "late"
      <4>1. Published <= Laid
        BY <1>n, <3>2 DEF Laid, Published
      <4>2. Laid \in Int /\ l % Depth \in Int
        BY <1>s, Numbers, Bounds DEF RingIInv
      <4> QED
        BY <1>n, <1>p, <1>s, <2>2, <4>1, <4>2
    <3> QED
      BY <3>1, <3>2
  <2> QED
    BY <2>1, <2>2
<1>7. SharedInv'
  BY <1>1, <1>3, <1>i, <1>l, <1>6 DEF SharedInv
<1> QED
  BY <1>4, <1>5, <1>7

LEMMA Transmits ==
  ASSUME RingIInv, Transmit
  PROVE  DriverInv' /\ DeviceInv' /\ SharedInv'
<1>1. /\ fetched # Nobody /\ wire' = Append(wire, buffers[fetched])
      /\ fetched' = Nobody /\ used_idx' = Inc(used_idx)
      /\ UNCHANGED <<ordered, pc, slot, idx, sent, avail_idx, ring, buffers, last_avail>>
  BY DEF Transmit, driverVars, sharedVars
<1>l. PICK l \in Int : l = Len(wire) /\ l >= 0
  BY Numbers DEF RingIInv
<1>t. /\ wire \in Seq(0..MaxFrames) /\ buffers \in [Slots -> 0..MaxFrames]
      /\ fetched \in Slots
  BY <1>1 DEF RingIInv, TypeOK
<1>w. /\ Len(wire') = l + 1 /\ wire'[l + 1] = buffers[fetched]
      /\ \A i \in 1..l : wire'[i] = wire[i]
  BY <1>1, <1>l, <1>t
<1>n. /\ sent \in Int /\ Fetched = l + 1 /\ Published \in Int
  <2>1. Fetched = l + 1
    BY <1>1, <1>l DEF Fetched
  <2> QED
    BY <2>1, Numbers DEF RingIInv
<1>3. Published' = Published /\ Slotted' = Slotted /\ Laid' = Laid /\ Fetched' = l + 1
  <2>1. Fetched' = l + 1
    BY <1>1, <1>w DEF Fetched
  <2> QED
    BY <1>1, <2>1 DEF Published, Slotted, Laid
<1>i. DriverInv /\ DeviceInv /\ SharedInv
  BY DEF RingIInv
<1>4. DriverInv'
  BY <1>1, <1>3, <1>i DEF DriverInv
<1>5. DeviceInv'
  <2>1. used_idx' = (l + 1) % IdxMod
    <3>1. used_idx = l % IdxMod
      BY <1>l, <1>i DEF DeviceInv
    <3> QED
      BY <1>1, <3>1, Wraps
  <2>2. last_avail' = (l + 1) % IdxMod
    BY <1>1, <1>n, <1>i DEF DeviceInv
  <2>3. /\ l + 1 <= Published /\ Published <= l + 1 + Depth
        /\ pc \in {"fill", "ring", "index"} => Published < l + 1 + Depth
    <3>1. /\ l + 1 <= Published /\ Published <= l + Depth
      BY <1>n, <1>l, <1>i DEF DeviceInv
    <3> QED
      BY <1>n, <3>1, Bounds
  <2> QED
    BY <1>1, <1>3, <1>w, <2>1, <2>2, <2>3 DEF DeviceInv
<1>6. wire'[l + 1] = l + 1 \/ (~ordered /\ l + 1 <= Depth)
  <2>1. CASE fetched = l % Depth
    <3>1. l + 1 \in (l + 1)..Published
      BY <1>n, <1>i DEF DeviceInv
    <3>2. buffers[(l + 1 - 1) % Depth] = l + 1
      BY <1>l, <1>i, <3>1 DEF SharedInv
    <3>3. l + 1 - 1 = l
      OBVIOUS
    <3> QED
      BY <1>w, <2>1, <3>2, <3>3
  <2>2. CASE ~ordered /\ l < Depth
    BY <2>2, Bounds
  <2> QED
    BY <1>1, <1>l, <1>i, <2>1, <2>2 DEF SharedInv
<1>7. \A i \in 1..(l + 1) : wire'[i] = i \/ (~ordered /\ i <= Depth)
  <2> SUFFICES ASSUME NEW i \in 1..(l + 1) PROVE wire'[i] = i \/ (~ordered /\ i <= Depth)
    OBVIOUS
  <2>1. CASE i = l + 1
    BY <1>6, <2>1
  <2>2. CASE i \in 1..l
    BY <1>l, <1>w, <1>i, <2>2 DEF SharedInv
  <2> QED
    BY <2>1, <2>2
<1>8. \A n \in (l + 1 + 1)..Published : buffers[(n - 1) % Depth] = n
  <2> SUFFICES ASSUME NEW n \in (l + 1 + 1)..Published PROVE buffers[(n - 1) % Depth] = n
    OBVIOUS
  <2>1. n \in (Len(wire) + 1)..Published
    BY <1>n, <1>l
  <2> QED
    BY <1>i, <2>1 DEF SharedInv
<1>9. SharedInv'
  BY <1>1, <1>3, <1>w, <1>i, <1>7, <1>8 DEF SharedInv
<1> QED
  BY <1>4, <1>5, <1>9

\* No step of driver or device breaks the ring.
LEMMA RingStep ==
  ASSUME Patient, RingIInv, [Next]_vars
  PROVE  RingIInv'
<1>1. TypeOK'
  BY RingTypes DEF RingIInv
<1>2. DriverInv' /\ DeviceInv' /\ SharedInv'
  BY StandStill, TakesSlot, Fills, LaysRing, Publishes, Fetches, Transmits
     DEF Next, Driver, Device
<1> QED
  BY <1>1, <1>2 DEF RingIInv

\* The strengthening gives what the run checks of the ring.
LEMMA RingHolds ==
  ASSUME RingIInv
  PROVE  Inv
<1>n. /\ sent \in Int /\ Len(wire) \in Nat /\ Published \in Int /\ Fetched \in Nat
      /\ Len(wire) <= Fetched
  <2>1. sent \in Int /\ Len(wire) \in Nat /\ Published \in Int /\ Fetched \in Nat
    BY Numbers DEF RingIInv
  <2> QED
    BY <2>1 DEF Fetched
<1>i. TypeOK /\ DriverInv /\ DeviceInv /\ SharedInv
  BY DEF RingIInv
<1>1. avail_idx = Published % IdxMod /\ used_idx = Len(wire) % IdxMod
  BY <1>i DEF DriverInv, DeviceInv
<1>2. InFlight \in 0..Depth
  <2>1. Len(wire) <= Published /\ Published <= Len(wire) + Depth
    BY <1>n, <1>i DEF DeviceInv
  <2> QED
    BY <1>n, <2>1, Bounds DEF InFlight
<1>3. ASSUME NEW n \in (Len(wire) + 1)..Published
      PROVE  ring[(n - 1) % Depth] = (n - 1) % Depth \/ Stale(n)
  <2>1. PICK l \in Int : l = n - 1 /\ n = l + 1 /\ l >= 0
    BY <1>n
  <2>s. /\ l % Depth \in Slots /\ l % Depth \in Int /\ l % Depth < Depth
        /\ l % Depth <= l /\ (l < Depth => l % Depth = l)
    BY <2>1, InSlot
  <2>2. CASE l % Depth < Laid
    BY <1>i, <2>1, <2>s, <2>2 DEF SharedInv
  <2>3. CASE ~(l % Depth < Laid)
    <3>l. Laid \in Int /\ l % Depth \in Int
      BY <2>s, Numbers, Bounds DEF RingIInv
    <3>1. CASE pc = "late"
      <4>1. Laid = sent - 1 /\ Published = sent
        BY <1>n, <3>1 DEF Laid, Published
      <4>2. n = sent /\ n <= Depth
        BY <1>n, <2>1, <2>s, <2>3, <3>l, <4>1, Bounds
      <4> QED
        BY <3>1, <4>2 DEF Stale
    <3>2. CASE pc # "late"
      <4>1. Published <= Laid
        BY <1>n, <3>2 DEF Laid, Published
      <4> QED
        BY <1>n, <2>1, <2>s, <2>3, <3>l, <4>1
    <3> QED
      BY <3>1, <3>2
  <2> QED
    BY <2>2, <2>3
<1>4. pc \in {"fill", "ring"} => idx \notin Owned
  BY NotOwned DEF Owned
<1>5. RingInv
  BY <1>1, <1>2, <1>3, <1>4, <1>i DEF RingInv, SharedInv
<1> QED
  BY <1>5, <1>i DEF Inv

-----------------------------------------------------------------------------
(* The loop.                                                                *)

Increasing(s) == \A i, j \in 1..Len(s) : i < j => s[i] < s[j]

\* A datagram waits in one place, staged, in the inbox or in the outbox, and what is
\* further along came earlier: n came before all that has not reached the outbox.
Before(n, last, stage, waiting) ==
  /\ n <= last
  /\ stage \in 1..MaxHeard => n < stage
  /\ \A i \in 1..Len(waiting) : n < waiting[i]

PipeInv ==
  /\ staged \in 1..MaxHeard => staged = heard
  /\ Increasing(inbox) /\ Increasing(outbox)
  /\ \A i \in 1..Len(inbox) :
       inbox[i] <= heard /\ (staged \in 1..MaxHeard => inbox[i] < staged)
  /\ \A i \in 1..Len(outbox) : Before(outbox[i], heard, staged, inbox)

\* The heartbeats among the first k frames sent.
Beats(k) == {j \in 1..k : label[j].kind = "beat"}

Labels == [kind : {"stack", "echo", "beat"}, n : Nat]

LabelInv ==
  /\ label \in Seq(Labels)
  /\ epoch = Cardinality(Beats(Len(label)))
  /\ \A k \in 1..Len(label) : label[k].kind = "beat" => label[k].n = Cardinality(Beats(k - 1))

EchoInv ==
  \A k \in 1..Len(label) : label[k].kind = "echo" =>
    /\ Before(label[k].n, heard, staged, inbox)
    /\ \A i \in 1..Len(outbox) : label[k].n < outbox[i]
    /\ \A j \in 1..Len(label) : k < j /\ label[j].kind = "echo" => label[k].n < label[j].n

\* The inductive invariant of the loop.
LoopIInv == RingIInv /\ LoopTypeOK /\ PipeInv /\ LabelInv /\ EchoInv

loopAll == <<vars, loopVars>>

\* A step of the loop is one of the ring or leaves the ring alone.
LEMMA LoopRunsRing ==
  ASSUME [LoopNext]_loopAll
  PROVE  [Next]_vars
<1>1. CASE LoopNext
  BY <1>1 DEF LoopNext, Loop, PollVirtio, TakeDatagram, AnswerRequest, EmitEcho, Resolve,
     EndPoll, Recv, Beat, Sleep, Sending, Serving, Send, Next
<1>2. CASE UNCHANGED loopAll
  BY <1>2 DEF loopAll
<1> QED
  BY <1>1, <1>2

\* Everything but these seven leaves the socket and the labels alone.
LEMMA LoopCases ==
  ASSUME [LoopNext]_loopAll, TypeOK
  PROVE  \/ PollVirtio \/ TakeDatagram \/ AnswerRequest \/ EmitEcho \/ Resolve \/ Recv \/ Beat
         \/ /\ UNCHANGED <<epoch, staged, inbox, outbox, heard, label, sent>>
            /\ phase' \in {phase, "poll", "recv", "beat"}
<1>1. CASE EndPoll
  BY <1>1 DEF EndPoll, After, stackVars, vars, driverVars
<1>2. CASE Sleep
  BY <1>2 DEF Sleep, stackVars, vars, driverVars
<1>3. CASE Sending
  <2>1. sent' = sent
    BY <1>3 DEF Sending, Driver, WaitSlot, Fill, PublishRing, PublishIndex, EarlyIndex,
       LateRing, Notify, Settle
  <2> QED
    BY <1>3, <2>1 DEF Sending, loopVars, stackVars
<1>4. CASE Serving
  <2>1. sent' = sent
    BY <1>4 DEF Serving, Device, Fetch, Transmit, GoIdle, driverVars
  <2> QED
    BY <1>4, <2>1 DEF Serving, loopVars, stackVars
<1>5. CASE UNCHANGED loopAll
  BY <1>5 DEF loopAll, loopVars, stackVars, vars, driverVars
<1> QED
  BY <1>1, <1>2, <1>3, <1>4, <1>5 DEF LoopNext, Loop

LEMMA LoopBounds == MaxHeard \in Nat /\ SocketDepth \in Nat \ {0} /\ Request = MaxHeard + 1
  BY KernelLoopAssumption DEF KernelLoopAssumption, Request

\* What each of the seven does to the socket and the labels.
LEMMA Polls ==
  ASSUME PollVirtio
  PROVE  /\ \/ heard < MaxHeard /\ heard' = heard + 1 /\ staged' = heard + 1
            \/ heard' = heard /\ staged' \in {Request, staged}
         /\ phase' = "iface" /\ UNCHANGED <<epoch, inbox, outbox, label, sent>>
  BY DEF PollVirtio, vars, driverVars

LEMMA TakesDatagram ==
  ASSUME TakeDatagram
  PROVE  /\ staged \in 1..MaxHeard /\ staged' = 0
         /\ \/ Len(inbox) < SocketDepth /\ inbox' = Append(inbox, staged)
            \/ inbox' = inbox
         /\ UNCHANGED <<phase, epoch, outbox, heard, label, sent>>
  BY DEF TakeDatagram, vars, driverVars, Room

LEMMA SendsOwn ==
  ASSUME AnswerRequest \/ Resolve
  PROVE  /\ \/ label' = Append(label, Frame("stack", 0)) /\ sent' = sent + 1
            \/ UNCHANGED <<label, sent>>
         /\ staged' \in {staged, 0} /\ phase' \in {phase, "recv", "beat", "panic"}
         /\ UNCHANGED <<epoch, inbox, outbox, heard>>
<1>1. CASE AnswerRequest
  BY <1>1 DEF AnswerRequest, Send, Start, vars, driverVars
<1>2. CASE Resolve
  BY <1>2 DEF Resolve, Send, Start, After, stackVars
<1> QED
  BY <1>1, <1>2

LEMMA Emits ==
  ASSUME EmitEcho
  PROVE  /\ outbox # <<>> /\ outbox' = Tail(outbox)
         /\ \/ label' = Append(label, Frame("echo", Head(outbox))) /\ sent' = sent + 1
            \/ UNCHANGED <<label, sent>>
         /\ phase' \in {phase, "panic"}
         /\ UNCHANGED <<epoch, staged, inbox, heard>>
  BY DEF EmitEcho, Send, Start, vars, driverVars

LEMMA ReceivesDatagram ==
  ASSUME Recv
  PROVE  /\ \/ inbox = <<>> /\ inbox' = inbox /\ outbox' = outbox
            \/ /\ inbox # <<>> /\ inbox' = Tail(inbox)
               /\ \/ Len(outbox) < SocketDepth /\ outbox' = Append(outbox, Head(inbox))
                  \/ outbox' = outbox
         /\ phase' \in {"beat", "again"}
         /\ UNCHANGED <<epoch, staged, heard, label, sent>>
  BY DEF Recv, Taken, Room, vars, driverVars

LEMMA Beating ==
  ASSUME Beat
  PROVE  /\ label' = Append(label, Frame("beat", epoch)) /\ sent' = sent + 1
         /\ epoch' = epoch + 1 /\ phase' = "sleep"
         /\ UNCHANGED <<staged, inbox, outbox, heard>>
  BY DEF Beat, NextEpoch, Send, Start, stackVars

LEMMA Initially == LoopInit => LoopIInv
<1> SUFFICES ASSUME LoopInit PROVE LoopIInv
  OBVIOUS
<1>1. RingIInv
  BY RingInit DEF LoopInit
<1>2. /\ phase = "poll" /\ epoch = 0 /\ staged = 0 /\ inbox = <<>> /\ outbox = <<>>
      /\ heard = 0 /\ label = <<>> /\ sent = 0
      /\ Len(inbox) = 0 /\ Len(outbox) = 0 /\ Len(label) = 0
  BY DEF LoopInit, Init
<1>3. LoopTypeOK
  BY <1>2, LoopBounds DEF LoopTypeOK
<1>4. PipeInv
  BY <1>2 DEF PipeInv, Increasing
<1>5. LabelInv
  <2>1. Beats(0) = {}
    BY DEF Beats
  <2>2. epoch = Cardinality(Beats(Len(label)))
    BY <1>2, <2>1, FS_EmptySet
  <2> QED
    BY <1>2, <2>2 DEF LabelInv
<1>6. EchoInv
  BY <1>2 DEF EchoInv
<1> QED
  BY <1>1, <1>3, <1>4, <1>5, <1>6 DEF LoopIInv

LEMMA LoopTypesStep ==
  ASSUME LoopTypeOK, TypeOK, label \in Seq(Labels), [LoopNext]_loopAll
  PROVE  LoopTypeOK' /\ label' \in Seq(Labels)
<1>t. /\ phase \in {"poll", "iface", "recv", "again", "beat", "sleep", "panic"}
      /\ epoch \in Nat /\ staged \in 0..Request /\ heard \in 0..MaxHeard
      /\ inbox \in Seq(1..MaxHeard) /\ outbox \in Seq(1..MaxHeard)
      /\ Len(inbox) <= SocketDepth /\ Len(outbox) <= SocketDepth
      /\ Len(label) = sent /\ label \in Seq(Labels)
  BY DEF LoopTypeOK
<1>f. ASSUME NEW which \in {"stack", "echo", "beat"}, NEW n \in Nat,
             label' = Append(label, Frame(which, n)), sent' = sent + 1
      PROVE  Len(label') = sent' /\ label' \in Seq(Labels)
  <2>1. Frame(which, n) \in Labels
    BY DEF Frame, Labels
  <2> QED
    BY <1>t, <1>f, <2>1
<1>1. CASE PollVirtio
  <2>1. heard' \in 0..MaxHeard /\ staged' \in 0..Request
    BY <1>t, <1>1, Polls, LoopBounds
  <2> QED
    BY <1>t, <1>1, <2>1, Polls DEF LoopTypeOK
<1>2. CASE TakeDatagram
  <2>1. inbox' \in Seq(1..MaxHeard) /\ Len(inbox') <= SocketDepth
    <3>1. CASE Len(inbox) < SocketDepth /\ inbox' = Append(inbox, staged)
      <4>1. staged \in 1..MaxHeard
        BY <1>2, TakesDatagram
      <4>2. inbox' \in Seq(1..MaxHeard) /\ Len(inbox') = Len(inbox) + 1 /\ Len(inbox) \in Nat
        BY <1>t, <3>1, <4>1
      <4> QED
        BY <3>1, <4>2, LoopBounds
    <3>2. CASE inbox' = inbox
      BY <1>t, <3>2
    <3> QED
      BY <1>2, <3>1, <3>2, TakesDatagram
  <2>2. staged' \in 0..Request
    BY <1>2, TakesDatagram, LoopBounds
  <2> QED
    BY <1>t, <1>2, <2>1, <2>2, TakesDatagram DEF LoopTypeOK
<1>3. CASE AnswerRequest \/ Resolve
  <2>1. Len(label') = sent' /\ label' \in Seq(Labels)
    <3>1. CASE UNCHANGED <<label, sent>>
      BY <1>t, <3>1
    <3> QED
      BY <1>3, <1>f, <3>1, SendsOwn
  <2>2. staged' \in 0..Request
    BY <1>t, <1>3, SendsOwn, LoopBounds
  <2> QED
    BY <1>t, <1>3, <2>1, <2>2, SendsOwn DEF LoopTypeOK
<1>4. CASE EmitEcho
  <2>1. /\ outbox' \in Seq(1..MaxHeard) /\ Len(outbox') <= SocketDepth
        /\ Head(outbox) \in 1..MaxHeard
    <3>1. outbox # <<>> /\ outbox' = Tail(outbox)
      BY <1>4, Emits
    <3>2. /\ Tail(outbox) \in Seq(1..MaxHeard) /\ Len(Tail(outbox)) = Len(outbox) - 1
          /\ Head(outbox) \in 1..MaxHeard /\ Len(outbox) \in Nat
      BY <1>t, <3>1, HeadTailProperties, LenProperties
    <3> QED
      BY <1>t, <3>1, <3>2, LoopBounds
  <2>2. Len(label') = sent' /\ label' \in Seq(Labels)
    <3>1. Head(outbox) \in Nat
      BY <2>1, LoopBounds
    <3>2. CASE label' = Append(label, Frame("echo", Head(outbox))) /\ sent' = sent + 1
      BY <1>f, <3>1, <3>2
    <3>3. CASE UNCHANGED <<label, sent>>
      BY <1>t, <3>3
    <3> QED
      BY <1>4, <3>2, <3>3, Emits
  <2> QED
    BY <1>t, <1>4, <2>1, <2>2, Emits DEF LoopTypeOK
<1>5. CASE Recv
  <2>1. CASE inbox = <<>> /\ inbox' = inbox /\ outbox' = outbox
    BY <1>t, <1>5, <2>1, ReceivesDatagram DEF LoopTypeOK
  <2>2. CASE /\ inbox # <<>> /\ inbox' = Tail(inbox)
             /\ \/ Len(outbox) < SocketDepth /\ outbox' = Append(outbox, Head(inbox))
                \/ outbox' = outbox
    <3>1. /\ Tail(inbox) \in Seq(1..MaxHeard) /\ Len(Tail(inbox)) = Len(inbox) - 1
          /\ Head(inbox) \in 1..MaxHeard /\ Len(inbox) \in Nat
      BY <1>t, <2>2, HeadTailProperties, LenProperties
    <3>2. inbox' \in Seq(1..MaxHeard) /\ Len(inbox') <= SocketDepth
      BY <1>t, <2>2, <3>1, LoopBounds
    <3>3. outbox' \in Seq(1..MaxHeard) /\ Len(outbox') <= SocketDepth
      <4>1. CASE Len(outbox) < SocketDepth /\ outbox' = Append(outbox, Head(inbox))
        <5>1. /\ outbox' \in Seq(1..MaxHeard) /\ Len(outbox') = Len(outbox) + 1
              /\ Len(outbox) \in Nat
          BY <1>t, <3>1, <4>1
        <5> QED
          BY <4>1, <5>1, LoopBounds
      <4>2. CASE outbox' = outbox
        BY <1>t, <4>2
      <4> QED
        BY <2>2, <4>1, <4>2
    <3> QED
      BY <1>t, <1>5, <3>2, <3>3, ReceivesDatagram DEF LoopTypeOK
  <2> QED
    BY <1>5, <2>1, <2>2, ReceivesDatagram
<1>6. CASE Beat
  <2>1. Len(label') = sent' /\ label' \in Seq(Labels)
    BY <1>t, <1>6, <1>f, Beating
  <2>2. epoch' \in Nat
    BY <1>t, <1>6, Beating
  <2> QED
    BY <1>t, <1>6, <2>1, <2>2, Beating DEF LoopTypeOK
<1>7. CASE /\ UNCHANGED <<epoch, staged, inbox, outbox, heard, label, sent>>
           /\ phase' \in {phase, "poll", "recv", "beat"}
  BY <1>t, <1>7 DEF LoopTypeOK
<1> QED
  BY LoopCases, <1>1, <1>2, <1>3, <1>4, <1>5, <1>6, <1>7

\* One more frame sent: the heartbeats before it are the same, and it may be one more.
LEMMA OneMore ==
  ASSUME label \in Seq(Labels), NEW f \in Labels, label' = Append(label, f)
  PROVE  /\ Len(label') = Len(label) + 1 /\ Len(label) \in Nat
         /\ label'[Len(label) + 1] = f
         /\ \A k \in 1..Len(label) : label'[k] = label[k]
         /\ \A k \in 0..Len(label) : Beats(k)' = Beats(k)
         /\ f.kind # "beat" =>
              Cardinality(Beats(Len(label)))' = Cardinality(Beats(Len(label)))
         /\ f.kind = "beat" =>
              Cardinality(Beats(Len(label)))' = Cardinality(Beats(Len(label))) + 1
<1>1. /\ Len(label') = Len(label) + 1 /\ Len(label) \in Nat
      /\ label'[Len(label) + 1] = f
      /\ \A k \in 1..Len(label) : label'[k] = label[k]
  BY AppendProperties, LenProperties
<1>2. ASSUME NEW k \in 0..Len(label) PROVE Beats(k)' = Beats(k)
  <2>1. \A j \in 1..k : label'[j] = label[j]
    BY <1>1
  <2> QED
    BY <2>1 DEF Beats
<1> DEFINE m == Len(label) + 1
           old == Beats(Len(label))
           new == {j \in 1..m : label'[j].kind = "beat"}
<1>3. Beats(Len(label))' = new
  BY <1>1 DEF Beats
<1>4. IsFiniteSet(old) /\ m \notin old
  <2>1. old \subseteq 1..Len(label)
    BY DEF Beats
  <2>2. IsFiniteSet(1..Len(label))
    BY <1>1, FS_Interval
  <2>3. m \notin 1..Len(label)
    BY <1>1
  <2> QED
    BY <2>1, <2>2, <2>3, FS_Subset
<1>5. CASE f.kind = "beat"
  <2>1. new = old \cup {m}
    BY <1>1, <1>5 DEF Beats
  <2>2. Cardinality(new) = Cardinality(old) + 1
    BY <1>4, <2>1, FS_AddElement
  <2> QED
    BY <1>1, <1>2, <1>3, <1>5, <2>2
<1>6. CASE f.kind # "beat"
  <2>1. new = old
    BY <1>1, <1>6 DEF Beats
  <2> QED
    BY <1>1, <1>2, <1>3, <1>6, <2>1
<1> QED
  BY <1>5, <1>6

\* The epoch is the number of heartbeats, and every heartbeat carries how many went before.
LEMMA LabelStep ==
  ASSUME LoopTypeOK, TypeOK, LabelInv, [LoopNext]_loopAll
  PROVE  LabelInv'
<1>t. /\ label \in Seq(Labels) /\ Len(label) \in Nat
      /\ epoch = Cardinality(Beats(Len(label)))
      /\ \A k \in 1..Len(label) :
           label[k].kind = "beat" => label[k].n = Cardinality(Beats(k - 1))
  BY LenProperties DEF LabelInv
<1>l. label' \in Seq(Labels)
  BY LoopTypesStep DEF LabelInv
<1>s. ASSUME UNCHANGED <<label, epoch>> PROVE LabelInv'
  BY <1>s DEF LabelInv, Beats
<1>f. ASSUME NEW f \in Labels, label' = Append(label, f),
             f.kind = "beat" => f.n = epoch /\ epoch' = epoch + 1,
             f.kind # "beat" => epoch' = epoch
      PROVE  LabelInv'
  <2>1. /\ Len(label') = Len(label) + 1
        /\ label'[Len(label) + 1] = f
        /\ \A k \in 1..Len(label) : label'[k] = label[k]
        /\ \A k \in 0..Len(label) : Beats(k)' = Beats(k)
        /\ f.kind # "beat" =>
              Cardinality(Beats(Len(label)))' = Cardinality(Beats(Len(label)))
        /\ f.kind = "beat" =>
              Cardinality(Beats(Len(label)))' = Cardinality(Beats(Len(label))) + 1
    BY <1>t, <1>f, OneMore
  <2>2. epoch' = Cardinality(Beats(Len(label)))'
    BY <1>t, <1>f, <2>1
  <2>3. ASSUME NEW k \in 1..Len(label'), label'[k].kind = "beat"
        PROVE  label'[k].n = Cardinality(Beats(k - 1)')
    <3>1. k - 1 \in 0..Len(label)
      BY <1>t, <2>1
    <3>2. Beats(k - 1)' = Beats(k - 1)
      BY <2>1, <3>1
    <3>3. CASE k = Len(label) + 1
      <4>1. k - 1 = Len(label)
        BY <1>t, <3>3
      <4> QED
        BY <1>t, <1>f, <2>1, <2>3, <3>2, <3>3, <4>1
    <3>4. CASE k \in 1..Len(label)
      BY <1>t, <2>1, <2>3, <3>2, <3>4
    <3> QED
      BY <1>t, <2>1, <3>3, <3>4
  <2> QED
    BY <1>l, <2>2, <2>3 DEF LabelInv
<1>1. CASE PollVirtio \/ TakeDatagram \/ Recv
  BY <1>1, <1>s, Polls, TakesDatagram, ReceivesDatagram
<1>2. CASE AnswerRequest \/ Resolve
  <2>1. Frame("stack", 0) \in Labels /\ Frame("stack", 0).kind # "beat"
    BY DEF Frame, Labels
  <2>2. CASE UNCHANGED <<label, sent>>
    BY <1>2, <1>s, <2>2, SendsOwn
  <2> QED
    BY <1>2, <1>f, <2>1, <2>2, SendsOwn
<1>3. CASE EmitEcho
  <2>1. CASE UNCHANGED <<label, sent>>
    BY <1>3, <1>s, <2>1, Emits
  <2>2. CASE label' = Append(label, Frame("echo", Head(outbox)))
    <3>1. Head(outbox) \in Nat
      <4>1. outbox \in Seq(1..MaxHeard) /\ outbox # <<>>
        BY <1>3, Emits DEF LoopTypeOK
      <4>2. Head(outbox) \in 1..MaxHeard
        BY <4>1, HeadTailProperties
      <4> QED
        BY <4>2, LoopBounds
    <3>2. /\ Frame("echo", Head(outbox)) \in Labels
          /\ Frame("echo", Head(outbox)).kind # "beat"
      BY <3>1 DEF Frame, Labels
    <3> QED
      BY <1>3, <1>f, <2>2, <3>2, Emits
  <2> QED
    BY <1>3, <2>1, <2>2, Emits
<1>4. CASE Beat
  <2>1. epoch \in Nat
    BY DEF LoopTypeOK
  <2>2. /\ Frame("beat", epoch) \in Labels /\ Frame("beat", epoch).kind = "beat"
        /\ Frame("beat", epoch).n = epoch
    BY <2>1 DEF Frame, Labels
  <2> QED
    BY <1>4, <1>f, <2>2, Beating
<1> QED
  BY LoopCases, <1>1, <1>2, <1>3, <1>4, <1>s

LEMMA PipeTypes ==
  ASSUME LoopTypeOK
  PROVE  /\ heard \in Nat /\ staged \in Nat
         /\ inbox \in Seq(1..MaxHeard) /\ Len(inbox) \in Nat
         /\ outbox \in Seq(1..MaxHeard) /\ Len(outbox) \in Nat
         /\ \A i \in 1..Len(inbox) : inbox[i] \in Nat
         /\ \A i \in 1..Len(outbox) : outbox[i] \in Nat
<1>1. /\ heard \in Nat /\ staged \in Nat
      /\ inbox \in Seq(1..MaxHeard) /\ outbox \in Seq(1..MaxHeard)
  BY LoopBounds DEF LoopTypeOK
<1>2. /\ \A i \in 1..Len(inbox) : inbox[i] \in 1..MaxHeard
      /\ \A i \in 1..Len(outbox) : outbox[i] \in 1..MaxHeard
  BY <1>1, ElementOfSeq
<1> QED
  BY <1>1, <1>2, LoopBounds, LenProperties

\* What came before the rest still does after any step.
LEMMA StaysBefore ==
  ASSUME LoopTypeOK, TypeOK, [LoopNext]_loopAll, NEW n \in Nat,
         Before(n, heard, staged, inbox)
  PROVE  Before(n, heard', staged', inbox')
<1>t. /\ heard \in Nat /\ staged \in Nat /\ inbox \in Seq(1..MaxHeard) /\ Len(inbox) \in Nat
      /\ \A i \in 1..Len(inbox) : inbox[i] \in Nat
      /\ n <= heard /\ (staged \in 1..MaxHeard => n < staged)
      /\ \A i \in 1..Len(inbox) : n < inbox[i]
  BY PipeTypes DEF Before
<1>1. CASE PollVirtio
  <2>1. n <= heard' /\ (staged' \in 1..MaxHeard => n < staged') /\ inbox' = inbox
    BY <1>t, <1>1, Polls, LoopBounds
  <2> QED
    BY <1>t, <2>1 DEF Before
<1>2. CASE TakeDatagram
  <2>1. staged' = 0 /\ heard' = heard /\ n < staged /\ staged \in 1..MaxHeard
    BY <1>t, <1>2, TakesDatagram
  <2>2. CASE inbox' = inbox
    BY <1>t, <2>1, <2>2 DEF Before
  <2>3. CASE inbox' = Append(inbox, staged)
    <3>1. /\ Len(inbox') = Len(inbox) + 1 /\ inbox'[Len(inbox) + 1] = staged
          /\ \A i \in 1..Len(inbox) : inbox'[i] = inbox[i]
      BY <1>t, <2>1, <2>3, AppendProperties
    <3>2. \A i \in 1..Len(inbox') : n < inbox'[i]
      BY <1>t, <2>1, <3>1
    <3> QED
      BY <1>t, <2>1, <3>2 DEF Before
  <2> QED
    BY <1>2, <2>2, <2>3, TakesDatagram
<1>3. CASE Recv
  <2>1. staged' = staged /\ heard' = heard
    BY <1>3, ReceivesDatagram
  <2>2. CASE inbox' = inbox
    BY <1>t, <2>1, <2>2 DEF Before
  <2>3. CASE inbox # <<>> /\ inbox' = Tail(inbox)
    <3>1. /\ Len(inbox') = Len(inbox) - 1
          /\ \A i \in 1..Len(inbox') : inbox'[i] = inbox[i + 1]
      BY <1>t, <2>3, HeadTailProperties
    <3>2. \A i \in 1..Len(inbox') : i + 1 \in 1..Len(inbox)
      BY <1>t, <3>1
    <3>3. \A i \in 1..Len(inbox) : n < inbox[i]
      BY <1>t DEF Before
    <3>4. \A i \in 1..Len(inbox') : n < inbox'[i]
      BY <3>1, <3>2, <3>3
    <3>5. (heard' = heard /\ staged' = staged) /\ Before(n, heard, staged, inbox)
      BY <1>t, <2>1
    <3> QED
      BY <3>4, <3>5 DEF Before
  <2> QED
    BY <1>3, <2>2, <2>3, ReceivesDatagram
<1>4. CASE UNCHANGED <<heard, inbox>> /\ staged' \in {staged, 0}
  BY <1>t, <1>4 DEF Before
<1> QED
  BY LoopCases, <1>1, <1>2, <1>3, <1>4, SendsOwn, Emits, Beating

\* Taking the first or adding a larger one at the end keeps a queue increasing.
LEMMA TailIncreases ==
  ASSUME NEW q \in Seq(Nat), q # <<>>, Increasing(q)
  PROVE  /\ Increasing(Tail(q)) /\ Head(q) = q[1] /\ Len(Tail(q)) = Len(q) - 1
         /\ \A i \in 1..Len(Tail(q)) : Tail(q)[i] = q[i + 1] /\ Head(q) < Tail(q)[i]
<1>1. /\ Len(q) \in Nat \ {0} /\ Tail(q) \in Seq(Nat) /\ Len(Tail(q)) = Len(q) - 1
      /\ \A i \in 1..Len(Tail(q)) : Tail(q)[i] = q[i + 1]
  BY HeadTailProperties, EmptySeq
<1>2. Head(q) = q[1]
  BY <1>1
<1>3. \A i \in 1..Len(Tail(q)) : i + 1 \in 1..Len(q) /\ 1 < i + 1 /\ 1 \in 1..Len(q)
  BY <1>1
<1>4. \A i, j \in 1..Len(Tail(q)) : i < j => i + 1 < j + 1
  BY <1>1
<1> QED
  BY <1>1, <1>2, <1>3, <1>4 DEF Increasing

LEMMA AppendIncreases ==
  ASSUME NEW q \in Seq(Nat), Increasing(q), NEW e \in Nat, \A i \in 1..Len(q) : q[i] < e
  PROVE  Increasing(Append(q, e))
<1>1. /\ Len(q) \in Nat /\ Len(Append(q, e)) = Len(q) + 1
      /\ \A i \in 1..Len(q) : Append(q, e)[i] = q[i]
      /\ Append(q, e)[Len(q) + 1] = e
  BY AppendProperties, LenProperties
<1>2. ASSUME NEW i \in 1..(Len(q) + 1), NEW j \in 1..(Len(q) + 1), i < j
      PROVE  Append(q, e)[i] < Append(q, e)[j]
  <2>1. i \in 1..Len(q)
    BY <1>1, <1>2
  <2>2. CASE j = Len(q) + 1
    BY <1>1, <2>1, <2>2
  <2>3. CASE j \in 1..Len(q)
    BY <1>1, <1>2, <2>1, <2>3 DEF Increasing
  <2> QED
    BY <1>1, <2>2, <2>3
<1> QED
  BY <1>1, <1>2 DEF Increasing

\* The first datagram of the inbox came before the rest of it.
LEMMA FirstIsBefore ==
  ASSUME LoopTypeOK, PipeInv, inbox # <<>>
  PROVE  /\ Head(inbox) \in Nat /\ Head(inbox) = inbox[1] /\ 1 \in 1..Len(inbox)
         /\ Before(Head(inbox), heard, staged, Tail(inbox))
<1>1. inbox \in Seq(Nat) /\ Increasing(inbox) /\ 1 \in 1..Len(inbox) /\ inbox[1] \in Nat
  <2>1. inbox \in Seq(1..MaxHeard) /\ 1..MaxHeard \subseteq Nat
    BY LoopBounds DEF LoopTypeOK
  <2>2. inbox \in Seq(Nat)
    BY <2>1, SeqMonotonic
  <2>3. Len(inbox) \in Nat \ {0}
    BY <2>2, EmptySeq
  <2>4. 1 \in 1..Len(inbox)
    BY <2>3
  <2> QED
    BY <2>2, <2>4, ElementOfSeq DEF PipeInv
<1>2. /\ Head(inbox) = inbox[1]
      /\ \A i \in 1..Len(Tail(inbox)) : Head(inbox) < Tail(inbox)[i]
  BY <1>1, TailIncreases
<1>3. inbox[1] <= heard /\ (staged \in 1..MaxHeard => inbox[1] < staged)
  BY <1>1 DEF PipeInv
<1> QED
  BY <1>1, <1>2, <1>3 DEF Before

\* Every way through the socket keeps the order of arrival.
LEMMA PipeStep ==
  ASSUME LoopTypeOK, TypeOK, PipeInv, [LoopNext]_loopAll
  PROVE  PipeInv'
<1>t. /\ heard \in Nat /\ staged \in Nat /\ inbox \in Seq(1..MaxHeard) /\ Len(inbox) \in Nat
      /\ outbox \in Seq(1..MaxHeard) /\ Len(outbox) \in Nat
      /\ \A i \in 1..Len(inbox) : inbox[i] \in Nat
      /\ \A i \in 1..Len(outbox) : outbox[i] \in Nat
  BY PipeTypes
<1>q. inbox \in Seq(Nat) /\ outbox \in Seq(Nat)
  BY <1>t, LoopBounds, SeqMonotonic
<1>i. /\ staged \in 1..MaxHeard => staged = heard
      /\ Increasing(inbox) /\ Increasing(outbox)
      /\ \A i \in 1..Len(inbox) :
           inbox[i] <= heard /\ (staged \in 1..MaxHeard => inbox[i] < staged)
      /\ \A i \in 1..Len(outbox) : Before(outbox[i], heard, staged, inbox)
  BY DEF PipeInv
<1>b. \A i \in 1..Len(outbox) : Before(outbox[i], heard', staged', inbox')
  BY <1>t, <1>i, StaysBefore
<1>1. CASE PollVirtio
  <2>1. /\ staged' \in 1..MaxHeard => staged' = heard'
        /\ UNCHANGED <<inbox, outbox>>
        /\ \A i \in 1..Len(inbox) :
             inbox[i] <= heard' /\ (staged' \in 1..MaxHeard => inbox[i] < staged')
    BY <1>t, <1>i, <1>1, Polls, LoopBounds
  <2> QED
    BY <1>i, <1>b, <2>1 DEF PipeInv
<1>2. CASE TakeDatagram
  <2>1. /\ staged' = 0 /\ heard' = heard /\ outbox' = outbox /\ staged = heard
        /\ staged \in 1..MaxHeard
    BY <1>i, <1>2, TakesDatagram
  <2>2. Increasing(inbox') /\ \A i \in 1..Len(inbox') : inbox'[i] <= heard
    <3>1. CASE inbox' = inbox
      BY <1>i, <3>1
    <3>2. CASE inbox' = Append(inbox, staged)
      <4>1. Increasing(inbox')
        BY <1>t, <1>q, <1>i, <2>1, <3>2, AppendIncreases
      <4>2. /\ Len(inbox') = Len(inbox) + 1 /\ inbox'[Len(inbox) + 1] = staged
            /\ \A i \in 1..Len(inbox) : inbox'[i] = inbox[i]
        BY <1>t, <2>1, <3>2, AppendProperties
      <4>3. \A i \in 1..Len(inbox') : inbox'[i] <= heard
        BY <1>t, <1>i, <2>1, <4>2
      <4> QED
        BY <4>1, <4>3
    <3> QED
      BY <1>2, <3>1, <3>2, TakesDatagram
  <2>3. staged' \notin 1..MaxHeard
    BY <2>1
  <2> QED
    BY <1>i, <1>b, <2>1, <2>2, <2>3 DEF PipeInv
<1>3. CASE UNCHANGED <<inbox, outbox, heard>> /\ staged' \in {staged, 0}
  <2>1. /\ staged' \in 1..MaxHeard => staged' = heard'
        /\ \A i \in 1..Len(inbox) : staged' \in 1..MaxHeard => inbox[i] < staged'
    BY <1>i, <1>3
  <2> QED
    BY <1>i, <1>b, <1>3, <2>1 DEF PipeInv
<1>4. CASE EmitEcho
  <2>1. outbox # <<>> /\ outbox' = Tail(outbox) /\ UNCHANGED <<staged, inbox, heard>>
    BY <1>4, Emits
  <2>2. /\ Increasing(outbox') /\ Len(outbox') = Len(outbox) - 1
        /\ \A i \in 1..Len(outbox') : outbox'[i] = outbox[i + 1]
    BY <1>q, <1>i, <2>1, TailIncreases
  <2>3. \A i \in 1..Len(outbox') : Before(outbox'[i], heard', staged', inbox')
    <3>1. \A i \in 1..Len(outbox') : i + 1 \in 1..Len(outbox)
      BY <1>t, <2>2
    <3> QED
      BY <1>b, <2>2, <3>1
  <2> QED
    BY <1>i, <2>1, <2>2, <2>3 DEF PipeInv
<1>5. CASE Recv /\ inbox # <<>> /\ inbox' = Tail(inbox)
  <2>1. UNCHANGED <<staged, heard>>
    BY <1>5, ReceivesDatagram
  <2>2. /\ Increasing(inbox') /\ Len(inbox') = Len(inbox) - 1
        /\ \A i \in 1..Len(inbox') : inbox'[i] = inbox[i + 1]
    BY <1>q, <1>i, <1>5, TailIncreases
  <2>3. \A i \in 1..Len(inbox') :
          inbox'[i] <= heard' /\ (staged' \in 1..MaxHeard => inbox'[i] < staged')
    <3>1. \A i \in 1..Len(inbox') : i + 1 \in 1..Len(inbox)
      BY <1>t, <2>2
    <3> QED
      BY <1>i, <2>1, <2>2, <3>1
  <2>4. CASE outbox' = outbox
    BY <1>i, <1>b, <2>1, <2>2, <2>3, <2>4 DEF PipeInv
  <2>5. CASE outbox' = Append(outbox, Head(inbox))
    <3>1. /\ Head(inbox) \in Nat /\ Head(inbox) = inbox[1] /\ 1 \in 1..Len(inbox)
          /\ Before(Head(inbox), heard', staged', inbox')
      BY <1>5, <2>1, FirstIsBefore
    <3>2. \A i \in 1..Len(outbox) : outbox[i] < Head(inbox)
      BY <1>i, <3>1 DEF Before
    <3>3. Increasing(outbox')
      BY <1>q, <1>i, <2>5, <3>1, <3>2, AppendIncreases
    <3>4. /\ Len(outbox') = Len(outbox) + 1 /\ outbox'[Len(outbox) + 1] = Head(inbox)
          /\ \A i \in 1..Len(outbox) : outbox'[i] = outbox[i]
      BY <1>q, <2>5, <3>1, AppendProperties
    <3>5. ASSUME NEW i \in 1..Len(outbox')
          PROVE  Before(outbox'[i], heard', staged', inbox')
      <4>1. CASE i = Len(outbox) + 1
        BY <3>1, <3>4, <4>1
      <4>2. CASE i \in 1..Len(outbox)
        BY <1>b, <3>4, <4>2
      <4> QED
        BY <1>t, <3>4, <4>1, <4>2
    <3> QED
      BY <1>i, <2>1, <2>2, <2>3, <3>3, <3>5 DEF PipeInv
  <2> QED
    BY <1>5, <2>4, <2>5, ReceivesDatagram
<1>6. CASE Recv /\ UNCHANGED <<inbox, outbox>>
  BY <1>3, <1>6, ReceivesDatagram
<1> QED
  BY LoopCases, <1>1, <1>2, <1>3, <1>4, <1>5, <1>6, SendsOwn, Beating, ReceivesDatagram

\* An echo that has left came before all that is still waiting.
LEMMA EchoStep ==
  ASSUME LoopTypeOK, TypeOK, PipeInv, label \in Seq(Labels), EchoInv, [LoopNext]_loopAll
  PROVE  EchoInv'
<1>t. /\ heard \in Nat /\ staged \in Nat /\ inbox \in Seq(1..MaxHeard) /\ Len(inbox) \in Nat
      /\ outbox \in Seq(1..MaxHeard) /\ Len(outbox) \in Nat
      /\ \A i \in 1..Len(inbox) : inbox[i] \in Nat
      /\ \A i \in 1..Len(outbox) : outbox[i] \in Nat
  BY PipeTypes
<1>q. outbox \in Seq(Nat)
  BY <1>t, LoopBounds, SeqMonotonic
<1>l. /\ Len(label) \in Nat
      /\ \A k \in 1..Len(label) : label[k] \in Labels /\ label[k].n \in Nat
  <2>1. Len(label) \in Nat
    BY LenProperties
  <2>2. \A k \in 1..Len(label) : label[k] \in Labels
    BY ElementOfSeq
  <2>3. \A r \in Labels : r.n \in Nat
    BY DEF Labels
  <2> QED
    BY <2>1, <2>2, <2>3
<1>e. \A k \in 1..Len(label) : label[k].kind = "echo" =>
        /\ Before(label[k].n, heard, staged, inbox)
        /\ \A i \in 1..Len(outbox) : label[k].n < outbox[i]
        /\ \A j \in 1..Len(label) : k < j /\ label[j].kind = "echo" => label[k].n < label[j].n
  BY DEF EchoInv
<1>b. \A k \in 1..Len(label) : label[k].kind = "echo" =>
        Before(label[k].n, heard', staged', inbox')
  BY <1>l, <1>e, StaysBefore
<1>1. CASE UNCHANGED <<label, outbox>>
  BY <1>e, <1>b, <1>1 DEF EchoInv
<1>2. ASSUME NEW f \in Labels, f.kind # "echo", label' = Append(label, f), outbox' = outbox
      PROVE  EchoInv'
  <2>1. /\ Len(label') = Len(label) + 1 /\ label'[Len(label) + 1] = f
        /\ \A k \in 1..Len(label) : label'[k] = label[k]
    BY <1>2, AppendProperties
  <2>2. \A k \in 1..Len(label') : label'[k].kind = "echo" => k \in 1..Len(label)
    BY <1>2, <1>l, <2>1
  <2> QED
    BY <1>2, <1>e, <1>b, <2>1, <2>2 DEF EchoInv
<1>3. CASE EmitEcho
  <2>1. outbox # <<>> /\ outbox' = Tail(outbox)
    BY <1>3, Emits
  <2>2. /\ Head(outbox) = outbox[1] /\ Len(outbox') = Len(outbox) - 1
        /\ \A i \in 1..Len(outbox') : outbox'[i] = outbox[i + 1] /\ Head(outbox) < outbox'[i]
    BY <1>q, <2>1, TailIncreases DEF PipeInv
  <2>3. 1 \in 1..Len(outbox) /\ \A i \in 1..Len(outbox') : i + 1 \in 1..Len(outbox)
    <3>1. Len(outbox) \in Nat \ {0}
      BY <1>q, <2>1, EmptySeq
    <3> QED
      BY <2>2, <3>1
  <2>4. \A k \in 1..Len(label) : label[k].kind = "echo" =>
          /\ label[k].n < Head(outbox)
          /\ \A i \in 1..Len(outbox') : label[k].n < outbox'[i]
    BY <1>e, <2>2, <2>3
  <2>5. CASE label' = label
    BY <1>e, <1>b, <2>4, <2>5 DEF EchoInv
  <2>6. CASE label' = Append(label, Frame("echo", Head(outbox)))
    <3>1. Frame("echo", Head(outbox)) \in Labels /\ Head(outbox) \in Nat
      <4>1. Head(outbox) \in Nat
        BY <1>t, <2>2, <2>3
      <4> QED
        BY <4>1 DEF Frame, Labels
    <3>2. /\ Len(label') = Len(label) + 1
          /\ label'[Len(label) + 1] = Frame("echo", Head(outbox))
          /\ \A k \in 1..Len(label) : label'[k] = label[k]
      BY <2>6, <3>1, AppendProperties
    <3>3. label'[Len(label) + 1].n = Head(outbox) /\ label'[Len(label) + 1].kind = "echo"
      BY <3>2 DEF Frame
    <3>4. Before(Head(outbox), heard', staged', inbox')
      <4>1. Before(outbox[1], heard, staged, inbox)
        BY <2>3 DEF PipeInv
      <4> QED
        BY <2>2, <3>1, <4>1, StaysBefore
    <3>5. ASSUME NEW k \in 1..Len(label'), label'[k].kind = "echo"
          PROVE  /\ Before(label'[k].n, heard', staged', inbox')
                 /\ \A i \in 1..Len(outbox') : label'[k].n < outbox'[i]
                 /\ \A j \in 1..Len(label') :
                      k < j /\ label'[j].kind = "echo" => label'[k].n < label'[j].n
      <4>1. CASE k = Len(label) + 1
        <5>1. \A j \in 1..Len(label') : ~(k < j)
          BY <1>l, <3>2, <4>1
        <5> QED
          BY <2>2, <3>3, <3>4, <4>1, <5>1
      <4>2. CASE k \in 1..Len(label)
        <5>1. label'[k] = label[k]
          BY <3>2, <4>2
        <5>2. ASSUME NEW j \in 1..Len(label'), k < j, label'[j].kind = "echo"
              PROVE  label'[k].n < label'[j].n
          <6>1. CASE j = Len(label) + 1
            BY <2>4, <3>3, <3>5, <4>2, <5>1, <6>1
          <6>2. CASE j \in 1..Len(label)
            BY <1>e, <3>2, <3>5, <4>2, <5>1, <5>2, <6>2
          <6> QED
            BY <1>l, <3>2, <6>1, <6>2
        <5> QED
          BY <1>b, <2>4, <3>5, <4>2, <5>1, <5>2
      <4> QED
        BY <1>l, <3>2, <4>1, <4>2
    <3> QED
      BY <3>5 DEF EchoInv
  <2> QED
    BY <1>3, <2>5, <2>6, Emits
<1>4. CASE Recv
  <2>1. label' = label
    BY <1>4, ReceivesDatagram
  <2>2. CASE outbox' = outbox
    BY <1>1, <2>1, <2>2
  <2>3. CASE inbox # <<>> /\ outbox' = Append(outbox, Head(inbox))
    <3>1. Head(inbox) \in Nat /\ Head(inbox) = inbox[1] /\ 1 \in 1..Len(inbox)
      BY <2>3, FirstIsBefore
    <3>2. /\ Len(outbox') = Len(outbox) + 1 /\ outbox'[Len(outbox) + 1] = Head(inbox)
          /\ \A i \in 1..Len(outbox) : outbox'[i] = outbox[i]
      BY <1>q, <2>3, <3>1, AppendProperties
    <3>3. \A k \in 1..Len(label) : label[k].kind = "echo" => label[k].n < Head(inbox)
      BY <1>e, <3>1 DEF Before
    <3>4. \A k \in 1..Len(label) : label[k].kind = "echo" =>
            \A i \in 1..Len(outbox') : label[k].n < outbox'[i]
      <4> SUFFICES ASSUME NEW k \in 1..Len(label), label[k].kind = "echo",
                          NEW i \in 1..Len(outbox')
                   PROVE  label[k].n < outbox'[i]
        OBVIOUS
      <4>1. i = Len(outbox) + 1 \/ i \in 1..Len(outbox)
        BY <1>q, <3>2
      <4>2. CASE i = Len(outbox) + 1
        BY <3>2, <3>3, <4>2
      <4>3. CASE i \in 1..Len(outbox)
        BY <1>e, <3>2, <4>3
      <4> QED
        BY <4>1, <4>2, <4>3
    <3> QED
      BY <1>e, <1>b, <2>1, <3>4 DEF EchoInv
  <2> QED
    BY <1>4, <2>2, <2>3, ReceivesDatagram
<1>5. CASE AnswerRequest \/ Resolve
  <2>1. Frame("stack", 0) \in Labels /\ Frame("stack", 0).kind # "echo"
    BY DEF Frame, Labels
  <2>2. CASE UNCHANGED <<label, sent>>
    BY <1>1, <1>5, <2>2, SendsOwn
  <2> QED
    BY <1>2, <1>5, <2>1, <2>2, SendsOwn
<1>6. CASE Beat
  <2>1. epoch \in Nat
    BY DEF LoopTypeOK
  <2>2. Frame("beat", epoch) \in Labels /\ Frame("beat", epoch).kind # "echo"
    BY <2>1 DEF Frame, Labels
  <2> QED
    BY <1>2, <1>6, <2>2, Beating
<1>7. CASE PollVirtio \/ TakeDatagram
  BY <1>1, <1>7, Polls, TakesDatagram
<1> QED
  BY LoopCases, <1>1, <1>3, <1>4, <1>5, <1>6, <1>7

LEMMA LoopStep ==
  ASSUME Patient, LoopIInv, [LoopNext]_loopAll
  PROVE  LoopIInv'
<1>i. RingIInv /\ LoopTypeOK /\ PipeInv /\ LabelInv /\ EchoInv /\ TypeOK /\ label \in Seq(Labels)
  BY DEF LoopIInv, RingIInv, LabelInv
<1>1. RingIInv'
  BY <1>i, LoopRunsRing, RingStep
<1>2. LoopTypeOK'
  BY <1>i, LoopTypesStep
<1>3. PipeInv'
  BY <1>i, PipeStep
<1>4. LabelInv'
  BY <1>i, LabelStep
<1>5. EchoInv'
  BY <1>i, EchoStep
<1> QED
  BY <1>1, <1>2, <1>3, <1>4, <1>5 DEF LoopIInv

\* What has been fetched has been sent.
LEMMA FetchedIsSent ==
  ASSUME RingIInv
  PROVE  /\ Len(wire) \in Nat /\ sent \in Int /\ Len(wire) <= sent
         /\ fetched # Nobody => Len(wire) + 1 <= sent
<1>1. Len(wire) \in Nat /\ Published \in Int /\ sent \in Int /\ Fetched \in Nat
  BY Numbers DEF RingIInv
<1>2. Fetched <= Published
  BY DEF RingIInv, DeviceInv
<1>3. Published <= sent
  BY <1>1 DEF Published
<1>4. Len(wire) <= Fetched /\ (fetched # Nobody => Fetched = Len(wire) + 1)
  BY <1>1 DEF Fetched
<1> QED
  BY <1>1, <1>2, <1>3, <1>4

\* The i-th frame out is the i-th frame sent.
LEMMA OutIsLabel ==
  ASSUME LoopIInv
  PROVE  /\ Len(wire) \in Nat /\ Len(wire) <= Len(label) /\ Len(label) \in Nat
         /\ \A i \in 1..Len(wire) : Out[i] = label[i]
<1>1. Len(wire) \in Nat /\ sent \in Int
  BY FetchedIsSent DEF LoopIInv
<1>2. Len(wire) <= sent
  BY FetchedIsSent DEF LoopIInv
<1>3. Len(label) = sent
  BY DEF LoopIInv, LoopTypeOK
<1>4. ASSUME NEW i \in 1..Len(wire) PROVE Out[i] = label[i]
  <2>1. wire[i] = i \/ (~ordered /\ i <= Depth)
    BY DEF LoopIInv, RingIInv, SharedInv
  <2>2. Out[i] = label[IF ~ordered /\ i <= Depth THEN i ELSE wire[i]]
    BY DEF Out
  <2> QED
    BY <2>1, <2>2
<1> QED
  BY <1>1, <1>2, <1>3, <1>4

LEMMA LoopInvFollows ==
  ASSUME LoopIInv
  PROVE  LoopInv
<1>o. /\ Len(wire) \in Nat /\ Len(wire) <= Len(label) /\ Len(label) \in Nat
      /\ \A i \in 1..Len(wire) : Out[i] = label[i]
  BY OutIsLabel
<1>1. Inv /\ LoopTypeOK
  BY RingHolds DEF LoopIInv
<1>2. HeartbeatsInOrder
  <2> SUFFICES ASSUME NEW i \in 1..Len(wire), Out[i].kind = "beat"
               PROVE  Out[i].n = Cardinality({j \in 1..(i - 1) : Out[j].kind = "beat"})
    BY DEF HeartbeatsInOrder
  <2>1. {j \in 1..(i - 1) : Out[j].kind = "beat"} = Beats(i - 1)
    <3>1. \A j \in 1..(i - 1) : Out[j] = label[j]
      BY <1>o
    <3> QED
      BY <3>1 DEF Beats
  <2>2. i \in 1..Len(label) /\ Out[i] = label[i]
    BY <1>o
  <2>3. label[i].n = Cardinality(Beats(i - 1))
    BY <2>2 DEF LoopIInv, LabelInv
  <2> QED
    BY <2>1, <2>2, <2>3
<1>3. EchoesInOrder
  <2>1. \A i \in 1..Len(wire) : i \in 1..Len(label)
    BY <1>o
  <2> QED
    BY <1>o, <2>1 DEF EchoesInOrder, LoopIInv, EchoInv
<1> QED
  BY <1>1, <1>2, <1>3 DEF LoopInv

-----------------------------------------------------------------------------

\* If a slot is always freed within the spins, the ring is intact whatever the depth, the
\* width of the indices and the order of the stores; the heartbeats leave in the order of
\* their epochs with none missing, and the echoes in the order of the datagrams.
THEOREM LoopInvHolds ==
  ASSUME Patient
  PROVE  LoopSpec => []LoopInv
<1>1. LoopInit => LoopIInv
  BY Initially
<1>2. LoopIInv /\ [LoopNext]_<<vars, loopVars>> => LoopIInv'
  BY LoopStep DEF loopAll
<1>3. LoopIInv => LoopInv
  BY LoopInvFollows
<1> QED
  BY <1>1, <1>2, <1>3, PTL DEF LoopSpec

\* Every step of the loop is, on the wire, a frame sent, the next frame out, or nothing.
THEOREM FramesLeaveInOrder ==
  ASSUME Patient
  PROVE  LoopSpec => ImplementsInOrderWire
<1> DEFINE out == [i \in 1..Len(wire) |-> IF ~ordered /\ i <= Depth THEN i ELSE wire[i]]
<1>1. LoopInit => Wire!Init
  <2> SUFFICES ASSUME LoopInit PROVE sent = 0 /\ out = <<>>
    BY DEF Wire!Init
  <2>1. sent = 0 /\ wire = <<>> /\ Len(wire) = 0
    BY DEF LoopInit, Init
  <2>2. 1..Len(wire) = {}
    BY <2>1
  <2> QED
    BY <2>1, <2>2
<1>2. LoopIInv /\ [LoopNext]_<<vars, loopVars>> => LoopIInv'
  BY LoopStep DEF loopAll
<1>3. LoopIInv /\ LoopIInv' /\ [LoopNext]_<<vars, loopVars>> => [Wire!Next]_Wire!deliveryVars
  <2> SUFFICES ASSUME LoopIInv, LoopIInv', [LoopNext]_<<vars, loopVars>>
               PROVE  Wire!Next \/ UNCHANGED <<sent, out>>
    BY DEF Wire!deliveryVars
  <2>1. [Next]_vars
    BY LoopRunsRing DEF loopAll
  <2>2. CASE Start
    <3>1. sent' = sent + 1 /\ out' = out
      BY <2>2 DEF Start, deviceVars
    <3> QED
      BY <3>1 DEF Wire!Next, Wire!Send
  <2>3. CASE Transmit
    <3>1. /\ \A i \in 1..Len(wire) : wire[i] = i \/ (~ordered /\ i <= Depth)
          /\ \A i \in 1..Len(wire') : wire'[i] = i \/ (~ordered' /\ i <= Depth)
      BY DEF LoopIInv, RingIInv, SharedInv
    <3>2. /\ Len(wire) \in Nat /\ wire \in Seq(0..MaxFrames)
          /\ Len(wire') = Len(wire) + 1 /\ sent' = sent /\ ordered' = ordered
      BY <2>3, Numbers DEF Transmit, driverVars, LoopIInv, RingIInv
    <3> DEFINE m == Len(wire) + 1
               next == [i \in 1..m |-> IF i <= Len(out) THEN out[i] ELSE i]
    <3>3. m \in Len(out)..sent
      <4>1. m <= sent
        BY <2>3, FetchedIsSent DEF Transmit, LoopIInv
      <4>2. sent \in Int
        BY Numbers DEF LoopIInv, RingIInv
      <4>3. Len(out) = Len(wire)
        BY <3>2
      <4> QED
        BY <3>2, <4>1, <4>2, <4>3
    <3>4. DOMAIN out' = 1..m /\ \A i \in 1..m : out'[i] = i
      BY <3>1, <3>2
    <3>5. DOMAIN next = 1..m /\ \A i \in 1..m : next[i] = i
      <4>1. Len(out) = Len(wire) /\ \A i \in 1..Len(wire) : out[i] = i
        BY <3>1, <3>2
      <4> QED
        BY <3>2, <4>1
    <3>6. out' = next
      BY <3>4, <3>5
    <3> QED
      BY <3>2, <3>3, <3>6 DEF Wire!Next, Wire!Deliver
  <2>4. CASE UNCHANGED <<sent, ordered, wire>>
    BY <2>4
  <2> QED
    BY <2>1, <2>2, <2>3, <2>4 DEF Next, Driver, Device, WaitSlot, Fill, PublishRing,
       PublishIndex, EarlyIndex, LateRing, Notify, Settle, Fetch, GoIdle, vars, driverVars,
       sharedVars, deviceVars
<1>4. LoopInit => LoopIInv
  BY Initially
<1> QED
  BY <1>1, <1>2, <1>3, <1>4, PTL DEF LoopSpec, ImplementsInOrderWire, Wire!Spec

-----------------------------------------------------------------------------
(* The receive ring.                                                       *)

\* Frames of which the device has given the buffer back.
Completed == received - IF filling = Nobody THEN 0 ELSE 1

\* Frames handled of which k are posted again.
Handled(k) == k + IF rx_pc \in {"repost", "publish"} THEN 1 ELSE 0

\* The positions in the rings, counted from the beginning, when k buffers have been posted
\* again: the used ring is read at k, the avail ring written at k + Depth.
Counters(k) ==
  /\ k <= Completed /\ received <= k + Depth
  /\ last_used = k % IdxMod /\ rx_avail_idx = (k + Depth) % IdxMod
  /\ rx_used_idx = Completed % IdxMod /\ rx_last_avail = received % IdxMod

\* Buffers go round in their order, so that frame n is in the buffer n-1 modulo the depth.
Rounds(k) ==
  /\ avail = [i \in Slots |-> i]
  /\ filling # Nobody => filling = (received - 1) % Depth
  /\ \A n \in (k + 1)..Completed : used[(n - 1) % Depth] = (n - 1) % Depth
  /\ \A n \in (k + 1)..received : rx_buffers[(n - 1) % Depth] = n
  /\ rx_pc \in {"handle", "repost", "publish"} => k < Completed /\ desc_id = k % Depth
  /\ rx_pc = "late" => 0 < k /\ desc_id = (k - 1) % Depth

\* What is staged or delivered has been handled.
Staged(k) ==
  /\ drained <= Handled(k)
  /\ rx_ready => rx_eth \in 1..Handled(k) /\ rx_eth \notin Runts
  /\ \A i \in 1..Len(delivered) : delivered[i] <= Handled(k)

RxAt(k) == Counters(k) /\ Rounds(k) /\ Staged(k)

\* The inductive invariant of the receive path.
RxIInv == RxTypeOK /\ NewerFrames /\ \E k \in Nat : RxAt(k)

-----------------------------------------------------------------------------

LEMMA RxNumbers ==
  ASSUME RxTypeOK
  PROVE  /\ received \in Nat /\ Completed \in Int
         /\ last_used \in Int /\ rx_avail_idx \in Int /\ rx_used_idx \in Int
         /\ rx_last_avail \in Int /\ desc_id \in Slots /\ drained \in Nat
         /\ \A k \in Nat : Handled(k) \in Nat
<1>1. /\ received \in Nat
      /\ last_used \in Int /\ rx_avail_idx \in Int /\ rx_used_idx \in Int
      /\ rx_last_avail \in Int /\ desc_id \in Slots /\ drained \in Nat
  BY Bounds DEF RxTypeOK
<1>2. Completed \in Int
  BY <1>1 DEF Completed
<1>3. \A k \in Nat : Handled(k) \in Nat
  BY DEF Handled
<1> QED
  BY <1>1, <1>2, <1>3

\* A number is a slot's a lap later, too.
LEMMA NextLap ==
  ASSUME NEW a \in Int
  PROVE  (a + Depth) % Depth = a % Depth
<1>1. PICK d \in Nat \ {0} : d = Depth
  BY Bounds
<1>2. a + d = d * 1 + a /\ a + d \in Int
  OBVIOUS
<1>3. Congruent(a + d, a, d)
  BY <1>2 DEF Congruent
<1>4. (a + d) % d = a % d
  BY <1>2, <1>3, SameRemainder, ZenonT(60)
<1> QED
  BY <1>1, <1>4

LEMMA RxInitially == RxInit => RxIInv
<1> SUFFICES ASSUME RxInit PROVE RxIInv
  OBVIOUS
<1>1. /\ rx_avail_idx = Depth /\ avail = [i \in Slots |-> i]
      /\ rx_used_idx = 0 /\ used = [i \in Slots |-> 0]
      /\ rx_buffers = [i \in Slots |-> 0]
      /\ last_used = 0 /\ rx_pc = "idle" /\ desc_id = 0 /\ drained = 0
      /\ rx_eth = 0 /\ delivered = <<>> /\ Len(delivered) = 0
      /\ rx_last_avail = 0 /\ filling = Nobody /\ received = 0
  BY DEF RxInit
<1>2. rx_ready \in BOOLEAN /\ ~rx_ready /\ rx_awake \in BOOLEAN
  BY Zenon DEF RxInit
<1>3. 0 \in Slots /\ 0 \in 0..(IdxMod - 1) /\ 0 \in 0..MaxFrames /\ Depth \in 0..(IdxMod - 1)
  BY Bounds
<1>4. /\ avail \in [Slots -> Slots] /\ used \in [Slots -> Slots]
      /\ rx_buffers \in [Slots -> 0..MaxFrames] /\ delivered \in Seq(1..MaxFrames)
  BY <1>1, <1>3
<1>5. RxTypeOK
  BY <1>1, <1>2, <1>3, <1>4 DEF RxTypeOK, RxPlaces
<1>6. Completed = 0 /\ Handled(0) = 0
  BY <1>1 DEF Completed, Handled
<1>7. 0 % IdxMod = 0 /\ (0 + Depth) % IdxMod = Depth /\ 0 <= 0 + Depth
  <2>1. /\ 0 \in Nat /\ Depth \in Nat /\ IdxMod \in Nat \ {0}
        /\ 0 < IdxMod /\ Depth < IdxMod /\ 0 + Depth = Depth /\ 0 <= Depth
    BY Bounds
  <2>2. 0 % IdxMod = 0 /\ Depth % IdxMod = Depth
    BY <2>1, Smaller, ZenonT(60)
  <2> QED
    BY <2>1, <2>2
<1>8. Counters(0)
  BY <1>1, <1>6, <1>7 DEF Counters
<1>9. Rounds(0)
  BY <1>1, <1>6 DEF Rounds
<1>10. Staged(0) /\ NewerFrames
  BY <1>1, <1>2, <1>6 DEF Staged, NewerFrames
<1> QED
  BY <1>5, <1>8, <1>9, <1>10 DEF RxIInv, RxAt

-----------------------------------------------------------------------------
(* The steps of the driver.                                                *)

\* Steps that leave the ring alone.
LEMMA SameRing ==
  ASSUME RxTypeOK, NEW k \in Nat, Counters(k), Rounds(k),
         UNCHANGED <<rx_avail_idx, avail, last_used, rxDeviceVars>>,
         rx_pc' \in {"handle", "repost", "publish"} => k < Completed /\ desc_id' = k % Depth,
         rx_pc' = "late" => 0 < k /\ desc_id' = (k - 1) % Depth
  PROVE  Counters(k)' /\ Rounds(k)'
<1>1. UNCHANGED <<rx_avail_idx, avail, last_used, rx_used_idx, used, rx_buffers, rx_last_avail,
                  filling, received>>
  BY DEF rxDeviceVars
<1>2. Completed' = Completed
  BY <1>1 DEF Completed
<1>3. Counters(k)'
  BY <1>1, <1>2 DEF Counters
<1>4. Rounds(k)'
  BY <1>1, <1>2 DEF Rounds
<1> QED
  BY <1>3, <1>4

LEMMA DeliveredAreFrames ==
  ASSUME RxTypeOK
  PROVE  \A i \in 1..Len(delivered) : delivered[i] \in Nat
<1> SUFFICES ASSUME NEW i \in 1..Len(delivered) PROVE delivered[i] \in Nat
  OBVIOUS
<1>1. delivered \in Seq(1..MaxFrames)
  BY DEF RxTypeOK
<1>2. delivered[i] \in 1..MaxFrames
  BY <1>1, ElementOfSeq
<1> QED
  BY <1>2, Bounds

\* Steps that neither stage nor deliver.
LEMMA SameStage ==
  ASSUME RxTypeOK, NEW k \in Nat, NEW m \in Nat, Staged(k), NewerFrames,
         UNCHANGED stageVars, Handled(k) <= Handled(m)', drained' <= Handled(m)'
  PROVE  Staged(m)' /\ NewerFrames'
<1>1. UNCHANGED <<rx_eth, rx_ready, delivered>>
  BY DEF stageVars
<1>2. Handled(k) \in Nat /\ Handled(m)' \in Nat
  BY DEF Handled
<1>3. rx_ready => rx_eth \in 1..Handled(m)' /\ rx_eth \notin Runts
  BY <1>2 DEF Staged
<1>4. \A i \in 1..Len(delivered) : delivered[i] \in Nat
  BY DeliveredAreFrames
<1>5. \A i \in 1..Len(delivered) : delivered[i] <= Handled(m)'
  BY <1>2, <1>4 DEF Staged
<1>6. Staged(m)'
  BY <1>1, <1>3, <1>5 DEF Staged
<1>7. NewerFrames'
  BY <1>1 DEF NewerFrames
<1> QED
  BY <1>6, <1>7

LEMMA PollStep ==
  ASSUME RxTypeOK, NewerFrames, NEW k \in Nat, RxAt(k), poll_virtio
  PROVE  RxTypeOK' /\ NewerFrames' /\ RxAt(k)'
<1>1. /\ rx_pc' \in {"stack", "drain"} /\ drained' = 0 /\ rx_pc = "idle"
      /\ UNCHANGED <<rx_avail_idx, avail, last_used, desc_id, stageVars, rxDeviceVars, rx_awake>>
  BY DEF poll_virtio
<1>2. RxTypeOK'
  <2>1. rx_pc' \in RxPlaces /\ drained' \in 0..MaxFrames
    BY <1>1, Bounds DEF RxPlaces
  <2> QED
    BY <1>1, <2>1 DEF RxTypeOK, rxDeviceVars, stageVars
<1>3. Counters(k)' /\ Rounds(k)'
  BY <1>1, SameRing DEF RxAt
<1>4. Handled(k)' = Handled(k) /\ Handled(k) \in Nat
  BY <1>1 DEF Handled
<1>5. Staged(k)' /\ NewerFrames'
  BY <1>1, <1>4, SameStage DEF RxAt
<1> QED
  BY <1>2, <1>3, <1>5 DEF RxAt

LEMMA TakeUsedStep ==
  ASSUME RxTypeOK, NewerFrames, NEW k \in Nat, RxAt(k), TakeUsed
  PROVE  RxTypeOK' /\ NewerFrames' /\ RxAt(k)'
<1>1. /\ rx_pc = "drain" /\ drained' = drained
      /\ UNCHANGED <<rx_avail_idx, avail, last_used, stageVars, rxDeviceVars, rx_awake>>
  BY DEF TakeUsed
<1>2. CASE last_used = rx_used_idx
  <2>1. rx_pc' \in {"kick", "stack"} /\ desc_id' = desc_id
    BY <1>2 DEF TakeUsed
  <2>2. RxTypeOK'
    <3>1. rx_pc' \in RxPlaces
      BY <2>1 DEF RxPlaces
    <3> QED
      BY <1>1, <2>1, <3>1 DEF RxTypeOK, rxDeviceVars, stageVars
  <2>3. Counters(k)' /\ Rounds(k)'
    BY <1>1, <2>1, SameRing DEF RxAt
  <2>4. Handled(k)' = Handled(k) /\ Handled(k) \in Nat
    BY <1>1, <2>1 DEF Handled
  <2>5. Staged(k)' /\ NewerFrames'
    <3>1. drained' <= Handled(k)'
      BY <1>1, <2>4 DEF RxAt, Staged
    <3> QED
      BY <1>1, <2>4, <3>1, SameStage DEF RxAt
  <2> QED
    BY <2>2, <2>3, <2>5 DEF RxAt
<1>3. CASE last_used # rx_used_idx
  <2>1. rx_pc' = "handle" /\ desc_id' = used[last_used % Depth]
    BY <1>3 DEF TakeUsed
  <2>2. k < Completed
    <3>1. k <= Completed /\ Completed \in Int
      BY RxNumbers DEF RxAt, Counters
    <3>2. k # Completed
      BY <1>3 DEF RxAt, Counters
    <3> QED
      BY <3>1, <3>2
  <2>3. last_used % Depth = k % Depth
    BY Reduced DEF RxAt, Counters
  <2>4. used[k % Depth] = k % Depth
    <3>1. k + 1 \in (k + 1)..Completed
      BY <2>2, RxNumbers
    <3>2. (k + 1) - 1 = k
      OBVIOUS
    <3> QED
      BY <3>1, <3>2 DEF RxAt, Rounds
  <2>5. desc_id' = k % Depth /\ desc_id' \in Slots
    BY <2>1, <2>3, <2>4, SlotOf
  <2>6. RxTypeOK'
    <3>1. rx_pc' \in RxPlaces
      BY <2>1 DEF RxPlaces
    <3>2. desc_id' \in Slots
      BY <2>5
    <3> QED
      BY <1>1, <3>1, <3>2 DEF RxTypeOK, rxDeviceVars, stageVars
  <2>7. Counters(k)' /\ Rounds(k)'
    <3>1. rx_pc' # "late" /\ k < Completed /\ desc_id' = k % Depth
      BY <2>1, <2>2, <2>5
    <3> QED
      BY <1>1, <3>1, SameRing DEF RxAt
  <2>8. Handled(k)' = Handled(k) /\ Handled(k) \in Nat
    BY <1>1, <2>1 DEF Handled
  <2>9. Staged(k)' /\ NewerFrames'
    <3>1. drained' <= Handled(k)'
      BY <1>1, <2>8 DEF RxAt, Staged
    <3> QED
      BY <1>1, <2>8, <3>1, SameStage DEF RxAt
  <2> QED
    BY <2>6, <2>7, <2>9 DEF RxAt
<1> QED
  BY <1>2, <1>3

LEMMA HandleStep ==
  ASSUME RxTypeOK, NewerFrames, NEW k \in Nat, RxAt(k), Handle
  PROVE  RxTypeOK' /\ NewerFrames' /\ RxAt(k)'
<1>1. /\ rx_pc = "handle" /\ rx_pc' = "repost"
      /\ UNCHANGED <<rx_avail_idx, avail, last_used, desc_id, delivered, rxDeviceVars, rx_awake>>
  BY DEF Handle
<1>2. k < Completed /\ desc_id = k % Depth
  BY <1>1 DEF RxAt, Rounds
<1>3. Completed <= received /\ received \in Nat /\ Completed \in Int /\ received <= MaxFrames
  BY RxNumbers, Bounds DEF Completed, RxTypeOK
<1>4. rx_buffers[desc_id] = k + 1
  <2>1. k + 1 \in (k + 1)..received
    BY <1>2, <1>3
  <2>2. (k + 1) - 1 = k
    OBVIOUS
  <2> QED
    BY <1>2, <2>1, <2>2 DEF RxAt, Rounds
<1>5. Handled(k)' = k + 1 /\ Handled(k) = k
  BY <1>1 DEF Handled
<1>6. drained' \in 0..MaxFrames /\ drained' <= k + 1
  <2>1. drained \in Nat /\ drained <= k
    BY <1>5, RxNumbers DEF RxAt, Staged
  <2>2. k + 1 <= MaxFrames /\ MaxFrames \in Nat
    BY <1>2, <1>3, Bounds
  <2>3. drained' = drained \/ drained' = drained + 1
    BY Zenon DEF Handle, Hands
  <2> QED
    BY <2>1, <2>2, <2>3
<1>7. \/ rx_eth' = rx_eth /\ rx_ready' = rx_ready
      \/ k + 1 \notin Runts /\ rx_eth' = k + 1 /\ rx_ready' = TRUE
  BY <1>4, Zenon DEF Handle, Hands, Stages
<1>8. RxTypeOK'
  <2>1. rx_eth' \in 0..MaxFrames
    <3>1. rx_eth \in 0..MaxFrames
      BY DEF RxTypeOK
    <3>2. k + 1 \in 0..MaxFrames
      BY <1>2, <1>3, Bounds
    <3> QED
      BY <1>7, <3>1, <3>2
  <2>2. rx_ready' \in BOOLEAN
    BY <1>7, Zenon DEF RxTypeOK
  <2>3. rx_pc' \in RxPlaces
    BY <1>1 DEF RxPlaces
  <2> QED
    BY <1>1, <1>6, <2>1, <2>2, <2>3 DEF RxTypeOK, rxDeviceVars
<1>9. Counters(k)' /\ Rounds(k)'
  BY <1>1, <1>2, SameRing DEF RxAt
<1>10. \A i \in 1..Len(delivered) : delivered[i] \in Nat /\ delivered[i] <= k
  BY <1>5, DeliveredAreFrames DEF RxAt, Staged
<1>11. Staged(k)' /\ NewerFrames'
  <2>1. CASE rx_eth' = rx_eth /\ rx_ready' = rx_ready
    <3>1. rx_ready => rx_eth \in 1..(k + 1) /\ rx_eth \notin Runts
      BY <1>5 DEF RxAt, Staged
    <3>2. Staged(k)'
      BY <1>1, <1>5, <1>6, <1>10, <2>1, <3>1 DEF Staged
    <3> QED
      BY <1>1, <2>1, <3>2 DEF NewerFrames
  <2>2. CASE k + 1 \notin Runts /\ rx_eth' = k + 1 /\ rx_ready' = TRUE
    <3>1. Staged(k)'
      BY <1>1, <1>5, <1>6, <1>10, <2>2 DEF Staged
    <3>2. \A i \in 1..Len(delivered) : delivered[i] < k + 1
      BY <1>10
    <3>3. NewerFrames'
      BY <1>1, <2>2, <3>2 DEF NewerFrames
    <3> QED
      BY <3>1, <3>3
  <2> QED
    BY <1>7, <2>1, <2>2
<1> QED
  BY <1>8, <1>9, <1>11 DEF RxAt

\* A store of the descriptor in the slot below the next position leaves the avail ring as
\* it is: the buffers go round in order, so that the entry is there from the lap before.
LEMMA SameEntry ==
  ASSUME NEW n \in Nat, avail = [i \in Slots |-> i], desc_id = n % Depth,
         NEW pos, pos = n % Depth, avail' = [avail EXCEPT ![pos] = desc_id]
  PROVE  avail' = avail
<1>1. n % Depth \in Slots
  BY SlotOf
<1>2. avail[n % Depth] = n % Depth
  BY <1>1
<1> QED
  BY <1>1, <1>2

LEMMA RepostEntryStep ==
  ASSUME RxTypeOK, NewerFrames, NEW k \in Nat, RxAt(k), RepostEntry
  PROVE  RxTypeOK' /\ NewerFrames' /\ RxAt(k)'
<1>1. /\ rx_pc = "repost" /\ rx_pc' = "publish"
      /\ avail' = [avail EXCEPT ![rx_avail_idx % Depth] = desc_id]
      /\ UNCHANGED <<rx_avail_idx, last_used, desc_id, drained, stageVars, rxDeviceVars, rx_awake>>
  BY DEF RepostEntry
<1>2. k < Completed /\ desc_id = k % Depth
  BY <1>1 DEF RxAt, Rounds
<1>3. rx_avail_idx % Depth = k % Depth
  <2>1. k + Depth \in Int /\ rx_avail_idx = (k + Depth) % IdxMod
    BY Bounds DEF RxAt, Counters
  <2> QED
    BY <2>1, Reduced, NextLap
<1>4. avail' = avail
  <2>1. avail = [i \in Slots |-> i]
    BY DEF RxAt, Rounds
  <2> QED
    BY <1>1, <1>2, <1>3, <2>1, SameEntry
<1>5. RxTypeOK'
  <2>1. rx_pc' \in RxPlaces
    BY <1>1 DEF RxPlaces
  <2> QED
    BY <1>1, <1>4, <2>1 DEF RxTypeOK, rxDeviceVars, stageVars
<1>6. Counters(k)' /\ Rounds(k)'
  BY <1>1, <1>2, <1>4, SameRing DEF RxAt
<1>7. Handled(k)' = Handled(k) /\ Handled(k) \in Nat
  BY <1>1 DEF Handled
<1>8. Staged(k)' /\ NewerFrames'
  <2>1. drained' <= Handled(k)'
    BY <1>1, <1>7 DEF RxAt, Staged
  <2> QED
    BY <1>1, <1>7, <2>1, SameStage DEF RxAt
<1> QED
  BY <1>5, <1>6, <1>8 DEF RxAt

LEMMA LateEntryStep ==
  ASSUME RxTypeOK, NewerFrames, NEW k \in Nat, RxAt(k), LateEntry
  PROVE  RxTypeOK' /\ NewerFrames' /\ RxAt(k)'
<1>1. /\ rx_pc = "late" /\ rx_pc' = "drain"
      /\ avail' = [avail EXCEPT ![(rx_avail_idx - 1) % Depth] = desc_id]
      /\ UNCHANGED <<rx_avail_idx, last_used, desc_id, drained, stageVars, rxDeviceVars, rx_awake>>
  BY DEF LateEntry
<1>2. 0 < k /\ desc_id = (k - 1) % Depth
  BY <1>1 DEF RxAt, Rounds
<1>3. PICK n \in Nat : n = k - 1
  BY <1>2
<1>4. (rx_avail_idx - 1) % Depth = n % Depth
  <2>1. PICK a \in Int, e \in Int : a = k + Depth /\ e = 0 - 1
    BY Bounds
  <2>2. ((a % IdxMod) + e) % Depth = (a + e) % Depth
    BY <2>1, IndexSlot
  <2>3. a % IdxMod = rx_avail_idx /\ rx_avail_idx \in Int
    BY <2>1, RxNumbers DEF RxAt, Counters
  <2>4. rx_avail_idx + e = rx_avail_idx - 1 /\ a + e = n + Depth
    BY <1>3, <2>1, <2>3, Bounds
  <2>5. (n + Depth) % Depth = n % Depth
    BY NextLap
  <2> QED
    BY <2>2, <2>3, <2>4, <2>5
<1>5. avail' = avail
  <2>1. avail = [i \in Slots |-> i] /\ desc_id = n % Depth
    BY <1>2, <1>3 DEF RxAt, Rounds
  <2> QED
    BY <1>1, <1>4, <2>1, SameEntry
<1>6. RxTypeOK'
  <2>1. rx_pc' \in RxPlaces
    BY <1>1 DEF RxPlaces
  <2> QED
    BY <1>1, <1>5, <2>1 DEF RxTypeOK, rxDeviceVars, stageVars
<1>7. Counters(k)' /\ Rounds(k)'
  BY <1>1, <1>5, SameRing DEF RxAt
<1>8. Handled(k)' = Handled(k) /\ Handled(k) \in Nat
  BY <1>1 DEF Handled
<1>9. Staged(k)' /\ NewerFrames'
  <2>1. drained' <= Handled(k)'
    BY <1>1, <1>8 DEF RxAt, Staged
  <2> QED
    BY <1>1, <1>8, <2>1, SameStage DEF RxAt
<1> QED
  BY <1>6, <1>7, <1>9 DEF RxAt

LEMMA RepostIndexStep ==
  ASSUME RxTypeOK, NewerFrames, NEW k \in Nat, RxAt(k), RepostIndex \/ EarlyRepost
  PROVE  RxTypeOK' /\ NewerFrames' /\ RxAt(k + 1)'
<1>1. /\ \/ rx_pc = "publish" /\ rx_pc' = "drain"
         \/ rx_pc = "repost" /\ rx_pc' = "late"
      /\ rx_avail_idx' = Inc(rx_avail_idx) /\ last_used' = Inc(last_used)
      /\ UNCHANGED <<avail, desc_id, drained, stageVars, rxDeviceVars, rx_awake>>
  BY DEF RepostIndex, EarlyRepost, StepsOver
<1>2. k < Completed /\ desc_id = k % Depth
  BY <1>1 DEF RxAt, Rounds
<1>3. last_used' = (k + 1) % IdxMod /\ rx_avail_idx' = ((k + 1) + Depth) % IdxMod
  <2>1. PICK a \in Int : a = k + Depth
    BY Bounds
  <2>2. last_used = k % IdxMod /\ rx_avail_idx = a % IdxMod
    BY <2>1 DEF RxAt, Counters
  <2>3. Inc(k % IdxMod) = (k + 1) % IdxMod /\ Inc(a % IdxMod) = (a + 1) % IdxMod
    BY Wraps
  <2>4. a + 1 = (k + 1) + Depth
    BY <2>1, Bounds
  <2> QED
    BY <1>1, <2>2, <2>3, <2>4
<1>4. RxTypeOK'
  <2>1. last_used' \in 0..(IdxMod - 1) /\ rx_avail_idx' \in 0..(IdxMod - 1)
    <3>1. k + 1 \in Int /\ (k + 1) + Depth \in Int
      BY Bounds
    <3> QED
      BY <1>3, <3>1, SlotOf
  <2>2. /\ UNCHANGED <<avail, used, rx_used_idx, rx_last_avail, rx_buffers, filling, received>>
        /\ UNCHANGED <<desc_id, drained, rx_eth, rx_ready, delivered, rx_awake>>
    BY <1>1 DEF rxDeviceVars, stageVars
  <2>3. {rx_avail_idx', rx_used_idx', last_used', rx_last_avail'} \subseteq 0..(IdxMod - 1)
    BY <2>1, <2>2 DEF RxTypeOK
  <2>4. rx_pc' \in RxPlaces
    BY <1>1 DEF RxPlaces
  <2> QED
    BY <2>2, <2>3, <2>4 DEF RxTypeOK
<1>5. Completed' = Completed /\ Completed \in Int /\ received \in Nat
  BY <1>1, RxNumbers DEF Completed, rxDeviceVars
<1>6. Counters(k + 1)'
  <2>1. k + 1 <= Completed /\ received <= (k + 1) + Depth
    BY <1>2, <1>5, Bounds DEF RxAt, Counters
  <2>2. /\ rx_used_idx' = Completed' % IdxMod /\ rx_last_avail' = received' % IdxMod
        /\ received' = received
    BY <1>1, <1>5 DEF RxAt, Counters, rxDeviceVars
  <2> QED
    BY <1>3, <1>5, <2>1, <2>2 DEF Counters
<1>7. Rounds(k + 1)'
  <2>1. UNCHANGED <<avail, used, rx_buffers, filling, received>>
    BY <1>1 DEF rxDeviceVars
  <2>2. /\ ((k + 1) + 1)..Completed \subseteq (k + 1)..Completed
        /\ ((k + 1) + 1)..received \subseteq (k + 1)..received
    BY <1>5
  <2>3. (k + 1) - 1 = k /\ 0 < k + 1 /\ rx_pc' \in {"drain", "late"}
    BY <1>1
  <2>4. rx_pc' = "late" => 0 < k + 1 /\ desc_id' = ((k + 1) - 1) % Depth
    BY <1>1, <1>2, <2>3
  <2> QED
    BY <1>1, <1>5, <2>1, <2>2, <2>3, <2>4 DEF RxAt, Rounds
<1>8. Staged(k + 1)' /\ NewerFrames'
  <2>1. Handled(k) = k + 1 /\ Handled(k + 1)' = k + 1 /\ k + 1 \in Nat
    BY <1>1 DEF Handled
  <2>2. drained' <= Handled(k + 1)'
    BY <1>1, <2>1 DEF RxAt, Staged
  <2> QED
    BY <1>1, <2>1, <2>2, SameStage DEF RxAt
<1> QED
  BY <1>4, <1>6, <1>7, <1>8 DEF RxAt

LEMMA KickStep ==
  ASSUME RxTypeOK, NewerFrames, NEW k \in Nat, RxAt(k), Kick
  PROVE  RxTypeOK' /\ NewerFrames' /\ RxAt(k)'
<1>1. /\ rx_pc = "kick" /\ rx_pc' = "stack"
      /\ UNCHANGED <<rx_avail_idx, avail, last_used, desc_id, drained, stageVars, rxDeviceVars>>
  BY DEF Kick, rxRingVars
<1>2. rx_awake' \in BOOLEAN
  BY Zenon DEF Kick, Kicks
<1>3. RxTypeOK'
  <2>1. rx_pc' \in RxPlaces
    BY <1>1 DEF RxPlaces
  <2> QED
    BY <1>1, <1>2, <2>1 DEF RxTypeOK, rxDeviceVars, stageVars
<1>4. Counters(k)' /\ Rounds(k)'
  BY <1>1, SameRing DEF RxAt
<1>5. Handled(k)' = Handled(k) /\ Handled(k) \in Nat
  BY <1>1 DEF Handled
<1>6. Staged(k)' /\ NewerFrames'
  <2>1. drained' <= Handled(k)'
    BY <1>1, <1>5 DEF RxAt, Staged
  <2> QED
    BY <1>1, <1>5, <2>1, SameStage DEF RxAt
<1> QED
  BY <1>3, <1>4, <1>6 DEF RxAt

LEMMA ReceiveStep ==
  ASSUME RxTypeOK, NewerFrames, NEW k \in Nat, RxAt(k), receive
  PROVE  RxTypeOK' /\ NewerFrames' /\ RxAt(k)'
<1>1. /\ rx_pc = "stack" /\ rx_pc' = "idle" /\ rx_eth' = rx_eth
      /\ UNCHANGED <<rx_avail_idx, avail, last_used, desc_id, drained, rxDeviceVars, rx_awake>>
  BY DEF receive, rxRingVars
<1>2. ~rx_ready' /\ rx_ready' \in BOOLEAN
  BY Zenon DEF receive
<1>3. Handled(k)' = k /\ Handled(k) = k
  BY <1>1 DEF Handled
<1>4. /\ drained' <= k
      /\ rx_ready => rx_eth \in 1..k /\ rx_eth \notin Runts
      /\ \A i \in 1..Len(delivered) : delivered[i] <= k
  BY <1>1, <1>3 DEF RxAt, Staged
<1>5. delivered \in Seq(1..MaxFrames) /\ Len(delivered) \in Nat /\ rx_eth \in 0..MaxFrames
  BY DEF RxTypeOK
<1>6. /\ delivered' \in Seq(1..MaxFrames)
      /\ \A i \in 1..Len(delivered') : delivered'[i] <= k /\ delivered'[i] \notin Runts
      /\ \A i \in 1..(Len(delivered') - 1) : delivered'[i] < delivered'[i + 1]
  <2>1. CASE ~rx_ready
    <3>1. delivered' = delivered
      BY <2>1 DEF receive
    <3> QED
      BY <1>4, <1>5, <3>1 DEF NewerFrames
  <2>2. CASE rx_ready
    <3>1. delivered' = Append(delivered, rx_eth)
      BY <2>2 DEF receive
    <3>2. rx_eth \in 1..k /\ rx_eth \notin Runts /\ rx_eth \in 1..MaxFrames
      BY <1>4, <1>5, <2>2, Bounds
    <3>3. \A i \in 1..Len(delivered) : delivered[i] < rx_eth /\ delivered[i] \notin Runts
      BY <2>2 DEF NewerFrames
    <3>4. \A i \in 1..(Len(delivered) - 1) : delivered[i] < delivered[i + 1]
      BY DEF NewerFrames
    <3>5. /\ delivered' \in Seq(1..MaxFrames) /\ Len(delivered') = Len(delivered) + 1
          /\ \A i \in 1..Len(delivered) : delivered'[i] = delivered[i]
          /\ delivered'[Len(delivered) + 1] = rx_eth
      BY <1>5, <3>1, <3>2
    <3>6. \A i \in 1..Len(delivered') : delivered'[i] <= k /\ delivered'[i] \notin Runts
      BY <1>4, <1>5, <3>2, <3>3, <3>5
    <3>7. \A i \in 1..(Len(delivered') - 1) : delivered'[i] < delivered'[i + 1]
      BY <1>5, <3>3, <3>4, <3>5
    <3> QED
      BY <3>5, <3>6, <3>7
  <2> QED
    BY <2>1, <2>2
<1>7. RxTypeOK'
  <2>1. rx_pc' \in RxPlaces
    BY <1>1 DEF RxPlaces
  <2> QED
    BY <1>1, <1>2, <1>6, <2>1 DEF RxTypeOK, rxDeviceVars
<1>8. Counters(k)' /\ Rounds(k)'
  BY <1>1, SameRing DEF RxAt
<1>9. Staged(k)'
  BY <1>1, <1>2, <1>3, <1>4, <1>6 DEF Staged
<1>10. NewerFrames'
  BY <1>2, <1>6 DEF NewerFrames
<1> QED
  BY <1>7, <1>8, <1>9, <1>10 DEF RxAt

-----------------------------------------------------------------------------
(* The steps of the device.                                                *)

LEMMA DmaStep ==
  ASSUME RxTypeOK, NewerFrames, NEW k \in Nat, RxAt(k), DmaFrame
  PROVE  RxTypeOK' /\ NewerFrames' /\ RxAt(k)'
<1>1. /\ filling = Nobody /\ rx_last_avail # rx_avail_idx /\ received < MaxFrames
      /\ filling' = avail[rx_last_avail % Depth]
      /\ rx_last_avail' = Inc(rx_last_avail)
      /\ received' = received + 1
      /\ rx_buffers' = [rx_buffers EXCEPT ![filling'] = received + 1]
      /\ UNCHANGED <<rx_used_idx, used, rx_avail_idx, avail, last_used, desc_id, drained,
                     stageVars, rx_pc, rx_awake>>
  BY DEF DmaFrame, rxRingVars
<1>2. received \in Nat /\ Completed = received
  BY <1>1, RxNumbers DEF Completed
<1>3. received < k + Depth /\ k <= received
  <2>1. received <= k + Depth /\ k <= received
    BY <1>2 DEF RxAt, Counters
  <2>2. received # k + Depth
    BY <1>1 DEF RxAt, Counters
  <2> QED
    BY <1>2, <2>1, <2>2, Bounds
<1>4. filling' = received % Depth /\ filling' \in Slots
  <2>1. rx_last_avail % Depth = received % Depth
    BY <1>2, Reduced DEF RxAt, Counters
  <2>2. received % Depth \in Slots
    BY <1>2, SlotOf
  <2> QED
    BY <1>1, <2>1, <2>2 DEF RxAt, Rounds
<1>5. rx_last_avail' = (received + 1) % IdxMod
  BY <1>1, <1>2, Wraps DEF RxAt, Counters
<1>6. Completed' = received
  <2>1. filling' # Nobody
    BY <1>4, Bounds
  <2> QED
    BY <1>1, <1>2, <2>1 DEF Completed
<1>7. RxTypeOK'
  <2>1. rx_last_avail' \in 0..(IdxMod - 1)
    <3>1. received + 1 \in Int
      BY <1>2
    <3> QED
      BY <1>5, <3>1, SlotOf
  <2>2. received' \in 0..MaxFrames /\ received + 1 \in 0..MaxFrames
    BY <1>1, <1>2, Bounds
  <2>3. rx_buffers' \in [Slots -> 0..MaxFrames]
    BY <1>1, <2>2 DEF RxTypeOK
  <2> QED
    BY <1>1, <1>4, <2>1, <2>2, <2>3 DEF RxTypeOK, stageVars
<1>8. Counters(k)'
  <2>1. received' <= k + Depth
    BY <1>1, <1>2, <1>3, Bounds
  <2> QED
    BY <1>1, <1>2, <1>3, <1>5, <1>6, <2>1 DEF RxAt, Counters
<1>9. \A n \in (k + 1)..received' : rx_buffers'[(n - 1) % Depth] = n
  <2> SUFFICES ASSUME NEW n \in (k + 1)..received'
               PROVE  rx_buffers'[(n - 1) % Depth] = n
    OBVIOUS
  <2>1. n \in Int /\ n - 1 \in Int /\ (n - 1) % Depth \in Slots
    BY SlotOf
  <2>2. DOMAIN rx_buffers = Slots
    BY DEF RxTypeOK
  <2>3. CASE n = received + 1
    <3>1. n - 1 = received
      BY <1>2, <2>3
    <3> QED
      BY <1>1, <1>4, <2>1, <2>2, <2>3, <3>1
  <2>4. CASE n # received + 1
    <3>1. n \in (k + 1)..received
      BY <1>1, <1>2, <2>4
    <3>2. n - 1 < received /\ received < (n - 1) + Depth
      BY <1>2, <1>3, <3>1, Bounds
    <3>3. (n - 1) % Depth # received % Depth
      <4>1. received \in Int /\ Depth \in Nat \ {0}
        BY <1>2, Bounds
      <4> QED
        BY <2>1, <3>2, <4>1, Distinct, ZenonT(60)
    <3> QED
      BY <1>1, <1>4, <2>1, <2>2, <3>1, <3>3 DEF RxAt, Rounds
  <2> QED
    BY <2>3, <2>4
<1>10. Rounds(k)'
  <2>1. received' - 1 = received
    BY <1>1, <1>2
  <2>2. \A n \in (k + 1)..Completed' : used'[(n - 1) % Depth] = (n - 1) % Depth
    BY <1>1, <1>2, <1>6 DEF RxAt, Rounds
  <2>3. /\ rx_pc' \in {"handle", "repost", "publish"} => k < Completed' /\ desc_id' = k % Depth
        /\ rx_pc' = "late" => 0 < k /\ desc_id' = (k - 1) % Depth
    BY <1>1, <1>2, <1>6 DEF RxAt, Rounds
  <2>4. avail' = [i \in Slots |-> i]
    BY <1>1 DEF RxAt, Rounds
  <2> QED
    BY <1>4, <1>9, <2>1, <2>2, <2>3, <2>4 DEF Rounds
<1>11. Staged(k)' /\ NewerFrames'
  <2>1. Handled(k)' = Handled(k) /\ Handled(k) \in Nat
    BY <1>1 DEF Handled
  <2>2. drained' <= Handled(k)'
    BY <1>1, <2>1 DEF RxAt, Staged
  <2> QED
    BY <1>1, <2>1, <2>2, SameStage DEF RxAt
<1> QED
  BY <1>7, <1>8, <1>10, <1>11 DEF RxAt

LEMMA CompleteStep ==
  ASSUME RxTypeOK, NewerFrames, NEW k \in Nat, RxAt(k), Complete
  PROVE  RxTypeOK' /\ NewerFrames' /\ RxAt(k)'
<1>1. /\ filling # Nobody /\ filling' = Nobody
      /\ used' = [used EXCEPT ![rx_used_idx % Depth] = filling]
      /\ rx_used_idx' = Inc(rx_used_idx)
      /\ UNCHANGED <<rx_buffers, rx_last_avail, received, rx_avail_idx, avail, last_used, desc_id,
                     drained, stageVars, rx_pc, rx_awake>>
  BY DEF Complete, rxRingVars
<1>2. received \in Nat /\ Completed = received - 1 /\ Completed' = received
  BY <1>1, RxNumbers DEF Completed
<1>3. k <= received - 1 /\ received - 1 < k + Depth /\ received - 1 \in Int
  BY <1>2, Bounds DEF RxAt, Counters
<1>4. filling = (received - 1) % Depth /\ filling \in Slots
  BY <1>1, <1>3, SlotOf DEF RxAt, Rounds
<1>5. rx_used_idx % Depth = (received - 1) % Depth
  BY <1>2, <1>3, Reduced DEF RxAt, Counters
<1>6. rx_used_idx' = received % IdxMod
  <2>1. Inc((received - 1) % IdxMod) = ((received - 1) + 1) % IdxMod
    BY <1>3, Wraps
  <2>2. (received - 1) + 1 = received
    BY <1>2
  <2> QED
    BY <1>1, <1>2, <2>1, <2>2 DEF RxAt, Counters
<1>7. RxTypeOK'
  <2>1. rx_used_idx' \in 0..(IdxMod - 1)
    BY <1>2, <1>6, SlotOf
  <2>2. used' \in [Slots -> Slots]
    BY <1>1, <1>4 DEF RxTypeOK
  <2> QED
    BY <1>1, <2>1, <2>2 DEF RxTypeOK, stageVars
<1>8. Counters(k)'
  BY <1>1, <1>2, <1>3, <1>6 DEF RxAt, Counters
<1>9. \A n \in (k + 1)..received : used'[(n - 1) % Depth] = (n - 1) % Depth
  <2> SUFFICES ASSUME NEW n \in (k + 1)..received
               PROVE  used'[(n - 1) % Depth] = (n - 1) % Depth
    OBVIOUS
  <2>1. n \in Int /\ n - 1 \in Int /\ (n - 1) % Depth \in Slots
    BY SlotOf
  <2>2. DOMAIN used = Slots
    BY DEF RxTypeOK
  <2>3. CASE n = received
    BY <1>1, <1>4, <1>5, <2>1, <2>2, <2>3
  <2>4. CASE n # received
    <3>1. n \in (k + 1)..Completed
      BY <1>2, <2>4
    <3>2. n - 1 < received - 1 /\ received - 1 < (n - 1) + Depth
      BY <1>2, <1>3, <3>1, Bounds
    <3>3. (n - 1) % Depth # (received - 1) % Depth
      <4>1. Depth \in Nat \ {0}
        BY Bounds
      <4> QED
        BY <1>3, <2>1, <3>2, <4>1, Distinct, ZenonT(60)
    <3> QED
      BY <1>1, <1>5, <2>1, <2>2, <3>1, <3>3 DEF RxAt, Rounds
  <2> QED
    BY <2>3, <2>4
<1>10. Rounds(k)'
  <2>1. /\ rx_pc' \in {"handle", "repost", "publish"} => k < Completed' /\ desc_id' = k % Depth
        /\ rx_pc' = "late" => 0 < k /\ desc_id' = (k - 1) % Depth
    BY <1>1, <1>2, <1>3 DEF RxAt, Rounds
  <2>2. \A n \in (k + 1)..received' : rx_buffers'[(n - 1) % Depth] = n
    BY <1>1 DEF RxAt, Rounds
  <2>3. avail' = [i \in Slots |-> i]
    BY <1>1 DEF RxAt, Rounds
  <2> QED
    BY <1>1, <1>2, <1>9, <2>1, <2>2, <2>3 DEF Rounds
<1>11. Staged(k)' /\ NewerFrames'
  <2>1. Handled(k)' = Handled(k) /\ Handled(k) \in Nat
    BY <1>1 DEF Handled
  <2>2. drained' <= Handled(k)'
    BY <1>1, <2>1 DEF RxAt, Staged
  <2> QED
    BY <1>1, <2>1, <2>2, SameStage DEF RxAt
<1> QED
  BY <1>7, <1>8, <1>10, <1>11 DEF RxAt

LEMMA RestStep ==
  ASSUME RxTypeOK, NewerFrames, NEW k \in Nat, RxAt(k), OutOfBuffers \/ UNCHANGED rxVars
  PROVE  RxTypeOK' /\ NewerFrames' /\ RxAt(k)'
<1>1. UNCHANGED <<rx_avail_idx, avail, last_used, desc_id, drained, stageVars, rxDeviceVars, rx_pc>>
  BY DEF OutOfBuffers, rxRingVars, rxVars
<1>2. rx_awake' \in BOOLEAN
  BY Zenon DEF OutOfBuffers, rxVars, RxTypeOK
<1>3. RxTypeOK'
  BY <1>1, <1>2 DEF RxTypeOK, rxDeviceVars, stageVars
<1>4. Counters(k)' /\ Rounds(k)'
  BY <1>1, SameRing DEF RxAt, Rounds
<1>5. Handled(k)' = Handled(k) /\ Handled(k) \in Nat
  BY <1>1 DEF Handled
<1>6. Staged(k)' /\ NewerFrames'
  <2>1. drained' <= Handled(k)'
    BY <1>1, <1>5 DEF RxAt, Staged
  <2> QED
    BY <1>1, <1>5, <2>1, SameStage DEF RxAt
<1> QED
  BY <1>3, <1>4, <1>6 DEF RxAt

LEMMA RxStep == RxIInv /\ [RxNext]_rxVars => RxIInv'
<1> SUFFICES ASSUME RxTypeOK, NewerFrames, NEW k \in Nat, RxAt(k), [RxNext]_rxVars
             PROVE  RxTypeOK' /\ NewerFrames' /\ \E m \in Nat : RxAt(m)'
  BY DEF RxIInv
<1>1. CASE RepostIndex \/ EarlyRepost
  <2>1. k + 1 \in Nat
    OBVIOUS
  <2> QED
    BY <1>1, <2>1, RepostIndexStep
<1>10. CASE RepostEntry
  BY <1>10, RepostEntryStep
<1>11. CASE LateEntry
  BY <1>11, LateEntryStep
<1>2. CASE poll_virtio
  BY <1>2, PollStep
<1>3. CASE TakeUsed
  BY <1>3, TakeUsedStep
<1>4. CASE Handle
  BY <1>4, HandleStep
<1>5. CASE Kick
  BY <1>5, KickStep
<1>6. CASE receive
  BY <1>6, ReceiveStep
<1>7. CASE DmaFrame
  BY <1>7, DmaStep
<1>8. CASE Complete
  BY <1>8, CompleteStep
<1>9. CASE OutOfBuffers \/ UNCHANGED rxVars
  BY <1>9, RestStep
<1> QED
  BY <1>1, <1>2, <1>3, <1>4, <1>5, <1>6, <1>7, <1>8, <1>9, <1>10, <1>11
     DEF RxNext, RxDriver, RxDevice, Repost

-----------------------------------------------------------------------------
(* The invariant.                                                          *)

\* Every slot has a number in any lap.
LEMMA Lap ==
  ASSUME NEW k \in Int, NEW s \in Slots
  PROVE  \E m \in k..(k + Depth - 1) : m % Depth = s
<1>1. PICK d \in Nat \ {0} : d = Depth
  BY Bounds
<1>2. PICK e \in Int : e = s - k
  BY <1>1 DEF Slots
<1>3. e % d \in 0..(d - 1)
  BY DivMod
<1>4. (e % d) + k \in k..(k + d - 1)
  BY <1>3
<1>5. ((e % d) + k) % d = (e + k) % d
  <2>1. d % d = 0
    OBVIOUS
  <2>2. Divides(d, d)
    BY <2>1 DEF Divides
  <2>3. \A n : Divides(n, n) => ((e % n) + k) % n = (e + k) % n
    BY ModMod
  <2> QED
    BY <2>2, <2>3, Zenon
<1>6. e + k = s /\ s \in Nat /\ s < d
  BY <1>1, <1>2 DEF Slots
<1>7. s % d = s
  BY <1>6, Smaller
<1> QED
  BY <1>1, <1>4, <1>5, <1>6, <1>7

\* The rings read from both indices on.
LEMMA PostedIs ==
  ASSUME RxTypeOK, NEW k \in Nat, RxAt(k)
  PROVE  /\ Posted = [i \in 1..(k + Depth - received) |-> (received + i - 1) % Depth]
         /\ Len(Posted) = k + Depth - received /\ Len(Posted) \in Nat /\ Posted \in Seq(Slots)
<1>1. received \in Nat /\ k + Depth \in Nat /\ Completed \in Int
  BY RxNumbers, Bounds
<1>2. received <= k + Depth /\ k + Depth < received + IdxMod
  <2>1. k <= received /\ received <= k + Depth
    BY <1>1 DEF RxAt, Counters, Completed
  <2> QED
    BY <1>1, <2>1, Bounds
<1>3. (rx_avail_idx - rx_last_avail) % IdxMod = (k + Depth) - received
  <2>1. ((((k + Depth) % IdxMod) - (received % IdxMod)) % IdxMod) = (k + Depth) - received
    <3>1. received \in Int /\ k + Depth \in Int /\ IdxMod \in Nat \ {0}
      BY <1>1, Bounds
    <3> QED
      BY <1>2, <3>1, Difference, ZenonT(60)
  <2> QED
    BY <2>1 DEF RxAt, Counters
<1>4. PICK n \in Nat : n = k + Depth - received
  BY <1>1, <1>2, Bounds
<1>5. \A i \in 1..n : avail[(rx_last_avail + i - 1) % Depth] = (received + i - 1) % Depth
  <2> SUFFICES ASSUME NEW i \in 1..n
               PROVE  avail[(rx_last_avail + i - 1) % Depth] = (received + i - 1) % Depth
    OBVIOUS
  <2>1. PICK e \in Int : e = i - 1
    OBVIOUS
  <2>2. ((received % IdxMod) + e) % Depth = (received + e) % Depth
    <3>1. received \in Int
      BY <1>1
    <3> QED
      BY <3>1, IndexSlot
  <2>3. rx_last_avail = received % IdxMod /\ rx_last_avail \in Int
    BY RxNumbers DEF RxAt, Counters
  <2>4. rx_last_avail + i - 1 = rx_last_avail + e /\ received + i - 1 = received + e
    BY <1>1, <2>1, <2>3
  <2>5. (received + e) % Depth \in Slots
    <3>1. received + e \in Int
      BY <1>1
    <3> QED
      BY <3>1, SlotOf
  <2> QED
    BY <2>2, <2>3, <2>4, <2>5 DEF RxAt, Rounds
<1>6. Posted = [i \in 1..n |-> (received + i - 1) % Depth]
  <2>1. Posted = [i \in 1..n |-> avail[(rx_last_avail + i - 1) % Depth]]
    BY <1>1, <1>3, <1>4, Bounds DEF Posted, On
  <2> QED
    BY <1>5, <2>1
<1>7. \A i \in 1..n : (received + i - 1) % Depth \in Slots
  BY <1>1, SlotOf
<1> QED
  BY <1>4, <1>6, <1>7

LEMMA ReadyIs ==
  ASSUME RxTypeOK, NEW k \in Nat, RxAt(k)
  PROVE  /\ Ready = [i \in 1..(Completed - k) |-> (k + i - 1) % Depth]
         /\ Len(Ready) = Completed - k /\ Len(Ready) \in Nat /\ Ready \in Seq(Slots)
<1>1. received \in Nat /\ Completed \in Int /\ Completed <= received
  BY RxNumbers DEF Completed
<1>2. k <= Completed /\ Completed < k + IdxMod
  <2>1. k <= Completed /\ received <= k + Depth
    BY DEF RxAt, Counters
  <2> QED
    BY <1>1, <2>1, Bounds
<1>3. (rx_used_idx - last_used) % IdxMod = Completed - k
  <2>1. (((Completed % IdxMod) - (k % IdxMod)) % IdxMod) = Completed - k
    <3>1. k \in Int /\ IdxMod \in Nat \ {0}
      BY Bounds
    <3> QED
      BY <1>1, <1>2, <3>1, Difference, ZenonT(60)
  <2> QED
    BY <2>1 DEF RxAt, Counters
<1>4. PICK n \in Nat : n = Completed - k
  BY <1>1, <1>2
<1>5. \A i \in 1..n : used[(last_used + i - 1) % Depth] = (k + i - 1) % Depth
  <2> SUFFICES ASSUME NEW i \in 1..n
               PROVE  used[(last_used + i - 1) % Depth] = (k + i - 1) % Depth
    OBVIOUS
  <2>1. PICK e \in Int : e = i - 1
    OBVIOUS
  <2>2. ((k % IdxMod) + e) % Depth = (k + e) % Depth
    <3>1. k \in Int
      OBVIOUS
    <3> QED
      BY <3>1, IndexSlot
  <2>3. last_used = k % IdxMod /\ last_used \in Int
    BY RxNumbers DEF RxAt, Counters
  <2>4. last_used + i - 1 = last_used + e /\ k + i - 1 = k + e /\ k + i \in (k + 1)..Completed
    BY <1>1, <1>4, <2>1, <2>3
  <2>5. (k + i) - 1 = k + e
    BY <2>1
  <2>6. used[(k + e) % Depth] = (k + e) % Depth
    BY <2>4, <2>5 DEF RxAt, Rounds
  <2> QED
    BY <2>2, <2>3, <2>4, <2>6
<1>6. Ready = [i \in 1..n |-> (k + i - 1) % Depth]
  <2>1. Ready = [i \in 1..n |-> used[(last_used + i - 1) % Depth]]
    BY <1>3, <1>4 DEF Ready, On
  <2> QED
    BY <1>5, <2>1
<1>7. \A i \in 1..n : (k + i - 1) % Depth \in Slots
  BY SlotOf
<1> QED
  BY <1>4, <1>6, <1>7

LEMMA BuffersInPlace ==
  ASSUME RxTypeOK, NEW k \in Nat, RxAt(k)
  PROVE  BufferInv
<1> DEFINE P == Posted
           B == Busy
           R == Ready
           p == k + Depth - received
           b == received - Completed
<1>1. /\ received \in Nat /\ Completed \in Int /\ b \in {0, 1} /\ k <= Completed
      /\ Depth \in Nat \ {0} /\ k + Depth \in Nat
  <2>1. received \in Nat /\ Completed \in Int /\ k <= Completed /\ Depth \in Nat \ {0}
    BY RxNumbers, Bounds DEF RxAt, Counters
  <2>2. Completed = received \/ Completed = received - 1
    BY <2>1 DEF Completed
  <2> QED
    BY <2>1, <2>2
<1>2. /\ P = [i \in 1..p |-> (received + i - 1) % Depth]
      /\ P \in Seq(Slots) /\ Len(P) = p /\ p \in Nat
  BY PostedIs
<1>3. /\ R = [i \in 1..(Completed - k) |-> (k + i - 1) % Depth]
      /\ R \in Seq(Slots) /\ Len(R) = Completed - k /\ Completed - k \in Nat
  BY ReadyIs
<1>4. /\ B \in Seq(Slots) /\ Len(B) = b
      /\ b = 1 => B[1] = (received - 1) % Depth
  <2>1. CASE filling = Nobody
    <3>1. B = <<>> /\ b = 0
      BY <1>1, <2>1 DEF Busy, Completed
    <3> QED
      BY <3>1
  <2>2. CASE filling # Nobody
    <3>1. B = <<filling>> /\ b = 1 /\ filling \in Slots
      BY <1>1, <2>2 DEF Busy, Completed, RxTypeOK
    <3>2. filling = (received - 1) % Depth
      BY <2>2 DEF RxAt, Rounds
    <3> QED
      BY <3>1, <3>2
  <2> QED
    BY <2>1, <2>2
<1> HIDE DEF P, B, R
<1> DEFINE E == (P \o B) \o R
<1>5. E \in Seq(Slots) /\ Len(E) = Depth
  <2>1. P \o B \in Seq(Slots) /\ Len(P \o B) = p + b
    BY <1>2, <1>4
  <2>2. E \in Seq(Slots) /\ Len(E) = (p + b) + (Completed - k)
    BY <1>3, <2>1
  <2> QED
    BY <1>1, <2>2
<1>6. \A s \in Slots : \E i \in 1..Depth : E[i] = s
  <2> SUFFICES ASSUME NEW s \in Slots PROVE \E i \in 1..Depth : E[i] = s
    OBVIOUS
  <2>1. PICK m \in k..(k + Depth - 1) : m % Depth = s
    BY Lap
  <2>2. m \in Int /\ P \o B \in Seq(Slots) /\ Len(P \o B) = p + b
    BY <1>2, <1>4
  <2>3. CASE m < Completed
    <3>1. PICK j \in 1..(Completed - k) : j = m - k + 1
      BY <1>1, <2>2, <2>3
    <3>2. R[j] = s
      <4>1. k + j - 1 = m
        BY <3>1, <2>2
      <4> QED
        BY <1>3, <2>1, <4>1
    <3>3. E[Len(P \o B) + j] = R[j]
      <4> DEFINE L == P \o B
      <4>1. L \in Seq(Slots) /\ R \in Seq(Slots) /\ j \in 1..Len(R)
        BY <1>3, <2>2
      <4> HIDE DEF L
      <4>2. (L \o R)[Len(L) + j] = R[j]
        BY <4>1
      <4> QED
        BY <4>2 DEF L
    <3>4. Len(P \o B) + j \in 1..Depth
      BY <1>1, <2>2
    <3> QED
      BY <3>2, <3>3, <3>4
  <2>4. CASE m >= received
    <3>1. PICK j \in 1..p : j = m - received + 1
      BY <1>1, <2>2, <2>4
    <3>2. P[j] = s
      <4>1. received + j - 1 = m
        BY <1>1, <3>1, <2>2
      <4> QED
        BY <1>2, <2>1, <4>1
    <3>3. (P \o B)[j] = P[j] /\ E[j] = (P \o B)[j]
      BY <1>2, <1>3, <1>4, <2>2
    <3>4. j \in 1..Depth
      BY <1>1
    <3> QED
      BY <3>2, <3>3, <3>4
  <2>5. CASE m >= Completed /\ m < received
    <3>1. b = 1 /\ m = received - 1
      BY <1>1, <2>2, <2>5
    <3>2. (P \o B)[p + 1] = B[1] /\ E[p + 1] = (P \o B)[p + 1]
      BY <1>2, <1>3, <1>4, <2>2, <3>1
    <3>3. p + 1 \in 1..Depth
      BY <1>1, <1>2, <3>1
    <3> QED
      BY <1>4, <2>1, <3>1, <3>2, <3>3
  <2>6. m < Completed \/ m >= received \/ (m >= Completed /\ m < received)
    BY <1>1, <2>2
  <2> QED
    BY <2>3, <2>4, <2>5, <2>6
<1>7. {E[i] : i \in 1..Len(E)} = Slots
  <2>1. \A i \in 1..Len(E) : E[i] \in Slots
    BY <1>5, ElementOfSeq
  <2>2. 1..Len(E) = 1..Depth
    BY <1>5
  <2> HIDE DEF E
  <2> QED
    BY <1>6, <2>1, <2>2
<1>8. rx_pc \in {"handle", "repost", "publish"} => R # <<>> /\ Head(R) = desc_id
  <2> SUFFICES ASSUME rx_pc \in {"handle", "repost", "publish"} PROVE R # <<>> /\ Head(R) = desc_id
    OBVIOUS
  <2>1. k < Completed /\ desc_id = k % Depth
    BY DEF RxAt, Rounds
  <2>2. 1 \in 1..(Completed - k) /\ k + 1 - 1 = k
    BY <1>1, <2>1
  <2>3. R[1] = k % Depth
    BY <1>3, <2>2
  <2> QED
    BY <1>3, <2>1, <2>2, <2>3
<1>9. Everywhere = E
  BY DEF Everywhere, P, B, R
<1> QED
  BY <1>5, <1>7, <1>8, <1>9 DEF BufferInv, R

LEMMA FramesInOrder ==
  ASSUME RxTypeOK, NEW k \in Nat, RxAt(k)
  PROVE  FrameInv
<1>1. received \in Nat /\ Completed \in Int /\ Completed <= received
  BY RxNumbers DEF Completed
<1>2. received - Len(Busy) = Completed
  <2>1. filling = Nobody => Len(Busy) = 0
    BY DEF Busy
  <2>2. filling # Nobody => Len(Busy) = 1
    BY DEF Busy
  <2> QED
    BY <1>1, <2>1, <2>2 DEF Completed
<1>3. /\ Ready = [i \in 1..(Completed - k) |-> (k + i - 1) % Depth]
      /\ Len(Ready) = Completed - k
  BY ReadyIs
<1>4. ASSUME NEW i \in 1..Len(Ready)
      PROVE  rx_buffers[Ready[i]] = Completed - Len(Ready) + i
  <2>0. i \in 1..(Completed - k)
    BY <1>3
  <2>1. k + i \in (k + 1)..received /\ Ready[i] = ((k + i) - 1) % Depth
    BY <1>1, <1>3, <2>0
  <2>2. rx_buffers[((k + i) - 1) % Depth] = k + i
    BY <2>1 DEF RxAt, Rounds
  <2>3. Completed - Len(Ready) + i = k + i
    BY <1>1, <1>3, <2>0
  <2> QED
    BY <2>1, <2>2, <2>3
<1> QED
  BY <1>2, <1>4 DEF FrameInv

\* For a ring of any depth and indices of any width: no buffer leaks, is posted twice or
\* written while it is handled (drain_rx_queue), what waits are the last frames in order,
\* and the stack sees each frame at most once and never an older one after a newer.
THEOREM RxInvHolds == RxSpec => []RxInv
<1>1. RxIInv => RxInv
  <2> SUFFICES ASSUME RxTypeOK, NewerFrames, NEW k \in Nat, RxAt(k) PROVE RxInv
    BY DEF RxIInv
  <2> QED
    BY BuffersInPlace, FramesInOrder DEF RxInv
<1> QED
  BY <1>1, RxInitially, RxStep, PTL DEF RxSpec

-----------------------------------------------------------------------------
(* The probe.                                                              *)

Waiting(s) == \E i \in 1..Len(todo) : todo[i] = s

\* The slot being tried is not given up yet.
Trying(s) == s = at /\ step \notin {"scan", "halt"}

\* Everything the scan has gone past was tried and failed for a reason, or was empty.
PassedOver ==
  \A s \in Bus :
    IF arch = "aarch64" THEN Waiting(s) \/ Trying(s) \/ ~Usable(s)
    ELSE step = "scan" => s = Preferred \/ Waiting(s) \/ ~is_net_device(s)

Answers == up = Bus \/ (arch = "x86_64" /\ up = Bus \ {Preferred})

\* The queue is set up as the architecture does it.
Programmed(q) ==
  /\ queue[at][q].num = depth[q] /\ queue[at][q].pfn = 1
  /\ arch = "aarch64" => queue[at][q].ready = 1

\* How far the slot being tried has come.
Attempt ==
  /\ step = "prepare" => arch = "aarch64" /\ (kind[at] # "picky" => "FEATURES_OK" \in status[at])
  /\ step \in {"rx", "tx", "driver_ok", "notify", "loop"} /\ arch = "aarch64" =>
       "FEATURES_OK" \in status[at]
  /\ step \in {"tx", "driver_ok", "post", "notify", "loop"} => Programmed("rx")
  /\ step \in {"driver_ok", "post", "notify", "loop"} => Programmed("tx")
  /\ step \in {"tx", "driver_ok"} /\ arch = "aarch64" => posted = depth["rx"]
  /\ step = "post" => arch = "x86_64"
  /\ step \in {"notify", "loop"} => posted = depth["rx"]

\* Only a device that has come through the hand-shake is live.
LiveInv ==
  /\ Live = IF step \in {"post", "notify", "loop"} THEN {at} ELSE {}
  /\ kicked = IF step = "loop" THEN {at} ELSE {}
  /\ ready => step = "loop"

ProbeTypes ==
  /\ arch \in {"aarch64", "x86_64"} /\ kind \in [Bus -> AllKinds]
  /\ acked \in [Bus -> SUBSET {"MAC", "VERSION_1"}]
  /\ \A s \in Bus : "FAILED" \notin status[s]

ProbeIInv ==
  /\ ProbeTypeOK /\ ProbeTypes /\ Answers
  /\ LiveInv /\ Attempt /\ OnlyOffered /\ PassedOver /\ HaltsOnlyWithoutDevice

-----------------------------------------------------------------------------

LEMMA BusBounds ==
  /\ MmioSlots \in Nat \ {0} /\ Preferred \in Bus /\ Bus = 0..(MmioSlots - 1)
  /\ QUEUE_DEPTH \in Nat /\ QUEUE_DEPTH > 1
  BY ProbeAssumption DEF ProbeAssumption, Bus

\* What a queue of a device offers, and what the driver takes of it.
LEMMA NumMax ==
  ASSUME kind \in [Bus -> AllKinds], NEW s \in Bus, NEW q \in Queues
  PROVE  QueueNumMax(s, q) \in Nat /\ QueueDepth(s, q) \in 0..QUEUE_DEPTH
<1>1. kind[s] \in AllKinds /\ QUEUE_DEPTH \in Nat /\ QUEUE_DEPTH > 1
  BY BusBounds
<1>2. QUEUE_DEPTH \div 2 \in Nat /\ QUEUE_DEPTH \div 2 # 0
  BY <1>1
<1>3. 4 * QUEUE_DEPTH \in Nat /\ 4 * QUEUE_DEPTH # 0
  BY <1>1
<1>4. QueueNumMax(s, q) \in Nat
  BY <1>2, <1>3 DEF QueueNumMax
<1>5. QueueDepth(s, q) \in 0..QUEUE_DEPTH
  BY <1>1, <1>4 DEF QueueDepth
<1> QED
  BY <1>4, <1>5

\* Of what may go wrong, the kind of the device tells.
LEMMA UsableKinds ==
  ASSUME kind \in [Bus -> AllKinds], NEW s \in Bus
  PROVE  kind[s] \in {"empty", "picky"} \/ Unsuitable(s) => ~Usable(s)
<1>1. kind[s] \in AllKinds
  OBVIOUS
<1>2. Unsuitable(s) => kind[s] \notin Version1 /\ ~("VERSION_1" \in Offered(s))
  BY <1>1 DEF Unsuitable, Version
<1>3. Unsuitable(s) => kind[s] = "old"
  BY <1>1, <1>2 DEF Offered
<1> QED
  BY <1>1, <1>3 DEF Usable

\* The order covers the bus.
LEMMA OrderCovers ==
  ASSUME arch \in {"aarch64", "x86_64"}
  PROVE  /\ Order \in Seq(Bus)
         /\ \A s \in Bus : \E i \in 1..Len(Order) : Order[i] = s
<1>1. CASE arch = "x86_64"
  <2>1. Order = [i \in 1..(MmioSlots + 1) |-> IF i = 1 THEN Preferred ELSE i - 2]
    BY <1>1 DEF Order
  <2>2. \A i \in 1..(MmioSlots + 1) : Order[i] \in Bus
    BY <2>1, BusBounds
  <2>3. Order \in Seq(Bus) /\ Len(Order) = MmioSlots + 1
    BY <2>1, <2>2, BusBounds
  <2>4. ASSUME NEW s \in Bus PROVE \E i \in 1..Len(Order) : Order[i] = s
    <3>1. s + 2 \in 1..(MmioSlots + 1) /\ Order[s + 2] = s
      BY <2>1, BusBounds
    <3> QED
      BY <2>3, <3>1
  <2> QED
    BY <2>3, <2>4
<1>2. CASE arch = "aarch64"
  <2>1. Order = [i \in 1..MmioSlots |->
                  CASE i = 1 -> Preferred [] i \in 2..(Preferred + 1) -> i - 2
                    [] OTHER -> i - 1]
    BY <1>2 DEF Order
  <2>2. \A i \in 1..MmioSlots : Order[i] \in Bus
    BY <2>1, BusBounds
  <2>3. Order \in Seq(Bus) /\ Len(Order) = MmioSlots
    BY <2>1, <2>2, BusBounds
  <2>4. ASSUME NEW s \in Bus PROVE \E i \in 1..Len(Order) : Order[i] = s
    <3>1. CASE s = Preferred
      <4>1. 1 \in 1..MmioSlots /\ Order[1] = s
        BY <2>1, <3>1, BusBounds
      <4> QED
        BY <2>3, <4>1
    <3>2. CASE s < Preferred
      <4>1. s + 2 \in 1..MmioSlots /\ Order[s + 2] = s
        BY <2>1, <3>2, BusBounds
      <4> QED
        BY <2>3, <4>1
    <3>3. CASE s > Preferred
      <4>1. s + 1 \in 1..MmioSlots /\ Order[s + 1] = s
        BY <2>1, <3>3, BusBounds
      <4> QED
        BY <2>3, <4>1
    <3> QED
      BY <3>1, <3>2, <3>3, BusBounds
  <2> QED
    BY <2>3, <2>4
<1> QED
  BY <1>1, <1>2

LEMMA ProbeInitially == ProbeInit => ProbeIInv
<1> SUFFICES ASSUME ProbeInit PROVE ProbeIInv
  OBVIOUS
<1>1. /\ arch \in {"aarch64", "x86_64"} /\ kind \in [Bus -> Kinds] /\ Kinds \subseteq AllKinds
      /\ status = [s \in Bus |-> {}] /\ acked = [s \in Bus |-> {}]
      /\ queue = [s \in Bus |-> [q \in Queues |-> None]]
      /\ kicked = {} /\ step = "scan" /\ at = 0 /\ todo = Order
      /\ depth = [q \in Queues |-> 0] /\ posted = 0
  BY ProbeAssumption DEF ProbeInit, ProbeAssumption
<1>2. ready \in BOOLEAN /\ ~ready
  BY Zenon DEF ProbeInit
<1>3. Answers /\ up \subseteq Bus
  BY <1>1, BusBounds DEF ProbeInit, Answers
<1>4. kind \in [Bus -> AllKinds]
  BY <1>1
<1>5. 0 \in Bus /\ 0 \in 0..QUEUE_DEPTH
  BY BusBounds
<1>6. None \in [num : 0..QUEUE_DEPTH, pfn : 0..1, ready : 0..1]
  BY <1>5 DEF None
<1>7. queue \in [Bus -> [Queues -> [num : 0..QUEUE_DEPTH, pfn : 0..1, ready : 0..1]]]
  BY <1>1, <1>6
<1>8. ProbeTypeOK
  BY <1>1, <1>2, <1>3, <1>5, <1>7, OrderCovers DEF ProbeTypeOK
<1>9. ProbeTypes
  BY <1>1, <1>4 DEF ProbeTypes
<1>10. Live = {}
  BY <1>1 DEF Live
<1>11. LiveInv
  BY <1>1, <1>2, <1>10 DEF LiveInv
<1>12. Attempt
  BY <1>1 DEF Attempt
<1>13. OnlyOffered
  BY <1>1 DEF OnlyOffered
<1>14. \A s \in Bus : Waiting(s)
  BY <1>1, OrderCovers DEF Waiting
<1>15. PassedOver
  BY <1>14 DEF PassedOver
<1>16. HaltsOnlyWithoutDevice
  BY <1>1 DEF HaltsOnlyWithoutDevice
<1> QED
  BY <1>3, <1>8, <1>9, <1>11, <1>12, <1>13, <1>15, <1>16 DEF ProbeIInv

-----------------------------------------------------------------------------
(* The steps.                                                              *)

\* A failed attempt: the scan goes on without the slot, or the halt.
LEMMA FailStep ==
  ASSUME ProbeIInv, Fail, UNCHANGED <<arch, kind, up, at, todo>>,
         step \notin {"scan", "halt"},
         IF arch = "aarch64" THEN ~Usable(at) ELSE \E q \in Queues : QueueNumMax(at, q) = 0
  PROVE  PassedOver' /\ HaltsOnlyWithoutDevice' /\ step' \in {"scan", "halt"}
<1>1. arch \in {"aarch64", "x86_64"}
  BY DEF ProbeIInv, ProbeTypes
<1>2. /\ arch = "aarch64" => step' = "scan"
      /\ arch = "x86_64" => step' = "halt"
  BY <1>1 DEF Fail
<1>3. /\ \A s : Usable(s)' <=> Usable(s)
      /\ \A s : Waiting(s)' <=> Waiting(s)
      /\ \A s : is_net_device(s)' <=> is_net_device(s)
      /\ \A s, q : QueueNumMax(s, q)' = QueueNumMax(s, q)
  BY DEF Usable, Waiting, is_net_device, QueueNumMax
<1>4. PassedOver'
  <2>1. CASE arch = "aarch64"
    BY <1>2, <1>3, <2>1 DEF ProbeIInv, PassedOver, Trying
  <2>2. CASE arch = "x86_64"
    BY <1>2, <2>2 DEF PassedOver
  <2> QED
    BY <1>1, <2>1, <2>2
<1>5. HaltsOnlyWithoutDevice'
  BY <1>1, <1>2, <1>3 DEF HaltsOnlyWithoutDevice
<1> QED
  BY <1>1, <1>2, <1>4, <1>5

\* An attempt that goes on.
LEMMA OnStep ==
  ASSUME ProbeIInv, UNCHANGED <<arch, kind, up, at, todo>>,
         step \notin {"scan", "halt"}, step' \notin {"scan", "halt"}
  PROVE  PassedOver' /\ HaltsOnlyWithoutDevice'
<1>1. /\ \A s : Usable(s)' <=> Usable(s)
      /\ \A s : Waiting(s)' <=> Waiting(s)
  BY DEF Usable, Waiting, QueueNumMax
<1>2. PassedOver'
  BY <1>1 DEF ProbeIInv, PassedOver, Trying
<1> QED
  BY <1>2 DEF HaltsOnlyWithoutDevice

\* Nothing is live but what is being tried, so a reset or a setting of another status
\* leaves nothing live.
LEMMA StillDead ==
  ASSUME ProbeIInv,
         step \notin {"post", "notify", "loop"}, step' \notin {"post", "notify", "loop"},
         NEW st \in SUBSET {"ACK", "DRIVER", "FEATURES_OK"},
         status' = status \/ status' = [status EXCEPT ![at] = st],
         kicked' = kicked \/ kicked' = kicked \ {at}, ready' = ready \/ ready' = FALSE
  PROVE  LiveInv' /\ (\A s \in Bus : "FAILED" \notin status'[s]) /\ kicked' \subseteq Bus
         /\ status' \in [Bus -> SUBSET {"ACK", "DRIVER", "FEATURES_OK", "DRIVER_OK", "FAILED"}]
<1>1. /\ Live = {} /\ kicked = {} /\ ~ready
      /\ status \in [Bus -> SUBSET {"ACK", "DRIVER", "FEATURES_OK", "DRIVER_OK", "FAILED"}]
      /\ \A s \in Bus : "FAILED" \notin status[s]
  BY DEF ProbeIInv, LiveInv, ProbeTypeOK, ProbeTypes
<1>2. /\ \A s \in Bus : "DRIVER_OK" \notin status'[s] /\ "FAILED" \notin status'[s]
      /\ status' \in [Bus -> SUBSET {"ACK", "DRIVER", "FEATURES_OK", "DRIVER_OK", "FAILED"}]
  <2>1. \A s \in Bus : "DRIVER_OK" \notin status[s]
    BY <1>1 DEF Live
  <2>2. CASE status' = status
    BY <1>1, <2>1, <2>2
  <2>3. CASE status' = [status EXCEPT ![at] = st]
    <3>1. st \in SUBSET {"ACK", "DRIVER", "FEATURES_OK", "DRIVER_OK", "FAILED"}
      OBVIOUS
    <3>2. status' \in [Bus -> SUBSET {"ACK", "DRIVER", "FEATURES_OK", "DRIVER_OK", "FAILED"}]
      BY <1>1, <2>3, <3>1
    <3>3. \A s \in Bus : status'[s] = st \/ status'[s] = status[s]
      BY <1>1, <2>3
    <3> QED
      BY <1>1, <2>1, <3>2, <3>3
  <2> QED
    BY <2>2, <2>3
<1>3. Live' = {} /\ kicked' = {} /\ ~ready'
  BY <1>1, <1>2 DEF Live
<1> QED
  BY <1>2, <1>3 DEF LiveInv

LEMMA ScanStep ==
  ASSUME ProbeIInv, Scan
  PROVE  ProbeIInv'
<1>1. /\ step = "scan"
      /\ UNCHANGED <<arch, depth, posted, ready, kind, up, status, acked, queue, kicked>>
  BY DEF Scan, device
<1>2. \/ todo = <<>> /\ step' = "halt" /\ at' = at /\ todo' = todo
      \/ /\ todo # <<>> /\ todo' = Tail(todo) /\ at' = Head(todo)
         /\ step' = IF is_net_device(Head(todo)) THEN "reset" ELSE "scan"
  BY DEF Scan, Halt
<1>t. /\ ProbeTypeOK /\ ProbeTypes /\ Answers /\ LiveInv /\ OnlyOffered /\ PassedOver
      /\ HaltsOnlyWithoutDevice
  BY DEF ProbeIInv
<1>3. todo \in Seq(Bus) /\ at \in Bus
  BY <1>t DEF ProbeTypeOK
<1>4. at' \in Bus /\ todo' \in Seq(Bus) /\ step' \in {"halt", "reset", "scan"}
  BY <1>2, <1>3
<1>5. ProbeTypeOK'
  BY <1>t, <1>1, <1>4 DEF ProbeTypeOK
<1>6. ProbeTypes' /\ Answers'
  BY <1>t, <1>1 DEF ProbeTypes, Answers
<1>7. LiveInv'
  BY <1>t, <1>1, <1>4 DEF LiveInv, Live
<1>8. Attempt'
  BY <1>4 DEF Attempt
<1>9. OnlyOffered'
  BY <1>t, <1>1 DEF OnlyOffered, Version, Offered
<1>10. /\ \A s : Usable(s)' <=> Usable(s)
       /\ \A s : is_net_device(s)' <=> is_net_device(s)
       /\ \A s : ~Trying(s)
  BY <1>1 DEF Usable, is_net_device, Trying, QueueNumMax
<1>11. CASE todo = <<>>
  <2>1. step' = "halt" /\ todo' = todo /\ at' = at
    BY <1>2, <1>11
  <2>2. \A s : ~Waiting(s)
    BY <1>11 DEF Waiting
  <2>3. PassedOver'
    BY <1>t, <1>1, <1>10, <2>1, <2>2 DEF PassedOver
  <2>4. HaltsOnlyWithoutDevice'
    BY <1>t, <1>1, <1>10, <2>1, <2>2 DEF PassedOver, HaltsOnlyWithoutDevice
  <2> QED
    BY <1>5, <1>6, <1>7, <1>8, <1>9, <2>3, <2>4 DEF ProbeIInv
<1>12. CASE todo # <<>>
  <2>1. /\ todo' = Tail(todo) /\ at' = Head(todo)
        /\ step' = IF is_net_device(at') THEN "reset" ELSE "scan"
    BY <1>2, <1>12
  <2>2. ASSUME NEW s \in Bus, Waiting(s) PROVE s = at' \/ Waiting(s)'
    <3>1. PICK i \in 1..Len(todo) : todo[i] = s
      BY <2>2 DEF Waiting
    <3>2. CASE i = 1
      BY <2>1, <3>1, <3>2
    <3>3. CASE i # 1
      <4>1. Len(Tail(todo)) = Len(todo) - 1 /\ i - 1 \in 1..(Len(todo) - 1)
        BY <1>3, <1>12, <3>3
      <4>2. Tail(todo)[i - 1] = todo[i]
        BY <1>3, <1>12, <3>3, <4>1
      <4> QED
        BY <2>1, <3>1, <4>1, <4>2 DEF Waiting
    <3> QED
      BY <3>2, <3>3
  <2>3. PassedOver'
    <3> SUFFICES ASSUME NEW s \in Bus
                 PROVE  IF arch = "aarch64" THEN Waiting(s)' \/ Trying(s)' \/ ~Usable(s)
                        ELSE step' = "scan" => s = Preferred \/ Waiting(s)' \/ ~is_net_device(s)
      BY <1>1, <1>10 DEF PassedOver
    <3>1. CASE Waiting(s)'
      BY <3>1
    <3>2. CASE s = at' /\ step' = "reset"
      BY <3>2 DEF Trying
    <3>3. CASE s = at' /\ step' = "scan"
      <4>1. ~is_net_device(s)
        BY <2>1, <3>3
      <4>2. arch = "aarch64" => kind[s] = "empty"
        BY <1>t, <4>1 DEF Answers, is_net_device
      <4>3. arch = "aarch64" => ~Usable(s)
        BY <1>t, <4>2, UsableKinds DEF ProbeTypes
      <4> QED
        BY <4>1, <4>3
    <3>4. CASE ~Waiting(s)
      BY <1>t, <1>1, <1>10, <3>4 DEF PassedOver
    <3> QED
      BY <2>1, <2>2, <3>1, <3>2, <3>3, <3>4
  <2>4. HaltsOnlyWithoutDevice'
    BY <2>1 DEF HaltsOnlyWithoutDevice
  <2> QED
    BY <1>5, <1>6, <1>7, <1>8, <1>9, <2>3, <2>4 DEF ProbeIInv
<1> QED
  BY <1>11, <1>12

LEMMA ResetStep ==
  ASSUME ProbeIInv, Reset
  PROVE  ProbeIInv'
<1>1. /\ step = "reset" /\ step' = "features"
      /\ status' = [status EXCEPT ![at] = {"ACK", "DRIVER"}]
      /\ acked' = [acked EXCEPT ![at] = {}]
      /\ queue' = [queue EXCEPT ![at] = [q \in Queues |-> None]]
      /\ kicked' = kicked \ {at}
      /\ UNCHANGED <<arch, kind, up, at, todo, depth, posted, ready>>
  BY DEF Reset
<1>t. /\ ProbeTypeOK /\ ProbeTypes /\ Answers /\ OnlyOffered
  BY DEF ProbeIInv
<1>2. /\ LiveInv' /\ \A s \in Bus : "FAILED" \notin status'[s]
      /\ status' \in [Bus -> SUBSET {"ACK", "DRIVER", "FEATURES_OK", "DRIVER_OK", "FAILED"}]
      /\ kicked' \subseteq Bus
  BY <1>1, StillDead
<1>3. queue' \in [Bus -> [Queues -> [num : 0..QUEUE_DEPTH, pfn : 0..1, ready : 0..1]]]
  <2>1. None \in [num : 0..QUEUE_DEPTH, pfn : 0..1, ready : 0..1]
    BY BusBounds DEF None
  <2> QED
    BY <1>t, <1>1, <2>1 DEF ProbeTypeOK
<1>4. ProbeTypeOK'
  BY <1>t, <1>1, <1>2, <1>3 DEF ProbeTypeOK
<1>5. ProbeTypes' /\ Answers'
  BY <1>t, <1>1, <1>2 DEF ProbeTypes, Answers
<1>6. Attempt'
  BY <1>1 DEF Attempt
<1>7. OnlyOffered'
  <2>1. \A s \in Bus : acked'[s] = {} \/ acked'[s] = acked[s]
    BY <1>t, <1>1 DEF ProbeTypes
  <2> QED
    BY <1>t, <1>1, <2>1 DEF OnlyOffered, Version, Offered
<1>8. PassedOver' /\ HaltsOnlyWithoutDevice'
  BY <1>1, OnStep
<1> QED
  BY <1>2, <1>4, <1>5, <1>6, <1>7, <1>8 DEF ProbeIInv

LEMMA FeaturesStep ==
  ASSUME ProbeIInv, Features
  PROVE  ProbeIInv'
<1>t. /\ ProbeTypeOK /\ ProbeTypes /\ Answers /\ OnlyOffered /\ at \in Bus
      /\ kind \in [Bus -> AllKinds] /\ arch \in {"aarch64", "x86_64"}
  BY DEF ProbeIInv, ProbeTypeOK, ProbeTypes
<1>1. /\ step = "features"
      /\ UNCHANGED <<arch, kind, up, queue, kicked, at, todo, depth, posted, ready>>
  BY DEF Features
<1> DEFINE mac == {"MAC"} \cap Offered(at)
<1>2. mac = {"MAC"}
  BY DEF Offered
<1>3. \/ /\ arch = "x86_64" /\ acked' = [acked EXCEPT ![at] = {"MAC"}] /\ step' = "rx"
         /\ status' = status
      \/ /\ arch = "aarch64" /\ Unsuitable(at)
         /\ acked' = [acked EXCEPT ![at] = {"MAC"}] /\ Fail /\ status' = status
      \/ /\ arch = "aarch64" /\ ~Unsuitable(at)
         /\ acked' = [acked EXCEPT ![at] = {"MAC", "VERSION_1"}] /\ step' = "prepare"
         /\ status' = IF kind[at] = "picky" THEN status
                      ELSE [status EXCEPT ![at] = @ \cup {"FEATURES_OK"}]
  BY <1>t, <1>2 DEF Features
<1>4. step' \in {"rx", "prepare", "scan", "halt"}
  BY <1>3 DEF Fail
<1>5. PICK st \in SUBSET {"ACK", "DRIVER", "FEATURES_OK"} :
         status' = status \/ status' = [status EXCEPT ![at] = st]
  <2>1. /\ status[at] \subseteq {"ACK", "DRIVER", "FEATURES_OK", "DRIVER_OK", "FAILED"}
        /\ "FAILED" \notin status[at]
    BY <1>t DEF ProbeTypeOK, ProbeTypes
  <2>2. "DRIVER_OK" \notin status[at]
    BY <1>t, <1>1 DEF ProbeIInv, LiveInv, Live
  <2>3. status[at] \cup {"FEATURES_OK"} \in SUBSET {"ACK", "DRIVER", "FEATURES_OK"}
    BY <2>1, <2>2
  <2>4. status' = status \/ status' = [status EXCEPT ![at] = status[at] \cup {"FEATURES_OK"}]
    BY <1>3
  <2> QED
    BY <2>3, <2>4
<1>6. /\ LiveInv' /\ \A s \in Bus : "FAILED" \notin status'[s]
      /\ status' \in [Bus -> SUBSET {"ACK", "DRIVER", "FEATURES_OK", "DRIVER_OK", "FAILED"}]
      /\ kicked' \subseteq Bus
  BY <1>1, <1>4, <1>5, StillDead
<1>7. ProbeTypeOK'
  BY <1>t, <1>1, <1>4, <1>6 DEF ProbeTypeOK
<1>8. /\ acked' \in [Bus -> SUBSET {"MAC", "VERSION_1"}]
      /\ \A s \in Bus : s # at => acked'[s] = acked[s]
      /\ acked'[at] = {"MAC"} \/ (acked'[at] = {"MAC", "VERSION_1"} /\ ~Unsuitable(at))
  BY <1>t, <1>3 DEF ProbeTypes
<1>9. ProbeTypes' /\ Answers'
  BY <1>t, <1>1, <1>6, <1>8 DEF ProbeTypes, Answers
<1>10. Attempt'
  <2>1. CASE step' = "prepare"
    <3>1. arch = "aarch64" /\ (kind[at] # "picky" => "FEATURES_OK" \in status'[at])
      <4>1. DOMAIN status = Bus
        BY <1>t DEF ProbeTypeOK
      <4> QED
        BY <1>t, <1>3, <2>1, <4>1 DEF Fail
    <3> QED
      BY <1>1, <2>1, <3>1 DEF Attempt
  <2>2. CASE step' = "rx"
    <3>1. arch = "x86_64"
      BY <1>t, <1>3, <2>2 DEF Fail
    <3> QED
      BY <1>1, <2>2, <3>1 DEF Attempt
  <2>3. CASE step' \in {"scan", "halt"}
    BY <2>3 DEF Attempt
  <2> QED
    BY <1>4, <2>1, <2>2, <2>3
<1>11. OnlyOffered'
  <2> SUFFICES ASSUME NEW s \in Bus
               PROVE  /\ Version(s) >= 2 => acked'[s] \subseteq Offered(s)
                      /\ acked'[s] \subseteq {"MAC", "VERSION_1"}
    BY <1>1 DEF OnlyOffered, Version, Offered
  <2>1. CASE s # at
    BY <1>t, <1>8, <2>1 DEF OnlyOffered
  <2>2. CASE s = at
    <3>1. "MAC" \in Offered(s)
      BY DEF Offered
    <3>2. Version(s) >= 2 /\ ~Unsuitable(s) => "VERSION_1" \in Offered(s)
      BY DEF Unsuitable
    <3> QED
      BY <1>8, <2>2, <3>1, <3>2
  <2> QED
    BY <2>1, <2>2
<1>12. PassedOver' /\ HaltsOnlyWithoutDevice'
  <2>1. CASE step' \in {"rx", "prepare"}
    BY <1>1, <2>1, OnStep
  <2>2. CASE step' \in {"scan", "halt"}
    <3>1. arch = "aarch64" /\ Unsuitable(at) /\ Fail
      BY <1>3, <2>2
    <3>2. ~Usable(at)
      BY <1>t, <3>1, UsableKinds
    <3> QED
      BY <1>1, <3>1, <3>2, FailStep
  <2> QED
    BY <1>4, <2>1, <2>2
<1> QED
  BY <1>6, <1>7, <1>9, <1>10, <1>11, <1>12 DEF ProbeIInv

\* A device that must fail verify_features_ok is not used on aarch64.
LEMMA PrepareStep ==
  ASSUME ProbeIInv, Prepare
  PROVE  ProbeIInv'
<1>t. /\ ProbeTypeOK /\ ProbeTypes /\ Answers /\ OnlyOffered /\ Attempt /\ at \in Bus
      /\ kind \in [Bus -> AllKinds] /\ arch \in {"aarch64", "x86_64"}
  BY DEF ProbeIInv, ProbeTypeOK, ProbeTypes
<1>1. step = "prepare" /\ UNCHANGED <<arch, at, todo, posted>> /\ UNCHANGED device
  BY DEF Prepare
<1>2. UNCHANGED <<kind, up, status, acked, queue, kicked>>
  BY <1>1 DEF device
<1>3. \/ /\ verify_features_ok /\ step' = "rx"
         /\ depth' = [q \in Queues |-> 0] /\ ready' = FALSE
      \/ ~verify_features_ok /\ Fail /\ UNCHANGED <<depth, ready>>
  BY DEF Prepare
<1>4. arch = "aarch64" /\ (kind[at] # "picky" => "FEATURES_OK" \in status[at])
  BY <1>t, <1>1 DEF Attempt
<1>5. step' \in {"rx", "scan", "halt"}
  BY <1>3 DEF Fail
<1>6. ready' = ready \/ ready' = FALSE
  BY <1>3
<1>7. LiveInv' /\ \A s \in Bus : "FAILED" \notin status'[s]
  BY <1>1, <1>2, <1>5, <1>6, StillDead
<1>8. depth' \in [Queues -> 0..QUEUE_DEPTH] /\ ready' \in BOOLEAN
  <2>1. depth \in [Queues -> 0..QUEUE_DEPTH] /\ ready \in BOOLEAN
    BY <1>t DEF ProbeTypeOK
  <2>2. depth' = depth \/ depth' = [q \in Queues |-> 0]
    BY <1>3
  <2>3. 0 \in 0..QUEUE_DEPTH
    BY BusBounds
  <2>4. ready' \in BOOLEAN
    BY <1>6, <2>1, Zenon
  <2> QED
    BY <2>1, <2>2, <2>3, <2>4
<1>9. ProbeTypeOK'
  BY <1>t, <1>1, <1>2, <1>5, <1>8 DEF ProbeTypeOK
<1>10. ProbeTypes' /\ Answers' /\ OnlyOffered'
  BY <1>t, <1>1, <1>2 DEF ProbeTypes, Answers, OnlyOffered, Version, Offered
<1>11. CASE step' = "rx"
  <2>1. verify_features_ok
    BY <1>3, <1>11 DEF Fail
  <2>2. Attempt'
    BY <1>1, <1>2, <1>11, <2>1 DEF Attempt, verify_features_ok
  <2>3. PassedOver' /\ HaltsOnlyWithoutDevice'
    BY <1>1, <1>2, <1>11, OnStep
  <2> QED
    BY <1>7, <1>9, <1>10, <2>2, <2>3 DEF ProbeIInv
<1>12. CASE step' \in {"scan", "halt"}
  <2>1. Attempt'
    BY <1>12 DEF Attempt
  <2>2. ~verify_features_ok /\ Fail
    BY <1>3, <1>12
  <2>3. kind[at] = "picky"
    BY <1>t, <1>4, <2>2 DEF verify_features_ok, ProbeTypes
  <2>4. ~Usable(at)
    BY <1>t, <1>4, <2>3, UsableKinds
  <2>5. PassedOver' /\ HaltsOnlyWithoutDevice'
    BY <1>1, <1>2, <1>4, <2>2, <2>4, FailStep
  <2> QED
    BY <1>7, <1>9, <1>10, <2>1, <2>5 DEF ProbeIInv
<1> QED
  BY <1>5, <1>11, <1>12

\* What setting up a queue leaves as it is, and that it fails for want of a queue only.
LEMMA ConfigureStep ==
  ASSUME ProbeIInv, NEW q \in Queues, configure(q), step \in {"rx", "tx"},
         UNCHANGED <<arch, kind, up, status, acked, kicked, at, todo, ready>>
  PROVE  /\ ProbeTypes' /\ Answers' /\ OnlyOffered' /\ LiveInv'
         /\ PassedOver' /\ HaltsOnlyWithoutDevice'
         /\ queue' \in [Bus -> [Queues -> [num : 0..QUEUE_DEPTH, pfn : 0..1, ready : 0..1]]]
         /\ depth' \in [Queues -> 0..QUEUE_DEPTH]
         /\ \/ step' \in {"scan", "halt"}
            \/ /\ step' = IF q = "rx" THEN "tx" ELSE "driver_ok"
               /\ depth' = [depth EXCEPT ![q] = QueueDepth(at, q)]
               /\ Programmed(q)'
               /\ \A p \in Queues \ {q} : Programmed(p) => Programmed(p)'
               /\ QueueNumMax(at, q) # 0
<1>t. /\ ProbeTypeOK /\ ProbeTypes /\ Answers /\ OnlyOffered /\ at \in Bus
      /\ kind \in [Bus -> AllKinds] /\ arch \in {"aarch64", "x86_64"}
      /\ queue \in [Bus -> [Queues -> [num : 0..QUEUE_DEPTH, pfn : 0..1, ready : 0..1]]]
      /\ depth \in [Queues -> 0..QUEUE_DEPTH]
  BY DEF ProbeIInv, ProbeTypeOK, ProbeTypes
<1> DEFINE set == [num |-> QueueDepth(at, q), pfn |-> 1,
                   ready |-> IF arch = "aarch64" THEN 1 ELSE queue[at][q].ready]
<1>1. \/ QueueNumMax(at, q) = 0 /\ Fail /\ UNCHANGED <<queue, depth>>
      \/ /\ QueueNumMax(at, q) # 0
         /\ queue' = [queue EXCEPT ![at][q] = set]
         /\ depth' = [depth EXCEPT ![q] = QueueDepth(at, q)]
         /\ step' = IF q = "rx" THEN "tx" ELSE "driver_ok"
  BY DEF configure
<1>2. step' \in {"tx", "driver_ok", "scan", "halt"}
  BY <1>1 DEF Fail
<1>3. LiveInv' /\ \A s \in Bus : "FAILED" \notin status'[s]
  BY <1>2, StillDead
<1>4. ProbeTypes' /\ Answers' /\ OnlyOffered'
  BY <1>t DEF ProbeTypes, Answers, OnlyOffered, Version, Offered
<1>5. QueueDepth(at, q) \in 0..QUEUE_DEPTH
  BY <1>t, NumMax
<1>6. set \in [num : 0..QUEUE_DEPTH, pfn : 0..1, ready : 0..1]
  <2>1. queue[at][q] \in [num : 0..QUEUE_DEPTH, pfn : 0..1, ready : 0..1]
    BY <1>t
  <2>2. (IF arch = "aarch64" THEN 1 ELSE queue[at][q].ready) \in 0..1
    BY <2>1
  <2> QED
    BY <1>5, <2>2
<1>m. set.num = QueueDepth(at, q) /\ set.pfn = 1 /\ (arch = "aarch64" => set.ready = 1)
  OBVIOUS
<1> HIDE DEF set
<1>7. CASE QueueNumMax(at, q) = 0
  <2>1. Fail /\ UNCHANGED <<queue, depth>>
    BY <1>1, <1>7
  <2>2. ~Usable(at) /\ \E p \in Queues : QueueNumMax(at, p) = 0
    BY <1>7 DEF Usable
  <2>3. PassedOver' /\ HaltsOnlyWithoutDevice' /\ step' \in {"scan", "halt"}
    BY <2>1, <2>2, FailStep
  <2> QED
    BY <1>t, <1>3, <1>4, <2>1, <2>3
<1>8. CASE QueueNumMax(at, q) # 0
  <2>1. /\ queue' = [queue EXCEPT ![at][q] = set]
        /\ depth' = [depth EXCEPT ![q] = QueueDepth(at, q)]
        /\ step' = IF q = "rx" THEN "tx" ELSE "driver_ok"
    BY <1>1, <1>8
  <2>2. PassedOver' /\ HaltsOnlyWithoutDevice'
    BY <2>1, OnStep
  <2>3. /\ queue' \in [Bus -> [Queues -> [num : 0..QUEUE_DEPTH, pfn : 0..1, ready : 0..1]]]
        /\ queue'[at][q] = set
        /\ \A p \in Queues \ {q} : queue'[at][p] = queue[at][p]
    BY <1>t, <1>6, <2>1
  <2>4. /\ depth' \in [Queues -> 0..QUEUE_DEPTH] /\ depth'[q] = QueueDepth(at, q)
        /\ \A p \in Queues \ {q} : depth'[p] = depth[p]
    BY <1>t, <1>5, <2>1
  <2>5. Programmed(q)'
    BY <1>m, <2>3, <2>4 DEF Programmed
  <2>6. \A p \in Queues \ {q} : Programmed(p) => Programmed(p)'
    BY <2>3, <2>4 DEF Programmed
  <2> QED
    BY <1>3, <1>4, <1>8, <2>1, <2>2, <2>3, <2>4, <2>5, <2>6
<1> QED
  BY <1>7, <1>8

LEMMA SetupRxStep ==
  ASSUME ProbeIInv, SetupRx
  PROVE  ProbeIInv'
<1>t. ProbeTypeOK /\ Attempt /\ arch \in {"aarch64", "x86_64"}
  BY DEF ProbeIInv, ProbeTypes
<1>1. /\ step = "rx" /\ configure("rx") /\ "rx" \in Queues
      /\ UNCHANGED <<arch, kind, up, status, acked, kicked, at, todo, ready>>
      /\ posted' = IF QueueNumMax(at, "rx") = 0 THEN 0 ELSE PostedAtSetup
  BY DEF SetupRx, Queues
<1>2. /\ ProbeTypes' /\ Answers' /\ OnlyOffered' /\ LiveInv'
      /\ PassedOver' /\ HaltsOnlyWithoutDevice'
      /\ queue' \in [Bus -> [Queues -> [num : 0..QUEUE_DEPTH, pfn : 0..1, ready : 0..1]]]
      /\ depth' \in [Queues -> 0..QUEUE_DEPTH]
      /\ \/ step' \in {"scan", "halt"}
         \/ step' = "tx" /\ Programmed("rx")' /\ QueueNumMax(at, "rx") # 0
  BY <1>1, ConfigureStep
<1>3. posted' \in 0..QUEUE_DEPTH
  BY <1>1, <1>2, BusBounds DEF PostedAtSetup
<1>4. ProbeTypeOK'
  BY <1>t, <1>1, <1>2, <1>3 DEF ProbeTypeOK
<1>5. Attempt'
  <2>1. CASE step' \in {"scan", "halt"}
    BY <2>1 DEF Attempt
  <2>2. CASE step' = "tx"
    <3>1. arch = "aarch64" => posted' = depth'["rx"]
      BY <1>1, <1>2, <2>2 DEF PostedAtSetup
    <3> QED
      BY <1>t, <1>1, <1>2, <2>2, <3>1 DEF Attempt
  <2> QED
    BY <1>2, <2>1, <2>2
<1> QED
  BY <1>2, <1>4, <1>5 DEF ProbeIInv

LEMMA SetupTxStep ==
  ASSUME ProbeIInv, SetupTx
  PROVE  ProbeIInv'
<1>t. ProbeTypeOK /\ Attempt /\ arch \in {"aarch64", "x86_64"}
  BY DEF ProbeIInv, ProbeTypes
<1>1. /\ step = "tx" /\ configure("tx") /\ "tx" \in Queues /\ "rx" \in Queues \ {"tx"}
      /\ UNCHANGED <<arch, kind, up, status, acked, kicked, at, todo, posted, ready>>
  BY DEF SetupTx, Queues
<1>2. /\ ProbeTypes' /\ Answers' /\ OnlyOffered' /\ LiveInv'
      /\ PassedOver' /\ HaltsOnlyWithoutDevice'
      /\ queue' \in [Bus -> [Queues -> [num : 0..QUEUE_DEPTH, pfn : 0..1, ready : 0..1]]]
      /\ depth' \in [Queues -> 0..QUEUE_DEPTH]
      /\ \/ step' \in {"scan", "halt"}
         \/ /\ step' = "driver_ok"
            /\ depth' = [depth EXCEPT !["tx"] = QueueDepth(at, "tx")]
            /\ Programmed("tx")'
            /\ Programmed("rx") => Programmed("rx")'
  BY <1>1, ConfigureStep
<1>3. ProbeTypeOK'
  BY <1>t, <1>1, <1>2 DEF ProbeTypeOK
<1>4. Attempt'
  <2>1. CASE step' \in {"scan", "halt"}
    BY <2>1 DEF Attempt
  <2>2. CASE step' = "driver_ok"
    <3>1. depth'["rx"] = depth["rx"]
      BY <1>t, <1>1, <1>2, <2>2 DEF ProbeTypeOK
    <3>2. Programmed("rx")
      BY <1>t, <1>1 DEF Attempt
    <3>3. arch = "aarch64" => "FEATURES_OK" \in status[at] /\ posted = depth["rx"]
      BY <1>t, <1>1 DEF Attempt
    <3> QED
      BY <1>1, <1>2, <2>2, <3>1, <3>2, <3>3 DEF Attempt
  <2> QED
    BY <1>2, <2>1, <2>2
<1> QED
  BY <1>2, <1>3, <1>4 DEF ProbeIInv

LEMMA DriverOkStep ==
  ASSUME ProbeIInv, DriverOk
  PROVE  ProbeIInv'
<1>t. /\ ProbeTypeOK /\ ProbeTypes /\ Answers /\ OnlyOffered /\ Attempt /\ LiveInv
      /\ at \in Bus /\ arch \in {"aarch64", "x86_64"}
      /\ status \in [Bus -> SUBSET {"ACK", "DRIVER", "FEATURES_OK", "DRIVER_OK", "FAILED"}]
  BY DEF ProbeIInv, ProbeTypeOK, ProbeTypes
<1>1. /\ step = "driver_ok"
      /\ UNCHANGED <<arch, kind, up, acked, queue, kicked, at, todo, depth, posted, ready>>
  BY DEF DriverOk
<1>2. arch = "aarch64" => verify_features_ok
  BY <1>t, <1>1 DEF Attempt, ProbeTypes, verify_features_ok
<1>3. /\ status' = [status EXCEPT ![at] = @ \cup {"DRIVER_OK"}]
      /\ step' = IF arch = "aarch64" THEN "notify" ELSE "post"
  BY <1>2 DEF DriverOk
<1>4. /\ status' \in [Bus -> SUBSET {"ACK", "DRIVER", "FEATURES_OK", "DRIVER_OK", "FAILED"}]
      /\ status'[at] = status[at] \cup {"DRIVER_OK"}
      /\ \A s \in Bus \ {at} : status'[s] = status[s]
  <2>1. status[at] \cup {"DRIVER_OK"} \in
          SUBSET {"ACK", "DRIVER", "FEATURES_OK", "DRIVER_OK", "FAILED"}
    BY <1>t
  <2> QED
    BY <1>t, <1>3, <2>1
<1>5. ProbeTypeOK'
  BY <1>t, <1>1, <1>3, <1>4 DEF ProbeTypeOK
<1>6. \A s \in Bus : "FAILED" \notin status'[s]
  BY <1>t, <1>4 DEF ProbeTypes
<1>7. ProbeTypes' /\ Answers' /\ OnlyOffered'
  BY <1>t, <1>1, <1>6 DEF ProbeTypes, Answers, OnlyOffered, Version, Offered
<1>8. LiveInv'
  <2>1. Live = {} /\ kicked = {} /\ ~ready
    BY <1>t, <1>1 DEF LiveInv
  <2>2. Live' = {at}
    BY <1>t, <1>4, <2>1 DEF Live
  <2> QED
    BY <1>1, <1>3, <2>1, <2>2 DEF LiveInv
<1>9. Attempt'
  <2>1. arch = "aarch64" => "FEATURES_OK" \in status'[at]
    BY <1>2, <1>4 DEF verify_features_ok
  <2>2. Programmed("rx") /\ Programmed("tx") /\ (arch = "aarch64" => posted = depth["rx"])
    BY <1>t, <1>1 DEF Attempt
  <2>3. Programmed("rx")' /\ Programmed("tx")'
    BY <1>1, <2>2 DEF Programmed
  <2>4. arch = "aarch64" => posted' = depth'["rx"]
    BY <1>1, <2>2
  <2> QED
    BY <1>t, <1>1, <1>3, <2>1, <2>3, <2>4 DEF Attempt
<1>10. PassedOver' /\ HaltsOnlyWithoutDevice'
  BY <1>1, <1>3, OnStep
<1> QED
  BY <1>5, <1>7, <1>8, <1>9, <1>10 DEF ProbeIInv

LEMMA PostStep ==
  ASSUME ProbeIInv, Post
  PROVE  ProbeIInv'
<1>t. ProbeTypeOK /\ ProbeTypes /\ Answers /\ OnlyOffered /\ Attempt /\ LiveInv /\ at \in Bus
  BY DEF ProbeIInv, ProbeTypeOK
<1>1. /\ step = "post" /\ step' = "notify" /\ posted' = depth["rx"]
      /\ UNCHANGED <<arch, kind, up, status, acked, queue, kicked, at, todo, depth>>
  BY DEF Post, device
<1>2. ready' = ready
  BY Zenon DEF Post
<1>3. posted' \in 0..QUEUE_DEPTH
  BY <1>t, <1>1 DEF ProbeTypeOK, Queues
<1>4. ProbeTypeOK'
  BY <1>t, <1>1, <1>2, <1>3 DEF ProbeTypeOK
<1>5. ProbeTypes' /\ Answers' /\ OnlyOffered'
  BY <1>t, <1>1 DEF ProbeTypes, Answers, OnlyOffered, Version, Offered
<1>6. LiveInv'
  <2>1. Live = {at} /\ kicked = {} /\ ~ready
    BY <1>t, <1>1 DEF LiveInv
  <2>2. Live' = Live
    BY <1>1 DEF Live
  <2> QED
    BY <1>1, <1>2, <2>1, <2>2 DEF LiveInv
<1>7. Attempt'
  <2>1. Programmed("rx") /\ Programmed("tx") /\ arch = "x86_64"
    BY <1>t, <1>1 DEF Attempt
  <2>2. Programmed("rx")' /\ Programmed("tx")'
    BY <1>1, <2>1 DEF Programmed
  <2> QED
    BY <1>1, <2>1, <2>2 DEF Attempt
<1>8. PassedOver' /\ HaltsOnlyWithoutDevice'
  BY <1>1, OnStep
<1> QED
  BY <1>4, <1>5, <1>6, <1>7, <1>8 DEF ProbeIInv

LEMMA DoorbellStep ==
  ASSUME ProbeIInv, Doorbell
  PROVE  ProbeIInv'
<1>t. ProbeTypeOK /\ ProbeTypes /\ Answers /\ OnlyOffered /\ Attempt /\ LiveInv /\ at \in Bus
  BY DEF ProbeIInv, ProbeTypeOK
<1>1. /\ step = "notify" /\ step' = "loop" /\ kicked' = kicked \cup {at}
      /\ UNCHANGED <<arch, kind, up, status, acked, queue, at, todo, depth, posted>>
  BY DEF Doorbell
<1>2. ready' \in BOOLEAN
  BY Zenon DEF Doorbell
<1>3. Live = {at} /\ kicked = {}
  BY <1>t, <1>1 DEF LiveInv
<1>4. ProbeTypeOK'
  BY <1>t, <1>1, <1>2 DEF ProbeTypeOK
<1>5. ProbeTypes' /\ Answers' /\ OnlyOffered'
  BY <1>t, <1>1 DEF ProbeTypes, Answers, OnlyOffered, Version, Offered
<1>6. LiveInv'
  BY <1>1, <1>3 DEF LiveInv, Live
<1>7. Attempt'
  BY <1>t, <1>1 DEF Attempt, Programmed
<1>8. PassedOver' /\ HaltsOnlyWithoutDevice'
  BY <1>1, OnStep
<1> QED
  BY <1>4, <1>5, <1>6, <1>7, <1>8 DEF ProbeIInv

\* A device that answers late: on x86_64 the scan passes over slots before it is seen.
LEMMA AppearStep ==
  ASSUME ProbeIInv, Appear
  PROVE  ProbeIInv'
<1>t. /\ ProbeTypeOK /\ ProbeTypes /\ Answers /\ OnlyOffered /\ Attempt /\ LiveInv
      /\ PassedOver /\ HaltsOnlyWithoutDevice
  BY DEF ProbeIInv
<1>1. /\ up # Bus /\ up' = Bus
      /\ UNCHANGED <<arch, step, at, todo, depth, posted, kind, status, acked, queue, kicked>>
  BY DEF Appear, driver
<1>2. ready' = ready
  BY Zenon DEF Appear, driver
<1>3. arch = "x86_64" /\ up = Bus \ {Preferred}
  BY <1>t, <1>1 DEF Answers
<1>4. ProbeTypeOK'
  BY <1>t, <1>1, <1>2 DEF ProbeTypeOK
<1>5. ProbeTypes' /\ Answers' /\ OnlyOffered'
  BY <1>t, <1>1 DEF ProbeTypes, Answers, OnlyOffered, Version, Offered
<1>6. LiveInv'
  BY <1>t, <1>1, <1>2 DEF LiveInv, Live
<1>7. Attempt'
  BY <1>t, <1>1 DEF Attempt, Programmed
<1>8. /\ \A s : Waiting(s)' <=> Waiting(s)
      /\ \A q : QueueNumMax(at, q)' = QueueNumMax(at, q)
      /\ \A s \in Bus : s # Preferred => (is_net_device(s)' <=> is_net_device(s))
  BY <1>1, <1>3 DEF Waiting, is_net_device, QueueNumMax
<1>9. PassedOver'
  BY <1>t, <1>1, <1>3, <1>8 DEF PassedOver
<1>10. HaltsOnlyWithoutDevice'
  BY <1>t, <1>1, <1>3, <1>8 DEF HaltsOnlyWithoutDevice
<1> QED
  BY <1>4, <1>5, <1>6, <1>7, <1>9, <1>10 DEF ProbeIInv

\* Every step keeps the invariant of the probe.
LEMMA ProbeStep ==
  ASSUME ProbeIInv, [ProbeNext]_probeVars
  PROVE  ProbeIInv'
<1>1. CASE Boot
  BY <1>1, ScanStep, ResetStep, FeaturesStep, PrepareStep, SetupRxStep, SetupTxStep,
     DriverOkStep, PostStep, DoorbellStep DEF Boot
<1>2. CASE Appear
  BY <1>2, AppearStep
<1>3. CASE UNCHANGED probeVars
  <2>1. UNCHANGED <<arch, step, at, todo, depth, posted, kind, up, status, acked, queue, kicked>>
    BY <1>3 DEF probeVars, driver, device
  <2>2. ready' = ready
    BY <1>3, Zenon DEF probeVars, driver
  <2>t. /\ ProbeTypeOK /\ ProbeTypes /\ Answers /\ OnlyOffered /\ Attempt /\ LiveInv
        /\ PassedOver /\ HaltsOnlyWithoutDevice
    BY DEF ProbeIInv
  <2>3. ProbeTypeOK' /\ LiveInv'
    BY <2>t, <2>1, <2>2 DEF ProbeTypeOK, LiveInv, Live
  <2>4. ProbeTypes' /\ Answers' /\ OnlyOffered' /\ Attempt'
    BY <2>t, <2>1 DEF ProbeTypes, Answers, OnlyOffered, Version, Offered, Attempt, Programmed
  <2>5. /\ \A s : Usable(s)' <=> Usable(s)
        /\ \A s : Waiting(s)' <=> Waiting(s)
        /\ \A s : Trying(s)' <=> Trying(s)
        /\ \A s : is_net_device(s)' <=> is_net_device(s)
        /\ \A s, q : QueueNumMax(s, q)' = QueueNumMax(s, q)
    BY <2>1 DEF Usable, Waiting, Trying, is_net_device, QueueNumMax
  <2>6. PassedOver' /\ HaltsOnlyWithoutDevice'
    BY <2>t, <2>1, <2>5 DEF PassedOver, HaltsOnlyWithoutDevice
  <2> QED
    BY <2>3, <2>4, <2>6 DEF ProbeIInv
<1> QED
  BY <1>1, <1>2, <1>3 DEF ProbeNext

LEMMA ProbeInvFollows == ProbeIInv => ProbeInv
<1> SUFFICES ASSUME ProbeIInv PROVE ProbeInv
  OBVIOUS
<1>t. /\ ProbeTypeOK /\ LiveInv /\ OnlyOffered /\ Attempt /\ HaltsOnlyWithoutDevice
      /\ arch \in {"aarch64", "x86_64"}
  BY DEF ProbeIInv, ProbeTypes
<1>1. Cardinality({}) = 0 /\ Cardinality({at}) = 1
  BY FS_EmptySet, FS_Singleton
<1>2. OneOwnerOfTheArena
  BY <1>t, <1>1 DEF LiveInv, OneOwnerOfTheArena
<1>3. LiveIsConfigured
  <2>1. kicked \subseteq Live
    BY <1>t DEF LiveInv
  <2>2. ASSUME NEW s \in Live
        PROVE  /\ \A q \in Queues : queue[s][q].num = depth[q]
               /\ arch = "aarch64" \/ Version(s) = 1 => \A q \in Queues : Active(s, q)
               /\ arch = "aarch64" \/ s \in kicked => posted = depth["rx"]
               /\ arch = "aarch64" => "FEATURES_OK" \in status[s]
    <3>1. s = at /\ step \in {"post", "notify", "loop"}
      BY <1>t, <2>2 DEF LiveInv
    <3>2. Programmed("rx") /\ Programmed("tx")
      BY <1>t, <3>1 DEF Attempt
    <3>3. \A q \in Queues : Programmed(q)
      BY <3>2 DEF Queues
    <3>4. \A q \in Queues : queue[s][q].num = depth[q]
      BY <3>1, <3>3 DEF Programmed
    <3>5. arch = "aarch64" \/ Version(s) = 1 => \A q \in Queues : Active(s, q)
      <4>1. Version(s) \in {1, 2}
        BY DEF Version
      <4> QED
        BY <3>1, <3>3, <4>1 DEF Programmed, Active
    <3>6. arch = "aarch64" \/ s \in kicked => posted = depth["rx"]
      BY <1>t, <3>1 DEF Attempt, LiveInv
    <3>7. arch = "aarch64" => "FEATURES_OK" \in status[s]
      BY <1>t, <3>1 DEF Attempt
    <3> QED
      BY <3>4, <3>5, <3>6, <3>7
  <2> QED
    BY <2>1, <2>2 DEF LiveIsConfigured
<1> QED
  BY <1>t, <1>2, <1>3 DEF ProbeInv

\* Whatever devices are on the bus and however late one answers: at most one goes live, with
\* its queues programmed as the driver uses them and, on aarch64 or if it is a version-1
\* device, activated, and none is given up that could be used.
THEOREM ProbeInvHolds == ProbeSpec => []ProbeInv
<1>1. ProbeIInv /\ [ProbeNext]_probeVars => ProbeIInv'
  BY ProbeStep
<1> QED
  BY ProbeInitially, <1>1, ProbeInvFollows, PTL DEF ProbeSpec

-----------------------------------------------------------------------------
(* How long booting can take.                                              *)

\* What is left of an attempt, step by step.
AttemptLeft ==
  [scan |-> 1, notify |-> 2, post |-> 3, driver_ok |-> 4, tx |-> 5, rx |-> 6, prepare |-> 7,
   features |-> 8, reset |-> 9]

\* The most steps the boot code can still take: none only in the main loop or the halt.
Left(st, slots) == IF st \in {"loop", "halt"} THEN 0 ELSE 9 * Len(slots) + AttemptLeft[st]
BootLeft == Left(step, todo)
BootMost == 9 * (MmioSlots + 1) + 1
BootBounded == BootLeft \in 0..BootMost

\* Every step of the boot code brings it nearer to the main loop or the halt.
BootAdvances == [][BootLeft' < BootLeft \/ (Appear /\ UNCHANGED driver)]_probeVars

BootSteps == {"scan", "reset", "features", "prepare", "rx", "tx", "driver_ok", "post",
              "notify", "loop", "halt"}

LEMMA LeftIs ==
  ASSUME NEW st \in BootSteps, NEW slots \in Seq(Bus)
  PROVE  /\ Left(st, slots) \in Nat /\ Len(slots) \in Nat
         /\ st = "scan" => Left(st, slots) = 9 * Len(slots) + 1
         /\ st = "notify" => Left(st, slots) = 9 * Len(slots) + 2
         /\ st = "post" => Left(st, slots) = 9 * Len(slots) + 3
         /\ st = "driver_ok" => Left(st, slots) = 9 * Len(slots) + 4
         /\ st = "tx" => Left(st, slots) = 9 * Len(slots) + 5
         /\ st = "rx" => Left(st, slots) = 9 * Len(slots) + 6
         /\ st = "prepare" => Left(st, slots) = 9 * Len(slots) + 7
         /\ st = "features" => Left(st, slots) = 9 * Len(slots) + 8
         /\ st = "reset" => Left(st, slots) = 9 * Len(slots) + 9
         /\ st \in {"loop", "halt"} => Left(st, slots) = 0
<1>1. Len(slots) \in Nat
  OBVIOUS
<1>2. /\ AttemptLeft["scan"] = 1 /\ AttemptLeft["notify"] = 2 /\ AttemptLeft["post"] = 3
      /\ AttemptLeft["driver_ok"] = 4 /\ AttemptLeft["tx"] = 5 /\ AttemptLeft["rx"] = 6
      /\ AttemptLeft["prepare"] = 7 /\ AttemptLeft["features"] = 8 /\ AttemptLeft["reset"] = 9
  BY DEF AttemptLeft
<1> QED
  BY <1>1, <1>2 DEF Left, BootSteps

\* Scanning takes a slot off the list; in an attempt the steps follow one another, and a
\* failure goes back to the scan or to the halt.
LEMMA BootLowers ==
  ASSUME ProbeTypeOK, ProbeTypeOK', Boot
  PROVE  BootLeft' < BootLeft
<1> DEFINE n == Len(todo)
           m == Len(todo')
<1>t. step \in BootSteps /\ todo \in Seq(Bus) /\ step' \in BootSteps /\ todo' \in Seq(Bus')
  BY DEF ProbeTypeOK, BootSteps
<1>s. Bus' = Bus
  BY DEF Bus
<1> DEFINE before == Left(step, todo)
           after == Left(step', todo')
<1>b. /\ before \in Nat /\ n \in Nat
      /\ step = "scan" => before = 9 * n + 1
      /\ step = "notify" => before = 9 * n + 2
      /\ step = "post" => before = 9 * n + 3
      /\ step = "driver_ok" => before = 9 * n + 4
      /\ step = "tx" => before = 9 * n + 5
      /\ step = "rx" => before = 9 * n + 6
      /\ step = "prepare" => before = 9 * n + 7
      /\ step = "features" => before = 9 * n + 8
      /\ step = "reset" => before = 9 * n + 9
  BY <1>t, LeftIs
<1>a. /\ after \in Nat /\ m \in Nat
      /\ step' = "scan" => after = 9 * m + 1
      /\ step' = "notify" => after = 9 * m + 2
      /\ step' = "post" => after = 9 * m + 3
      /\ step' = "driver_ok" => after = 9 * m + 4
      /\ step' = "tx" => after = 9 * m + 5
      /\ step' = "rx" => after = 9 * m + 6
      /\ step' = "prepare" => after = 9 * m + 7
      /\ step' = "features" => after = 9 * m + 8
      /\ step' = "reset" => after = 9 * m + 9
      /\ step' \in {"loop", "halt"} => after = 0
  BY <1>s, <1>t, LeftIs
<1> HIDE DEF before, after
<1> SUFFICES after < before
  BY DEF BootLeft, before, after
<1>3. Fail => step' \in {"scan", "halt"}
  BY DEF Fail
<1>4. CASE Scan
  <2>1. CASE todo = <<>>
    <3>1. step = "scan" /\ step' = "halt"
      BY <1>4, <2>1 DEF Scan, Halt
    <3> QED
      BY <1>a, <1>b, <3>1
  <2>2. CASE todo # <<>>
    <3>1. step = "scan" /\ step' \in {"reset", "scan"} /\ todo' = Tail(todo)
      BY <1>4, <2>2 DEF Scan
    <3>2. todo \in Seq(Bus)
      BY DEF ProbeTypeOK
    <3>3. m = n - 1
      BY <2>2, <3>1, <3>2
    <3> HIDE DEF m, n
    <3> QED
      BY <1>a, <1>b, <3>1, <3>3
  <2> QED
    BY <2>1, <2>2
<1>5. CASE Reset
  <2>1. step = "reset" /\ step' = "features" /\ m = n
    BY <1>5 DEF Reset
  <2> QED
    BY <1>a, <1>b, <2>1
<1>6. CASE Features
  <2>1. step = "features" /\ step' \in {"rx", "prepare", "scan", "halt"} /\ m = n
    BY <1>3, <1>6 DEF Features
  <2> QED
    BY <1>a, <1>b, <2>1
<1>7. CASE Prepare
  <2>1. step = "prepare" /\ step' \in {"rx", "scan", "halt"} /\ m = n
    BY <1>3, <1>7 DEF Prepare
  <2> QED
    BY <1>a, <1>b, <2>1
<1>8. CASE SetupRx
  <2>1. step = "rx" /\ step' \in {"tx", "scan", "halt"} /\ m = n
    BY <1>3, <1>8 DEF SetupRx, configure
  <2> QED
    BY <1>a, <1>b, <2>1
<1>9. CASE SetupTx
  <2>1. step = "tx" /\ step' \in {"driver_ok", "scan", "halt"} /\ m = n
    BY <1>3, <1>9 DEF SetupTx, configure
  <2> QED
    BY <1>a, <1>b, <2>1
<1>10. CASE DriverOk
  <2>1. step = "driver_ok" /\ step' \in {"post", "notify", "scan", "halt"} /\ m = n
    BY <1>3, <1>10 DEF DriverOk
  <2> QED
    BY <1>a, <1>b, <2>1
<1>11. CASE Doorbell
  <2>1. step = "notify" /\ step' = "loop"
    BY <1>11 DEF Doorbell
  <2> QED
    BY <1>a, <1>b, <2>1
<1>12. CASE Post
  <2>1. step = "post" /\ step' = "notify" /\ m = n
    BY <1>12 DEF Post
  <2> QED
    BY <1>a, <1>b, <2>1
<1> QED
  BY <1>4, <1>5, <1>6, <1>7, <1>8, <1>9, <1>10, <1>11, <1>12 DEF Boot

\* At the start every slot is still to be tried, and the preferred one twice on x86_64.
LEMMA BootStarts ==
  ASSUME ProbeInit
  PROVE  BootBounded
<1>1. MmioSlots \in Nat \ {0}
  BY BusBounds
<1>2. step = "scan" /\ todo = Order /\ ProbeTypeOK
  BY ProbeInitially DEF ProbeInit, ProbeIInv
<1>3. BootLeft = 9 * Len(todo) + 1 /\ Len(todo) \in Nat
  <2>1. step \in BootSteps /\ todo \in Seq(Bus)
    BY <1>2 DEF ProbeTypeOK, BootSteps
  <2>2. Left(step, todo) = 9 * Len(todo) + 1 /\ Len(todo) \in Nat
    BY <1>2, <2>1, LeftIs
  <2> QED
    BY <2>2 DEF BootLeft
<1>4. Len(todo) = IF arch = "x86_64" THEN MmioSlots + 1 ELSE MmioSlots
  BY <1>1, <1>2 DEF Order
<1> QED
  BY <1>1, <1>3, <1>4 DEF BootMost, BootBounded

LEMMA BootStep ==
  ASSUME ProbeTypeOK, ProbeTypeOK', [ProbeNext]_probeVars, BootBounded
  PROVE  /\ BootBounded'
         /\ [BootLeft' < BootLeft \/ (Appear /\ UNCHANGED driver)]_probeVars
<1>1. BootLeft \in Nat /\ BootLeft' \in Nat
  <2>1. step \in BootSteps /\ todo \in Seq(Bus)
    BY DEF ProbeTypeOK, BootSteps
  <2>2. step' \in BootSteps /\ todo' \in Seq(Bus)
    BY DEF ProbeTypeOK, BootSteps, Bus
  <2>3. Left(step, todo) \in Nat
    BY <2>1, LeftIs
  <2>4. Left(step', todo') \in Nat
    BY <2>2, LeftIs
  <2> QED
    BY <2>3, <2>4 DEF BootLeft
<1>2. BootMost \in Nat
  BY BusBounds DEF BootMost
<1>3. CASE Boot
  BY <1>1, <1>2, <1>3, BootLowers DEF BootBounded, BootMost
<1>4. CASE Appear
  <2>1. UNCHANGED driver
    BY <1>4 DEF Appear
  <2>2. BootLeft' = BootLeft
    BY <2>1 DEF driver, BootLeft
  <2> QED
    BY <1>4, <2>1, <2>2 DEF BootBounded, BootMost
<1>5. CASE UNCHANGED probeVars
  <2>1. UNCHANGED driver
    BY <1>5 DEF probeVars
  <2>2. BootLeft' = BootLeft
    BY <2>1 DEF driver, BootLeft
  <2> QED
    BY <1>5, <2>2 DEF BootBounded, BootMost
<1> QED
  BY <1>3, <1>4, <1>5 DEF ProbeNext

\* Boot is bounded, whatever is on the bus and however late a device answers: the scan, the
\* attempts and their failures (probe_into) lead to the main loop or the halt within nine
\* steps for each slot tried, and one.
THEOREM BootIsBounded == ProbeSpec => []BootBounded /\ BootAdvances
<1>1. ProbeSpec => []ProbeTypeOK
  <2>1. ProbeInv => ProbeTypeOK
    BY DEF ProbeInv
  <2> QED
    BY <2>1, ProbeInvHolds, PTL
<1>2. ProbeInit => BootBounded
  BY BootStarts
<1>3. /\ ProbeTypeOK /\ ProbeTypeOK' /\ [ProbeNext]_probeVars /\ BootBounded
      => BootBounded'
  BY BootStep
<1>4. /\ ProbeTypeOK /\ ProbeTypeOK' /\ [ProbeNext]_probeVars /\ BootBounded
      => [BootLeft' < BootLeft \/ (Appear /\ UNCHANGED driver)]_probeVars
  BY BootStep
<1>5. ProbeSpec => []BootBounded
  BY <1>1, <1>2, <1>3, PTL DEF ProbeSpec
<1>6. ProbeSpec => BootAdvances
  BY <1>1, <1>4, <1>5, PTL DEF ProbeSpec, BootAdvances
<1> QED
  BY <1>5, <1>6

-----------------------------------------------------------------------------
(* The heap.                                                               *)

\* Every set of naturals has a least element.
LEMMA Least ==
  ASSUME NEW T \in SUBSET Nat, T # {}
  PROVE  \E x \in T : \A y \in T : x <= y
<1> DEFINE R == OpToRel(<, Nat)
<1>1. IsWellFoundedOn(R, Nat)
  BY NatLessThanWellFounded
<1>2. \A y, z \in Nat : y < z => <<y, z>> \in R
  BY DEF OpToRel
<1> HIDE DEF R
<1>3. PICK x \in T : \A y \in T : ~ (<<y, x>> \in R)
  BY <1>1, WFMin
<1>4. ASSUME NEW y \in T PROVE x <= y
  <2>1. x \in Nat /\ y \in Nat
    BY <1>3
  <2>2. ~ (y < x)
    BY <1>2, <1>3, <2>1
  <2> QED
    BY <2>1, <2>2
<1> QED
  BY <1>4

\* So the minimum of a set of naturals is its least element.
LEMMA LeastIsMin ==
  ASSUME NEW T \in SUBSET Nat, T # {}
  PROVE  Min(T) \in T /\ \A y \in T : Min(T) <= y
  BY Least DEF Min

\* Induction, for a set in place of a predicate.
LEMMA Inductive ==
  ASSUME NEW S, 0 \in S, \A n \in Nat : n \in S => n + 1 \in S
  PROVE  \A n \in Nat : n \in S
<1> SUFFICES ASSUME Nat \ S # {} PROVE FALSE
  OBVIOUS
<1>1. PICK m \in Nat \ S : \A y \in Nat \ S : m <= y
  BY Least
<1>2. m # 0
  BY <1>1
<1>3. m - 1 \in Nat /\ m - 1 \in S
  BY <1>1, <1>2
<1>4. (m - 1) + 1 \in S
  BY <1>3
<1> QED
  BY <1>1, <1>4

-----------------------------------------------------------------------------
(* The powers of two: that there is such a function, and which it is.      *)

Doubles(g, n) == g[0] = 1 /\ \A k \in 1..n : g[k] = 2 * g[k - 1]
Upto(n) == {g \in [0..n -> Nat] : Doubles(g, n)}

\* The powers up to any n exist: by induction the recursion has a solution that far,
LEMMA UptoExists == \A n \in Nat : Upto(n) # {}
<1> DEFINE S == {n \in Nat : Upto(n) # {}}
<1>1. 0 \in S
  <2>1. [k \in 0..0 |-> 1] \in Upto(0)
    BY DEF Upto, Doubles
  <2> QED
    BY <2>1
<1>2. ASSUME NEW n \in Nat, n \in S PROVE n + 1 \in S
  <2>1. PICK g \in [0..n -> Nat] : Doubles(g, n)
    BY <1>2 DEF Upto
  <2> DEFINE h == [k \in 0..(n + 1) |-> IF k = n + 1 THEN 2 * g[n] ELSE g[k]]
  <2>2. h \in [0..(n + 1) -> Nat]
    BY <2>1
  <2>3. h[0] = 1
    BY <2>1 DEF Doubles
  <2>4. ASSUME NEW k \in 1..(n + 1) PROVE h[k] = 2 * h[k - 1]
    BY <2>1, <2>4 DEF Doubles
  <2>5. h \in Upto(n + 1)
    BY <2>2, <2>3, <2>4 DEF Upto, Doubles
  <2> QED
    BY <2>5
<1> HIDE DEF S
<1>3. \A n \in Nat : n \in S
  BY <1>1, <1>2, Inductive
<1> QED
  BY <1>3 DEF S

\* and any two solutions agree where both are defined,
LEMMA UptoAgree ==
  ASSUME NEW m \in Nat, NEW n \in Nat, NEW g \in Upto(m), NEW h \in Upto(n)
  PROVE  \A k \in Nat : k <= m /\ k <= n => g[k] = h[k]
<1> DEFINE S == {k \in Nat : k <= m /\ k <= n => g[k] = h[k]}
<1>1. 0 \in S
  BY DEF Upto, Doubles
<1>2. ASSUME NEW k \in Nat, k \in S PROVE k + 1 \in S
  <2> SUFFICES ASSUME k + 1 <= m, k + 1 <= n PROVE g[k + 1] = h[k + 1]
    OBVIOUS
  <2>1. g[k] = h[k] /\ k + 1 \in 1..m /\ k + 1 \in 1..n /\ (k + 1) - 1 = k
    BY <1>2
  <2>2. g[k + 1] = 2 * g[k] /\ h[k + 1] = 2 * h[k]
    BY <2>1 DEF Upto, Doubles
  <2> QED
    BY <2>1, <2>2
<1> HIDE DEF S
<1>3. \A k \in Nat : k \in S
  BY <1>1, <1>2, Inductive
<1> QED
  BY <1>3 DEF S

\* so that the recursive function satisfies its own definition.
LEMMA Pow2Is == Pow2 = [k \in Nat |-> IF k = 0 THEN 1 ELSE 2 * Pow2[k - 1]]
<1> DEFINE pick(n) == CHOOSE g \in Upto(n) : TRUE
           F == [k \in Nat |-> pick(k)[k]]
<1>1. \A n \in Nat : pick(n) \in Upto(n)
  BY UptoExists
<1> HIDE DEF pick
<1>2. ASSUME NEW k \in Nat PROVE F[k] = IF k = 0 THEN 1 ELSE 2 * F[k - 1]
  <2>1. CASE k = 0
    BY <1>1, <2>1 DEF Upto, Doubles
  <2>2. CASE k # 0
    <3>1. k - 1 \in Nat /\ k \in 1..k
      BY <2>2
    <3>2. pick(k)[k] = 2 * pick(k)[k - 1]
      BY <1>1, <3>1 DEF Upto, Doubles
    <3>3. pick(k)[k - 1] = pick(k - 1)[k - 1]
      BY <1>1, <3>1, UptoAgree
    <3> QED
      BY <2>2, <3>1, <3>2, <3>3
  <2> QED
    BY <2>1, <2>2
<1>3. F = [k \in Nat |-> IF k = 0 THEN 1 ELSE 2 * F[k - 1]]
  BY <1>2
<1> HIDE DEF F
<1>4. \E f : f = [k \in Nat |-> IF k = 0 THEN 1 ELSE 2 * f[k - 1]]
  BY <1>3
<1> QED
  BY <1>4 DEF Pow2

LEMMA Doubling ==
  /\ Pow2[0] = 1
  /\ \A k \in Nat : Pow2[k + 1] = 2 * Pow2[k]
<1>1. Pow2[0] = 1
  BY Pow2Is
<1>2. ASSUME NEW k \in Nat PROVE Pow2[k + 1] = 2 * Pow2[k]
  BY Pow2Is
<1> QED
  BY <1>1, <1>2

LEMMA Pow2Positive == \A k \in Nat : Pow2[k] \in Nat /\ Pow2[k] > k
<1> DEFINE S == {k \in Nat : Pow2[k] \in Nat /\ Pow2[k] > k}
<1>1. 0 \in S
  BY Doubling
<1>2. ASSUME NEW k \in Nat, k \in S PROVE k + 1 \in S
  BY <1>2, Doubling
<1> HIDE DEF S
<1>3. \A k \in Nat : k \in S
  BY <1>1, <1>2, Inductive
<1> QED
  BY <1>3 DEF S

\* A smaller power divides a larger one.
LEMMA Pow2Divides ==
  ASSUME NEW j \in Nat, NEW k \in Nat, j <= k
  PROVE  \E q \in Nat \ {0} : Pow2[k] = q * Pow2[j]
<1> DEFINE S == {d \in Nat : \E q \in Nat \ {0} : Pow2[j + d] = q * Pow2[j]}
<1>1. 0 \in S
  <2>1. Pow2[j + 0] = 1 * Pow2[j]
    BY Pow2Positive
  <2> QED
    BY <2>1
<1>2. ASSUME NEW d \in Nat, d \in S PROVE d + 1 \in S
  <2>1. PICK q \in Nat \ {0} : Pow2[j + d] = q * Pow2[j]
    BY <1>2
  <2>2. Pow2[(j + d) + 1] = 2 * Pow2[j + d]
    BY Doubling
  <2>3. 2 * (q * Pow2[j]) = (2 * q) * Pow2[j]
    BY Pow2Positive
  <2>4. Pow2[j + (d + 1)] = (2 * q) * Pow2[j] /\ 2 * q \in Nat \ {0}
    BY <2>1, <2>2, <2>3
  <2> QED
    BY <2>4
<1> HIDE DEF S
<1>3. \A d \in Nat : d \in S
  BY <1>1, <1>2, Inductive
<1>4. k - j \in S /\ j + (k - j) = k
  BY <1>3
<1> QED
  BY <1>4 DEF S

LEMMA Pow2Larger ==
  ASSUME NEW j \in Nat, NEW k \in Nat, j < k
  PROVE  2 * Pow2[j] <= Pow2[k] /\ Pow2[j] < Pow2[k]
<1>1. PICK q \in Nat \ {0} : Pow2[k] = q * Pow2[j + 1]
  BY Pow2Divides
<1>2. Pow2[j + 1] = 2 * Pow2[j] /\ Pow2[j] \in Nat \ {0}
  BY Doubling, Pow2Positive
<1>3. Pow2[j + 1] \in Nat /\ q * Pow2[j + 1] >= Pow2[j + 1]
  BY <1>2
<1> QED
  BY <1>1, <1>2, <1>3

-----------------------------------------------------------------------------
(* Blocks and their buddies.                                               *)

Multiple(adr, o) == \E q \in 0..adr : adr = q * Block(o)

\* The sizes of blocks.
LEMMA BlockIs ==
  /\ MaxOrder \in Nat /\ BuddyOrders = 0..MaxOrder
  /\ \A o \in Nat : Block(o) \in Nat \ {0} /\ Block(o + 1) = 2 * Block(o)
  /\ \A o, p \in Nat : o < p => 2 * Block(o) <= Block(p)
  /\ Block(0) = 1 /\ PoolUnits = Block(MaxOrder)
  /\ PoolUnits \in Nat \ {0}
<1>1. MaxOrder \in Nat
  BY AllocAssumption DEF AllocAssumption
<1>2. \A o \in Nat : Block(o) \in Nat \ {0} /\ Block(o + 1) = 2 * Block(o)
  BY Doubling, Pow2Positive DEF Block
<1>3. \A o, p \in Nat : o < p => 2 * Block(o) <= Block(p)
  BY Pow2Larger DEF Block
<1>4. Block(0) = 1
  BY Doubling DEF Block
<1> QED
  BY <1>1, <1>2, <1>3, <1>4 DEF BuddyOrders, PoolUnits

LEMMA Quotient ==
  ASSUME NEW a \in Int, NEW b \in Nat \ {0}, NEW q \in Int, NEW r \in 0..(b - 1),
         a = b * q + r
  PROVE  a \div b = q
  OBVIOUS

LEMMA EvenOrOdd ==
  ASSUME NEW q \in Nat
  PROVE  \E r \in Nat : q = 2 * r \/ q = 2 * r + 1
<1>1. q \div 2 \in Nat /\ (q = 2 * (q \div 2) \/ q = 2 * (q \div 2) + 1)
  OBVIOUS
<1> QED
  BY <1>1

\* The even multiples of a block have their buddy above, the odd ones below.
LEMMA BuddyAt ==
  ASSUME NEW o \in Nat, NEW r \in Nat
  PROVE  /\ buddy_ptr((2 * r) * Block(o), o) = (2 * r + 1) * Block(o)
         /\ buddy_ptr((2 * r + 1) * Block(o), o) = (2 * r) * Block(o)
         /\ (2 * r + 1) * Block(o) = (2 * r) * Block(o) + Block(o)
         /\ (2 * r) * Block(o) \in Nat /\ (2 * r + 1) * Block(o) \in Nat
<1> DEFINE B == Block(o)
           low == (2 * r) * B
           high == (2 * r + 1) * B
<1>1. B \in Nat \ {0}
  BY BlockIs
<1> HIDE DEF B
<1>2. low \in Nat /\ high \in Nat /\ high = low + B
  BY <1>1
<1>3. low = B * (2 * r) + 0 /\ high = B * (2 * r + 1) + 0
  BY <1>1
<1>4. 0 \in 0..(B - 1) /\ 2 * r \in Int /\ 2 * r + 1 \in Int
  BY <1>1
<1>5. low \div B = 2 * r
  BY <1>1, <1>2, <1>3, <1>4, Quotient
<1>6. high \div B = 2 * r + 1
  BY <1>1, <1>2, <1>3, <1>4, Quotient
<1>7. (2 * r) % 2 = 0 /\ (2 * r + 1) % 2 # 0
  OBVIOUS
<1>8. buddy_ptr(low, o) = high /\ buddy_ptr(high, o) = low
  <2>1. buddy_ptr(low, o) = low + B
    BY <1>5, <1>7 DEF buddy_ptr, B
  <2>2. buddy_ptr(high, o) = high - B
    BY <1>6, <1>7 DEF buddy_ptr, B
  <2> QED
    BY <1>1, <1>2, <2>1, <2>2
<1> QED
  BY <1>2, <1>8 DEF B

\* A block is not its buddy, and is its buddy's buddy.
LEMMA BuddyOfMultiple ==
  ASSUME NEW o \in Nat, NEW adr \in Nat, Multiple(adr, o)
  PROVE  /\ buddy_ptr(adr, o) \in Nat /\ buddy_ptr(adr, o) # adr
         /\ buddy_ptr(buddy_ptr(adr, o), o) = adr
<1>1. PICK q \in 0..adr : adr = q * Block(o)
  BY DEF Multiple
<1>q. q \in Nat
  BY <1>1
<1>2. PICK r \in Nat : q = 2 * r \/ q = 2 * r + 1
  BY <1>q, EvenOrOdd
<1>3. Block(o) \in Nat \ {0}
  BY BlockIs
<1>4. \/ adr = (2 * r) * Block(o)
      \/ adr = (2 * r + 1) * Block(o)
  BY <1>1, <1>2
<1> QED
  BY <1>3, <1>4, BuddyAt

\* A multiple of a block is one of every smaller one.
LEMMA MultipleBelow ==
  ASSUME NEW adr \in Nat, NEW o \in Nat, NEW p \in Nat, o <= p, Multiple(adr, p)
  PROVE  Multiple(adr, o) /\ Multiple(adr + Block(o), o)
<1>1. PICK q \in 0..adr : adr = q * Block(p)
  BY DEF Multiple
<1>2. PICK d \in Nat \ {0} : Block(p) = d * Block(o)
  BY Pow2Divides DEF Block
<1>3. Block(o) \in Nat \ {0}
  BY BlockIs
<1>4. adr = (q * d) * Block(o) /\ q * d \in Nat
  BY <1>1, <1>2, <1>3
<1>5. adr + Block(o) = (q * d + 1) * Block(o)
  BY <1>3, <1>4
<1>6. \A a \in Nat : a <= a * Block(o)
  BY <1>3
<1>7. q * d \in 0..adr /\ q * d + 1 \in 0..(adr + Block(o))
  BY <1>3, <1>4, <1>5, <1>6
<1> QED
  BY <1>3, <1>4, <1>5, <1>7 DEF Multiple

\* Merging at one more order joins a block and its buddy.
LEMMA MergeStep ==
  ASSUME NEW adr \in Nat, NEW k \in Nat
  PROVE  /\ Merged(adr, k) \in Nat /\ Merged(adr, k + 1) \in Nat
         /\ Multiple(Merged(adr, k), k)
         /\ \/ /\ Merged(adr, k + 1) = Merged(adr, k)
               /\ buddy_ptr(Merged(adr, k), k) = Merged(adr, k) + Block(k)
            \/ /\ Merged(adr, k + 1) = Merged(adr, k) - Block(k)
               /\ buddy_ptr(Merged(adr, k), k) = Merged(adr, k) - Block(k)
<1> DEFINE B == Block(k)
           u == adr \div (2 * B)
           v == adr % (2 * B)
<1>1. B \in Nat \ {0} /\ Block(k + 1) = 2 * B
  BY BlockIs
<1> HIDE DEF B
<1>2. u \in Int /\ v \in 0..(2 * B - 1) /\ adr = (2 * B) * u + v
  <2>1. 2 * B \in Nat \ {0} /\ adr \in Int
    BY <1>1
  <2> QED
    BY <2>1, DivMod, ZenonT(60)
<1>3. u \in Nat
  BY <1>1
<1>4. Merged(adr, k + 1) = adr - v
  BY <1>1 DEF Merged
<1> HIDE DEF u, v
<1>5. (2 * B) * u = (2 * u) * B /\ (2 * u) * B \in Nat
  BY <1>1, <1>3
<1>6. Merged(adr, k + 1) = (2 * u) * B
  BY <1>1, <1>2, <1>3, <1>4, <1>5
<1>7. /\ buddy_ptr((2 * u) * B, k) = (2 * u + 1) * B
      /\ buddy_ptr((2 * u + 1) * B, k) = (2 * u) * B
      /\ (2 * u + 1) * B = (2 * u) * B + B
  BY <1>3, BuddyAt DEF B
<1>8. \A q \in Nat : q * B \in Nat /\ q <= q * B
  BY <1>1
<1>9. ASSUME NEW q \in Nat PROVE Multiple(q * B, k)
  BY <1>8 DEF Multiple, B
<1>10. CASE v < B
  <2>1. adr = B * (2 * u) + v
    BY <1>1, <1>2, <1>3, <1>5
  <2>2. adr % B = v
    BY <1>1, <1>2, <1>3, <1>10, <2>1, Remainder
  <2>3. Merged(adr, k) = (2 * u) * B
    BY <1>1, <1>2, <1>3, <1>5, <2>1, <2>2 DEF Merged, B
  <2>4. Multiple(Merged(adr, k), k)
    BY <1>3, <1>9, <2>3
  <2> QED
    BY <1>1, <1>5, <1>6, <1>7, <2>3, <2>4 DEF B
<1>11. CASE v >= B
  <2>1. adr = B * (2 * u + 1) + (v - B) /\ v - B \in 0..(B - 1)
    BY <1>1, <1>2, <1>3, <1>5, <1>11
  <2>2. adr % B = v - B
    <3>1. 2 * u + 1 \in Int /\ adr \in Int
      BY <1>3
    <3> QED
      BY <1>1, <2>1, <3>1, Remainder, ZenonT(60)
  <2>3. Merged(adr, k) = (2 * u + 1) * B
    BY <1>1, <1>2, <1>3, <1>5, <1>7, <2>1, <2>2 DEF Merged, B
  <2>4. Multiple(Merged(adr, k), k)
    BY <1>3, <1>9, <2>3
  <2> QED
    BY <1>1, <1>5, <1>6, <1>7, <2>3, <2>4 DEF B
<1> QED
  BY <1>1, <1>2, <1>10, <1>11

\* What has not been merged is where it was.
LEMMA MergeStart ==
  ASSUME NEW adr \in Nat, NEW k \in Nat, Multiple(adr, k)
  PROVE  Merged(adr, k) = adr
<1>1. PICK q \in 0..adr : adr = q * Block(k)
  BY DEF Multiple
<1>2. Block(k) \in Nat \ {0}
  BY BlockIs
<1>3. adr = Block(k) * q + 0 /\ 0 \in 0..(Block(k) - 1) /\ q \in Int
  BY <1>1, <1>2
<1>4. adr % Block(k) = 0
  BY <1>2, <1>3, Remainder
<1> QED
  BY <1>4 DEF Merged

-----------------------------------------------------------------------------
(* Layouts.                                                                *)

LEMMA MaxOfThree ==
  ASSUME NEW a \in Nat, NEW b \in Nat, NEW c \in Nat
  PROVE  /\ Max({a, b, c}) \in {a, b, c}
         /\ Max({a, b, c}) >= a /\ Max({a, b, c}) >= b /\ Max({a, b, c}) >= c
<1>1. \E x \in {a, b, c} : \A y \in {a, b, c} : x >= y
  <2>1. CASE a >= b /\ a >= c
    BY <2>1
  <2>2. CASE b >= a /\ b >= c
    BY <2>2
  <2>3. CASE c >= a /\ c >= b
    BY <2>3
  <2> QED
    BY <2>1, <2>2, <2>3
<1>2. Max({a, b, c}) \in {a, b, c} /\ \A y \in {a, b, c} : Max({a, b, c}) >= y
  BY <1>1 DEF Max
<1> QED
  BY <1>2

\* What a layout is made of.
LEMMA LayoutIs ==
  ASSUME NEW l \in Layouts
  PROVE  /\ l.size \in Nat \ {0} /\ l.align \in Nat /\ MIN_BLOCK \in Nat \ {0}
         /\ \E k \in Nat : l.align = Pow2[k]
<1>1. l.size \in Sizes /\ l.align \in Aligns
  BY DEF Layouts
<1>2. /\ l.size \in Nat \ {0} /\ l.align \in Nat /\ MIN_BLOCK \in Nat \ {0}
      /\ \E k \in 0..l.align : l.align = Pow2[k]
  BY <1>1, AllocAssumption DEF AllocAssumption
<1>3. \A k \in 0..l.align : k \in Nat
  BY <1>2
<1> QED
  BY <1>2, <1>3

\* The rounded size is a power of two, no less than the size and the alignment.
LEMMA RoundedIs ==
  ASSUME NEW l \in Layouts
  PROVE  /\ \E k \in Nat : Rounded(l) = Pow2[k]
         /\ Rounded(l) \in Nat
         /\ Rounded(l) >= l.size /\ Rounded(l) >= l.align /\ Rounded(l) >= MIN_BLOCK
<1> DEFINE need == Max({l.size, l.align, MIN_BLOCK})
           large == {n \in {Pow2[k] : k \in 0..need} : n >= need}
<1>1. need \in Nat /\ need >= l.size /\ need >= l.align /\ need >= MIN_BLOCK
  BY LayoutIs, MaxOfThree
<1> HIDE DEF need
<1>2. large \subseteq Nat
  BY <1>1, Pow2Positive
<1>3. Pow2[need] \in large
  BY <1>1, Pow2Positive
<1>4. Min(large) \in large
  BY <1>2, <1>3, LeastIsMin
<1>5. PICK k \in 0..need : Min(large) = Pow2[k]
  BY <1>4
<1>6. Min(large) >= need /\ Min(large) \in Nat
  BY <1>2, <1>4
<1>7. Rounded(l) = Min(large)
  BY DEF Rounded, need
<1>8. k \in Nat
  BY <1>1
<1> HIDE DEF large
<1> QED
  BY <1>1, <1>5, <1>6, <1>7, <1>8, LayoutIs

\* The orders of a layout: at most one, the one whose blocks have the rounded size.
LayoutOrders(l) == order_for_layout(layout_to_buddy(l))

\* The block of an order found for a layout has exactly the rounded size,
LEMMA OrderIs ==
  ASSUME NEW l \in Layouts, NEW o \in LayoutOrders(l)
  PROVE  o \in Nat /\ MIN_BLOCK * Block(o) = Rounded(l)
<1>1. Rounded(l) \in Nat /\ Rounded(l) >= MIN_BLOCK /\ MIN_BLOCK \in Nat
  BY RoundedIs, LayoutIs
<1>2. layout_to_buddy(l).size = Rounded(l) /\ layout_to_buddy(l).align = MIN_BLOCK
  BY DEF layout_to_buddy
<1>3. Max({Rounded(l), MIN_BLOCK, MIN_BLOCK}) = Rounded(l)
  <2>1. /\ Max({Rounded(l), MIN_BLOCK, MIN_BLOCK}) \in {Rounded(l), MIN_BLOCK, MIN_BLOCK}
        /\ Max({Rounded(l), MIN_BLOCK, MIN_BLOCK}) >= Rounded(l)
    BY <1>1, MaxOfThree
  <2> QED
    BY <1>1, <2>1
<1>4. o \in 0..(MaxOrder + 1) /\ MIN_BLOCK * Block(o) = Rounded(l)
  BY <1>2, <1>3 DEF LayoutOrders, order_for_layout
<1> QED
  BY <1>4, BlockIs

\* so that alloc and dealloc find the same order for the same layout.
LEMMA OneOrder ==
  ASSUME NEW l \in Layouts, NEW o \in LayoutOrders(l), NEW p \in LayoutOrders(l)
  PROVE  o = p
<1>1. o \in Nat /\ p \in Nat /\ MIN_BLOCK * Block(o) = MIN_BLOCK * Block(p)
  BY OrderIs
<1>2. Block(o) \in Nat \ {0} /\ Block(p) \in Nat \ {0} /\ MIN_BLOCK \in Nat \ {0}
  BY <1>1, BlockIs, LayoutIs
<1>3. Block(o) = Block(p)
  <2>1. ASSUME NEW a \in Nat, NEW b \in Nat, a < b PROVE MIN_BLOCK * a < MIN_BLOCK * b
    BY <1>2, <2>1
  <2> QED
    BY <1>1, <1>2, <2>1
<1>4. ~ (o < p) /\ ~ (p < o)
  <2>1. \A j, k \in Nat : j < k => 2 * Block(j) <= Block(k)
    BY BlockIs
  <2>2. o < p => 2 * Block(o) <= Block(p)
    BY <1>1, <2>1
  <2>3. p < o => 2 * Block(p) <= Block(o)
    BY <1>1, <2>1
  <2> QED
    BY <1>2, <1>3, <2>2, <2>3
<1> QED
  BY <1>1, <1>4

\* A block at a multiple of its size is aligned as its layout asks, if the pool is.
LEMMA AlignedBlock ==
  ASSUME NEW l \in Layouts, NEW o \in LayoutOrders(l), NEW adr \in Nat, Multiple(adr, o)
  PROVE  (PoolBase + adr * MIN_BLOCK) % l.align = 0
<1>1. PICK q \in 0..adr : adr = q * Block(o)
  BY DEF Multiple
<1>2. PICK k \in Nat : Rounded(l) = Pow2[k]
  BY RoundedIs
<1>3. PICK j \in Nat : l.align = Pow2[j]
  BY LayoutIs
<1>4. /\ Pow2[j] \in Nat \ {0} /\ Pow2[k] \in Nat \ {0} /\ Pow2[j] <= Pow2[k]
      /\ q \in Nat /\ MIN_BLOCK \in Nat \ {0}
  BY <1>1, <1>2, <1>3, Pow2Positive, RoundedIs, LayoutIs
<1>5. j <= k
  BY <1>4, Pow2Larger
<1>6. PICK d \in Nat \ {0} : Pow2[k] = d * Pow2[j]
  BY <1>5, Pow2Divides
<1>7. o \in Nat /\ MIN_BLOCK * Block(o) = d * Pow2[j] /\ Block(o) \in Nat
  BY <1>2, <1>6, OrderIs, BlockIs
<1>8. adr * MIN_BLOCK = q * (MIN_BLOCK * Block(o))
  BY <1>1, <1>4, <1>7
<1>9. q * (d * Pow2[j]) = Pow2[j] * (q * d) + 0
  BY <1>4
<1>10. adr * MIN_BLOCK = Pow2[j] * (q * d) + 0
  BY <1>7, <1>8, <1>9
<1>11. PICK e \in Int : PoolBase = Pow2[j] * e
  <2>a. l.align \in Aligns
    BY DEF Layouts
  <2>b. PoolBase \in Nat /\ PoolBase % l.align = 0
    BY <2>a, AllocAssumption DEF AllocAssumption
  <2>1. PoolBase \in Int /\ PoolBase % Pow2[j] = 0
    BY <1>3, <2>b
  <2>2. PoolBase \div Pow2[j] \in Int /\ PoolBase = Pow2[j] * (PoolBase \div Pow2[j]) + 0
    BY <1>4, <2>1, DivMod
  <2> DEFINE s == PoolBase \div Pow2[j]
  <2>3. s \in Int /\ PoolBase = Pow2[j] * s + 0
    BY <2>2
  <2> HIDE DEF s
  <2>4. PoolBase = Pow2[j] * s
    BY <1>4, <2>3
  <2> QED
    BY <2>3, <2>4
<1>12. PICK m \in Int : m = q * d
  BY <1>4
<1>13. PoolBase + adr * MIN_BLOCK = Pow2[j] * (e + m) + 0
  <2>1. adr * MIN_BLOCK = Pow2[j] * m
    BY <1>4, <1>10, <1>12
  <2>2. Pow2[j] * (e + m) = Pow2[j] * e + Pow2[j] * m
    BY <1>4, <1>11, <1>12
  <2>3. Pow2[j] * (e + m) \in Int
    BY <1>4, <1>11, <1>12
  <2> QED
    BY <1>11, <2>1, <2>2, <2>3
<1>14. /\ PoolBase + adr * MIN_BLOCK \in Int /\ e + m \in Int
       /\ 0 \in 0..(Pow2[j] - 1)
  BY <1>4, <1>11, <1>12, <1>13
<1>15. (PoolBase + adr * MIN_BLOCK) % Pow2[j] = 0
  BY <1>4, <1>13, <1>14, Remainder, ZenonT(60)
<1> QED
  BY <1>3, <1>15

\* A block is as large as its layout asks.
LEMMA LargeEnough ==
  ASSUME NEW l \in Layouts, NEW o \in LayoutOrders(l)
  PROVE  CeilUnits(l.size) \in 1..Block(o)
<1> DEFINE a == l.size + MIN_BLOCK - 1
           c == a \div MIN_BLOCK
           r == a % MIN_BLOCK
<1>1. /\ MIN_BLOCK \in Nat \ {0} /\ l.size \in Nat \ {0} /\ o \in Nat
      /\ l.size <= MIN_BLOCK * Block(o)
  BY LayoutIs, OrderIs, RoundedIs
<1>2. Block(o) \in Nat \ {0}
  BY <1>1, BlockIs
<1>3. c \in Int /\ r \in 0..(MIN_BLOCK - 1) /\ a = MIN_BLOCK * c + r
  <2>1. a \in Int
    BY <1>1
  <2> QED
    BY <1>1, <2>1, DivMod
<1> HIDE DEF c, r
<1>4. MIN_BLOCK * c <= a /\ a < MIN_BLOCK * c + MIN_BLOCK
  BY <1>1, <1>3
<1>5. c > 0
  <2>1. c <= 0 => MIN_BLOCK * c <= 0
    BY <1>1, <1>3
  <2> QED
    BY <1>1, <1>3, <1>4, <2>1
<1>6. c <= Block(o)
  <2>1. c >= Block(o) + 1 => MIN_BLOCK * c >= MIN_BLOCK * (Block(o) + 1)
    BY <1>1, <1>2, <1>3
  <2>2. MIN_BLOCK * (Block(o) + 1) = MIN_BLOCK * Block(o) + MIN_BLOCK
    BY <1>1, <1>2
  <2> QED
    BY <1>1, <1>2, <1>3, <1>4, <2>1, <2>2
<1>7. CeilUnits(l.size) = c
  BY DEF CeilUnits, c
<1> QED
  BY <1>2, <1>3, <1>5, <1>6, <1>7

-----------------------------------------------------------------------------
(* Free lists.                                                             *)

\* Taking a block off a free list.
LEMMA ListWithout ==
  ASSUME NEW S, NEW list \in Seq(S), NEW x, Contains(list, x), IsInjective(list)
  PROVE  /\ Without(list, x) \in Seq(S) /\ IsInjective(Without(list, x))
         /\ \A y : Contains(Without(list, x), y) <=> Contains(list, y) /\ y # x
<1> DEFINE i == CHOOSE i \in DOMAIN list : list[i] = x
           rest == Without(list, x)
<1>1. DOMAIN list = 1..Len(list) /\ Len(list) \in Nat
  OBVIOUS
<1>2. i \in 1..Len(list) /\ list[i] = x
  BY <1>1 DEF Contains
<1>3. rest = SubSeq(list, 1, i - 1) \o SubSeq(list, i + 1, Len(list))
  BY DEF Without, RemoveAt
<1> HIDE DEF i, rest
<1>4. /\ SubSeq(list, 1, i - 1) \in Seq(S) /\ Len(SubSeq(list, 1, i - 1)) = i - 1
      /\ \A j \in 1..(i - 1) : SubSeq(list, 1, i - 1)[j] = list[j]
  BY <1>1, <1>2
<1>5. /\ SubSeq(list, i + 1, Len(list)) \in Seq(S)
      /\ Len(SubSeq(list, i + 1, Len(list))) = Len(list) - i
      /\ \A j \in 1..(Len(list) - i) : SubSeq(list, i + 1, Len(list))[j] = list[i + j]
  <2> DEFINE back == SubSeq(list, i + 1, Len(list))
  <2>1. /\ i + 1 \in 1..(Len(list) + 1) /\ Len(list) \in i..Len(list)
        /\ Len(list) - (i + 1) + 1 = Len(list) - i
    BY <1>1, <1>2
  <2>2. /\ back \in Seq(S)
        /\ Len(back) = IF i + 1 <= Len(list) THEN Len(list) - (i + 1) + 1 ELSE 0
        /\ \A j \in 1..(Len(list) - (i + 1) + 1) : back[j] = list[(i + 1) + j - 1]
    BY <1>1, <1>2, <2>1, SubSeqProperties
  <2> HIDE DEF back
  <2>3. Len(back) = Len(list) - i
    <3>1. i \in Int /\ Len(list) \in Int /\ i <= Len(list)
      BY <1>1, <1>2
    <3>2. CASE i + 1 <= Len(list)
      BY <2>2, <3>1, <3>2
    <3>3. CASE i = Len(list)
      BY <2>2, <3>1, <3>3
    <3> QED
      BY <3>1, <3>2, <3>3
  <2>4. \A j \in 1..(Len(list) - i) : (i + 1) + j - 1 = i + j
    BY <1>1, <1>2
  <2>5. \A j \in 1..(Len(list) - i) : back[j] = list[i + j]
    BY <2>1, <2>2, <2>4
  <2> QED
    BY <2>2, <2>3, <2>5 DEF back
<1>6. /\ rest \in Seq(S) /\ Len(rest) = Len(list) - 1
      /\ \A j \in 1..Len(rest) : rest[j] = IF j < i THEN list[j] ELSE list[j + 1]
  <2> DEFINE front == SubSeq(list, 1, i - 1)
             back == SubSeq(list, i + 1, Len(list))
  <2>1. /\ front \in Seq(S) /\ Len(front) = i - 1 /\ \A j \in 1..(i - 1) : front[j] = list[j]
        /\ back \in Seq(S) /\ Len(back) = Len(list) - i
        /\ \A j \in 1..(Len(list) - i) : back[j] = list[i + j]
    BY <1>4, <1>5
  <2>2. rest = front \o back
    BY <1>3
  <2> HIDE DEF front, back
  <2>a. /\ rest \in Seq(S) /\ Len(rest) = Len(front) + Len(back)
        /\ \A j \in 1..(Len(front) + Len(back)) :
             rest[j] = IF j <= Len(front) THEN front[j] ELSE back[j - Len(front)]
    BY <2>1, <2>2, ConcatProperties
  <2>b. Len(front) + Len(back) = Len(list) - 1 /\ i \in Int /\ Len(list) \in Int
    BY <1>1, <1>2, <2>1
  <2>3. /\ rest \in Seq(S) /\ Len(rest) = Len(list) - 1
        /\ \A j \in 1..Len(rest) : rest[j] = IF j <= i - 1 THEN front[j] ELSE back[j - (i - 1)]
    BY <2>1, <2>a, <2>b
  <2>4. ASSUME NEW j \in 1..Len(rest) PROVE rest[j] = IF j < i THEN list[j] ELSE list[j + 1]
    <3>1. CASE j < i
      BY <1>1, <1>2, <2>1, <2>3, <3>1
    <3>2. CASE ~ (j < i)
      <4>1. j - (i - 1) \in 1..(Len(list) - i) /\ i + (j - (i - 1)) = j + 1
        <5>1. j \in Int /\ j <= Len(list) - 1 /\ j >= i
          BY <1>1, <1>2, <2>3, <2>b, <3>2
        <5> QED
          BY <2>b, <5>1
      <4>2. rest[j] = back[j - (i - 1)]
        <5>1. ~ (j <= i - 1)
          BY <2>b, <2>3, <3>2
        <5> QED
          BY <2>3, <5>1
      <4> QED
        BY <2>1, <3>2, <4>1, <4>2
    <3> QED
      BY <3>1, <3>2
  <2> QED
    BY <2>3, <2>4
<1>7. \A j, k \in 1..Len(list) : list[j] = list[k] => j = k
  BY <1>1 DEF IsInjective
<1>8. IsInjective(rest)
  <2>1. DOMAIN rest = 1..Len(rest)
    BY <1>6
  <2>2. ASSUME NEW j \in 1..Len(rest), NEW k \in 1..Len(rest), rest[j] = rest[k] PROVE j = k
    BY <1>1, <1>2, <1>6, <1>7, <2>2
  <2> QED
    BY <2>1, <2>2 DEF IsInjective
<1>9. ASSUME NEW y PROVE Contains(rest, y) <=> Contains(list, y) /\ y # x
  <2>1. ASSUME NEW j \in 1..Len(rest), rest[j] = y PROVE Contains(list, y) /\ y # x
    <3>1. CASE j < i
      BY <1>1, <1>2, <1>6, <1>7, <2>1, <3>1 DEF Contains
    <3>2. CASE j >= i
      <4>1. j + 1 \in 1..Len(list) /\ list[j + 1] = y /\ j + 1 # i
        BY <1>1, <1>2, <1>6, <2>1, <3>2
      <4> QED
        BY <1>2, <1>7, <4>1 DEF Contains
    <3> QED
      BY <1>1, <1>2, <1>6, <3>1, <3>2
  <2>2. ASSUME NEW j \in 1..Len(list), list[j] = y, y # x PROVE Contains(rest, y)
    <3>1. j # i
      BY <1>2, <2>2
    <3>2. CASE j < i
      <4>1. j \in 1..Len(rest) /\ rest[j] = y
        BY <1>1, <1>2, <1>6, <2>2, <3>2
      <4> QED
        BY <4>1 DEF Contains
    <3>3. CASE j > i
      <4>1. j - 1 \in 1..Len(rest) /\ rest[j - 1] = y
        BY <1>1, <1>2, <1>6, <2>2, <3>3
      <4> QED
        BY <4>1 DEF Contains
    <3> QED
      BY <1>1, <1>2, <3>1, <3>2, <3>3
  <2> QED
    BY <2>1, <2>2 DEF Contains
<1> QED
  BY <1>6, <1>8, <1>9 DEF rest

\* Taking the newest block off a free list.
LEMMA ListHead ==
  ASSUME NEW S, NEW list \in Seq(S), list # <<>>, IsInjective(list)
  PROVE  /\ Contains(list, Head(list)) /\ Head(list) \in S
         /\ Tail(list) \in Seq(S) /\ IsInjective(Tail(list))
         /\ \A y : Contains(Tail(list), y) <=> Contains(list, y) /\ y # Head(list)
<1>1. /\ Len(list) \in Nat /\ Len(list) > 0 /\ DOMAIN list = 1..Len(list)
      /\ Head(list) = list[1] /\ Head(list) \in S
      /\ Tail(list) \in Seq(S) /\ Len(Tail(list)) = Len(list) - 1
      /\ \A j \in 1..Len(Tail(list)) : Tail(list)[j] = list[j + 1]
  OBVIOUS
<1>2. \A j, k \in 1..Len(list) : list[j] = list[k] => j = k
  BY <1>1 DEF IsInjective
<1>3. IsInjective(Tail(list))
  <2>1. DOMAIN Tail(list) = 1..Len(Tail(list))
    BY <1>1
  <2>2. ASSUME NEW j \in 1..Len(Tail(list)), NEW k \in 1..Len(Tail(list)),
               Tail(list)[j] = Tail(list)[k]
        PROVE  j = k
    BY <1>1, <1>2, <2>2
  <2> QED
    BY <2>1, <2>2 DEF IsInjective
<1>4. Contains(list, Head(list))
  BY <1>1 DEF Contains
<1>5. ASSUME NEW y PROVE Contains(Tail(list), y) <=> Contains(list, y) /\ y # Head(list)
  <2>1. ASSUME NEW j \in 1..Len(Tail(list)), Tail(list)[j] = y
        PROVE  Contains(list, y) /\ y # Head(list)
    <3>1. j + 1 \in 1..Len(list) /\ list[j + 1] = y /\ j + 1 # 1 /\ 1 \in 1..Len(list)
      BY <1>1, <2>1
    <3> QED
      BY <1>1, <1>2, <3>1 DEF Contains
  <2>2. ASSUME NEW j \in 1..Len(list), list[j] = y, y # Head(list)
        PROVE  Contains(Tail(list), y)
    <3>1. j - 1 \in 1..Len(Tail(list)) /\ Tail(list)[j - 1] = y
      BY <1>1, <2>2
    <3> QED
      BY <3>1 DEF Contains
  <2> QED
    BY <2>1, <2>2 DEF Contains
<1> QED
  BY <1>1, <1>3, <1>4, <1>5

\* Putting a block on a free list.
LEMMA ListPush ==
  ASSUME NEW S, NEW list \in Seq(S), NEW x \in S, ~Contains(list, x), IsInjective(list)
  PROVE  /\ <<x>> \o list \in Seq(S) /\ IsInjective(<<x>> \o list)
         /\ \A y : Contains(<<x>> \o list, y) <=> Contains(list, y) \/ y = x
<1> DEFINE new == <<x>> \o list
<1>1. /\ Len(list) \in Nat /\ DOMAIN list = 1..Len(list)
      /\ new \in Seq(S) /\ Len(new) = Len(list) + 1 /\ new[1] = x
      /\ \A j \in 2..Len(new) : new[j] = list[j - 1]
  <2>1. <<x>> \in Seq(S) /\ Len(<<x>>) = 1 /\ <<x>>[1] = x
    OBVIOUS
  <2> QED
    BY <2>1
<1> HIDE DEF new
<1>2. \A j, k \in 1..Len(list) : list[j] = list[k] => j = k
  BY <1>1 DEF IsInjective
<1>3. \A j \in 1..Len(list) : list[j] # x
  BY DEF Contains
<1>4. IsInjective(new)
  <2>1. DOMAIN new = 1..Len(new)
    BY <1>1
  <2>2. ASSUME NEW j \in 1..Len(new), NEW k \in 1..Len(new), new[j] = new[k] PROVE j = k
    <3>1. j = 1 \/ (j \in 2..Len(new) /\ j - 1 \in 1..Len(list))
      BY <1>1
    <3>2. k = 1 \/ (k \in 2..Len(new) /\ k - 1 \in 1..Len(list))
      BY <1>1
    <3> QED
      BY <1>1, <1>2, <1>3, <2>2, <3>1, <3>2
  <2> QED
    BY <2>1, <2>2 DEF IsInjective
<1>5. ASSUME NEW y PROVE Contains(new, y) <=> Contains(list, y) \/ y = x
  <2>1. ASSUME NEW j \in 1..Len(new), new[j] = y PROVE Contains(list, y) \/ y = x
    <3>1. j = 1 \/ (j \in 2..Len(new) /\ j - 1 \in 1..Len(list))
      BY <1>1
    <3> QED
      BY <1>1, <2>1, <3>1 DEF Contains
  <2>2. ASSUME NEW j \in 1..Len(list), list[j] = y PROVE Contains(new, y)
    <3>1. j + 1 \in 1..Len(new) /\ new[j + 1] = y
      BY <1>1, <2>2
    <3> QED
      BY <3>1 DEF Contains
  <2>3. Contains(new, x)
    BY <1>1 DEF Contains
  <2> QED
    BY <2>1, <2>2, <2>3 DEF Contains
<1> QED
  BY <1>1, <1>4, <1>5 DEF new

-----------------------------------------------------------------------------
(* Blocks that partition the pool.                                         *)

\* Blocks may be exchanged for others that cover the same.
LEMMA Exchange ==
  ASSUME NEW B, NEW D, NEW N, D \subseteq B, Apart(B), Apart(N), Covered(N) = Covered(D)
  PROVE  /\ Apart((B \ D) \cup N)
         /\ Covered((B \ D) \cup N) = Covered(B)
<1>1. ASSUME NEW b \in B \ D, NEW c \in N PROVE Units(b) \cap Units(c) = {}
  <2> SUFFICES ASSUME NEW x, x \in Units(b), x \in Units(c) PROVE FALSE
    OBVIOUS
  <2>1. x \in Covered(D)
    BY DEF Covered
  <2>2. PICK d \in D : x \in Units(d)
    BY <2>1 DEF Covered
  <2>3. d # b /\ d \in B /\ b \in B
    BY <2>2
  <2> QED
    BY <2>2, <2>3 DEF Apart
<1>2. Apart((B \ D) \cup N)
  <2> SUFFICES ASSUME NEW b \in (B \ D) \cup N, NEW c \in (B \ D) \cup N, b # c
               PROVE  Units(b) \cap Units(c) = {}
    BY DEF Apart
  <2>1. CASE b \in B \ D /\ c \in B \ D
    BY <2>1 DEF Apart
  <2>2. CASE b \in N /\ c \in N
    BY <2>2 DEF Apart
  <2>3. CASE b \in B \ D /\ c \in N
    BY <1>1, <2>3
  <2>4. CASE b \in N /\ c \in B \ D
    <3>1. Units(c) \cap Units(b) = {}
      BY <1>1, <2>4
    <3> QED
      BY <3>1
  <2> QED
    BY <2>1, <2>2, <2>3, <2>4
<1>3. Covered((B \ D) \cup N) = Covered(B)
  <2>1. Covered((B \ D) \cup N) = Covered(B \ D) \cup Covered(N)
    BY DEF Covered
  <2>2. Covered(B) = Covered(B \ D) \cup Covered(D)
    BY DEF Covered
  <2> QED
    BY <2>1, <2>2
<1> QED
  BY <1>2, <1>3

\* The first and the last unit of a block.
LEMMA UnitsAre ==
  ASSUME NEW o \in Nat, NEW adr \in Nat
  PROVE  /\ Units(<<o, adr>>) = adr..(adr + Block(o) - 1)
         /\ adr \in Units(<<o, adr>>)
         /\ adr + Block(o) - 1 \in Units(<<o, adr>>)
<1>1. Units(<<o, adr>>) = adr..(adr + Block(o) - 1)
  BY DEF Units
<1>2. Block(o) \in Nat \ {0}
  BY BlockIs
<1> QED
  BY <1>1, <1>2

\* What alloc makes of a block of order f: the upper halves and the one it hands out.
Halves(t, f, h) == {<<o, h + Block(o)>> : o \in t..(f - 1)}

\* The upper halves and the block handed out are apart and cover the block that is split.
LEMMA Splits ==
  ASSUME NEW t \in Nat, NEW f \in Nat, NEW h \in Nat, t <= f
  PROVE  /\ Apart(Halves(t, f, h) \cup {<<t, h>>})
         /\ Covered(Halves(t, f, h) \cup {<<t, h>>}) = Units(<<f, h>>)
<1> DEFINE N == Halves(t, f, h) \cup {<<t, h>>}
<1>1. \A o \in Nat : Block(o) \in Nat \ {0} /\ Block(o + 1) = 2 * Block(o)
  BY BlockIs
<1>2. \A o, p \in Nat : o < p => 2 * Block(o) <= Block(p)
  BY BlockIs
<1>3. \A o \in t..(f - 1) : o \in Nat /\ o < f
  OBVIOUS
<1>4. \A o \in Nat : Units(<<o, h + Block(o)>>) = (h + Block(o))..(h + 2 * Block(o) - 1)
  <2> TAKE o \in Nat
  <2>1. Units(<<o, h + Block(o)>>) = (h + Block(o))..((h + Block(o)) + Block(o) - 1)
    <3>1. h + Block(o) \in Nat
      BY <1>1
    <3> QED
      BY <3>1, UnitsAre
  <2>2. (h + Block(o)) + Block(o) - 1 = h + 2 * Block(o) - 1
    BY <1>1
  <2> QED
    BY <2>1, <2>2
<1>5. Units(<<t, h>>) = h..(h + Block(t) - 1)
  BY UnitsAre
<1>6. Units(<<f, h>>) = h..(h + Block(f) - 1)
  BY UnitsAre
<1>7. \A o \in t..(f - 1) : Units(<<o, h + Block(o)>>) \cap Units(<<t, h>>) = {}
  <2> TAKE o \in t..(f - 1)
  <2>1. Block(t) <= Block(o) /\ Block(t) \in Nat /\ Block(o) \in Nat
    <3>1. CASE o = t
      BY <1>1, <3>1
    <3>2. CASE t < o
      BY <1>1, <1>2, <1>3, <3>2
    <3> QED
      BY <1>3, <3>1, <3>2
  <2> QED
    BY <1>3, <1>4, <1>5, <2>1
<1>8. \A o, p \in t..(f - 1) :
         o < p => Units(<<o, h + Block(o)>>) \cap Units(<<p, h + Block(p)>>) = {}
  <2> TAKE o, p \in t..(f - 1)
  <2> HAVE o < p
  <2>1. 2 * Block(o) <= Block(p) /\ Block(o) \in Nat /\ Block(p) \in Nat
    BY <1>1, <1>2, <1>3
  <2>2. /\ Units(<<o, h + Block(o)>>) = (h + Block(o))..(h + 2 * Block(o) - 1)
        /\ Units(<<p, h + Block(p)>>) = (h + Block(p))..(h + 2 * Block(p) - 1)
    BY <1>3, <1>4
  <2> QED
    BY <2>1, <2>2
<1>9. Apart(N)
  <2> SUFFICES ASSUME NEW b \in N, NEW c \in N, b # c PROVE Units(b) \cap Units(c) = {}
    BY DEF Apart
  <2>1. b = <<t, h>> \/ \E o \in t..(f - 1) : b = <<o, h + Block(o)>>
    BY DEF Halves
  <2>2. c = <<t, h>> \/ \E o \in t..(f - 1) : c = <<o, h + Block(o)>>
    BY DEF Halves
  <2>3. CASE b = <<t, h>>
    BY <1>7, <2>2, <2>3
  <2>4. CASE c = <<t, h>>
    BY <1>7, <2>1, <2>4
  <2>5. ASSUME NEW o \in t..(f - 1), NEW p \in t..(f - 1),
               b = <<o, h + Block(o)>>, c = <<p, h + Block(p)>>
        PROVE  Units(b) \cap Units(c) = {}
    <3>1. o # p
      BY <2>5
    <3>2. o < p \/ p < o
      BY <1>3, <3>1
    <3>3. CASE o < p
      BY <1>8, <2>5, <3>3
    <3>4. CASE p < o
      <4>1. Units(c) \cap Units(b) = {}
        BY <1>8, <2>5, <3>4
      <4> QED
        BY <4>1
    <3> QED
      BY <3>2, <3>3, <3>4
  <2> QED
    BY <2>1, <2>2, <2>3, <2>4, <2>5
<1>10. Block(t) <= Block(f)
  BY <1>1, <1>2
<1>11. \A o \in t..(f - 1) : 2 * Block(o) <= Block(f)
  BY <1>2, <1>3
<1>12. Covered(N) \subseteq Units(<<f, h>>)
  <2> SUFFICES ASSUME NEW b \in N, NEW x \in Units(b) PROVE x \in Units(<<f, h>>)
    BY DEF Covered
  <2>1. CASE b = <<t, h>>
    <3>1. x \in h..(h + Block(t) - 1)
      BY <1>5, <2>1
    <3>2. Block(t) \in Nat /\ Block(f) \in Nat
      BY <1>1
    <3>3. x \in h..(h + Block(f) - 1)
      BY <1>10, <3>1, <3>2
    <3> QED
      BY <1>6, <3>3
  <2>2. ASSUME NEW o \in t..(f - 1), b = <<o, h + Block(o)>> PROVE x \in Units(<<f, h>>)
    <3>1. x \in (h + Block(o))..(h + 2 * Block(o) - 1)
      BY <1>3, <1>4, <2>2
    <3>2. 2 * Block(o) <= Block(f) /\ Block(o) \in Nat /\ Block(f) \in Nat
      BY <1>1, <1>3, <1>11
    <3> QED
      BY <1>6, <3>1, <3>2
  <2> QED
    BY <2>1, <2>2 DEF Halves
<1>13. ASSUME NEW x \in Units(<<f, h>>) PROVE x \in Covered(N)
  <2> DEFINE T == {j \in t..f : x < h + Block(j)}
  <2>0. x \in h..(h + Block(f) - 1) /\ Block(f) \in Nat
    BY <1>1, <1>6, <1>13
  <2>a. x \in Int /\ h <= x /\ x < h + Block(f)
    BY <2>0
  <2>1. f \in T /\ T \subseteq Nat
    BY <2>a
  <2>2. PICK j \in T : \A y \in T : j <= y
    BY <2>1, Least
  <2>3. j \in Nat /\ t <= j /\ j <= f /\ x < h + Block(j) /\ x \in Int /\ h <= x
    BY <2>a, <2>2
  <2>4. CASE j = t
    <3>0. Block(t) \in Nat
      BY <1>1
    <3>1. x \in Units(<<t, h>>)
      BY <1>5, <2>3, <2>4, <3>0
    <3> QED
      BY <3>1 DEF Covered
  <2>5. CASE j # t
    <3>1. j - 1 \in t..(f - 1) /\ j - 1 \in Nat /\ (j - 1) + 1 = j /\ j - 1 \in t..f /\ ~ (j <= j - 1)
      BY <2>3, <2>5
    <3>2. ~ (x < h + Block(j - 1))
      BY <2>2, <3>1
    <3>3. Block(j) = 2 * Block(j - 1) /\ Block(j - 1) \in Nat
      BY <1>1, <3>1
    <3>4. x \in (h + Block(j - 1))..(h + 2 * Block(j - 1) - 1)
      BY <2>3, <3>2, <3>3
    <3>5. x \in Units(<<j - 1, h + Block(j - 1)>>)
      BY <1>4, <3>1, <3>4
    <3>6. <<j - 1, h + Block(j - 1)>> \in N
      BY <3>1 DEF Halves
    <3> QED
      BY <3>5, <3>6 DEF Covered
  <2> QED
    BY <2>4, <2>5
<1> QED
  BY <1>9, <1>12, <1>13

\* What dealloc joins with the block at adr, up to order k.
NextBuddy(adr, k) == buddy_ptr(Merged(adr, k), k)
Buddies(adr, o, top) == {<<k, NextBuddy(adr, k)>> : k \in o..(top - 1)}

\* A block and the buddies joined with it cover the joined block.
LEMMA Joins ==
  ASSUME NEW o \in Nat, NEW adr \in Nat, Multiple(adr, o), NEW top \in Nat, o <= top
  PROVE  Covered({<<o, adr>>} \cup Buddies(adr, o, top)) = Units(<<top, Merged(adr, top)>>)
<1> DEFINE D(k) == {<<o, adr>>} \cup Buddies(adr, o, k)
           S == {d \in Nat : Covered(D(o + d)) = Units(<<o + d, Merged(adr, o + d)>>)}
<1>1. 0 \in S
  <2>1. Buddies(adr, o, o + 0) = {}
    BY DEF Buddies
  <2>2. Covered(D(o + 0)) = Units(<<o, adr>>)
    BY <2>1 DEF Covered
  <2>3. Merged(adr, o + 0) = adr /\ o + 0 = o
    BY MergeStart
  <2> QED
    BY <2>2, <2>3
<1>2. ASSUME NEW d \in Nat, d \in S PROVE d + 1 \in S
  <2> DEFINE k == o + d
             m == Merged(adr, k)
             p == buddy_ptr(m, k)
             n == Merged(adr, k + 1)
  <2>1. k \in Nat /\ o + (d + 1) = k + 1
    OBVIOUS
  <2>2. /\ m \in Nat /\ n \in Nat
        /\ (n = m /\ p = m + Block(k)) \/ (n = m - Block(k) /\ p = m - Block(k))
    BY <2>1, MergeStep
  <2>3. Block(k) \in Nat \ {0} /\ Block(k + 1) = 2 * Block(k)
    BY <2>1, BlockIs
  <2>4. Covered(D(k)) = Units(<<k, m>>)
    BY <1>2
  <2>5. Covered(D(k + 1)) = Covered(D(k)) \cup Units(<<k, p>>)
    <3>1. o..((k + 1) - 1) = o..(k - 1) \cup {k}
      BY <2>1
    <3>2. D(k + 1) = D(k) \cup {<<k, p>>}
      BY <3>1 DEF Buddies, NextBuddy
    <3> HIDE DEF D
    <3> QED
      BY <3>2 DEF Covered
  <2> HIDE DEF m, n, p, k, D
  <2>6. /\ Units(<<k, m>>) = m..(m + Block(k) - 1)
        /\ Units(<<k, p>>) = p..(p + Block(k) - 1)
        /\ Units(<<k + 1, n>>) = n..(n + 2 * Block(k) - 1)
    <3>1. p \in Nat /\ k + 1 \in Nat
      BY <2>1, <2>2, <2>3
    <3>2. Units(<<k + 1, n>>) = n..(n + Block(k + 1) - 1)
      BY <2>2, <3>1, UnitsAre
    <3>3. Units(<<k, m>>) = m..(m + Block(k) - 1)
      BY <2>1, <2>2, UnitsAre
    <3>4. Units(<<k, p>>) = p..(p + Block(k) - 1)
      BY <2>1, <3>1, UnitsAre
    <3> QED
      BY <2>3, <3>2, <3>3, <3>4, Zenon
  <2>7. Units(<<k + 1, n>>) = Units(<<k, m>>) \cup Units(<<k, p>>)
    BY <2>2, <2>3, <2>6
  <2>8. Covered(D(k + 1)) = Units(<<k + 1, n>>)
    BY <2>4, <2>5, <2>7
  <2>9. Covered(D(o + (d + 1))) = Units(<<o + (d + 1), Merged(adr, o + (d + 1))>>)
    BY <2>1, <2>8 DEF n
  <2> QED
    BY <2>9 DEF D
<1> HIDE DEF S
<1>3. \A d \in Nat : d \in S
  BY <1>1, <1>2, Inductive
<1>4. top - o \in Nat /\ o + (top - o) = top
  OBVIOUS
<1>5. Covered(D(o + (top - o))) = Units(<<o + (top - o), Merged(adr, o + (top - o))>>)
  BY <1>3, <1>4 DEF S
<1> QED
  BY <1>4, <1>5

-----------------------------------------------------------------------------
(* The pool.                                                               *)

FreeOf(f) == {b \in BuddyOrders \X (0..(PoolUnits - 1)) : Contains(f[b[1]], b[2])}
HeldOf(lv) == {<<b.order, b.at>> : b \in lv}

PoolTypes(f, lv) ==
  /\ f \in [BuddyOrders -> Seq(0..(PoolUnits - 1))]
  /\ lv \subseteq [at : 0..(PoolUnits - 1), order : BuddyOrders, layout : Layouts]

Merges(f) ==
  \A o \in 0..(MaxOrder - 1), adr \in 0..PoolUnits :
    Contains(f[o], adr) => ~Contains(f[o], buddy_ptr(adr, o))

\* What alloc and dealloc keep.
IsPool(f, lv) ==
  /\ PoolTypes(f, lv)
  /\ \A o \in BuddyOrders : IsInjective(f[o])
  /\ FreeOf(f) \cap HeldOf(lv) = {}
  /\ \A b, c \in lv : b.at = c.at => b = c
  /\ Apart(FreeOf(f) \cup HeldOf(lv))
  /\ Covered(FreeOf(f) \cup HeldOf(lv)) = 0..(PoolUnits - 1)
  /\ \A b \in FreeOf(f) \cup HeldOf(lv) : Multiple(b[2], b[1])
  /\ \A b \in lv : b.order \in LayoutOrders(b.layout)
  /\ Merges(f)

\* Membership of the free blocks.
LEMMA FreeIs ==
  ASSUME NEW f \in [BuddyOrders -> Seq(0..(PoolUnits - 1))]
  PROVE  /\ \A o, x : <<o, x>> \in FreeOf(f) <=> o \in BuddyOrders /\ Contains(f[o], x)
         /\ \A b \in FreeOf(f) : b = <<b[1], b[2]>>
         /\ \A o \in BuddyOrders : \A x : Contains(f[o], x) => x \in 0..(PoolUnits - 1)
<1>1. ASSUME NEW o \in BuddyOrders, NEW x, Contains(f[o], x) PROVE x \in 0..(PoolUnits - 1)
  <2>1. f[o] \in Seq(0..(PoolUnits - 1))
    OBVIOUS
  <2>2. PICK i \in 1..Len(f[o]) : f[o][i] = x
    BY <1>1 DEF Contains
  <2> QED
    BY <2>1, <2>2, ElementOfSeq
<1>2. ASSUME NEW o, NEW x PROVE <<o, x>> \in FreeOf(f) <=> o \in BuddyOrders /\ Contains(f[o], x)
  BY <1>1 DEF FreeOf
<1>3. \A b \in FreeOf(f) : b = <<b[1], b[2]>>
  BY DEF FreeOf
<1> QED
  BY <1>1, <1>2, <1>3

\* Every block has an order and a place.
LEMMA PlacesAre ==
  ASSUME NEW f, NEW lv, PoolTypes(f, lv)
  PROVE  \A b \in FreeOf(f) \cup HeldOf(lv) :
           b = <<b[1], b[2]>> /\ b[1] \in BuddyOrders /\ b[2] \in 0..(PoolUnits - 1)
<1>1. \A b \in FreeOf(f) :
        b = <<b[1], b[2]>> /\ b[1] \in BuddyOrders /\ b[2] \in 0..(PoolUnits - 1)
  BY DEF FreeOf
<1>2. ASSUME NEW c \in lv PROVE c.order \in BuddyOrders /\ c.at \in 0..(PoolUnits - 1)
  BY DEF PoolTypes
<1>3. \A b \in HeldOf(lv) :
        b = <<b[1], b[2]>> /\ b[1] \in BuddyOrders /\ b[2] \in 0..(PoolUnits - 1)
  BY <1>2 DEF HeldOf
<1> QED
  BY <1>1, <1>3

\* Every block lies in the pool; blocks at one place are the same.
LEMMA BlocksInPool ==
  ASSUME NEW f, NEW lv, IsPool(f, lv), NEW o, NEW adr, <<o, adr>> \in FreeOf(f) \cup HeldOf(lv)
  PROVE  /\ o \in BuddyOrders /\ o \in Nat /\ adr \in 0..(PoolUnits - 1) /\ adr \in Nat
         /\ Units(<<o, adr>>) \subseteq 0..(PoolUnits - 1)
         /\ \A b \in FreeOf(f) \cup HeldOf(lv) : adr \in Units(b) => b = <<o, adr>>
<1>1. o \in BuddyOrders /\ adr \in 0..(PoolUnits - 1)
  <2>1. PoolTypes(f, lv)
    BY DEF IsPool
  <2>2. /\ <<o, adr>>[1] \in BuddyOrders /\ <<o, adr>>[2] \in 0..(PoolUnits - 1)
    BY <2>1, PlacesAre
  <2> QED
    BY <2>2
<1>2. o \in Nat /\ adr \in Nat
  BY <1>1, BlockIs
<1>3. Units(<<o, adr>>) \subseteq 0..(PoolUnits - 1)
  BY DEF IsPool, Covered
<1>4. adr \in Units(<<o, adr>>)
  BY <1>2, UnitsAre
<1>5. ASSUME NEW b \in FreeOf(f) \cup HeldOf(lv), adr \in Units(b) PROVE b = <<o, adr>>
  BY <1>4, <1>5 DEF IsPool, Apart
<1> QED
  BY <1>1, <1>2, <1>3, <1>5

\* alloc finds a block of the least order that is large enough; the lists below are empty.
LEMMA FoundIs ==
  ASSUME NEW f, NEW t \in Nat, Fits(f, t) # {}
  PROVE  LET found == Min(Fits(f, t)) IN
           /\ found \in BuddyOrders /\ found \in Nat /\ t <= found /\ f[found] # <<>>
           /\ t \in BuddyOrders
           /\ \A o \in t..(found - 1) : o \in BuddyOrders /\ f[o] = <<>>
<1> DEFINE found == Min(Fits(f, t))
<1>1. BuddyOrders = 0..MaxOrder /\ MaxOrder \in Nat
  BY BlockIs
<1>2. Fits(f, t) \subseteq Nat
  BY <1>1 DEF Fits
<1>3. found \in Fits(f, t) /\ \A y \in Fits(f, t) : found <= y
  BY <1>2, LeastIsMin
<1> HIDE DEF found
<1>4. found \in BuddyOrders /\ t <= found /\ f[found] # <<>>
  BY <1>3 DEF Fits
<1>5. ASSUME NEW o \in t..(found - 1) PROVE o \in BuddyOrders /\ f[o] = <<>>
  <2>1. o \in Nat /\ o >= t /\ ~ (found <= o) /\ o \in BuddyOrders
    BY <1>1, <1>4
  <2>2. o \notin Fits(f, t)
    BY <1>3, <2>1
  <2> QED
    BY <2>1, <2>2 DEF Fits
<1>6. t \in BuddyOrders /\ found \in Nat
  BY <1>1, <1>4
<1> QED
  BY <1>4, <1>5, <1>6 DEF found

\* Splitting: one free block is exchanged for its halves and the block handed out.
LEMMA AllocKeepsPool ==
  ASSUME NEW f, NEW lv, IsPool(f, lv), NEW l \in Layouts, NEW t \in LayoutOrders(l),
         Fits(f, t) # {}
  PROVE  LET found == Min(Fits(f, t))
             new   == [at |-> Head(f[found]), order |-> t, layout |-> l]
         IN  /\ IsPool(Split(f, t, found), lv \cup {new})
             /\ \A u \in lv : u.at # new.at
<1> DEFINE found == Min(Fits(f, t))
           h == Head(f[found])
           new == [at |-> h, order |-> t, layout |-> l]
           g == Split(f, t, found)
           B == FreeOf(f) \cup HeldOf(lv)
           N == Halves(t, found, h) \cup {<<t, h>>}
           D == {<<found, h>>}
<1>1. t \in Nat
  BY OrderIs
<1>2. /\ found \in BuddyOrders /\ found \in Nat /\ t <= found /\ f[found] # <<>>
      /\ t \in BuddyOrders
      /\ \A o \in t..(found - 1) : o \in BuddyOrders /\ f[o] = <<>>
  BY <1>1, FoundIs
<1> HIDE DEF found
<1>3. /\ f \in [BuddyOrders -> Seq(0..(PoolUnits - 1))] /\ f[found] \in Seq(0..(PoolUnits - 1))
      /\ IsInjective(f[found])
  BY <1>2 DEF IsPool, PoolTypes
<1>4. /\ Contains(f[found], h) /\ h \in 0..(PoolUnits - 1)
      /\ Tail(f[found]) \in Seq(0..(PoolUnits - 1)) /\ IsInjective(Tail(f[found]))
      /\ \A y : Contains(Tail(f[found]), y) <=> Contains(f[found], y) /\ y # h
  BY <1>2, <1>3, ListHead
<1>5. h \in Nat /\ MaxOrder \in Nat /\ BuddyOrders = 0..MaxOrder
  BY <1>4, BlockIs
<1> HIDE DEF h
<1>6. <<found, h>> \in FreeOf(f)
  BY <1>2, <1>3, <1>4, FreeIs
<1>7. Apart(N) /\ Covered(N) = Units(<<found, h>>)
  BY <1>1, <1>2, <1>5, Splits
<1>8. Covered(D) = Units(<<found, h>>)
  BY DEF Covered
<1>9. Apart(B) /\ Covered(B) = 0..(PoolUnits - 1)
  BY DEF IsPool
<1>10. D \subseteq B
  BY <1>6
<1>11. Apart((B \ D) \cup N) /\ Covered((B \ D) \cup N) = 0..(PoolUnits - 1)
  BY <1>7, <1>8, <1>9, <1>10, Exchange
<1>12. ASSUME NEW o \in t..(found - 1)
       PROVE  /\ o \in Nat /\ o \in BuddyOrders
              /\ h + Block(o) \in 0..(PoolUnits - 1) /\ h + Block(o) # h
              /\ <<o, h + Block(o)>> \in N
  <2>1. o \in Nat /\ o \in BuddyOrders
    BY <1>1, <1>2
  <2>2. Block(o) \in Nat \ {0}
    BY <2>1, BlockIs
  <2>3. <<o, h + Block(o)>> \in N
    BY DEF Halves
  <2>6. h + Block(o) \in Nat
    BY <1>5, <2>2
  <2>4. h + Block(o) \in Units(<<o, h + Block(o)>>)
    BY <2>1, <2>6, UnitsAre
  <2>5. h + Block(o) \in Covered((B \ D) \cup N)
    BY <2>3, <2>4 DEF Covered
  <2> QED
    BY <1>5, <1>11, <2>1, <2>2, <2>3, <2>4, <2>5
<1>13. /\ g[found] = Tail(f[found])
       /\ \A o \in t..(found - 1) : g[o] = <<h + Block(o)>>
       /\ \A o \in BuddyOrders : o # found /\ o \notin t..(found - 1) => g[o] = f[o]
       /\ DOMAIN g = BuddyOrders
  <2>1. g = [o \in BuddyOrders |->
               IF o = found THEN Tail(f[o])
               ELSE IF t <= o /\ o < found THEN <<h + Block(o)>> \o f[o]
               ELSE f[o]]
    BY DEF Split, h
  <2>2. ASSUME NEW o \in t..(found - 1) PROVE g[o] = <<h + Block(o)>>
    <3>1. o \in BuddyOrders /\ f[o] = <<>> /\ o # found /\ t <= o /\ o < found
      BY <1>1, <1>2
    <3>2. g[o] = <<h + Block(o)>> \o f[o]
      BY <2>1, <3>1
    <3>3. h + Block(o) \in 0..(PoolUnits - 1)
      BY <1>12
    <3> QED
      BY <3>1, <3>2, <3>3
  <2>3. ASSUME NEW o \in BuddyOrders, o # found, o \notin t..(found - 1) PROVE g[o] = f[o]
    <3>1. ~ (t <= o /\ o < found)
      BY <1>1, <1>2, <1>5, <2>3
    <3> QED
      BY <2>1, <2>3, <3>1
  <2> QED
    BY <1>2, <2>1, <2>2, <2>3
<1>g. g = [o \in BuddyOrders |-> g[o]]
  BY DEF Split
<1> HIDE DEF g
<1>14. ASSUME NEW o \in BuddyOrders
       PROVE  /\ g[o] \in Seq(0..(PoolUnits - 1)) /\ IsInjective(g[o])
              /\ \A x : Contains(g[o], x) <=>
                   \/ Contains(f[o], x) /\ <<o, x>> # <<found, h>>
                   \/ o \in t..(found - 1) /\ x = h + Block(o)
  <2>1. CASE o = found
    <3>1. o \notin t..(found - 1)
      BY <1>2, <2>1
    <3> QED
      BY <1>4, <1>13, <2>1, <3>1
  <2>2. CASE o \in t..(found - 1)
    <3>1. g[o] = <<h + Block(o)>> /\ o # found /\ f[o] = <<>>
      BY <1>1, <1>2, <1>13, <2>2
    <3>6. h + Block(o) \in 0..(PoolUnits - 1)
      BY <1>12, <2>2
    <3>2. /\ g[o] \in Seq(0..(PoolUnits - 1)) /\ Len(g[o]) = 1 /\ g[o][1] = h + Block(o)
      BY <3>1, <3>6
    <3>3. IsInjective(g[o])
      BY <3>2 DEF IsInjective
    <3>4. \A x : ~Contains(f[o], x)
      BY <3>1 DEF Contains
    <3>5. \A x : Contains(g[o], x) <=> x = h + Block(o)
      BY <3>2 DEF Contains
    <3> QED
      BY <2>2, <3>2, <3>3, <3>4, <3>5
  <2>3. CASE o # found /\ o \notin t..(found - 1)
    BY <1>3, <1>13, <2>3 DEF IsPool
  <2> QED
    BY <2>1, <2>2, <2>3
<1>15. g \in [BuddyOrders -> Seq(0..(PoolUnits - 1))]
  BY <1>14, <1>g
<1>16. PoolTypes(g, lv \cup {new})
  BY <1>2, <1>4, <1>15 DEF IsPool, PoolTypes
<1>17. FreeOf(g) = (FreeOf(f) \ D) \cup Halves(t, found, h)
  <2>1. ASSUME NEW b \in FreeOf(g) PROVE b \in (FreeOf(f) \ D) \cup Halves(t, found, h)
    <3>1. b = <<b[1], b[2]>> /\ b[1] \in BuddyOrders /\ Contains(g[b[1]], b[2])
      BY <1>15, FreeIs
    <3>2. \/ Contains(f[b[1]], b[2]) /\ b # <<found, h>>
          \/ b[1] \in t..(found - 1) /\ b[2] = h + Block(b[1])
      BY <1>14, <3>1
    <3>3. Contains(f[b[1]], b[2]) => b \in FreeOf(f)
      BY <1>3, <3>1, FreeIs
    <3>4. b[1] \in t..(found - 1) /\ b[2] = h + Block(b[1]) => b \in Halves(t, found, h)
      BY <3>1 DEF Halves
    <3> QED
      BY <3>2, <3>3, <3>4
  <2>2. ASSUME NEW b \in FreeOf(f) \ D PROVE b \in FreeOf(g)
    <3>1. b = <<b[1], b[2]>> /\ b[1] \in BuddyOrders /\ Contains(f[b[1]], b[2])
      BY <1>3, FreeIs
    <3>2. Contains(g[b[1]], b[2])
      BY <1>14, <3>1
    <3> QED
      BY <1>15, <3>1, <3>2, FreeIs
  <2>3. ASSUME NEW b \in Halves(t, found, h) PROVE b \in FreeOf(g)
    <3>1. PICK o \in t..(found - 1) : b = <<o, h + Block(o)>>
      BY DEF Halves
    <3>2. o \in BuddyOrders /\ Contains(g[o], h + Block(o))
      BY <1>12, <1>14
    <3> QED
      BY <1>15, <3>1, <3>2, FreeIs
  <2> QED
    BY <2>1, <2>2, <2>3
<1>18. HeldOf(lv \cup {new}) = HeldOf(lv) \cup {<<t, h>>}
  <2>1. <<new.order, new.at>> = <<t, h>>
    OBVIOUS
  <2> HIDE DEF new
  <2>2. \A e : e \in HeldOf(lv \cup {new}) <=> \E u \in lv \cup {new} : e = <<u.order, u.at>>
    BY DEF HeldOf
  <2>3. \A e : e \in HeldOf(lv) <=> \E u \in lv : e = <<u.order, u.at>>
    BY DEF HeldOf
  <2> QED
    BY <2>1, <2>2, <2>3, Zenon
<1>19. <<found, h>> \notin HeldOf(lv)
  BY <1>6 DEF IsPool
<1>20. FreeOf(g) \cup HeldOf(lv \cup {new}) = (B \ D) \cup N
  BY <1>17, <1>18, <1>19
<1>21. \A b \in B : h \in Units(b) => b = <<found, h>>
  BY <1>6, BlocksInPool
<1>22. ASSUME NEW u \in lv PROVE u.at # h
  <2>1. <<u.order, u.at>> \in HeldOf(lv)
    BY DEF HeldOf
  <2>2. u.order \in Nat /\ u.at \in Nat
    BY <2>1, BlocksInPool
  <2>3. u.at \in Units(<<u.order, u.at>>)
    BY <2>2, UnitsAre
  <2> QED
    BY <1>19, <1>21, <2>1, <2>3
<1>23. FreeOf(g) \cap HeldOf(lv \cup {new}) = {}
  <2>1. <<t, h>> \notin Halves(t, found, h)
    BY <1>12 DEF Halves
  <2>2. <<t, h>> \notin FreeOf(f) \ D
    <3>1. h \in Units(<<t, h>>)
      BY <1>1, <1>5, UnitsAre
    <3> QED
      BY <1>21, <3>1
  <2>3. \A b \in Halves(t, found, h) : b \notin HeldOf(lv)
    <3> SUFFICES ASSUME NEW b \in Halves(t, found, h), b \in HeldOf(lv) PROVE FALSE
      OBVIOUS
    <3>1. PICK o \in t..(found - 1) : b = <<o, h + Block(o)>>
      BY DEF Halves
    <3>w. h + Block(o) \in 0..(PoolUnits - 1)
      BY <1>12
    <3>v. \A x \in 0..(PoolUnits - 1) : x \in Nat
      OBVIOUS
    <3>x. PICK x \in Nat : x = h + Block(o)
      BY <3>v, <3>w, Zenon
    <3>o. o \in Nat
      BY <1>12
    <3>y. x \in Units(<<o, x>>)
      BY <3>o, UnitsAre
    <3>2. o \in Nat /\ h + Block(o) \in Nat /\ h + Block(o) \in Units(b)
      BY <3>1, <3>o, <3>x, <3>y, Zenon
    <3>3. h + Block(o) \in Covered(N)
      BY <1>12, <3>1, <3>2 DEF Covered
    <3>4. h + Block(o) \in Units(<<found, h>>)
      BY <1>7, <3>3
    <3>5. b = <<found, h>>
      BY <1>6, <1>9, <3>2, <3>4 DEF Apart
    <3> QED
      BY <1>19, <3>5
  <2>4. FreeOf(f) \cap HeldOf(lv) = {}
    BY DEF IsPool
  <2> QED
    BY <1>17, <1>18, <2>1, <2>2, <2>3, <2>4
<1>24. \A b \in N : Multiple(b[2], b[1])
  <2>1. <<found, h>> \in B
    BY <1>6
  <2>2. Multiple(<<found, h>>[2], <<found, h>>[1])
    BY <2>1 DEF IsPool
  <2>3. Multiple(h, found)
    BY <2>2
  <2>4. Multiple(h, t)
    BY <1>1, <1>2, <1>5, <2>3, MultipleBelow
  <2>5. ASSUME NEW o \in t..(found - 1) PROVE Multiple(h + Block(o), o)
    <3>1. o \in Nat /\ o <= found
      BY <1>1, <1>2
    <3> QED
      BY <1>2, <1>5, <2>3, <3>1, MultipleBelow
  <2>6. ASSUME NEW b \in N PROVE Multiple(b[2], b[1])
    <3>1. CASE b = <<t, h>>
      BY <2>4, <3>1
    <3>2. ASSUME NEW o \in t..(found - 1), b = <<o, h + Block(o)>> PROVE Multiple(b[2], b[1])
      BY <2>5, <3>2
    <3> QED
      BY <3>1, <3>2 DEF Halves
  <2> QED
    BY <2>6
<1>25. \A b \in (B \ D) \cup N : Multiple(b[2], b[1])
  BY <1>24 DEF IsPool
<1>26. Merges(g)
  <2> SUFFICES ASSUME NEW o \in 0..(MaxOrder - 1), NEW adr \in 0..PoolUnits, Contains(g[o], adr)
               PROVE  ~Contains(g[o], buddy_ptr(adr, o))
    BY DEF Merges
  <2>1. o \in BuddyOrders /\ o \in Nat
    BY <1>5
  <2>2. CASE o \in t..(found - 1)
    <3>1. ASSUME NEW x, Contains(g[o], x) PROVE x = h + Block(o)
      <4>1. ~Contains(f[o], x)
        <5>1. f[o] = <<>>
          BY <1>2, <2>2
        <5> QED
          BY <5>1 DEF Contains
      <4> QED
        BY <1>14, <2>1, <3>1, <4>1
    <3>2. adr = h + Block(o) /\ adr \in Nat
      BY <1>12, <2>2, <3>1
    <3>3. Multiple(adr, o)
      <4>1. <<o, h + Block(o)>> \in N
        BY <1>12, <2>2
      <4>2. Multiple(<<o, h + Block(o)>>[2], <<o, h + Block(o)>>[1])
        BY <1>24, <4>1
      <4> QED
        BY <3>2, <4>2
    <3>4. buddy_ptr(adr, o) # adr
      BY <2>1, <3>2, <3>3, BuddyOfMultiple
    <3> QED
      BY <3>1, <3>2, <3>4
  <2>3. CASE o \notin t..(found - 1)
    <3>1. \A x : Contains(g[o], x) => Contains(f[o], x)
      BY <1>14, <2>1, <2>3
    <3> QED
      BY <3>1 DEF IsPool, Merges
  <2> QED
    BY <2>2, <2>3
<1>27. \A b, c \in lv \cup {new} : b.at = c.at => b = c
  <2>1. new.at = h
    OBVIOUS
  <2>2. \A b, c \in lv : b.at = c.at => b = c
    BY DEF IsPool
  <2> HIDE DEF new
  <2> QED
    BY <1>22, <2>1, <2>2
<1>28. \A b \in lv \cup {new} : b.order \in LayoutOrders(b.layout)
  BY DEF IsPool
<1>29. \A o \in BuddyOrders : IsInjective(g[o])
  BY <1>14
<1> HIDE DEF N, D, B, new
<1>30. IsPool(g, lv \cup {new})
  BY <1>11, <1>16, <1>20, <1>23, <1>25, <1>26, <1>27, <1>28, <1>29 DEF IsPool
<1> QED
  BY <1>22, <1>30 DEF g, h, found, new

\* Merging ends at an order of the pool; up to there every buddy is free, and at it
\* the pool ends or the buddy is not free.
LEMMA TopIs ==
  ASSUME NEW f, NEW adr, NEW o \in BuddyOrders
  PROVE  LET top == Top(f, adr, o) IN
           /\ top \in BuddyOrders /\ top \in Nat /\ o <= top
           /\ \A k \in o..(top - 1) :
                k \in BuddyOrders /\ k < MaxOrder /\ Contains(f[k], NextBuddy(adr, k))
           /\ top = MaxOrder \/ ~Contains(f[top], NextBuddy(adr, top))
<1> DEFINE Ends == {k \in o..MaxOrder : k = MaxOrder \/ ~BuddyFree(f, adr, k)}
           top == Top(f, adr, o)
<1>1. BuddyOrders = 0..MaxOrder /\ MaxOrder \in Nat /\ o \in Nat /\ o <= MaxOrder
  BY BlockIs
<1>2. MaxOrder \in Ends /\ Ends \in SUBSET Nat
  BY <1>1
<1>3. top \in Ends /\ \A y \in Ends : top <= y
  BY <1>2, LeastIsMin DEF Top
<1> HIDE DEF top
<1>4. top \in BuddyOrders /\ top \in Nat /\ o <= top
  BY <1>1, <1>3
<1>5. top = MaxOrder \/ ~Contains(f[top], NextBuddy(adr, top))
  BY <1>3 DEF BuddyFree, NextBuddy
<1>6. ASSUME NEW k \in o..(top - 1)
      PROVE  k \in BuddyOrders /\ k < MaxOrder /\ Contains(f[k], NextBuddy(adr, k))
  <2>1. k \in o..MaxOrder /\ k \in BuddyOrders /\ k < MaxOrder /\ ~ (top <= k)
    BY <1>1, <1>3, <1>4
  <2>2. k \notin Ends
    BY <1>3, <2>1
  <2>3. BuddyFree(f, adr, k)
    BY <2>1, <2>2
  <2> QED
    BY <2>1, <2>3 DEF BuddyFree, NextBuddy
<1> QED
  BY <1>4, <1>5, <1>6 DEF top

\* Merging: the block given back and its free buddies are exchanged for one free block.
LEMMA DeallocKeepsPool ==
  ASSUME NEW f, NEW lv, IsPool(f, lv), NEW b \in lv, NEW o \in LayoutOrders(b.layout)
  PROVE  IsPool(Coalesce(f, b.at, o), lv \ {b})
<1> DEFINE adr == b.at
           top == Top(f, adr, o)
           m == Merged(adr, top)
           g == Coalesce(f, adr, o)
           B == FreeOf(f) \cup HeldOf(lv)
           P == Buddies(adr, o, top)
           D == {<<o, adr>>} \cup P
           N == {<<top, m>>}
<1>1. PoolTypes(f, lv) /\ b.layout \in Layouts /\ f \in [BuddyOrders -> Seq(0..(PoolUnits - 1))]
  BY DEF IsPool, PoolTypes
<1>2. o = b.order
  <2>1. b.order \in LayoutOrders(b.layout)
    BY DEF IsPool
  <2> QED
    BY <1>1, <2>1, OneOrder
<1>3. <<o, adr>> \in HeldOf(lv)
  BY <1>2 DEF HeldOf
<1>4. <<o, adr>> \in B
  BY <1>3
<1>5. /\ o \in BuddyOrders /\ o \in Nat /\ adr \in 0..(PoolUnits - 1) /\ adr \in Nat
  BY <1>4, BlocksInPool
<1>6. Multiple(adr, o)
  <2>1. Multiple(<<o, adr>>[2], <<o, adr>>[1])
    BY <1>4 DEF IsPool
  <2> QED
    BY <2>1
<1>7. /\ top \in BuddyOrders /\ top \in Nat /\ o <= top
      /\ \A k \in o..(top - 1) :
           k \in BuddyOrders /\ k < MaxOrder /\ Contains(f[k], NextBuddy(adr, k))
      /\ top = MaxOrder \/ ~Contains(f[top], NextBuddy(adr, top))
  BY <1>5, TopIs
<1> HIDE DEF top, adr
<1>8. m \in Nat /\ Multiple(m, top)
  BY <1>5, <1>7, MergeStep
<1>9. Apart(B) /\ Covered(B) = 0..(PoolUnits - 1)
  BY DEF IsPool
<1>10. P \subseteq FreeOf(f)
  <2>1. ASSUME NEW k \in o..(top - 1) PROVE <<k, NextBuddy(adr, k)>> \in FreeOf(f)
    BY <1>1, <1>7, FreeIs
  <2> QED
    BY <2>1 DEF Buddies
<1>11. D \subseteq B
  BY <1>4, <1>10
<1>12. Covered(D) = Units(<<top, m>>)
  BY <1>5, <1>6, <1>7, Joins
<1>13. Covered(N) = Covered(D) /\ Apart(N)
  BY <1>12 DEF Covered, Apart
<1>14. Apart((B \ D) \cup N) /\ Covered((B \ D) \cup N) = 0..(PoolUnits - 1)
  BY <1>9, <1>11, <1>13, Exchange
<1>15. m \in Units(<<top, m>>)
  BY <1>7, <1>8, UnitsAre
<1>16. m \in 0..(PoolUnits - 1)
  <2>1. m \in Covered((B \ D) \cup N)
    BY <1>15 DEF Covered
  <2> QED
    BY <1>14, <2>1
<1> HIDE DEF m
\* The joined block is no block of before, but the one given back where none is joined.
<1>17. <<top, m>> \in B => <<top, m>> = <<o, adr>>
  <2> SUFFICES ASSUME <<top, m>> \in B PROVE <<top, m>> = <<o, adr>>
    OBVIOUS
  <2>1. PICK d \in D : m \in Units(d)
    BY <1>12, <1>15 DEF Covered
  <2>2. d = <<top, m>>
    BY <1>11, <2>1, BlocksInPool
  <2>3. d \notin P
    <3>1. ASSUME NEW k \in o..(top - 1), d = <<k, NextBuddy(adr, k)>> PROVE FALSE
      <4>1. k = top
        BY <2>2, <3>1
      <4> QED
        BY <1>5, <1>7, <4>1
    <3> QED
      BY <3>1 DEF Buddies
  <2> QED
    BY <2>1, <2>2, <2>3
<1>18. <<o, adr>> \notin FreeOf(f)
  BY <1>3 DEF IsPool
<1>19. ~Contains(f[top], m)
  <2>1. Contains(f[top], m) => <<top, m>> \in FreeOf(f)
    BY <1>1, <1>7, FreeIs
  <2> QED
    BY <1>17, <1>18, <2>1
<1>20. /\ \A k \in o..(top - 1) : g[k] = Without(f[k], NextBuddy(adr, k))
       /\ g[top] = <<m>> \o f[top]
       /\ \A k \in BuddyOrders : k # top /\ k \notin o..(top - 1) => g[k] = f[k]
       /\ g = [k \in BuddyOrders |-> g[k]]
  <2>1. g = [k \in BuddyOrders |->
               IF k \in o..(top - 1) THEN Without(f[k], NextBuddy(adr, k))
               ELSE IF k = top THEN <<Merged(adr, k)>> \o f[k]
               ELSE f[k]]
    BY DEF Coalesce, NextBuddy, top
  <2>2. top \notin o..(top - 1)
    BY <1>5, <1>7
  <2> HIDE DEF g
  <2> QED
    BY <1>7, <2>1, <2>2 DEF m
<1> HIDE DEF g
<1>21. ASSUME NEW k \in BuddyOrders
       PROVE  /\ g[k] \in Seq(0..(PoolUnits - 1)) /\ IsInjective(g[k])
              /\ \A x : Contains(g[k], x) <=>
                   \/ Contains(f[k], x) /\ ~(k \in o..(top - 1) /\ x = NextBuddy(adr, k))
                   \/ k = top /\ x = m
  <2>0. f[k] \in Seq(0..(PoolUnits - 1)) /\ IsInjective(f[k])
    BY <1>1 DEF IsPool
  <2>1. CASE k \in o..(top - 1)
    <3>1. Contains(f[k], NextBuddy(adr, k)) /\ g[k] = Without(f[k], NextBuddy(adr, k))
      BY <1>7, <1>20, <2>1
    <3>2. k # top
      BY <1>5, <1>7, <2>1
    <3>3. /\ g[k] \in Seq(0..(PoolUnits - 1)) /\ IsInjective(g[k])
          /\ \A x : Contains(g[k], x) <=> Contains(f[k], x) /\ x # NextBuddy(adr, k)
      BY <2>0, <3>1, ListWithout
    <3> QED
      BY <2>1, <3>2, <3>3
  <2>2. CASE k = top
    <3>1. k \notin o..(top - 1)
      BY <1>5, <1>7, <2>2
    <3>2. g[k] = <<m>> \o f[k] /\ ~Contains(f[k], m)
      BY <1>19, <1>20, <2>2
    <3>3. /\ g[k] \in Seq(0..(PoolUnits - 1)) /\ IsInjective(g[k])
          /\ \A x : Contains(g[k], x) <=> Contains(f[k], x) \/ x = m
      <4> DEFINE new == <<m>> \o f[k]
      <4>1. /\ new \in Seq(0..(PoolUnits - 1)) /\ IsInjective(new)
            /\ \A x : Contains(new, x) <=> Contains(f[k], x) \/ x = m
        BY <1>16, <2>0, <3>2, ListPush, Zenon
      <4> HIDE DEF new
      <4>2. g[k] = new
        BY <3>2 DEF new
      <4> QED
        BY <4>1, <4>2
    <3> QED
      BY <2>2, <3>1, <3>3
  <2>3. CASE k # top /\ k \notin o..(top - 1)
    BY <1>20, <2>0, <2>3
  <2> QED
    BY <2>1, <2>2, <2>3
<1>22. g \in [BuddyOrders -> Seq(0..(PoolUnits - 1))]
  BY <1>20, <1>21
<1>23. PoolTypes(g, lv \ {b})
  BY <1>1, <1>22 DEF PoolTypes
<1>24. FreeOf(g) = (FreeOf(f) \ P) \cup N
  <2>1. ASSUME NEW c \in FreeOf(g) PROVE c \in (FreeOf(f) \ P) \cup N
    <3>1. c = <<c[1], c[2]>> /\ c[1] \in BuddyOrders /\ Contains(g[c[1]], c[2])
      BY <1>22, FreeIs
    <3>2. \/ /\ Contains(f[c[1]], c[2])
             /\ ~(c[1] \in o..(top - 1) /\ c[2] = NextBuddy(adr, c[1]))
          \/ c[1] = top /\ c[2] = m
      BY <1>21, <3>1
    <3>3. Contains(f[c[1]], c[2]) => c \in FreeOf(f)
      BY <1>1, <3>1, FreeIs
    <3>4. c \in P => c[1] \in o..(top - 1) /\ c[2] = NextBuddy(adr, c[1])
      BY DEF Buddies
    <3>5. c[1] = top /\ c[2] = m => c \in N
      BY <3>1
    <3> QED
      BY <3>2, <3>3, <3>4, <3>5
  <2>2. ASSUME NEW c \in FreeOf(f) \ P PROVE c \in FreeOf(g)
    <3>1. c = <<c[1], c[2]>> /\ c[1] \in BuddyOrders /\ Contains(f[c[1]], c[2])
      BY <1>1, FreeIs
    <3>2. c[1] \in o..(top - 1) /\ c[2] = NextBuddy(adr, c[1]) => c \in P
      BY <3>1 DEF Buddies
    <3>3. Contains(g[c[1]], c[2])
      BY <1>21, <2>2, <3>1, <3>2
    <3> QED
      BY <1>22, <3>1, <3>3, FreeIs
  <2>3. <<top, m>> \in FreeOf(g)
    <3>1. Contains(g[top], m)
      BY <1>7, <1>21
    <3> QED
      BY <1>7, <1>22, <3>1, FreeIs
  <2> QED
    BY <2>1, <2>2, <2>3
<1>25. HeldOf(lv \ {b}) = HeldOf(lv) \ {<<o, adr>>}
  <2>1. ASSUME NEW u \in lv, u # b PROVE <<u.order, u.at>> # <<o, adr>>
    BY <2>1 DEF IsPool, adr
  <2>2. <<b.order, b.at>> = <<o, adr>>
    BY <1>2 DEF adr
  <2>3. \A e : e \in HeldOf(lv \ {b}) <=> \E u \in lv : u # b /\ e = <<u.order, u.at>>
    BY DEF HeldOf
  <2>4. \A e : e \in HeldOf(lv) <=> \E u \in lv : e = <<u.order, u.at>>
    BY DEF HeldOf
  <2>5. ASSUME NEW e, e \in HeldOf(lv \ {b}) PROVE e \in HeldOf(lv) /\ e # <<o, adr>>
    BY <2>1, <2>3, <2>4, <2>5, Zenon
  <2>6. ASSUME NEW e, e \in HeldOf(lv), e # <<o, adr>> PROVE e \in HeldOf(lv \ {b})
    BY <2>2, <2>3, <2>4, <2>6, Zenon
  <2> QED
    BY <2>5, <2>6
<1>26. FreeOf(f) \cap HeldOf(lv) = {}
  BY DEF IsPool
<1> HIDE DEF P
<1>27. FreeOf(g) \cup HeldOf(lv \ {b}) = (B \ D) \cup N
  BY <1>3, <1>10, <1>18, <1>24, <1>25, <1>26
<1>28. FreeOf(g) \cap HeldOf(lv \ {b}) = {}
  BY <1>17, <1>24, <1>25, <1>26
<1>29. \A c \in (B \ D) \cup N : Multiple(c[2], c[1])
  <2>1. \A c \in B : Multiple(c[2], c[1])
    BY DEF IsPool
  <2>2. Multiple(<<top, m>>[2], <<top, m>>[1])
    BY <1>8 DEF m
  <2> QED
    BY <2>1, <2>2
<1>30. Merges(g)
  <2> SUFFICES ASSUME NEW k \in 0..(MaxOrder - 1), NEW x \in 0..PoolUnits, Contains(g[k], x)
               PROVE  ~Contains(g[k], buddy_ptr(x, k))
    BY DEF Merges
  <2>1. k \in BuddyOrders /\ k \in Nat /\ k # MaxOrder
    BY BlockIs
  <2>2. Contains(f[k], x) => ~Contains(f[k], buddy_ptr(x, k))
    BY DEF IsPool, Merges
  <2>3. CASE k # top
    BY <1>21, <2>1, <2>2, <2>3
  <2>4. CASE k = top
    <3>1. ~Contains(f[k], buddy_ptr(m, k))
      BY <1>7, <2>1, <2>4 DEF NextBuddy, m
    <3>2. buddy_ptr(m, k) # m
      BY <1>8, <2>1, <2>4, BuddyOfMultiple DEF m
    <3>3. Contains(f[k], x) => buddy_ptr(x, k) # m
      <4> SUFFICES ASSUME Contains(f[k], x), buddy_ptr(x, k) = m PROVE FALSE
        OBVIOUS
      <4>1. <<k, x>> \in FreeOf(f)
        BY <1>1, <2>1, FreeIs
      <4>2. Multiple(<<k, x>>[2], <<k, x>>[1])
        BY <4>1 DEF IsPool
      <4>3. x \in Nat /\ Multiple(x, k)
        BY <4>2
      <4>4. buddy_ptr(m, k) = x
        BY <2>1, <4>3, BuddyOfMultiple
      <4> QED
        BY <3>1, <4>4
    <3>4. \A y : Contains(g[k], y) => Contains(f[k], y) \/ y = m
      BY <1>21, <2>1
    <3> QED
      BY <2>2, <3>1, <3>2, <3>3, <3>4
  <2> QED
    BY <2>3, <2>4
<1>31. \A c, d \in lv \ {b} : c.at = d.at => c = d
  BY DEF IsPool
<1>32. \A c \in lv \ {b} : c.order \in LayoutOrders(c.layout)
  BY DEF IsPool
<1>33. \A k \in BuddyOrders : IsInjective(g[k])
  BY <1>21
<1> HIDE DEF N, D, B
<1>34. IsPool(g, lv \ {b})
  BY <1>14, <1>23, <1>27, <1>28, <1>29, <1>30, <1>31, <1>32, <1>33 DEF IsPool
<1> QED
  BY <1>34 DEF g, adr

-----------------------------------------------------------------------------
(* The heap's invariant.                                                   *)

HeapIInv ==
  /\ HeapTypeOK
  /\ initialised => IsPool(free, live)
  /\ ~initialised => live = {}

\* The pool as init() leaves it: one free block.
OneBlock == [o \in BuddyOrders |-> IF o = MaxOrder THEN <<0>> ELSE <<>>]

LEMMA WholePool ==
  ASSUME NEW f, f = OneBlock
  PROVE  IsPool(f, {})
<1>1. MaxOrder \in Nat /\ MaxOrder \in BuddyOrders /\ PoolUnits \in Nat \ {0}
  BY BlockIs
<1>2. 0 \in 0..(PoolUnits - 1)
  BY <1>1
<1>3. f \in [BuddyOrders -> Seq(0..(PoolUnits - 1))]
  <2>1. <<0>> \in Seq(0..(PoolUnits - 1)) /\ <<>> \in Seq(0..(PoolUnits - 1))
    BY <1>2
  <2> QED
    BY <2>1 DEF OneBlock
<1>4. f[MaxOrder] = <<0>> /\ \A o \in BuddyOrders : o # MaxOrder => f[o] = <<>>
  BY <1>1 DEF OneBlock
<1>5. \A x : Contains(<<0>>, x) <=> x = 0
  <2>1. Len(<<0>>) = 1 /\ <<0>>[1] = 0
    OBVIOUS
  <2> QED
    BY <2>1 DEF Contains
<1>6. \A x : ~Contains(<<>>, x)
  BY DEF Contains
<1>7. \A o \in BuddyOrders : \A x : Contains(f[o], x) <=> o = MaxOrder /\ x = 0
  BY <1>4, <1>5, <1>6
<1>8. FreeOf(f) = {<<MaxOrder, 0>>}
  <2>1. ASSUME NEW b \in FreeOf(f) PROVE b = <<MaxOrder, 0>>
    <3>1. b = <<b[1], b[2]>> /\ b[1] \in BuddyOrders /\ Contains(f[b[1]], b[2])
      BY <1>3, FreeIs
    <3>2. b[1] = MaxOrder /\ b[2] = 0
      BY <1>7, <3>1
    <3> QED
      BY <3>1, <3>2
  <2>2. <<MaxOrder, 0>> \in FreeOf(f)
    BY <1>1, <1>3, <1>7, FreeIs
  <2> QED
    BY <2>1, <2>2
<1>9. HeldOf({}) = {}
  BY DEF HeldOf
<1>10. FreeOf(f) \cup HeldOf({}) = {<<MaxOrder, 0>>}
  BY <1>8, <1>9
<1>11. Units(<<MaxOrder, 0>>) = 0..(PoolUnits - 1)
  <2>1. Units(<<MaxOrder, 0>>) = 0..(0 + Block(MaxOrder) - 1)
    BY <1>1, UnitsAre
  <2>2. Block(MaxOrder) = PoolUnits
    BY BlockIs
  <2> QED
    BY <1>1, <2>1, <2>2
<1>12. Covered({<<MaxOrder, 0>>}) = 0..(PoolUnits - 1) /\ Apart({<<MaxOrder, 0>>})
  BY <1>11 DEF Covered, Apart
<1>13. Multiple(0, MaxOrder)
  <2>1. 0 \in 0..0 /\ 0 = 0 * Block(MaxOrder)
    BY <1>1, BlockIs
  <2> QED
    BY <2>1 DEF Multiple
<1>14. \A b \in {<<MaxOrder, 0>>} : Multiple(b[2], b[1])
  BY <1>13
<1>15. \A o \in BuddyOrders : IsInjective(f[o])
  <2>1. IsInjective(<<0>>) /\ IsInjective(<<>>)
    BY DEF IsInjective
  <2> QED
    BY <1>4, <2>1
<1>16. Merges(f)
  <2>1. \A o \in 0..(MaxOrder - 1) : o \in BuddyOrders /\ o # MaxOrder
    BY BlockIs
  <2> QED
    BY <1>7, <2>1 DEF Merges
<1>17. PoolTypes(f, {})
  BY <1>3 DEF PoolTypes
<1> QED
  BY <1>9, <1>10, <1>12, <1>14, <1>15, <1>16, <1>17 DEF IsPool

\* At the start there is no pool.
LEMMA HeapInitially == HeapInit => HeapIInv
<1> SUFFICES ASSUME HeapInit PROVE HeapIInv
  OBVIOUS
<1>1. free \in [BuddyOrders -> Seq(0..(PoolUnits - 1))]
  BY DEF HeapInit
<1> QED
  BY <1>1 DEF HeapInit, HeapIInv, HeapTypeOK

\* An allocation: the block handed out, and what it leaves.
LEMMA AllocStep ==
  ASSUME HeapIInv, NEW l \in Layouts, alloc(l)
  PROVE  /\ IsPool(free', live') /\ initialised /\ UNCHANGED <<initialised, active, panicked>>
         /\ \E t \in LayoutOrders(l) : \E h :
              LET new == [at |-> h, order |-> t, layout |-> l] IN
                live' = live \cup {new} /\ \A u \in live : u.at # h
<1>1. initialised /\ UNCHANGED <<initialised, active, panicked>>
  BY DEF alloc
<1>2. IsPool(free, live)
  BY <1>1 DEF HeapIInv
<1>3. PICK t \in LayoutOrders(l) :
        /\ Fits(free, t) # {}
        /\ live' = live \cup {[at |-> Head(free[Min(Fits(free, t))]), order |-> t, layout |-> l]}
        /\ free' = Split(free, t, Min(Fits(free, t)))
  BY DEF alloc, LayoutOrders
<1> DEFINE h == Head(free[Min(Fits(free, t))])
<1>4. IsPool(free', live') /\ \A u \in live : u.at # h
  BY <1>2, <1>3, AllocKeepsPool
<1> QED
  BY <1>1, <1>3, <1>4

\* A release: the block is gone, and the pool it leaves.
LEMMA DeallocStep ==
  ASSUME HeapIInv, NEW b \in live, dealloc(b)
  PROVE  /\ IsPool(free, live) /\ IsPool(free', live') /\ initialised
         /\ UNCHANGED <<initialised, active, panicked>>
         /\ live' = live \ {b}
<1>1. /\ live' = live \ {b} /\ UNCHANGED <<initialised, active, panicked>>
      /\ initialised
  BY DEF dealloc, HeapIInv
<1>2. IsPool(free, live)
  BY <1>1 DEF HeapIInv
<1>3. PICK o \in LayoutOrders(b.layout) : free' = Coalesce(free, b.at, o)
  BY DEF dealloc, LayoutOrders
<1>4. IsPool(free', live')
  BY <1>1, <1>2, <1>3, DeallocKeepsPool
<1> QED
  BY <1>1, <1>2, <1>4

\* Every step keeps the invariant.
LEMMA HeapStep == HeapIInv /\ [HeapNext]_heapVars => HeapIInv'
<1> SUFFICES ASSUME HeapIInv, [HeapNext]_heapVars PROVE HeapIInv'
  OBVIOUS
<1>0. /\ initialised \in BOOLEAN /\ active \in BOOLEAN /\ panicked \in BOOLEAN
      /\ HeapTypeOK
  BY DEF HeapIInv, HeapTypeOK
<1>1. CASE init
  <2>1. live = {} /\ UNCHANGED <<live, active, panicked>> /\ initialised'
        /\ initialised' \in BOOLEAN
    BY <1>1 DEF init, HeapIInv
  <2>2. free' = OneBlock
    BY <1>1 DEF init, OneBlock
  <2>3. IsPool(free', {})
    BY <2>2, WholePool
  <2>4. IsPool(free', live')
    BY <2>1, <2>3
  <2>5. HeapTypeOK'
    BY <1>0, <2>1, <2>4 DEF HeapTypeOK, IsPool, PoolTypes
  <2> QED
    BY <2>1, <2>4, <2>5 DEF HeapIInv
<1>2. ASSUME NEW l \in Layouts, alloc(l) PROVE HeapIInv'
  <2>1. IsPool(free', live') /\ initialised /\ UNCHANGED <<initialised, active, panicked>>
    BY <1>2, AllocStep
  <2>2. HeapTypeOK'
    BY <1>0, <2>1 DEF HeapTypeOK, IsPool, PoolTypes
  <2> QED
    BY <2>1, <2>2 DEF HeapIInv
<1>3. ASSUME NEW b \in live, dealloc(b) PROVE HeapIInv'
  <2>1. IsPool(free', live') /\ initialised /\ UNCHANGED <<initialised, active, panicked>>
    BY <1>3, DeallocStep
  <2>2. HeapTypeOK'
    BY <1>0, <2>1 DEF HeapTypeOK, IsPool, PoolTypes
  <2> QED
    BY <2>1, <2>2 DEF HeapIInv
<1>4. CASE \/ enter_metronome_thread \/ leave_metronome_thread \/ HeapForbidden
           \/ \E l \in Layouts : AllocFails(l)
           \/ UNCHANGED heapVars
  <2>1. UNCHANGED <<initialised, free, live>> /\ active' \in BOOLEAN /\ panicked' \in BOOLEAN
    BY <1>0, <1>4 DEF enter_metronome_thread, leave_metronome_thread, HeapForbidden,
                      AllocFails, heapVars
  <2>2. HeapTypeOK'
    BY <1>0, <2>1 DEF HeapTypeOK
  <2> QED
    BY <2>1, <2>2 DEF HeapIInv
<1> QED
  BY <1>1, <1>2, <1>3, <1>4 DEF HeapNext

LEMMA TimesBlock ==
  ASSUME NEW a \in Nat, NEW c \in Nat, NEW b \in Nat \ {0}
  PROVE  /\ a <= c => a * b <= c * b
         /\ a * b < c * b => a < c
         /\ (a + c) * b = a * b + c * b
<1>1. a <= c => a * b <= c * b
  OBVIOUS
<1>2. (a + c) * b = a * b + c * b
  OBVIOUS
<1>3. c <= a => c * b <= a * b
  OBVIOUS
<1>4. a * b \in Nat /\ c * b \in Nat
  OBVIOUS
<1>5. a * b < c * b => a < c
  BY <1>3, <1>4
<1> QED
  BY <1>1, <1>2, <1>5

\* Of two blocks that overlap, both at multiples of their sizes, one lies in the other.
LEMMA Nested ==
  ASSUME NEW o \in Nat, NEW p \in Nat, o <= p, NEW x \in Nat, NEW y \in Nat,
         Multiple(x, o), Multiple(y, p), NEW z, z \in Units(<<o, x>>), z \in Units(<<p, y>>)
  PROVE  y <= x /\ x + Block(o) <= y + Block(p) /\ Units(<<o, x>>) \subseteq Units(<<p, y>>)
<1> DEFINE b == Block(o)
<1>1. b \in Nat \ {0} /\ Block(p) \in Nat \ {0}
  BY BlockIs
<1>2. PICK q \in Nat : x = q * b
  BY DEF Multiple
<1>3. PICK r \in Nat : y = r * Block(p)
  BY DEF Multiple
<1>4. PICK d \in Nat \ {0} : Block(p) = d * b
  BY Pow2Divides DEF Block
<1>5. z \in x..(x + b - 1) /\ z \in y..(y + Block(p) - 1)
  BY UnitsAre
<1> HIDE DEF b
<1>6. PICK e \in Nat : e = r * d
  BY <1>3, <1>4
<1>7. y = e * b
  <2>1. r * (d * b) = (r * d) * b
    BY <1>1, <1>3, <1>4
  <2> QED
    BY <1>3, <1>4, <1>6, <2>1
<1>8. x < y + Block(p) /\ y < x + b
  BY <1>1, <1>5
<1>9. (e + d) * b = y + Block(p) /\ (q + 1) * b = x + b
  <2>1. (e + d) * b = e * b + d * b
    BY <1>1, <1>4, TimesBlock
  <2>2. (q + 1) * b = q * b + 1 * b
    BY <1>1, TimesBlock
  <2> QED
    BY <1>1, <1>2, <1>4, <1>7, <2>1, <2>2
<1>10. q < e + d /\ e < q + 1
  <2>1. q * b < (e + d) * b /\ e * b < (q + 1) * b
    BY <1>2, <1>7, <1>8, <1>9
  <2>2. e + d \in Nat /\ q + 1 \in Nat
    BY <1>4, <1>6
  <2>3. q < e + d
    BY <1>1, <2>1, <2>2, TimesBlock
  <2>4. e < q + 1
    BY <1>1, <2>1, <2>2, TimesBlock
  <2> QED
    BY <2>3, <2>4
<1>11. y <= x
  <2>1. e <= q
    BY <1>10
  <2>2. e * b <= q * b
    BY <1>1, <2>1, TimesBlock
  <2> QED
    BY <1>2, <1>7, <2>2
<1>12. x + b <= y + Block(p)
  <2>1. q + 1 <= e + d /\ q + 1 \in Nat /\ e + d \in Nat
    BY <1>4, <1>10
  <2>2. (q + 1) * b <= (e + d) * b
    BY <1>1, <2>1, TimesBlock
  <2> QED
    BY <1>9, <2>2
<1>13. Units(<<o, x>>) = x..(x + b - 1) /\ Units(<<p, y>>) = y..(y + Block(p) - 1)
  <2>1. Units(<<o, x>>) = x..(x + Block(o) - 1)
    BY UnitsAre
  <2>2. Units(<<p, y>>) = y..(y + Block(p) - 1)
    BY UnitsAre
  <2> QED
    BY <2>1, <2>2 DEF b
<1> QED
  BY <1>1, <1>11, <1>12, <1>13 DEF b

\* A block of an order that lies in the pool, at a multiple of its size.
LEMMA PlaceIs ==
  ASSUME NEW o \in BuddyOrders, NEW x \in Places(o)
  PROVE  /\ o \in Nat /\ x \in Nat /\ Multiple(x, o)
         /\ Units(<<o, x>>) \subseteq 0..(PoolUnits - 1)
<1>1. o \in Nat /\ o <= MaxOrder /\ MaxOrder \in Nat /\ PoolUnits = Block(MaxOrder)
  BY BlockIs
<1>2. x \in 0..(PoolUnits - 1) /\ x % Block(o) = 0
  BY DEF Places
<1>3. Block(o) \in Nat \ {0} /\ Block(MaxOrder) \in Nat \ {0}
  BY <1>1, BlockIs
<1>4. Multiple(x, o)
  <2> DEFINE b == Block(o)
             q == x \div b
  <2>0. x \in Int /\ b \in Nat \ {0}
    BY <1>2, <1>3
  <2> HIDE DEF b
  <2>1. q \in Int /\ x = b * q + (x % b)
    BY <2>0, DivMod
  <2> HIDE DEF q
  <2>2. x = b * q /\ b \in Nat \ {0} /\ x \in Nat
    <3>1. x % b = 0 /\ b \in Nat \ {0} /\ x \in Nat
      BY <1>2, <1>3 DEF b
    <3>2. PICK w \in Int : w = b * q
      BY <2>1, <3>1
    <3>3. x = w + 0
      BY <2>1, <3>1, <3>2
    <3> QED
      BY <3>1, <3>2, <3>3
  <2>3. q \in 0..x
    <3>1. CASE q < 0
      <4>1. b * q < 0
        BY <2>1, <2>2, <3>1
      <4> QED
        BY <2>2, <4>1
    <3>2. CASE q >= 0
      <4>1. q <= b * q
        BY <2>1, <2>2, <3>2
      <4> QED
        BY <2>1, <2>2, <3>2, <4>1
    <3> QED
      BY <2>1, <3>1, <3>2
  <2>4. x = q * b
    BY <2>1, <2>2
  <2> QED
    BY <2>3, <2>4 DEF Multiple, b
<1>5. Multiple(0, MaxOrder)
  <2>1. 0 \in 0..0 /\ 0 = 0 * Block(MaxOrder)
    BY <1>3
  <2> QED
    BY <2>1 DEF Multiple
<1>6. x \in Units(<<o, x>>) /\ Units(<<MaxOrder, 0>>) = 0..(0 + PoolUnits - 1)
  BY <1>1, <1>2, UnitsAre
<1>7. Units(<<MaxOrder, 0>>) = 0..(PoolUnits - 1)
  BY <1>1, <1>3, <1>6
<1>8. x \in Units(<<MaxOrder, 0>>) /\ x \in Nat /\ 0 \in Nat
  BY <1>2, <1>7
<1>9. Units(<<o, x>>) \subseteq Units(<<MaxOrder, 0>>)
  BY <1>1, <1>4, <1>5, <1>6, <1>8, Nested
<1> QED
  BY <1>1, <1>4, <1>7, <1>8, <1>9

\* A block and its buddy are the halves of a block of the next order.
LEMMA HalfOf ==
  ASSUME NEW o \in Nat, NEW x \in Nat, Multiple(x, o)
  PROVE  /\ Merged(x, o + 1) \in Nat /\ Multiple(Merged(x, o + 1), o + 1)
         /\ buddy_ptr(x, o) \in Nat /\ Multiple(buddy_ptr(x, o), o)
         /\ x \in Units(<<o + 1, Merged(x, o + 1)>>)
         /\ buddy_ptr(x, o) \in Units(<<o + 1, Merged(x, o + 1)>>)
<1>1. o + 1 \in Nat /\ o <= o + 1 /\ Block(o) \in Nat \ {0} /\ Block(o + 1) = 2 * Block(o)
  BY BlockIs
<1>2. Merged(x, o) = x
  BY MergeStart
<1>3. PICK n : n = Merged(x, o + 1)
  OBVIOUS
<1>4. PICK p : p = buddy_ptr(x, o)
  OBVIOUS
<1>5. PICK b : b = Block(o)
  OBVIOUS
<1>6. n \in Nat /\ ((n = x /\ p = x + b) \/ (n = x - b /\ p = x - b))
  BY <1>2, <1>3, <1>4, <1>5, MergeStep
<1>7. Multiple(n, o + 1)
  BY <1>1, <1>3, MergeStep
<1>8. Multiple(n, o) /\ Multiple(n + b, o)
  BY <1>1, <1>5, <1>6, <1>7, MultipleBelow
<1>9. p \in Nat /\ (p = n \/ p = n + b) /\ (x = n \/ x = n + b) /\ b \in Nat \ {0}
  BY <1>1, <1>5, <1>6
<1>10. Units(<<o + 1, n>>) = n..(n + 2 * b - 1)
  BY <1>1, <1>5, <1>6, UnitsAre
<1>11. x \in Units(<<o + 1, n>>) /\ p \in Units(<<o + 1, n>>)
  BY <1>6, <1>9, <1>10
<1> QED
  BY <1>3, <1>4, <1>6, <1>7, <1>8, <1>9, <1>11

\* When no list holds a block of an order or more, every free block is smaller.
LEMMA FreeBelow ==
  ASSUME NEW f, NEW lv, IsPool(f, lv), NEW t \in BuddyOrders, Fits(f, t) = {},
         NEW o, NEW x, <<o, x>> \in FreeOf(f)
  PROVE  o < t /\ Contains(f[o], x) /\ o \in 0..(MaxOrder - 1)
<1>1. o \in BuddyOrders /\ Contains(f[o], x)
  BY FreeIs DEF IsPool, PoolTypes
<1>2. f[o] # <<>>
  BY <1>1 DEF Contains
<1>3. ~ (o >= t)
  BY <1>1, <1>2 DEF Fits
<1> QED
  BY <1>1, <1>3, BlockIs

\* A place with no block in use would be made of free blocks; the smallest of them lies
\* beside its buddy, which is free as well or in a larger block with it.
LEMMA RoomIs ==
  ASSUME NEW f, NEW lv, IsPool(f, lv), NEW t \in BuddyOrders, Fits(f, t) = {},
         NEW adr \in Places(t)
  PROVE  Units(<<t, adr>>) \cap Covered(HeldOf(lv)) # {}
<1> SUFFICES ASSUME Units(<<t, adr>>) \cap Covered(HeldOf(lv)) = {} PROVE FALSE
  OBVIOUS
<1> DEFINE R == Units(<<t, adr>>)
           F == FreeOf(f)
           S == {o \in BuddyOrders : \E x, z : <<o, x>> \in F /\ z \in Units(<<o, x>>) /\ z \in R}
<1>1. t \in Nat /\ adr \in Nat /\ Multiple(adr, t) /\ R \subseteq 0..(PoolUnits - 1)
  BY PlaceIs
<1>2. ASSUME NEW z \in R
      PROVE  \E b \in F : z \in Units(b)
  <2>1. z \in Covered(FreeOf(f) \cup HeldOf(lv))
    BY <1>1 DEF IsPool
  <2>2. z \notin Covered(HeldOf(lv))
    OBVIOUS
  <2> QED
    BY <2>1, <2>2 DEF Covered
<1>3. ASSUME NEW z \in R
      PROVE  \E o, x : <<o, x>> \in F /\ z \in Units(<<o, x>>) /\ o \in S
  <2>1. PICK b \in F : z \in Units(b)
    BY <1>2
  <2>2. b = <<b[1], b[2]>> /\ b[1] \in BuddyOrders
    BY DEF FreeOf
  <2>3. <<b[1], b[2]>> \in F /\ z \in Units(<<b[1], b[2]>>)
    BY <2>1, <2>2
  <2>4. b[1] \in S
    BY <2>2, <2>3
  <2> QED
    BY <2>3, <2>4
<1>4. adr \in R
  BY <1>1, UnitsAre
<1>5. S # {} /\ S \in SUBSET Nat
  <2>1. S # {}
    BY <1>3, <1>4
  <2>2. BuddyOrders \subseteq Nat
    BY BlockIs
  <2> QED
    BY <2>1, <2>2
<1>6. PICK o \in S : \A k \in S : o <= k
  BY <1>5, Least
<1>7. PICK x, z : <<o, x>> \in F /\ z \in Units(<<o, x>>) /\ z \in R
  BY <1>6
<1> HIDE DEF S
<1>8. /\ o \in Nat /\ x \in Nat /\ Multiple(x, o) /\ o < t /\ Contains(f[o], x)
      /\ o \in 0..(MaxOrder - 1) /\ x \in 0..PoolUnits
  <2>1. <<o, x>> \in FreeOf(f) \cup HeldOf(lv)
    BY <1>7
  <2>2. o \in Nat /\ x \in Nat /\ x \in 0..(PoolUnits - 1)
    BY <2>1, BlocksInPool
  <2>3. Multiple(<<o, x>>[2], <<o, x>>[1])
    BY <2>1 DEF IsPool
  <2>4. o < t /\ Contains(f[o], x) /\ o \in 0..(MaxOrder - 1)
    BY <1>7, FreeBelow
  <2>5. PoolUnits \in Nat
    BY BlockIs
  <2> QED
    BY <2>2, <2>3, <2>4, <2>5
<1>9. PICK n : n = Merged(x, o + 1)
  OBVIOUS
<1>10. PICK p : p = buddy_ptr(x, o)
  OBVIOUS
<1>11. /\ n \in Nat /\ Multiple(n, o + 1) /\ p \in Nat /\ Multiple(p, o)
       /\ x \in Units(<<o + 1, n>>) /\ p \in Units(<<o + 1, n>>)
  BY <1>8, <1>9, <1>10, HalfOf
<1>12. x \in R
  <2>1. o <= t
    BY <1>1, <1>8
  <2>2. Units(<<o, x>>) \subseteq R
    BY <1>1, <1>7, <1>8, <2>1, Nested
  <2>3. x \in Units(<<o, x>>)
    BY <1>8, UnitsAre
  <2> QED
    BY <2>2, <2>3
<1>13. p \in R
  <2>1. o + 1 \in Nat /\ o + 1 <= t
    BY <1>1, <1>8
  <2>2. Units(<<o + 1, n>>) \subseteq R
    BY <1>1, <1>11, <1>12, <2>1, Nested
  <2> QED
    BY <1>11, <2>2
<1>14. PICK k, y : <<k, y>> \in F /\ p \in Units(<<k, y>>) /\ k \in S
  BY <1>3, <1>13
<1>15. k \in Nat /\ y \in Nat /\ Multiple(y, k) /\ o <= k /\ Contains(f[k], y)
  <2>1. <<k, y>> \in FreeOf(f) \cup HeldOf(lv)
    BY <1>14
  <2>2. k \in Nat /\ y \in Nat
    BY <2>1, BlocksInPool
  <2>3. Multiple(<<k, y>>[2], <<k, y>>[1])
    BY <2>1 DEF IsPool
  <2>4. Contains(f[k], y)
    BY <1>14, FreeBelow
  <2> QED
    BY <1>6, <1>14, <2>2, <2>3, <2>4
<1>16. CASE k = o
  <2>1. p \in Units(<<o, p>>) /\ p \in Units(<<o, y>>)
    BY <1>8, <1>11, <1>14, <1>16, UnitsAre
  <2>2. y <= p
    BY <1>8, <1>11, <1>15, <1>16, <2>1, Nested
  <2>3. p <= y
    BY <1>8, <1>11, <1>15, <1>16, <2>1, Nested
  <2>4. y = p
    BY <1>11, <1>15, <2>2, <2>3
  <2>5. Contains(f[o], buddy_ptr(x, o))
    BY <1>10, <1>15, <1>16, <2>4
  <2> QED
    BY <1>8, <2>5 DEF IsPool, Merges
<1>17. CASE o < k
  <2>1. o + 1 \in Nat /\ o + 1 <= k
    BY <1>8, <1>15, <1>17
  <2>2. Units(<<o + 1, n>>) \subseteq Units(<<k, y>>)
    BY <1>11, <1>14, <1>15, <2>1, Nested
  <2>3. x \in Units(<<k, y>>)
    BY <1>11, <2>2
  <2>4. <<o, x>> \in FreeOf(f) \cup HeldOf(lv) /\ <<k, y>> \in FreeOf(f) \cup HeldOf(lv)
    BY <1>7, <1>14
  <2>5. <<k, y>> = <<o, x>>
    BY <2>3, <2>4, BlocksInPool
  <2> QED
    BY <1>8, <1>17, <2>5
<1> QED
  BY <1>8, <1>15, <1>16, <1>17

\* With no block in use the pool is one free block.
LEMMA AllFree ==
  ASSUME NEW f, IsPool(f, {})
  PROVE  f[MaxOrder] # <<>>
<1>1. MaxOrder \in BuddyOrders /\ MaxOrder \in Nat /\ Block(MaxOrder) \in Nat \ {0}
      /\ PoolUnits = Block(MaxOrder) /\ BuddyOrders = 0..MaxOrder
  BY BlockIs
<1>2. 0 \in Places(MaxOrder)
  <2>1. \A m \in Nat \ {0} : 0 % m = 0 /\ 0 \in 0..(m - 1)
    OBVIOUS
  <2> QED
    BY <1>1, <2>1 DEF Places
<1>3. Covered(HeldOf({})) = {}
  BY DEF Covered, HeldOf
<1>4. Fits(f, MaxOrder) # {}
  BY <1>1, <1>2, <1>3, RoomIs
<1>5. PICK o \in BuddyOrders : o >= MaxOrder /\ f[o] # <<>>
  BY <1>4 DEF Fits
<1>6. o = MaxOrder
  BY <1>1, <1>5
<1> QED
  BY <1>5, <1>6

\* No room is lost.
LEMMA NoRoomIs ==
  HeapIInv => NoRoomLost
<1> SUFFICES ASSUME HeapIInv, initialised, NEW o \in BuddyOrders, Fits(free, o) = {},
                    NEW adr \in Places(o)
             PROVE  Units(<<o, adr>>) \cap Covered(Held) # {}
  BY DEF NoRoomLost
<1>1. IsPool(free, live)
  BY DEF HeapIInv
<1>2. Held = HeldOf(live)
  BY DEF Held, HeldOf
<1> QED
  BY <1>1, <1>2, RoomIs

\* The invariant implies the property.
LEMMA PoolGivesInv ==
  HeapIInv => HeapInv
<1> SUFFICES ASSUME HeapIInv PROVE HeapInv
  OBVIOUS
<1>1. FreeBlocks = FreeOf(free) /\ Held = HeldOf(live)
  BY DEF FreeBlocks, FreeOf, Held, HeldOf
<1>2. PoolPartition
  <2> SUFFICES ASSUME initialised PROVE IsPool(free, live)
    BY <1>1 DEF PoolPartition, IsPool
  <2> QED
    BY DEF HeapIInv
<1>3. FullyCoalesced
  BY DEF HeapIInv, IsPool, Merges, FullyCoalesced
<1>4. AlignedAsAsked
  <2> SUFFICES ASSUME NEW b \in live
               PROVE  (PoolBase + b.at * MIN_BLOCK) % b.layout.align = 0
    BY DEF AlignedAsAsked, Address
  <2>1. IsPool(free, live)
    BY DEF HeapIInv
  <2>2. b.layout \in Layouts /\ b.order \in LayoutOrders(b.layout)
    BY <2>1 DEF IsPool, PoolTypes
  <2>3. <<b.order, b.at>> \in HeldOf(live)
    BY DEF HeldOf
  <2>4. Multiple(<<b.order, b.at>>[2], <<b.order, b.at>>[1])
    BY <2>1, <2>3 DEF IsPool
  <2>5. b.at \in Nat /\ Multiple(b.at, b.order)
    BY <2>1, <2>3, <2>4, BlocksInPool
  <2> QED
    BY <2>2, <2>5, AlignedBlock
<1> QED
  BY <1>2, <1>3, <1>4, NoRoomIs DEF HeapInv, HeapIInv

\* Whatever is asked for and given back, in whatever order: the pool stays partitioned,
\* everything that can be merged is merged, a request fails only when blocks in use stand
\* in its way at every place, and every pointer is aligned as asked.
THEOREM HeapInvHolds == HeapSpec => []HeapInv
<1>1. HeapSpec => []HeapIInv
  BY HeapInitially, HeapStep, PTL DEF HeapSpec
<1> QED
  BY <1>1, PoolGivesInv, PTL

\* Once everything has been given back, however it was split and in whatever order it
\* came back (alloc and dealloc, lib.rs), a request for the whole pool succeeds.
AllComesBack == initialised /\ live = {} => Fits(free, MaxOrder) # {}

THEOREM AllComesBackHolds == HeapSpec => []AllComesBack
<1>1. HeapSpec => []HeapIInv
  BY HeapInitially, HeapStep, PTL DEF HeapSpec
<1>2. HeapIInv => AllComesBack
  <2> SUFFICES ASSUME HeapIInv, initialised, live = {} PROVE Fits(free, MaxOrder) # {}
    BY DEF AllComesBack
  <2>1. IsPool(free, {})
    BY DEF HeapIInv
  <2>2. free[MaxOrder] # <<>> /\ MaxOrder \in BuddyOrders /\ MaxOrder >= MaxOrder
    BY <2>1, AllFree, BlockIs
  <2> QED
    BY <2>2 DEF Fits
<1> QED
  BY <1>1, <1>2, PTL

(* What the allocator's callers see.                                       *)

Seen(b) == [at |-> b.at, units |-> Block(b.order), need |-> CeilUnits(b.layout.size)]
Used(lv) == {Seen(b) : b \in lv}

\* The cells of a block as its user sees it are its units.
LEMMA CellsAre ==
  ASSUME NEW b
  PROVE  Heap!Cells(Seen(b)) = Units(<<b.order, b.at>>)
  BY DEF Heap!Cells, Seen, Units

\* alloc is an allocation of the abstract heap.
LEMMA AllocIsAlloc ==
  ASSUME HeapIInv, NEW l \in Layouts, alloc(l)
  PROVE  Heap!Alloc
<1>0. PICK t \in LayoutOrders(l) : \E h :
        live' = live \cup {[at |-> h, order |-> t, layout |-> l]} /\ \A u \in live : u.at # h
  BY AllocStep
<1>1. PICK h :
        live' = live \cup {[at |-> h, order |-> t, layout |-> l]} /\ \A u \in live : u.at # h
  BY <1>0
<1> DEFINE new == [at |-> h, order |-> t, layout |-> l]
<1>2. IsPool(free', live')
  BY AllocStep
<1>3. new \in live' /\ live' = live \cup {new}
  BY <1>1
<1>4. new.at = h /\ new.order = t /\ new.layout = l
  OBVIOUS
<1> HIDE DEF new
<1>5. <<t, h>> \in HeldOf(live')
  BY <1>3, <1>4 DEF HeldOf
<1>6. /\ t \in BuddyOrders /\ t \in Nat /\ h \in 0..(PoolUnits - 1) /\ h \in Nat
      /\ Units(<<t, h>>) \subseteq 0..(PoolUnits - 1)
  BY <1>2, <1>5, BlocksInPool
<1>7. Block(t) \in 1..PoolUnits
  <2>1. MaxOrder \in Nat /\ (t = MaxOrder \/ t < MaxOrder) /\ PoolUnits = Block(MaxOrder)
    BY <1>6, BlockIs
  <2>2. Block(t) \in Nat \ {0} /\ Block(MaxOrder) \in Nat
    BY <1>6, <2>1, BlockIs
  <2>3. t < MaxOrder => 2 * Block(t) <= Block(MaxOrder)
    BY <1>6, <2>1, BlockIs
  <2> QED
    BY <2>1, <2>2, <2>3
<1>8. CeilUnits(l.size) \in 1..Block(t)
  BY LargeEnough
<1>9. Seen(new) = [at |-> h, units |-> Block(t), need |-> CeilUnits(l.size)]
  BY <1>4 DEF Seen
<1>10. Heap!Cells(Seen(new)) = Units(<<t, h>>)
  BY <1>4, CellsAre
<1>11. ASSUME NEW u \in Used(live) PROVE Heap!Cells(u) \cap Heap!Cells(Seen(new)) = {}
  <2>1. PICK c \in live : u = Seen(c)
    BY DEF Used
  <2>2. <<c.order, c.at>> \in HeldOf(live')
    BY <1>3 DEF HeldOf
  <2>3. <<c.order, c.at>> # <<t, h>>
    BY <1>1
  <2>4. Units(<<c.order, c.at>>) \cap Units(<<t, h>>) = {}
    BY <1>2, <1>5, <2>2, <2>3 DEF IsPool, Apart
  <2> QED
    BY <1>10, <2>1, <2>4, CellsAre
<1>12. Used(live') = Used(live) \cup {Seen(new)}
  BY <1>3 DEF Used
<1>13. \E adr \in 0..(PoolUnits - 1), units \in 1..PoolUnits : \E need \in 1..units :
         LET b == [at |-> adr, units |-> units, need |-> need] IN
           /\ Heap!Cells(b) \subseteq 0..(PoolUnits - 1)
           /\ \A u \in Used(live) : Heap!Cells(u) \cap Heap!Cells(b) = {}
           /\ Used(live') = Used(live) \cup {b}
  BY <1>6, <1>7, <1>8, <1>9, <1>10, <1>11, <1>12
<1> QED
  BY <1>13 DEF Heap!Alloc, Heap!Cells, Used, Seen

\* dealloc is a release of the abstract heap.
LEMMA DeallocIsFree ==
  ASSUME HeapIInv, NEW b \in live, dealloc(b)
  PROVE  Heap!Free
<1>1. IsPool(free, live) /\ live' = live \ {b}
  BY DeallocStep
<1>2. ASSUME NEW c \in live, c # b PROVE Seen(c) # Seen(b)
  <2>1. c.at # b.at
    BY <1>1, <1>2 DEF IsPool
  <2> QED
    BY <2>1 DEF Seen
<1>3. Used(live') = Used(live) \ {Seen(b)}
  BY <1>1, <1>2 DEF Used
<1>4. Seen(b) \in Used(live)
  BY DEF Used
<1>5. \E u \in Used(live) : Used(live') = Used(live) \ {u}
  BY <1>3, <1>4
<1> QED
  BY <1>5 DEF Heap!Free, Used, Seen

\* Every allocation is of a block in the pool, large enough and apart from all in use; every
\* release takes one block away; nothing else is seen of the splits and merges.
THEOREM HeapImplemented == HeapSpec => ImplementsHeap
<1>1. HeapInit => Heap!Init
  BY DEF HeapInit, Heap!Init
<1>2. HeapIInv /\ [HeapNext]_heapVars => [Heap!Alloc \/ Heap!Free]_(Used(live))
  <2> SUFFICES ASSUME HeapIInv, [HeapNext]_heapVars
               PROVE  Heap!Alloc \/ Heap!Free \/ Used(live') = Used(live)
    OBVIOUS
  <2>1. ASSUME NEW l \in Layouts, alloc(l) PROVE Heap!Alloc
    BY <2>1, AllocIsAlloc
  <2>2. ASSUME NEW b \in live, dealloc(b) PROVE Heap!Free
    BY <2>2, DeallocIsFree
  <2>3. CASE \/ init \/ enter_metronome_thread \/ leave_metronome_thread \/ HeapForbidden
             \/ \E l \in Layouts : AllocFails(l)
             \/ UNCHANGED heapVars
    <3>1. live' = live
      BY <2>3 DEF init, enter_metronome_thread, leave_metronome_thread, HeapForbidden,
                  AllocFails, heapVars
    <3> QED
      BY <3>1
  <2> QED
    BY <2>1, <2>2, <2>3 DEF HeapNext
<1>3. HeapSpec => []HeapIInv
  BY HeapInitially, HeapStep, PTL DEF HeapSpec
<1>4. [Heap!Alloc \/ Heap!Free]_(Used(live))
        => [Heap!Alloc \/ Heap!Free]_({[at |-> b.at, units |-> Block(b.order),
                                        need |-> CeilUnits(b.layout.size)] : b \in live})
  BY DEF Used, Seen
<1> QED
  BY <1>1, <1>2, <1>3, <1>4, PTL DEF HeapSpec, ImplementsHeap, Heap!Spec
================================================================================
