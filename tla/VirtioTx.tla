------------------------------ MODULE VirtioTx ------------------------------
(***************************************************************************)
(* The transmit virtqueue of the kernel's virtio-net driver, shared with   *)
(* the device: the driver fills a buffer, publishes it in the avail ring   *)
(* and rings the doorbell; the device fetches, transmits and counts it in  *)
(* the used ring.  Driver and device run concurrently, so every access of  *)
(* the driver to an index or a ring entry is a step.  Both indices are     *)
(* 16-bit counters that wrap; frames are numbered in the order sent.       *)
(*                                                                         *)
(* The device is external.  It serves descriptors in ring order, one after *)
(* the other, and goes idle until notified when it has seen the ring       *)
(* empty.                                                                  *)
(***************************************************************************)
EXTENDS Virtqueue, Sequences

CONSTANTS
  Patient,    \* TRUE: the device always frees a slot within the 4096 spins
  Orders      \* whether stores become visible in program order: TRUE on x86,
              \* TRUE or FALSE on aarch64

ASSUME VirtioTxAssumption ==
  /\ Patient \in BOOLEAN /\ Orders \subseteq BOOLEAN

VARIABLES
  \* the driver
  ordered,    \* the memory order of this machine
  pc,         \* "idle", "wait", "fill", "ring", "index", "late", "notify", "settle"
  slot,       \* next buffer to use
  idx,        \* the buffer in use
  sent,       \* frames sent or being sent
  \* shared memory
  avail_idx, ring, buffers, used_idx,
  \* the device
  last_avail, \* next avail entry to look at
  fetched,    \* the descriptor it holds, Nobody if none
  awake,
  wire        \* what it transmitted

driverVars == <<ordered, pc, slot, idx, sent>>
sharedVars == <<avail_idx, ring, buffers>>
deviceVars == <<last_avail, fetched, wire>>
vars == <<driverVars, sharedVars, deviceVars, used_idx, awake>>

Init ==
  /\ ordered \in Orders
  /\ pc = "idle" /\ slot = 0 /\ idx = 0 /\ sent = 0
  /\ avail_idx = 0 /\ used_idx = 0
  /\ ring = [i \in Slots |-> 0] /\ buffers = [i \in Slots |-> 0]
  /\ last_avail = 0 /\ fetched = Nobody /\ awake = FALSE
  /\ wire = <<>>

-----------------------------------------------------------------------------
(* send_frame; send_eth_frame is the same without "settle".                *)

Start ==
  /\ pc = "idle" /\ sent < MaxFrames
  /\ pc' = "wait" /\ sent' = sent + 1
  /\ UNCHANGED <<ordered, slot, idx, sharedVars, deviceVars, used_idx, awake>>

\* Fault variant: one descriptor too many.
HasRoomOffByOne == (avail_idx - used_idx) % IdxMod <= Depth

HasRoom == (avail_idx - used_idx) % IdxMod < Depth

\* wait_tx_ring_slot, until the slot is free or the spins are over.
WaitSlot ==
  /\ pc = "wait"
  /\ HasRoom \/ ~Patient
  /\ pc' = "fill"
  /\ idx' = slot
  /\ slot' = (slot + 1) % Depth
  /\ UNCHANGED <<ordered, sent, sharedVars, deviceVars, used_idx, awake>>

\* The buffer, its descriptor, and the barrier of clean_tx_buffer after them.
Fill ==
  /\ pc = "fill" /\ pc' = "ring"
  /\ buffers' = [buffers EXCEPT ![idx] = sent]
  /\ UNCHANGED <<ordered, slot, idx, sent, avail_idx, ring, deviceVars, used_idx, awake>>

StoreRing == ring' = [ring EXCEPT ![avail_idx % Depth] = idx]

StoreIndex == avail_idx' = Inc(avail_idx)

\* avail.ring and then avail.idx, with only a compiler fence between.
PublishRing ==
  /\ pc = "ring" /\ pc' = "index"
  /\ StoreRing
  /\ UNCHANGED <<ordered, slot, idx, sent, avail_idx, buffers, deviceVars, used_idx, awake>>

PublishIndex ==
  /\ pc = "index" /\ pc' = "notify"
  /\ StoreIndex
  /\ UNCHANGED <<ordered, slot, idx, sent, ring, buffers, deviceVars, used_idx, awake>>

\* The two stores seen by the device the other way round.
EarlyIndex ==
  /\ ~ordered
  /\ pc = "ring" /\ pc' = "late"
  /\ StoreIndex
  /\ UNCHANGED <<ordered, slot, idx, sent, ring, buffers, deviceVars, used_idx, awake>>

LateRing ==
  /\ pc = "late" /\ pc' = "notify"
  /\ ring' = [ring EXCEPT ![(avail_idx - 1) % Depth] = idx]
  /\ UNCHANGED <<ordered, slot, idx, sent, avail_idx, buffers, deviceVars, used_idx, awake>>

\* Fault variant: the doorbell is only rung for the first descriptor of the ring.
RingsOnce == awake' = (awake \/ avail_idx = 1)

Rings == awake' = TRUE

Notify ==
  /\ pc = "notify" /\ pc' \in {"settle", "idle"}
  /\ Rings
  /\ UNCHANGED <<ordered, slot, idx, sent, sharedVars, deviceVars, used_idx>>

\* The bounded wait for the used index; whatever it sees, send_frame returns Ok.
Settle ==
  /\ pc = "settle" /\ pc' = "idle"
  /\ UNCHANGED <<ordered, slot, idx, sent, sharedVars, deviceVars, used_idx, awake>>

-----------------------------------------------------------------------------
(* The device.                                                             *)

Fetch ==
  /\ awake /\ fetched = Nobody
  /\ last_avail # avail_idx
  /\ fetched' = ring[last_avail % Depth]
  /\ last_avail' = Inc(last_avail)
  /\ UNCHANGED <<driverVars, sharedVars, wire, used_idx, awake>>

Transmit ==
  /\ fetched # Nobody
  /\ wire' = Append(wire, buffers[fetched])
  /\ fetched' = Nobody
  /\ used_idx' = Inc(used_idx)
  /\ UNCHANGED <<driverVars, sharedVars, last_avail, awake>>

GoIdle ==
  /\ awake /\ fetched = Nobody /\ last_avail = avail_idx
  /\ awake' = FALSE
  /\ UNCHANGED <<driverVars, sharedVars, deviceVars, used_idx>>

Driver ==
  \/ WaitSlot \/ Fill \/ PublishRing \/ PublishIndex \/ EarlyIndex \/ LateRing
  \/ Notify \/ Settle
Device == Fetch \/ Transmit \/ GoIdle
Next == Start \/ Driver \/ Device

\* The driver is straight-line code; the device serves what it was notified of.
Fairness == WF_vars(Driver) /\ WF_vars(Device)

Spec == Init /\ [][Next]_vars /\ Fairness

-----------------------------------------------------------------------------

TypeOK ==
  /\ pc \in {"idle", "wait", "fill", "ring", "index", "late", "notify", "settle"}
  /\ ordered \in Orders /\ slot \in Slots /\ idx \in Slots
  /\ sent \in 0..MaxFrames
  /\ avail_idx \in 0..(IdxMod - 1) /\ used_idx \in 0..(IdxMod - 1)
  /\ last_avail \in 0..(IdxMod - 1)
  /\ ring \in [Slots -> Slots] /\ buffers \in [Slots -> 0..MaxFrames]
  /\ fetched \in Slots \cup {Nobody}
  /\ awake \in BOOLEAN
  /\ wire \in Seq(0..MaxFrames)

Published == sent - IF pc \in {"wait", "fill", "ring", "index"} THEN 1 ELSE 0
InFlight == Published - Len(wire)

\* Slots the device owns: published and not yet transmitted.
Owned == {(n - 1) % Depth : n \in (Len(wire) + 1)..Published}

\* The ring entry of frame n is not visible yet although the index counts it, and the
\* entry it replaces is not one of the lap before.
Stale(n) == pc = "late" /\ n = sent /\ n <= Depth

\* The ring discipline behind in-order delivery: the indices are the frames counted
\* modulo their width, no more frames are in flight than there are slots, frame n
\* lives in slot n-1 modulo the depth from its publication to its transmission, and the
\* driver writes no buffer the device owns (slot, ring and buffers are indexed by two
\* separate counters, of different widths).
RingInv ==
  /\ avail_idx = Published % IdxMod /\ used_idx = Len(wire) % IdxMod
  /\ InFlight \in 0..Depth
  /\ \A n \in (Len(wire) + 1)..Published :
       /\ buffers[(n - 1) % Depth] = n
       /\ ring[(n - 1) % Depth] = (n - 1) % Depth \/ Stale(n)
  /\ pc \in {"fill", "ring"} => idx \notin Owned

Inv == TypeOK /\ RingInv

\* The frames go out in the order they were sent, each once, unaltered.  If the index
\* may be seen before the ring entry, this is so from the second lap on, where the entry
\* it replaces is the same one; the frames of the first lap are only as many.
Wire == INSTANCE InOrderDelivery WITH
          delivered <- [i \in 1..Len(wire) |->
                          IF ~ordered /\ i <= Depth THEN i ELSE wire[i]]
ImplementsInOrderWire == Wire!Spec
==============================================================================
