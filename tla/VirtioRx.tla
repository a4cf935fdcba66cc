------------------------------ MODULE VirtioRx ------------------------------
(***************************************************************************)
(* The receive virtqueue of the kernel's virtio-net driver, the staging    *)
(* buffer of the smoltcp device adapter above it, and the device below.    *)
(* The driver posts all its buffers; the device fills one per frame and    *)
(* puts it in the used ring; a poll drains the used ring, hands every      *)
(* frame to the adapter and posts its buffer again at once, while the      *)
(* device goes on receiving.  Frames are numbered in the order in which    *)
(* the device receives them.                                               *)
(*                                                                         *)
(* The device is external: it uses the buffers in the order of the avail   *)
(* ring, gives back no descriptor it was not given and, once it has seen   *)
(* the avail ring empty, waits for the doorbell.  smoltcp is external too: *)
(* iface.poll calls receive until it returns None.                         *)
(***************************************************************************)
EXTENDS Virtqueue, Sequences

CONSTANTS
  Runts,   \* frames not longer than the virtio header
  Blanks   \* those of them of which the device says that their length is 0

ASSUME VirtioRxAssumption == Runts \subseteq Nat /\ Blanks \subseteq Runts

VARIABLES
  \* shared memory
  rx_avail_idx, avail, rx_used_idx, used, rx_buffers,
  \* the driver
  last_used, desc_id,
  rx_pc,      \* "late": the avail index is visible, the entry below it not yet
  drained,    \* frames this poll has handed to the handler
  \* VirtioDevice and the stack
  rx_eth, rx_ready,
  delivered,  \* frames the stack got
  \* the device
  rx_last_avail, filling, received, rx_awake

rxRingVars == <<rx_avail_idx, avail, last_used, desc_id, drained>>
stageVars == <<rx_eth, rx_ready, delivered>>
rxDeviceVars == <<rx_used_idx, used, rx_buffers, rx_last_avail, filling, received>>
rxVars == <<rxRingVars, stageVars, rxDeviceVars, rx_pc, rx_awake>>

\* setup_rx_queue posts every buffer.
RxInit ==
  /\ rx_avail_idx = Depth /\ avail = [i \in Slots |-> i]
  /\ rx_used_idx = 0 /\ used = [i \in Slots |-> 0]
  /\ rx_buffers = [i \in Slots |-> 0]
  /\ last_used = 0 /\ rx_pc = "idle" /\ desc_id = 0 /\ drained = 0
  /\ rx_eth = 0 /\ rx_ready = FALSE /\ delivered = <<>>
  /\ rx_last_avail = 0 /\ filling = Nobody /\ received = 0 /\ rx_awake = TRUE

-----------------------------------------------------------------------------
(* poll_stack: poll_virtio, with drain_rx_queue in it, then iface.poll.    *)

poll_virtio ==
  /\ rx_pc = "idle"
  /\ rx_pc' = IF rx_ready THEN "stack" ELSE "drain"
  /\ drained' = 0
  /\ UNCHANGED <<rx_avail_idx, avail, last_used, desc_id, stageVars, rxDeviceVars, rx_awake>>

\* The head of the loop: the used index, and the entry at last_used if it moved.
TakeUsed ==
  /\ rx_pc = "drain"
  /\ IF last_used = rx_used_idx
       THEN /\ rx_pc' = IF drained > 0 THEN "kick" ELSE "stack"
            /\ UNCHANGED desc_id
       ELSE /\ rx_pc' = "handle"
            /\ desc_id' = used[last_used % Depth]
  /\ UNCHANGED <<rx_avail_idx, avail, last_used, drained, stageVars, rxDeviceVars, rx_awake>>

\* The handler of poll_virtio copies the frame over whatever is staged; a frame that is
\* all header is dropped.
Stages(f) ==
  IF f \in Runts THEN UNCHANGED <<rx_eth, rx_ready>>
  ELSE rx_eth' = f /\ rx_ready' = TRUE

\* A buffer that comes back empty is neither handed over nor counted.
Hands(f) ==
  IF f \in Blanks THEN UNCHANGED <<rx_eth, rx_ready, drained>>
  ELSE Stages(f) /\ drained' = drained + 1

Handle ==
  /\ rx_pc = "handle" /\ rx_pc' = "repost"
  /\ Hands(rx_buffers[desc_id])
  /\ UNCHANGED <<rx_avail_idx, avail, last_used, desc_id, delivered, rxDeviceVars, rx_awake>>

\* Fault variant: the cursor jumps to the used index instead of over one entry.
SkipsToUsed == last_used' = rx_used_idx

StepsOver == last_used' = Inc(last_used)

\* The buffer is posted again by two plain stores with nothing between them: the entry,
\* then the index.
RepostEntry ==
  /\ rx_pc = "repost" /\ rx_pc' = "publish"
  /\ avail' = [avail EXCEPT ![rx_avail_idx % Depth] = desc_id]
  /\ UNCHANGED <<rx_avail_idx, last_used, desc_id, drained, stageVars, rxDeviceVars, rx_awake>>

RepostIndex ==
  /\ rx_pc = "publish" /\ rx_pc' = "drain"
  /\ rx_avail_idx' = Inc(rx_avail_idx)
  /\ StepsOver
  /\ UNCHANGED <<avail, desc_id, drained, stageVars, rxDeviceVars, rx_awake>>

\* The compiler and AArch64 are free to let the device see them in the other order.
EarlyRepost ==
  /\ rx_pc = "repost" /\ rx_pc' = "late"
  /\ rx_avail_idx' = Inc(rx_avail_idx)
  /\ StepsOver
  /\ UNCHANGED <<avail, desc_id, drained, stageVars, rxDeviceVars, rx_awake>>

LateEntry ==
  /\ rx_pc = "late" /\ rx_pc' = "drain"
  /\ avail' = [avail EXCEPT ![(rx_avail_idx - 1) % Depth] = desc_id]
  /\ UNCHANGED <<rx_avail_idx, last_used, desc_id, drained, stageVars, rxDeviceVars, rx_awake>>

Repost == RepostEntry \/ RepostIndex \/ EarlyRepost \/ LateEntry

\* Fault variant: no doorbell unless more than the ring was drained.
KicksWhenDry == rx_awake' = (rx_awake \/ drained > Depth)

Kicks == rx_awake' = TRUE

Kick ==
  /\ rx_pc = "kick" /\ rx_pc' = "stack"
  /\ Kicks
  /\ UNCHANGED <<rxRingVars, stageVars, rxDeviceVars>>

\* receive, and the stack consuming the token.
receive ==
  /\ rx_pc = "stack" /\ rx_pc' = "idle"
  /\ rx_ready' = FALSE
  /\ delivered' = IF rx_ready THEN Append(delivered, rx_eth) ELSE delivered
  /\ UNCHANGED <<rx_eth, rxRingVars, rxDeviceVars, rx_awake>>

-----------------------------------------------------------------------------
(* The device.                                                             *)

DmaFrame ==
  /\ rx_awake /\ filling = Nobody /\ rx_last_avail # rx_avail_idx /\ received < MaxFrames
  /\ filling' = avail[rx_last_avail % Depth]
  /\ rx_last_avail' = Inc(rx_last_avail)
  /\ received' = received + 1
  /\ rx_buffers' = [rx_buffers EXCEPT ![filling'] = received']
  /\ UNCHANGED <<rx_used_idx, used, rxRingVars, stageVars, rx_pc, rx_awake>>

Complete ==
  /\ filling # Nobody /\ filling' = Nobody
  /\ used' = [used EXCEPT ![rx_used_idx % Depth] = filling]
  /\ rx_used_idx' = Inc(rx_used_idx)
  /\ UNCHANGED <<rx_buffers, rx_last_avail, received, rxRingVars, stageVars, rx_pc, rx_awake>>

OutOfBuffers ==
  /\ rx_awake /\ filling = Nobody /\ rx_last_avail = rx_avail_idx
  /\ rx_awake' = FALSE
  /\ UNCHANGED <<rxRingVars, stageVars, rxDeviceVars, rx_pc>>

RxDriver == poll_virtio \/ TakeUsed \/ Handle \/ Repost \/ Kick \/ receive
RxDevice == DmaFrame \/ Complete \/ OutOfBuffers
RxNext == RxDriver \/ RxDevice

\* The main loop polls for ever; the device finishes what it began, but a frame need
\* not come.
RxFairness == WF_rxVars(RxDriver) /\ WF_rxVars(Complete)

RxSpec == RxInit /\ [][RxNext]_rxVars /\ RxFairness

-----------------------------------------------------------------------------

RxPlaces == {"idle", "drain", "handle", "repost", "publish", "late", "kick", "stack"}

RxTypeOK ==
  /\ {rx_avail_idx, rx_used_idx, last_used, rx_last_avail} \subseteq 0..(IdxMod - 1)
  /\ avail \in [Slots -> Slots] /\ used \in [Slots -> Slots]
  /\ rx_buffers \in [Slots -> 0..MaxFrames]
  /\ rx_pc \in RxPlaces
  /\ desc_id \in Slots /\ filling \in Slots \cup {Nobody}
  /\ drained \in 0..MaxFrames /\ received \in 0..MaxFrames
  /\ rx_eth \in 0..MaxFrames /\ rx_ready \in BOOLEAN /\ rx_awake \in BOOLEAN
  /\ delivered \in Seq(1..MaxFrames)

\* The descriptors on a ring between two indices, from the older one on.
On(ring, from, to) == [i \in 1..((to - from) % IdxMod) |-> ring[(from + i - 1) % Depth]]
Posted == On(avail, rx_last_avail, rx_avail_idx)
Ready == On(used, last_used, rx_used_idx)
Busy == IF filling = Nobody THEN <<>> ELSE <<filling>>
Everywhere == Posted \o Busy \o Ready

\* Every buffer is at each moment in exactly one place: posted, being filled by the
\* device, or waiting for the driver (where it stays until it is posted again).  So none
\* leaks, none is posted twice, and the device never writes the one being handled,
\* although nothing orders the two stores that post it.
BufferInv ==
  /\ Len(Everywhere) = Depth
  /\ {Everywhere[i] : i \in 1..Len(Everywhere)} = Slots
  /\ rx_pc \in {"handle", "repost", "publish"} => Ready # <<>> /\ Head(Ready) = desc_id

\* What waits in the used ring are the last frames received, in order.
FrameInv ==
  LET done == received - Len(Busy)
  IN \A i \in 1..Len(Ready) : rx_buffers[Ready[i]] = done - Len(Ready) + i

\* The stack sees frames in the order received, none twice and no runt, although a poll
\* may overwrite some.
NewerFrames ==
  /\ \A i \in 1..Len(delivered) : delivered[i] \notin Runts
  /\ \A i \in 1..(Len(delivered) - 1) : delivered[i] < delivered[i + 1]
  /\ rx_ready => \A i \in 1..Len(delivered) : delivered[i] < rx_eth

\* The receive path as a whole: no buffer is lost to driver or device, the used ring holds
\* the last frames in order, and the stack never sees an older frame after a newer one.
RxInv == RxTypeOK /\ BufferInv /\ FrameInv /\ NewerFrames

\* A frame the device received reaches the stack, or a later one does: a drained ring
\* never leaves the receive path dead.
NoDeadReceive ==
  \A n \in (1..MaxFrames) \ Runts :
    received >= n ~> \E i \in 1..Len(delivered) : delivered[i] >= n

\* On a network that goes on sending every frame is received: no drain leaves the device
\* waiting for buffers that are there.  (A drain in which every buffer came back empty
\* rings no doorbell, so that a whole ring of Blanks would end reception.)
KeepsReceiving == WF_rxVars(DmaFrame) => <>(received = MaxFrames)

\* The receive path never dies, neither with frames waiting nor with buffers to fill.
Receives == NoDeadReceive /\ KeepsReceiving
==============================================================================
