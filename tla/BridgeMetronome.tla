--------------------------- MODULE BridgeMetronome ---------------------------
(***************************************************************************)
(* The daemon's egress bridge (pq-daemon/src/bridge): the metronome thread *)
(* that every tick puts at most one 512-byte frame on a non-blocking       *)
(* socket, the flags that gate it, the handle that shuts it down, and the  *)
(* producers that feed its channel.  The partially written frame is the    *)
(* PendingWrite of sovereign-frame.                                        *)
(*                                                                         *)
(* One action per atomic access: the thread reads alive, kernel_ready and  *)
(* local_peer_up with separate loads, takes a frame, and calls write(2)    *)
(* until the frame is out, so other threads' stores and sends fall between *)
(* any two of these steps.  The sleep between ticks changes nothing and is *)
(* the interval the thread spends at "loop".                               *)
(***************************************************************************)
EXTENDS Integers, Sequences

CONSTANTS
  FrameLen,   \* FRAME_LEN; 512 in the code, 2 or 3 when model checking
  SendBuf,    \* bytes the kernel's send buffer holds
  MaxFrames,  \* bound: application frames offered in a behaviour
  Sockets     \* kinds of socket the bridge may be given

ASSUME BridgeAssumption ==
  /\ FrameLen \in Nat \ {0}
  /\ SendBuf \in Nat \ {0}
  /\ MaxFrames \in Nat
  /\ Sockets \subseteq {"stream", "datagram"}
  /\ "datagram" \in Sockets => SendBuf >= FrameLen

VARIABLES
  \* shared with other threads
  queue,          \* the crossbeam channel: application frames, oldest first
  connected,      \* some Sender is alive
  kernel_ready, local_peer_up,
  alive, faulted,
  \* the metronome thread
  pc,             \* "loop", "kernel", "peer", "pick", "write", "fault", "erased",
                  \* "exit", "done"
  pending,        \* the PendingWrite
  aep,            \* cover-traffic cipher: "seeded" or "zeroized"
  \* the socket
  kind,           \* "datagram": connected UDP (main.rs); "stream" otherwise
  room,           \* free bytes of the send buffer
  sockerr,        \* error the next write reports: "none" or "broken"
  \* the owner of the handle
  joined,         \* shutdown() has returned
  \* history
  accepted,       \* number of frames handed to Sender::send
  line,           \* what the far end has of the frame now on the wire
  misframed,      \* a byte went out where the far end expects another one
  delivered, lost,
  leak            \* per flag: bytes written since it was last closed

shared == <<queue, connected, kernel_ready, local_peer_up, alive, faulted>>
thread == <<pc, pending, aep>>
socket == <<kind, room, sockerr>>
history == <<accepted, line, misframed, delivered, lost, leak>>
vars == <<shared, thread, socket, joined, history>>

-----------------------------------------------------------------------------
(* PendingWrite.  Application frames are 1, 2, ...; a cover frame is 0.    *)

Cover == 0
NoFrame == -1
Cleared == [active |-> FALSE, offset |-> 0, frame |-> NoFrame]
Activated(f) == [active |-> TRUE, offset |-> 0, frame |-> f]
Pendings == [active : BOOLEAN, offset : 0..(FrameLen - 1), frame : Int]
Remaining == FrameLen - pending.offset

\* Fault variant: the write offset is reset by every partial write.
AdvanceRestarts(n) ==
  IF pending.offset + n >= FrameLen THEN Cleared ELSE [pending EXCEPT !.offset = 0]

Advance(n) ==
  IF pending.offset + n >= FrameLen THEN Cleared
                                    ELSE [pending EXCEPT !.offset = @ + n]

AppFrame(f) == IF f > Cover THEN {f} ELSE {}
Elements(s) == {s[i] : i \in DOMAIN s}
GatesOpen == kernel_ready /\ local_peer_up

-----------------------------------------------------------------------------

Init ==
  /\ queue = <<>> /\ connected = TRUE
  /\ kernel_ready = FALSE /\ local_peer_up = FALSE
  /\ alive = TRUE /\ faulted = FALSE
  /\ pc = "loop" /\ pending = Cleared /\ aep = "seeded"
  /\ kind \in Sockets /\ room = SendBuf /\ sockerr = "none"
  /\ joined = FALSE
  /\ accepted = 0 /\ line = <<NoFrame, 0>> /\ misframed = FALSE
  /\ delivered = <<>> /\ lost = {}
  /\ leak = [kernel |-> 0, peer |-> 0]

(***************************************************************************)
(* Other threads.                                                          *)
(***************************************************************************)

\* A producer's send.  The channel is unbounded; its receiver is dropped when
\* the thread ends, and from then on the frame is silently discarded.
Send ==
  /\ connected /\ accepted < MaxFrames
  /\ accepted' = accepted + 1
  /\ IF pc = "done"
       THEN lost' = lost \cup {accepted'} /\ UNCHANGED queue
       ELSE queue' = Append(queue, accepted') /\ UNCHANGED lost
  /\ UNCHANGED <<connected, kernel_ready, local_peer_up, alive, faulted, thread,
                 socket, joined, line, misframed, delivered, leak>>

\* The last Sender is dropped.
Disconnect ==
  /\ connected
  /\ connected' = FALSE
  /\ UNCHANGED <<queue, kernel_ready, local_peer_up, alive, faulted, thread,
                 socket, joined, history>>

\* A holder of GateFlags stores into one of the two flags.
SetGate ==
  /\ \/ /\ kernel_ready' = ~kernel_ready
        /\ leak' = [leak EXCEPT !.kernel = 0]
        /\ UNCHANGED local_peer_up
     \/ /\ local_peer_up' = ~local_peer_up
        /\ leak' = [leak EXCEPT !.peer = 0]
        /\ UNCHANGED kernel_ready
  /\ UNCHANGED <<queue, connected, alive, faulted, thread, socket, joined,
                 accepted, line, misframed, delivered, lost>>

\* Metronome::shutdown, first half; Drop calls it again to no effect.
Shutdown ==
  /\ alive
  /\ alive' = FALSE
  /\ UNCHANGED <<queue, connected, kernel_ready, local_peer_up, faulted, thread,
                 socket, joined, history>>

\* Metronome::shutdown, second half: the join returns once the thread ended.
Join ==
  /\ ~alive /\ pc = "done" /\ ~joined
  /\ joined' = TRUE
  /\ UNCHANGED <<shared, thread, socket, history>>

(***************************************************************************)
(* The network below the socket.                                           *)
(***************************************************************************)

\* The kernel sends what the buffer holds.
KernelDrains ==
  /\ room < SendBuf
  /\ room' = SendBuf
  /\ UNCHANGED <<shared, thread, kind, sockerr, joined, history>>

\* EPIPE/ECONNRESET on a stream, an ICMP refusal on a connected UDP socket.
PeerGone ==
  /\ sockerr = "none"
  /\ sockerr' = "broken"
  /\ UNCHANGED <<shared, thread, kind, room, joined, history>>

(***************************************************************************)
(* The metronome thread.                                                   *)
(***************************************************************************)

\* After the loop the keystream is erased; the receiver, and with it every queued frame,
\* is dropped as the closure returns.
Exit ==
  /\ pc = "exit"
  /\ pc' = "done"
  /\ aep' = "zeroized"
  /\ pending' = Cleared
  /\ lost' = lost \cup Elements(queue) \cup AppFrame(pending.frame)
  /\ queue' = <<>>
  /\ UNCHANGED <<connected, kernel_ready, local_peer_up, alive, faulted, socket, joined,
                 accepted, line, misframed, delivered, leak>>

Goto(label) ==
  /\ pc' = label
  /\ UNCHANGED <<shared, pending, aep, socket, joined, history>>

\* Fault variant: the loop does not look at the shutdown flag.
LoopForever == pc = "loop" /\ Goto("kernel")

\* while alive.load(Acquire)
LoopTop ==
  /\ pc = "loop"
  /\ Goto(IF alive THEN "kernel" ELSE "exit")

CheckKernel ==
  /\ pc = "kernel"
  /\ Goto(IF kernel_ready THEN "peer" ELSE "loop")

CheckPeer ==
  /\ pc = "peer"
  /\ Goto(IF local_peer_up THEN "pick" ELSE "loop")

\* Fault variant: cover traffic goes out although a frame is waiting.
PickCoverFirst ==
  /\ pc = "pick"
  /\ pc' = "write"
  /\ pending' = IF pending.active THEN pending ELSE Activated(Cover)
  /\ UNCHANGED <<shared, aep, socket, joined, history>>

\* tick() past the gates: keep draining a partial frame, else take the oldest
\* frame, else fabricate cover; with no Sender left and nothing queued, nothing.
Pick ==
  /\ pc = "pick"
  /\ \/ /\ pending.active
        /\ Goto("write")
     \/ /\ ~pending.active /\ queue # <<>>
        /\ pc' = "write"
        /\ pending' = Activated(Head(queue))
        /\ queue' = Tail(queue)
        /\ UNCHANGED <<connected, kernel_ready, local_peer_up, alive, faulted, aep,
                       socket, joined, history>>
     \/ /\ ~pending.active /\ queue = <<>> /\ connected
        /\ pc' = "write"
        /\ pending' = Activated(Cover)
        /\ UNCHANGED <<shared, aep, socket, joined, history>>
     \/ /\ ~pending.active /\ queue = <<>> /\ ~connected
        /\ Goto("loop")

\* The byte counts write(2) may return: all or nothing on a datagram socket.
Writable == IF kind = "datagram" THEN {Remaining} \cap 1..room
            ELSE {n \in 1..Remaining : n <= room}

\* try_write returned Wrote(n)
Wrote(n) ==
  /\ pc = "write" /\ sockerr = "none"
  /\ n \in Writable
  /\ pending' = Advance(n)
  /\ pc' = IF Advance(n).active THEN "write" ELSE "loop"
  /\ room' = room - n
  /\ misframed' = (misframed \/ line[2] # pending.offset
                             \/ (line[2] > 0 /\ line[1] # pending.frame))
  /\ line' = IF line[2] + n >= FrameLen THEN <<NoFrame, 0>>
                                        ELSE <<pending.frame, line[2] + n>>
  /\ delivered' = IF pending.frame > Cover /\ ~Advance(n).active
                    THEN Append(delivered, pending.frame) ELSE delivered
  /\ leak' = [kernel |-> IF kernel_ready THEN 0 ELSE leak.kernel + n,
              peer   |-> IF local_peer_up THEN 0 ELSE leak.peer + n]
  /\ UNCHANGED <<shared, aep, kind, sockerr, joined, accepted, lost>>

WouldBlock ==
  /\ pc = "write" /\ sockerr = "none"
  /\ Writable = {}
  /\ Goto("loop")

\* The rest of the frame is dropped.  A datagram socket reports the refusal once;
\* a reset stream reports it for ever and no byte follows the torn frame.
Broken ==
  /\ pc = "write" /\ sockerr = "broken"
  /\ pc' = "loop"
  /\ pending' = Cleared
  /\ lost' = lost \cup AppFrame(pending.frame)
  /\ sockerr' = IF kind = "datagram" THEN "none" ELSE "broken"
  /\ UNCHANGED <<shared, aep, kind, room, joined, accepted, line, misframed, delivered, leak>>

\* Any other errno, an interrupted call included.
Fatal ==
  /\ pc = "write"
  /\ pc' = "fault"
  /\ pending' = Cleared
  /\ lost' = lost \cup AppFrame(pending.frame)
  /\ UNCHANGED <<shared, aep, socket, joined, accepted, line, misframed, delivered, leak>>

\* Fault variant: the fault is published before the keys are erased.
GuillotinePublishes ==
  /\ pc = "fault"
  /\ pc' = "erased"
  /\ faulted' = TRUE
  /\ UNCHANGED <<queue, connected, kernel_ready, local_peer_up, alive, pending, aep,
                 socket, joined, history>>

\* TickOutcome::Guillotine: the thread erases what is its own,
Guillotine ==
  /\ pc = "fault"
  /\ pc' = "erased"
  /\ aep' = "zeroized" /\ pending' = Cleared
  /\ UNCHANGED <<shared, socket, joined, history>>

\* then it publishes the fault and breaks out of the loop.
PublishFault ==
  /\ pc = "erased"
  /\ pc' = "exit"
  /\ faulted' = TRUE
  /\ UNCHANGED <<queue, connected, kernel_ready, local_peer_up, alive, pending, aep,
                 socket, joined, history>>

Tick ==
  \/ LoopTop \/ CheckKernel \/ CheckPeer \/ Pick
  \/ \E n \in 1..FrameLen : Wrote(n)
  \/ WouldBlock \/ Broken \/ Fatal \/ Guillotine \/ PublishFault \/ Exit

Others == Send \/ Disconnect \/ SetGate \/ Shutdown \/ Join

Next == Tick \/ Others \/ KernelDrains \/ PeerGone

(***************************************************************************)
(* The thread is scheduled and its calls never block; the kernel drains    *)
(* the buffer; the caller of shutdown() waits in join.  Nobody is obliged  *)
(* to send, to open a gate or to shut down.                                *)
(***************************************************************************)
Fairness == WF_vars(Tick) /\ WF_vars(KernelDrains) /\ WF_vars(Join)

Spec == Init /\ [][Next]_vars /\ Fairness

-----------------------------------------------------------------------------
(* Properties.                                                             *)

TypeOK ==
  /\ queue \in Seq(Nat \ {0})
  /\ {connected, kernel_ready, local_peer_up, alive, faulted, joined, misframed}
       \subseteq BOOLEAN
  /\ pc \in {"loop", "kernel", "peer", "pick", "write", "fault", "erased", "exit", "done"}
  /\ pending \in Pendings
  /\ aep \in {"seeded", "zeroized"}
  /\ kind \in Sockets /\ room \in 0..SendBuf
  /\ sockerr \in {"none", "broken"}
  /\ accepted \in 0..MaxFrames
  /\ line \in Int \X (0..(FrameLen - 1))
  /\ delivered \in Seq(Nat \ {0})
  /\ lost \subseteq 1..MaxFrames
  /\ leak \in [kernel : Nat, peer : Nat]

\* The frames that left the channel are exactly those older than the queued ones.
Taken == accepted - Len(queue)

Increasing(s) == \A i, j \in DOMAIN s : i < j => s[i] < s[j]

\* FIFO, at most once, nothing forgotten: whatever the partial writes, closed
\* gates, broken and fatal writes, the delivered frames are in send order without
\* repetition, and every frame ever sent is in exactly one place: delivered, lost,
\* being written or queued (drain_pending, tick).
FrameAccounting ==
  /\ Increasing(delivered)
  /\ \A i \in DOMAIN queue : queue[i] = Taken + i
  /\ Elements(delivered) \cup lost \cup AppFrame(pending.frame) = 1..Taken
  /\ Elements(delivered) \cap lost = {}
  /\ AppFrame(pending.frame) \cap (Elements(delivered) \cup lost) = {}

\* Every byte on the wire is the next byte of the frame the far end is reading:
\* partial frames resume at the right offset and never interleave with the next
\* frame or with cover, over closed gates, a full buffer and UDP refusals.
Framing == ~misframed

\* Closing a flag is a stop order: after the store at most the one frame of the
\* tick in progress still goes out, however long the flag stays closed and whatever
\* the other flag does (tick loads both, one after the other, every time).
GateStops == leak.kernel <= FrameLen /\ leak.peer <= FrameLen

\* Whatever the socket does to a frame: the frames stay in order and accounted for, the
\* stream stays framed, and a closed gate is obeyed.
Inv == TypeOK /\ FrameAccounting /\ Framing /\ GateStops

\* Once the fault is visible to the owner (is_faulted), though the thread still runs, or
\* shutdown() has returned, not one more byte reaches the socket and the cover-traffic key
\* is erased.
SilentAfterEnd ==
  [][faulted \/ joined => aep = "zeroized" /\ ~\E n \in 1..FrameLen : Wrote(n)]_vars

\* shutdown() returns: the thread leaves its loop from wherever it is.
ShutdownReturns == ~alive ~> joined

\* With the gates open from some time on and the far end reading, every frame sent
\* leaves the channel: it is delivered, or lost with the socket or the thread.
QueueDrains ==
  <>[]GatesOpen => \A f \in 1..MaxFrames :
                      f <= accepted ~> f \in Elements(delivered) \cup lost

\* The thread gets on with its work, and stops when told to.
Progress == ShutdownReturns /\ QueueDrains

\* The bridge implements the abstract paced wire.
Wire == INSTANCE FrameWire WITH
          waiting <- queue,
          line    <- [frame |-> pending.frame, sent |-> pending.offset],
          stopped <- pc = "done"

ImplementsFrameWire == Wire!Spec
==============================================================================
