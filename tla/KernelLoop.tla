------------------------------ MODULE KernelLoop ------------------------------
(***************************************************************************)
(* The main loop of the kernel, which owns the transmit virtqueue of       *)
(* VirtioTx: every round polls the network stack, which may send frames of *)
(* its own through the same ring, answers at most one UDP datagram, sends  *)
(* the heartbeat of the epoch and sleeps.  One core, no preemption: only   *)
(* the device runs concurrently, also while the loop sleeps.               *)
(*                                                                         *)
(* smoltcp is external.  iface.poll takes the staged frame, answers ARP    *)
(* and ICMP requests at once, and sends what is queued in the UDP socket,  *)
(* or asks for the peer's hardware address first and keeps it.  Datagrams  *)
(* are numbered in the order of arrival.                                   *)
(***************************************************************************)
EXTENDS VirtioTx, FiniteSets

CONSTANTS
  SocketDepth,  \* packets the socket holds in each direction (4)
  Long,         \* datagrams whose echo is longer than a transmit buffer
  MaxHeard      \* bound: datagrams received in a behaviour

ASSUME KernelLoopAssumption ==
  SocketDepth \in Nat \ {0} /\ Long \subseteq Nat /\ MaxHeard \in Nat

VARIABLES
  phase,   \* "poll", "iface", "recv", "again", "beat", "sleep", "panic"
  epoch,
  staged,  \* RX_ETH: a datagram, Request, or 0
  inbox, outbox,   \* the socket's buffers
  heard,
  label    \* label[n] is what the n-th frame sent carries

stackVars == <<staged, inbox, outbox, heard>>
loopVars == <<phase, epoch, stackVars, label>>

Request == MaxHeard + 1
Frame(kind, n) == [kind |-> kind, n |-> n]

LoopInit ==
  /\ Init
  /\ phase = "poll" /\ epoch = 0
  /\ staged = 0 /\ inbox = <<>> /\ outbox = <<>> /\ heard = 0
  /\ label = <<>>

\* send_eth_frame or send_frame: the loop stands still until it is over.
Send(kind, n) == Start /\ label' = Append(label, Frame(kind, n))

Returned == pc = "idle"

-----------------------------------------------------------------------------

\* poll_virtio; of the frames received the last one that fits is staged.
PollVirtio ==
  /\ phase = "poll" /\ Returned
  /\ phase' = "iface"
  /\ \/ /\ heard < MaxHeard
        /\ heard' = heard + 1 /\ staged' = heard + 1
     \/ staged' = Request /\ UNCHANGED heard
     \/ UNCHANGED <<heard, staged>>
  /\ UNCHANGED <<epoch, inbox, outbox, label, vars>>

Polling == phase \in {"iface", "again"} /\ Returned

\* A queue of packets takes one more unless it is full or has no contiguous room.
Room(q) == Len(q) < SocketDepth
MayRefuse(q) == q # <<>>

TakeDatagram ==
  /\ Polling /\ staged \in 1..MaxHeard
  /\ staged' = 0
  /\ \/ Room(inbox) /\ inbox' = Append(inbox, staged)
     \/ MayRefuse(inbox) /\ UNCHANGED inbox
  /\ UNCHANGED <<phase, epoch, outbox, heard, label, vars>>

\* The token copies header and frame into buffers[idx], 512 bytes: the reply to a longer
\* ping panics, and so does a longer echo.
AnswerRequest ==
  /\ Polling /\ staged = Request
  /\ staged' = 0
  /\ \/ Send("stack", 0) /\ UNCHANGED phase
     \/ phase' = "panic" /\ UNCHANGED <<label, vars>>
  /\ UNCHANGED <<epoch, inbox, outbox, heard>>

EmitEcho ==
  /\ Polling /\ outbox # <<>>
  /\ outbox' = Tail(outbox)
  /\ IF Head(outbox) \in Long
       THEN phase' = "panic" /\ UNCHANGED <<label, vars>>
       ELSE Send("echo", Head(outbox)) /\ UNCHANGED phase
  /\ UNCHANGED <<epoch, staged, inbox, heard>>

After == IF phase = "iface" THEN "recv" ELSE "beat"

\* The peer's address is asked for; the queue waits for a later poll.
Resolve ==
  /\ Polling /\ staged = 0 /\ outbox # <<>>
  /\ Send("stack", 0)
  /\ phase' = After
  /\ UNCHANGED <<epoch, stackVars>>

EndPoll ==
  /\ Polling /\ staged = 0
  /\ phase' = After
  /\ UNCHANGED <<epoch, stackVars, label, vars>>

Taken == Tail(inbox)

\* One datagram a round; its echo is polled out at once if the socket takes it.
Recv ==
  /\ phase = "recv" /\ Returned
  /\ IF inbox = <<>>
       THEN phase' = "beat" /\ UNCHANGED <<inbox, outbox>>
       ELSE /\ inbox' = Taken
            /\ \/ /\ Room(outbox)
                  /\ outbox' = Append(outbox, Head(inbox)) /\ phase' = "again"
               \/ MayRefuse(outbox) /\ UNCHANGED outbox /\ phase' = "beat"
  /\ UNCHANGED <<epoch, staged, heard, label, vars>>

\* Fault variant: the epoch counts frames, not heartbeats.
NextEpoch_frames == sent + 1

NextEpoch == epoch + 1

Beat ==
  /\ phase = "beat" /\ Returned
  /\ Send("beat", epoch)
  /\ epoch' = NextEpoch
  /\ phase' = "sleep"
  /\ UNCHANGED stackVars

\* 200 ms after the heartbeat.
Sleep ==
  /\ phase = "sleep" /\ Returned
  /\ phase' = "poll"
  /\ UNCHANGED <<epoch, stackVars, label, vars>>

Sending == Driver /\ UNCHANGED loopVars
Serving == Device /\ UNCHANGED loopVars

Loop ==
  \/ PollVirtio \/ TakeDatagram \/ AnswerRequest \/ EmitEcho \/ Resolve \/ EndPoll
  \/ Recv \/ Beat \/ Sleep

LoopNext == Loop \/ Sending \/ Serving

\* Straight-line code on a core of its own; the device serves what it was notified of.
LoopSpec ==
  /\ LoopInit /\ [][LoopNext]_<<vars, loopVars>>
  /\ WF_<<vars, loopVars>>(Loop)
  /\ WF_<<vars, loopVars>>(Sending) /\ WF_<<vars, loopVars>>(Serving)

-----------------------------------------------------------------------------

LoopTypeOK ==
  /\ phase \in {"poll", "iface", "recv", "again", "beat", "sleep", "panic"}
  /\ epoch \in Nat /\ staged \in 0..Request /\ heard \in 0..MaxHeard
  /\ inbox \in Seq(1..MaxHeard) /\ outbox \in Seq(1..MaxHeard)
  /\ Len(inbox) <= SocketDepth /\ Len(outbox) <= SocketDepth
  /\ Len(label) = sent

\* What went out, up to the first lap on a weakly ordered machine (see Wire).
Out == [i \in 1..Len(wire) |-> label[IF ~ordered /\ i <= Depth THEN i ELSE wire[i]]]

\* Whatever the stack sends in between, and while the device frees a slot before the wait
\* for it gives up, the heartbeats leave the machine in the order of their epochs with
\* none missing: the receiver can tell a lost frame from a skipped one.
HeartbeatsInOrder ==
  \A i \in 1..Len(wire) : Out[i].kind = "beat" =>
    Out[i].n = Cardinality({j \in 1..(i - 1) : Out[j].kind = "beat"})

\* A datagram is echoed at most once and never before an earlier one, through the
\* staging buffer, both queues of the socket and the ring.
EchoesInOrder ==
  \A i, j \in 1..Len(wire) :
    i < j /\ Out[i].kind = "echo" /\ Out[j].kind = "echo" => Out[i].n < Out[j].n

\* The ring is intact and the frames of both kinds leave in order.
LoopInv == Inv /\ LoopTypeOK /\ HeartbeatsInOrder /\ EchoesInOrder

\* The loop never stands still and no doorbell is lost: everything sent goes out, up to
\* the bound of the model, unless an answer did not fit its buffer and the kernel panicked;
\* then at least what was sent before goes out.
LoopGoesOn == <>[](Len(wire) = sent /\ (phase = "panic" \/ sent = MaxFrames))
==============================================================================
