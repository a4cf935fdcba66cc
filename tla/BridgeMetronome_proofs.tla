------------------------ MODULE BridgeMetronome_proofs ------------------------
(***************************************************************************)
(* For every frame length, send buffer and number of frames: the frames    *)
(* stay in order and accounted for, the stream stays framed, a closed gate *)
(* is obeyed, nothing is written after the end, and the thread implements  *)
(* the abstract wire.                                                      *)
(***************************************************************************)
EXTENDS BridgeMetronome, SequenceTheorems, TLAPS

USE BridgeAssumption DEF BridgeAssumption

\* The partial frame and the place of the thread: what is not active is cleared, a write
\* is under way only of an active frame, and nothing is left after a fault.
PendingInv ==
  /\ ~pending.active => pending = Cleared
  /\ pending.active => pending.frame >= Cover
  /\ pc = "write" => pending.active
  /\ pc \in {"fault", "erased", "done"} => pending = Cleared

\* The frame being written is the last one taken.
NewestTaken == Len(queue) <= accepted /\ (pending.frame > Cover => pending.frame = Taken)

\* The far end is where the thread believes it to be: always between two frames on a
\* datagram socket, and on a stream until it breaks or the loop is left.
LineInv ==
  /\ kind = "datagram" => pending.offset = 0 /\ line[2] = 0
  /\ kind # "datagram" /\ sockerr = "none" /\ pc \notin {"fault", "erased", "exit", "done"} =>
       /\ line[2] = pending.offset
       /\ pending.offset > 0 => line[1] = pending.frame

\* Since a flag was closed nothing has been written unless the tick had passed its check,
\* and then no more than what is missing from the frame in hand.
GateInv ==
  /\ kernel_ready => leak.kernel = 0
  /\ local_peer_up => leak.peer = 0
  /\ pc \in {"peer", "pick"} => leak.kernel = 0
  /\ pc = "pick" => leak.peer = 0
  /\ pc = "write" => leak.kernel <= pending.offset /\ leak.peer <= pending.offset

EndInv ==
  /\ faulted => pc \in {"exit", "done"} /\ aep = "zeroized"
  /\ pc = "erased" => aep = "zeroized"
  /\ joined => pc = "done"
  /\ pc = "done" => aep = "zeroized" /\ queue = <<>>

Strong == Inv /\ PendingInv /\ NewestTaken /\ LineInv /\ GateInv /\ EndInv

\* The partial frame is typed, and what a write makes of it.
LEMMA PendingIsTyped ==
  /\ Cleared \in Pendings
  /\ \A f \in Int : Activated(f) \in Pendings
<1>1. ASSUME NEW a \in BOOLEAN, NEW o \in 0..(FrameLen - 1), NEW f \in Int
      PROVE  [active |-> a, offset |-> o, frame |-> f] \in Pendings
  BY DEF Pendings
<1>2. 0 \in 0..(FrameLen - 1) /\ NoFrame \in Int
  BY DEF NoFrame
<1>3. FALSE \in BOOLEAN /\ TRUE \in BOOLEAN
  OBVIOUS
<1> QED
  BY <1>1, <1>2, <1>3 DEF Cleared, Activated

LEMMA AdvanceIsTyped ==
  ASSUME pending \in Pendings, NEW n \in 1..FrameLen
  PROVE  /\ Advance(n) \in Pendings
         /\ pending.offset + n >= FrameLen => Advance(n) = Cleared
         /\ pending.offset + n < FrameLen =>
              /\ Advance(n).active = pending.active
              /\ Advance(n).offset = pending.offset + n
              /\ Advance(n).frame = pending.frame
<1>1. pending.offset \in 0..(FrameLen - 1)
  BY DEF Pendings
<1>2. CASE pending.offset + n >= FrameLen
  BY <1>1, <1>2, PendingIsTyped DEF Advance
<1>3. CASE pending.offset + n < FrameLen
  <2>1. Advance(n) = [pending EXCEPT !.offset = @ + n]
    BY <1>1, <1>3 DEF Advance
  <2>2. [pending EXCEPT !.offset = @ + n] \in Pendings
    BY <1>1, <1>3 DEF Pendings
  <2> QED
    BY <1>1, <1>3, <2>1, <2>2 DEF Pendings
<1> QED
  BY <1>1, <1>2, <1>3

LEMMA ClearedIs == Cleared.offset = 0 /\ Cleared.frame = NoFrame /\ ~Cleared.active
  BY DEF Cleared

LEMMA InitStrong == Init => Strong
<1> SUFFICES ASSUME Init PROVE Strong
  OBVIOUS
<1>1. TypeOK
  <2>1. {connected, kernel_ready, local_peer_up, alive, faulted, joined, misframed} \subseteq BOOLEAN
    BY DEF Init
  <2>2. line \in Int \X (0..(FrameLen - 1))
    BY DEF Init, NoFrame
  <2>3. room \in 0..SendBuf /\ kind \in Sockets /\ accepted \in 0..MaxFrames
    BY DEF Init
  <2> QED
    BY <2>1, <2>2, <2>3, PendingIsTyped DEF Init, TypeOK
<1>2. FrameAccounting /\ NewestTaken
  <2>1. Elements(<<>>) = {} /\ Increasing(<<>>)
    BY DEF Elements, Increasing
  <2>2. Taken = 0 /\ Len(queue) = 0
    <3>1. Len(<<>>) = 0
      OBVIOUS
    <3>2. queue = <<>> /\ accepted = 0
      BY DEF Init
    <3>3. Len(queue) = 0
      BY <3>1, <3>2, Zenon
    <3>4. Taken = accepted - Len(queue)
      BY Zenon DEF Taken
    <3> HIDE DEF Init
    <3> QED
      BY <3>2, <3>3, <3>4
  <2>3. ~(pending.frame > Cover)
    BY ClearedIs DEF Init, NoFrame, Cover
  <2> QED
    BY <2>1, <2>2, <2>3 DEF Init, FrameAccounting, NewestTaken, AppFrame
<1>3. Framing /\ LineInv
  BY ClearedIs DEF Init, Framing, LineInv
<1>4. GateStops /\ GateInv
  BY DEF Init, GateStops, GateInv
<1>5. PendingInv /\ EndInv
  BY ClearedIs DEF Init, PendingInv, EndInv
<1> QED
  BY <1>1, <1>2, <1>3, <1>4, <1>5 DEF Strong, Inv

LEMMA TypeStep == Strong /\ [Next]_vars => TypeOK'
<1> SUFFICES ASSUME Strong, [Next]_vars PROVE TypeOK'
  OBVIOUS
<1> USE DEF TypeOK
<1>t. TypeOK /\ FrameAccounting /\ PendingInv /\ LineInv /\ GateInv
  BY DEF Strong, Inv
<1>1. CASE Send
  <2>1. accepted' \in 0..MaxFrames /\ accepted' \in Nat \ {0} /\ accepted' \in 1..MaxFrames
    BY <1>t, <1>1, SMTT(60) DEF Send
  <2>2. Append(queue, accepted') \in Seq(Nat \ {0})
    BY <1>t, <2>1, AppendProperties
  <2>3. queue' \in Seq(Nat \ {0}) /\ lost' \subseteq 1..MaxFrames
    BY <1>t, <1>1, <2>1, <2>2 DEF Send
  <2> QED
    BY <1>t, <1>1, <2>1, <2>3 DEF Send, thread, socket
<1>2. CASE Disconnect \/ Shutdown \/ Join
  <2>1. {connected, kernel_ready, local_peer_up, alive, faulted, joined, misframed}' \subseteq BOOLEAN
    BY <1>t, <1>2 DEF Disconnect, Shutdown, Join, shared, history, thread, socket
  <2> QED
    BY <1>t, <1>2, <2>1 DEF Disconnect, Shutdown, Join, shared, thread, socket, history
<1>3. CASE KernelDrains \/ PeerGone
  <2>1. room' \in 0..SendBuf /\ sockerr' \in {"none", "broken"}
    BY <1>t, <1>3 DEF KernelDrains, PeerGone
  <2> QED
    BY <1>t, <1>3, <2>1 DEF KernelDrains, PeerGone, shared, thread, history
<1>13. CASE SetGate
  <2>1. {connected, kernel_ready, local_peer_up, alive, faulted, joined, misframed}' \subseteq BOOLEAN
    <3>1. {connected, alive, faulted, joined, misframed}' \subseteq BOOLEAN
      BY <1>t, <1>13 DEF SetGate
    <3>2. kernel_ready' \in BOOLEAN /\ local_peer_up' \in BOOLEAN
      <4>1. kernel_ready \in BOOLEAN /\ local_peer_up \in BOOLEAN
        BY <1>t
      <4>2. \/ kernel_ready' = ~kernel_ready /\ local_peer_up' = local_peer_up
            \/ local_peer_up' = ~local_peer_up /\ kernel_ready' = kernel_ready
        BY <1>13, Zenon DEF SetGate
      <4>3. (~kernel_ready) \in BOOLEAN /\ (~local_peer_up) \in BOOLEAN
        OBVIOUS
      <4>4. CASE kernel_ready' = ~kernel_ready /\ local_peer_up' = local_peer_up
        BY <4>1, <4>3, <4>4
      <4>5. CASE local_peer_up' = ~local_peer_up /\ kernel_ready' = kernel_ready
        BY <4>1, <4>3, <4>5
      <4> QED
        BY <4>2, <4>4, <4>5
    <3> QED
      BY <3>1, <3>2
  <2>2. leak' \in [kernel : Nat, peer : Nat]
    <3>1. leak' = [leak EXCEPT !.kernel = 0] \/ leak' = [leak EXCEPT !.peer = 0]
      BY <1>13, Zenon DEF SetGate
    <3>2. leak \in [kernel : Nat, peer : Nat]
      BY <1>t
    <3> QED
      BY <3>1, <3>2
  <2> QED
    BY <1>t, <1>13, <2>1, <2>2 DEF SetGate, thread, socket
<1>4. lost \cup Elements(queue) \cup AppFrame(pending.frame) \subseteq 1..MaxFrames
  <2>1. Taken \in Int /\ Len(queue) \in Nat /\ Taken + Len(queue) = accepted /\ Taken <= MaxFrames
    BY <1>t DEF Taken
  <2>2. \A i \in DOMAIN queue : queue[i] \in 1..MaxFrames
    <3>1. \A i \in DOMAIN queue : i \in 1..Len(queue) /\ queue[i] \in Nat \ {0} /\ queue[i] = Taken + i
      BY <1>t DEF FrameAccounting
    <3> QED
      BY <1>t, <2>1, <3>1, SMTT(60)
  <2>3. AppFrame(pending.frame) \subseteq 1..MaxFrames
    BY <1>t, <2>1 DEF FrameAccounting
  <2> QED
    BY <1>t, <2>2, <2>3, ZenonT(60) DEF Elements
<1>5. CASE Exit
  BY <1>t, <1>4, <1>5, PendingIsTyped DEF Exit, socket
<1>6. CASE LoopTop
  BY <1>t, <1>6 DEF LoopTop, Goto, shared, socket, history
<1>7. CASE CheckKernel \/ CheckPeer \/ WouldBlock
  BY <1>t, <1>7 DEF CheckKernel, CheckPeer, WouldBlock, Goto, shared, socket, history
<1>8. CASE Pick
  <2>1. queue # <<>> => Head(queue) \in Nat \ {0} /\ Tail(queue) \in Seq(Nat \ {0})
    BY <1>t
  <2>2. queue' \in Seq(Nat \ {0}) /\ pending' \in Pendings
    <3>1. queue # <<>> => Activated(Head(queue)) \in Pendings
      BY <2>1, PendingIsTyped
    <3>2. Activated(Cover) \in Pendings
      BY PendingIsTyped DEF Cover
    <3>3. CASE UNCHANGED <<queue, pending>>
      BY <1>t, <3>3
    <3>4. CASE pending' = Activated(Cover) /\ UNCHANGED queue
      BY <1>t, <3>2, <3>4
    <3>5. CASE queue # <<>> /\ pending' = Activated(Head(queue)) /\ queue' = Tail(queue)
      BY <2>1, <3>1, <3>5
    <3> QED
      BY <1>8, <3>3, <3>4, <3>5 DEF Pick, Goto, shared
  <2> QED
    BY <1>t, <1>8, <2>2 DEF Pick, Goto, shared, socket, history
<1>9. ASSUME NEW n \in 1..FrameLen, Wrote(n) PROVE TypeOK'
  <2>1. n <= room /\ room' \in 0..SendBuf
    <3>1. pending.offset \in 0..(FrameLen - 1)
      BY <1>t DEF Pendings
    <3>2. n \in Writable /\ room' = room - n
      BY <1>9 DEF Wrote
    <3>3. n <= room
      BY <1>t, <3>1, <3>2 DEF Writable
    <3> QED
      BY <1>t, <3>2, <3>3
  <2>2. pending' \in Pendings /\ pc' \in {"write", "loop"}
    BY <1>t, <1>9, AdvanceIsTyped DEF Wrote
  <2>3. pending.frame \in Int /\ line[2] \in 0..(FrameLen - 1)
    BY <1>t DEF Pendings
  <2>4. line' \in Int \X (0..(FrameLen - 1))
    BY <1>9, <2>3, SMTT(60) DEF Wrote, NoFrame
  <2>5. misframed' \in BOOLEAN
    BY <1>9 DEF Wrote
  <2>6. delivered' \in Seq(Nat \ {0})
    <3>1. pending.frame > Cover => Append(delivered, pending.frame) \in Seq(Nat \ {0})
      BY <1>t, <2>3, AppendProperties DEF Cover
    <3> QED
      BY <1>t, <1>9, <3>1 DEF Wrote
  <2>7. leak' \in [kernel : Nat, peer : Nat]
    BY <1>t, <1>9, SMTT(60) DEF Wrote
  <2>8. {connected, kernel_ready, local_peer_up, alive, faulted, joined, misframed}' \subseteq BOOLEAN
    BY <1>t, <1>9, <2>5 DEF Wrote, shared
  <2> QED
    BY <1>t, <1>9, <2>1, <2>2, <2>4, <2>6, <2>7, <2>8 DEF Wrote, shared
<1>10. CASE Broken \/ Fatal
  BY <1>t, <1>4, <1>10, PendingIsTyped DEF Broken, Fatal, shared, socket
<1>11. CASE Guillotine
  BY <1>t, <1>11, PendingIsTyped DEF Guillotine, shared, socket, history
<1>14. CASE PublishFault
  BY <1>t, <1>14 DEF PublishFault, socket, history
<1>12. CASE UNCHANGED vars
  BY <1>t, <1>12 DEF vars, shared, thread, socket, history
<1> QED
  BY <1>1, <1>2, <1>3, <1>5, <1>6, <1>7, <1>8, <1>9, <1>10, <1>11, <1>12, <1>13, <1>14
     DEF Next, Tick, Others

\* The easy parts of the invariant, and the bound of a closed gate.
LEMMA PlacesStep == Strong /\ [Next]_vars => (PendingInv /\ EndInv)'
<1> SUFFICES ASSUME Strong, [Next]_vars PROVE (PendingInv /\ EndInv)'
  OBVIOUS
<1>t. TypeOK /\ PendingInv /\ EndInv
  BY DEF Strong, Inv
<1>p. pending \in Pendings /\ queue \in Seq(Nat \ {0})
  BY <1>t DEF TypeOK
<1>c. ~Cleared.active /\ Cleared.frame < Cover
  BY DEF Cleared, Cover, NoFrame
<1>a. \A f : Activated(f).active = TRUE /\ Activated(f).frame = f
  BY DEF Activated
<1> USE DEF PendingInv, EndInv
<1>1. CASE Send
  BY <1>t, <1>1 DEF Send, thread
<1>2. CASE Disconnect \/ SetGate \/ Shutdown
  BY <1>t, <1>2 DEF Disconnect, SetGate, Shutdown, thread, shared
<1>3. CASE Join
  BY <1>t, <1>3 DEF Join, thread, shared
<1>4. CASE KernelDrains \/ PeerGone
  BY <1>t, <1>4 DEF KernelDrains, PeerGone, thread, shared
<1>5. CASE Exit
  BY <1>t, <1>c, <1>5 DEF Exit
<1>6. CASE LoopTop
  BY <1>t, <1>6 DEF LoopTop, Goto, shared
<1>7. CASE CheckKernel \/ CheckPeer
  BY <1>t, <1>7 DEF CheckKernel, CheckPeer, Goto, shared
<1>8. CASE Pick
  <2>1. queue # <<>> => Head(queue) >= Cover
    BY <1>p DEF Cover
  <2>2. pc = "pick" /\ ~faulted /\ ~joined
    BY <1>t, <1>8 DEF Pick
  <2>3. /\ pc' \in {"write", "loop"} /\ faulted' = faulted /\ joined' = joined
        /\ pc' = "loop" => pending' = pending
        /\ pc' = "write" => \/ pending.active /\ pending' = pending
                            \/ queue # <<>> /\ pending' = Activated(Head(queue))
                            \/ pending' = Activated(Cover)
    BY <1>8 DEF Pick, Goto, shared
  <2>4. PendingInv'
    BY <1>t, <1>a, <2>1, <2>3 DEF Cover
  <2> QED
    BY <2>2, <2>3, <2>4
<1>9. ASSUME NEW n \in 1..FrameLen, Wrote(n) PROVE (PendingInv /\ EndInv)'
  <2>1. /\ pc = "write" /\ pending' = Advance(n)
        /\ pc' = IF Advance(n).active THEN "write" ELSE "loop"
        /\ faulted' = faulted /\ joined' = joined
    BY <1>9 DEF Wrote, shared
  <2>2. pending.active /\ pending.frame >= Cover /\ ~faulted /\ ~joined
    BY <1>t, <2>1
  <2>3. \/ Advance(n) = Cleared
        \/ Advance(n).active = pending.active /\ Advance(n).frame = pending.frame
    <3>1. pending.offset \in Int
      BY <1>p DEF Pendings
    <3> QED
      BY <1>p, <3>1, AdvanceIsTyped
  <2> QED
    BY <1>c, <2>1, <2>2, <2>3
<1>10. CASE WouldBlock
  BY <1>t, <1>10 DEF WouldBlock, Goto, shared
<1>11. CASE Broken \/ Fatal
  BY <1>t, <1>c, <1>11 DEF Broken, Fatal, shared
<1>12. CASE Guillotine \/ PublishFault
  BY <1>t, <1>c, <1>12 DEF Guillotine, PublishFault, shared
<1>13. CASE UNCHANGED vars
  BY <1>t, <1>13 DEF vars, shared, thread
<1> QED
  BY <1>1, <1>2, <1>3, <1>4, <1>5, <1>6, <1>7, <1>8, <1>9, <1>10, <1>11, <1>12, <1>13
     DEF Next, Tick, Others

LEMMA GateStep == Strong /\ [Next]_vars => (GateStops /\ GateInv)'
<1> SUFFICES ASSUME Strong, [Next]_vars PROVE (GateStops /\ GateInv)'
  OBVIOUS
<1>t. TypeOK /\ GateStops /\ GateInv /\ PendingInv
  BY DEF Strong, Inv
<1>p. /\ pending.offset \in 0..(FrameLen - 1) /\ leak \in [kernel : Nat, peer : Nat]
      /\ pending \in Pendings
  BY <1>t DEF TypeOK, Pendings
<1> USE DEF GateStops, GateInv
<1>1. CASE Send \/ Disconnect \/ Shutdown \/ Join \/ KernelDrains \/ PeerGone
  BY <1>t, <1>1 DEF Send, Disconnect, Shutdown, Join, KernelDrains, PeerGone,
                    thread, shared, history
<1>2. CASE SetGate
  <2>1. CASE kernel_ready' = ~kernel_ready /\ leak' = [leak EXCEPT !.kernel = 0]
             /\ UNCHANGED <<local_peer_up, thread>>
    BY <1>t, <1>p, <2>1 DEF thread
  <2>2. CASE local_peer_up' = ~local_peer_up /\ leak' = [leak EXCEPT !.peer = 0]
             /\ UNCHANGED <<kernel_ready, thread>>
    BY <1>t, <1>p, <2>2 DEF thread
  <2> QED
    BY <1>2, <2>1, <2>2 DEF SetGate
<1>3. CASE LoopTop \/ CheckKernel \/ CheckPeer \/ WouldBlock
  BY <1>t, <1>3 DEF LoopTop, CheckKernel, CheckPeer, WouldBlock, Goto, shared, history
<1>4. CASE Pick
  <2>1. leak.kernel = 0 /\ leak.peer = 0
    BY <1>t, <1>4 DEF Pick
  <2>2. pc' \in {"write", "loop"} /\ UNCHANGED <<leak, kernel_ready, local_peer_up>>
    BY <1>4 DEF Pick, Goto, shared, history
  <2>3. pending'.offset \in Nat
    <3>1. \A f : Activated(f).offset = 0
      BY DEF Activated
    <3> QED
      BY <1>p, <1>4, <3>1 DEF Pick, Goto
  <2> QED
    BY <1>t, <2>1, <2>2, <2>3
<1>5. ASSUME NEW n \in 1..FrameLen, Wrote(n) PROVE (GateStops /\ GateInv)'
  <2>1. /\ pending' = Advance(n) /\ UNCHANGED <<kernel_ready, local_peer_up>>
        /\ pc = "write" /\ pc' = IF Advance(n).active THEN "write" ELSE "loop"
        /\ leak' = [kernel |-> IF kernel_ready THEN 0 ELSE leak.kernel + n,
                    peer   |-> IF local_peer_up THEN 0 ELSE leak.peer + n]
        /\ n \in Writable
    BY <1>5 DEF Wrote, shared
  <2>2. pending.offset + n <= FrameLen
    BY <1>p, <2>1 DEF Writable, Remaining
  <2>3. /\ leak.kernel <= pending.offset /\ leak.peer <= pending.offset
    BY <1>t, <2>1
  <2>4. /\ leak'.kernel = IF kernel_ready THEN 0 ELSE leak.kernel + n
        /\ leak'.peer = IF local_peer_up THEN 0 ELSE leak.peer + n
    BY <2>1
  <2>5. pc' = "write" => pending'.offset = pending.offset + n
    <3>1. CASE pending.offset + n >= FrameLen
      BY <1>p, <3>1, <2>1, AdvanceIsTyped, ClearedIs
    <3>2. CASE pending.offset + n < FrameLen
      BY <1>p, <3>2, <2>1, AdvanceIsTyped
    <3> QED
      BY <1>p, <3>1, <3>2
  <2>6. leak'.kernel <= FrameLen /\ leak'.peer <= FrameLen
    BY <1>p, <2>2, <2>3, <2>4
  <2>7. kernel_ready' = kernel_ready /\ local_peer_up' = local_peer_up /\ pc' \in {"write", "loop"}
    BY <2>1
  <2>8. pc' = "write" => leak'.kernel <= pending'.offset /\ leak'.peer <= pending'.offset
    BY <1>p, <2>3, <2>4, <2>5
  <2> QED
    BY <2>4, <2>6, <2>7, <2>8
<1>6. CASE Broken \/ Fatal \/ Guillotine \/ PublishFault \/ Exit
  BY <1>t, <1>6 DEF Broken, Fatal, Guillotine, PublishFault, Exit, shared, history
<1>7. CASE UNCHANGED vars
  BY <1>t, <1>7 DEF vars, shared, thread, history
<1> QED
  BY <1>1, <1>2, <1>3, <1>4, <1>5, <1>6, <1>7 DEF Next, Tick, Others

\* A write puts on the wire what the far end waits for.
LEMMA LineStep == Strong /\ [Next]_vars => (Framing /\ LineInv)'
<1> SUFFICES ASSUME Strong, [Next]_vars PROVE (Framing /\ LineInv)'
  OBVIOUS
<1>t. Framing /\ LineInv /\ PendingInv
  BY DEF Strong, Inv
<1>p. /\ pending \in Pendings /\ pending.offset \in 0..(FrameLen - 1)
      /\ line \in Int \X (0..(FrameLen - 1)) /\ line[2] \in 0..(FrameLen - 1)
  BY DEF Strong, Inv, TypeOK, Pendings
<1> USE DEF Framing, LineInv
<1>1. CASE Send \/ Disconnect \/ SetGate \/ Shutdown \/ Join
  BY <1>t, <1>1 DEF Send, Disconnect, SetGate, Shutdown, Join, thread, socket, history
<1>2. CASE KernelDrains \/ PeerGone
  BY <1>t, <1>2 DEF KernelDrains, PeerGone, thread, history
<1>3. CASE Exit
  BY <1>t, <1>3, ClearedIs DEF Exit, socket
<1>4. CASE LoopTop
  BY <1>t, <1>4 DEF LoopTop, Goto, socket, history
<1>5. CASE CheckKernel \/ CheckPeer \/ WouldBlock
  BY <1>t, <1>5 DEF CheckKernel, CheckPeer, WouldBlock, Goto, socket, history
<1>6. CASE Pick
  <2>1. UNCHANGED <<kind, sockerr, line, misframed>> /\ pc = "pick"
    BY <1>6 DEF Pick, Goto, socket, history
  <2>2. \/ pending' = pending
        \/ pending.offset = 0 /\ pending'.offset = 0
    <3>1. \A f : Activated(f).offset = 0
      BY DEF Activated
    <3>2. ~pending.active => pending.offset = 0
      BY <1>t, ClearedIs DEF PendingInv
    <3> QED
      BY <1>6, <3>1, <3>2 DEF Pick, Goto
  <2> QED
    BY <1>t, <2>1, <2>2
<1>7. ASSUME NEW n \in 1..FrameLen, Wrote(n) PROVE (Framing /\ LineInv)'
  <2>1. /\ pc = "write" /\ sockerr = "none" /\ pending' = Advance(n) /\ n \in Writable
        /\ line' = IF line[2] + n >= FrameLen THEN <<NoFrame, 0>>
                                              ELSE <<pending.frame, line[2] + n>>
        /\ UNCHANGED <<kind, sockerr>>
    BY <1>7 DEF Wrote
  <2>2. misframed' = (misframed \/ line[2] # pending.offset
                                \/ (line[2] > 0 /\ line[1] # pending.frame))
    BY <1>7 DEF Wrote
  <2>3. line[2] = pending.offset /\ (line[2] > 0 => line[1] = pending.frame)
    BY <1>t, <1>p, <2>1
  <2>4. ~misframed'
    BY <1>t, <2>2, <2>3
  <2>5. CASE pending.offset + n >= FrameLen
    <3>1. pending' = Cleared /\ line' = <<NoFrame, 0>>
      BY <1>p, <2>1, <2>3, <2>5, AdvanceIsTyped
    <3> QED
      BY <2>4, <3>1, ClearedIs
  <2>6. CASE pending.offset + n < FrameLen
    <3>1. /\ pending'.offset = pending.offset + n /\ pending'.frame = pending.frame
          /\ line' = <<pending.frame, pending.offset + n>>
      BY <1>p, <2>1, <2>3, <2>6, AdvanceIsTyped
    <3>2. kind # "datagram"
      BY <1>p, <1>t, <2>1, <2>6 DEF Writable, Remaining
    <3> QED
      BY <2>1, <2>4, <3>1, <3>2
  <2> QED
    BY <1>p, <2>5, <2>6
<1>8. CASE Broken
  BY <1>t, <1>p, <1>8, ClearedIs DEF Broken
<1>9. CASE Fatal
  BY <1>t, <1>9, ClearedIs DEF Fatal, socket
<1>10. CASE Guillotine \/ PublishFault
  BY <1>t, <1>10, ClearedIs DEF Guillotine, PublishFault, socket, history
<1>11. CASE UNCHANGED vars
  BY <1>t, <1>11 DEF vars, thread, socket, history
<1> QED
  BY <1>1, <1>2, <1>3, <1>4, <1>5, <1>6, <1>7, <1>8, <1>9, <1>10, <1>11 DEF Next, Tick, Others

\* What appending does to the delivered frames.
LEMMA AppendDelivered ==
  ASSUME NEW s \in Seq(Nat \ {0}), NEW f \in Nat \ {0}, Increasing(s),
         \A i \in DOMAIN s : s[i] < f
  PROVE  /\ Increasing(Append(s, f))
         /\ Elements(Append(s, f)) = Elements(s) \cup {f}
<1> DEFINE t == Append(s, f)
<1>1. /\ Len(t) = Len(s) + 1 /\ DOMAIN s = 1..Len(s) /\ DOMAIN t = 1..(Len(s) + 1)
      /\ Len(s) \in Nat /\ t[Len(s) + 1] = f
      /\ \A i \in 1..Len(s) : t[i] = s[i]
  BY AppendProperties
<1>2. Increasing(t)
  BY <1>1 DEF Increasing
<1>3. Elements(t) = Elements(s) \cup {f}
  BY <1>1 DEF Elements
<1> QED
  BY <1>2, <1>3

\* The frames stay in order and accounted for.
LEMMA AccountStep == Strong /\ [Next]_vars => (FrameAccounting /\ NewestTaken)'
<1> SUFFICES ASSUME Strong, [Next]_vars PROVE (FrameAccounting /\ NewestTaken)'
  OBVIOUS
<1> DEFINE inHand == AppFrame(pending.frame)
<1>t. TypeOK /\ FrameAccounting /\ NewestTaken /\ PendingInv /\ EndInv
  BY DEF Strong, Inv
<1>p. /\ queue \in Seq(Nat \ {0}) /\ delivered \in Seq(Nat \ {0}) /\ accepted \in 0..MaxFrames
      /\ pending \in Pendings /\ pending.frame \in Int /\ lost \subseteq 1..MaxFrames
      /\ Len(queue) \in Nat /\ DOMAIN queue = 1..Len(queue) /\ Len(queue) <= accepted
  BY <1>t DEF TypeOK, Pendings, NewestTaken
<1>k. Taken \in 0..MaxFrames /\ Taken + Len(queue) = accepted
  BY <1>p DEF Taken
<1>a. /\ Increasing(delivered)
      /\ \A i \in 1..Len(queue) : queue[i] = Taken + i
      /\ Elements(delivered) \cup lost \cup inHand = 1..Taken
      /\ Elements(delivered) \cap lost = {}
      /\ inHand \cap (Elements(delivered) \cup lost) = {}
      /\ pending.frame > Cover => pending.frame = Taken
  BY <1>t, <1>p DEF FrameAccounting, NewestTaken
<1>c. AppFrame(Cleared.frame) = {} /\ AppFrame(Cover) = {} /\ ~(Cleared.frame > Cover)
  BY ClearedIs DEF AppFrame, Cover, NoFrame
<1>s. ASSUME UNCHANGED <<queue, accepted, delivered, lost>>, pending'.frame = pending.frame
      PROVE  (FrameAccounting /\ NewestTaken)'
  BY <1>t, <1>s DEF FrameAccounting, NewestTaken, Taken
<1>1. CASE Disconnect \/ SetGate \/ Shutdown \/ Join
  BY <1>s, <1>1 DEF Disconnect, SetGate, Shutdown, Join, thread, history, shared
<1>2. CASE KernelDrains \/ PeerGone
  BY <1>s, <1>2 DEF KernelDrains, PeerGone, thread, history, shared
<1>3. CASE CheckKernel \/ CheckPeer \/ WouldBlock
  BY <1>s, <1>3 DEF CheckKernel, CheckPeer, WouldBlock, Goto, history, shared
<1>4. CASE UNCHANGED vars
  BY <1>s, <1>4 DEF vars, shared, thread, history
\* A frame is sent, to the channel or to a thread that has ended.
<1>5. CASE Send
  <2>1. UNCHANGED <<pending, delivered>> /\ accepted' = accepted + 1
    BY <1>5 DEF Send, thread
  <2>2. CASE pc = "done"
    <3>1. queue = <<>> /\ inHand = {} /\ Len(queue) = 0
      BY <1>t, <1>c, <2>2 DEF PendingInv, EndInv
    <3>2. queue' = queue /\ lost' = lost \cup {accepted + 1}
      BY <1>5, <2>1, <2>2 DEF Send
    <3>3. Taken' = Taken + 1 /\ accepted = Taken
      BY <1>p, <1>k, <2>1, <3>1, <3>2 DEF Taken
    <3>4. ~(pending.frame > Cover)
      BY <3>1 DEF AppFrame
    <3>5. Taken + 1 \notin Elements(delivered)
      BY <1>a, <1>k
    <3>6. Elements(delivered) \cup lost' \cup inHand = 1..(Taken + 1)
      BY <1>a, <1>k, <3>2, <3>3
    <3> QED
      BY <1>p, <1>a, <2>1, <3>1, <3>2, <3>3, <3>4, <3>5, <3>6
         DEF FrameAccounting, NewestTaken
  <2>3. CASE pc # "done"
    <3>1. queue' = Append(queue, accepted + 1) /\ lost' = lost
      BY <1>5, <2>1, <2>3 DEF Send
    <3>2. /\ Len(queue') = Len(queue) + 1 /\ DOMAIN queue' = 1..(Len(queue) + 1)
          /\ queue'[Len(queue) + 1] = accepted + 1
          /\ \A i \in 1..Len(queue) : queue'[i] = queue[i]
      BY <1>p, <3>1, AppendProperties
    <3>3. Taken' = Taken
      BY <1>p, <2>1, <3>2 DEF Taken
    <3>4. \A i \in DOMAIN queue' : queue'[i] = Taken + i
      <4>1. ASSUME NEW i \in 1..Len(queue) PROVE queue'[i] = Taken + i
        BY <1>a, <3>2, <4>1
      <4>2. queue'[Len(queue) + 1] = Taken + (Len(queue) + 1)
        <5>1. Taken \in Int /\ Len(queue) \in Int /\ accepted \in Int
          BY <1>p, <1>k
        <5>2. Taken + Len(queue) = accepted
          BY <1>k
        <5>3. Taken + (Len(queue) + 1) = accepted + 1
          BY <5>1, <5>2
        <5> QED
          BY <3>2, <5>3
      <4>3. \A i \in 1..(Len(queue) + 1) : i \in 1..Len(queue) \/ i = Len(queue) + 1
        BY <1>p
      <4> QED
        BY <3>2, <4>1, <4>2, <4>3
    <3>5. FrameAccounting'
      BY <1>a, <2>1, <3>1, <3>3, <3>4 DEF FrameAccounting
    <3>6. Len(queue') <= accepted'
      BY <1>p, <2>1, <3>2
    <3> QED
      BY <1>a, <2>1, <3>3, <3>5, <3>6 DEF NewestTaken
  <2> QED
    BY <2>2, <2>3
\* The thread ends: what is left in the channel and in hand is lost.
<1>6. CASE Exit
  <2>1. /\ queue' = <<>> /\ pending' = Cleared /\ UNCHANGED <<accepted, delivered>>
        /\ lost' = lost \cup Elements(queue) \cup inHand
    BY <1>6 DEF Exit
  <2>2. Len(queue') = 0 /\ DOMAIN queue' = {} /\ Taken' = accepted
    BY <1>p, <2>1 DEF Taken
  <2>3. Elements(queue) = (Taken + 1)..accepted
    <3>1. \A i \in DOMAIN queue : queue[i] \in (Taken + 1)..accepted
      BY <1>p, <1>a, <1>k
    <3>2. \A f \in (Taken + 1)..accepted : f - Taken \in DOMAIN queue /\ queue[f - Taken] = f
      BY <1>p, <1>a, <1>k
    <3> QED
      BY <3>1, <3>2 DEF Elements
  <2>4. Elements(delivered) \cup lost' = 1..accepted /\ Elements(delivered) \cap lost' = {}
    BY <1>p, <1>a, <1>k, <2>1, <2>3
  <2> QED
    BY <1>p, <1>a, <1>c, <2>1, <2>2, <2>4 DEF FrameAccounting, NewestTaken
<1>7. CASE LoopTop
  BY <1>s, <1>7 DEF LoopTop, Goto, shared, history
<1>8. CASE Guillotine \/ PublishFault
  <2>1. pending'.frame = pending.frame
    BY <1>t, <1>8 DEF Guillotine, PublishFault, PendingInv
  <2> QED
    BY <1>s, <1>8, <2>1 DEF Guillotine, PublishFault, shared, history
\* A frame is taken from the channel, or cover made up.
<1>9. CASE Pick
  <2>1. UNCHANGED <<accepted, delivered, lost>>
    BY <1>9 DEF Pick, Goto, history
  <2>2. CASE UNCHANGED <<queue, pending>>
    BY <1>s, <2>1, <2>2
  <2>3. CASE ~pending.active /\ pending' = Activated(Cover) /\ queue' = queue
    <3>1. pending'.frame = Cover /\ inHand = {}
      BY <1>t, <1>c, <2>3 DEF PendingInv, Activated
    <3>2. Taken' = Taken
      BY <2>1, <2>3 DEF Taken
    <3>3. ~(pending'.frame > Cover)
      BY <3>1 DEF Cover
    <3> QED
      BY <1>p, <1>a, <1>c, <2>1, <2>3, <3>1, <3>2, <3>3 DEF FrameAccounting, NewestTaken
  <2>4. CASE ~pending.active /\ queue # <<>> /\ pending' = Activated(Head(queue))
             /\ queue' = Tail(queue)
    <3>1. /\ Len(queue) > 0 /\ Head(queue) = queue[1] /\ Len(queue') = Len(queue) - 1
          /\ DOMAIN queue' = 1..(Len(queue) - 1)
          /\ \A i \in 1..(Len(queue) - 1) : queue'[i] = queue[i + 1]
      BY <1>p, <2>4, HeadTailProperties
    <3>2. pending'.frame = Taken + 1 /\ inHand = {}
      BY <1>t, <1>p, <1>a, <1>c, <2>4, <3>1 DEF PendingInv, Activated
    <3>3. Taken' = Taken + 1
      BY <1>p, <2>1, <3>1 DEF Taken
    <3>4. AppFrame(pending'.frame) = {Taken + 1}
      BY <1>k, <3>2 DEF AppFrame, Cover
    <3>5. \A i \in DOMAIN queue' : queue'[i] = Taken' + i
      <4>1. ASSUME NEW i \in 1..(Len(queue) - 1) PROVE queue'[i] = Taken + 1 + i
        <5>1. i + 1 \in 1..Len(queue) /\ queue'[i] = queue[i + 1]
          BY <1>p, <3>1
        <5>2. queue[i + 1] = Taken + (i + 1)
          BY <1>a, <5>1
        <5> QED
          BY <1>k, <5>1, <5>2
      <4> QED
        BY <3>1, <3>3, <4>1
    <3>6. Elements(delivered) \cup lost \cup {Taken + 1} = 1..(Taken + 1)
      BY <1>a, <1>k, <3>2
    <3>7. Taken + 1 \notin Elements(delivered) \cup lost
      BY <1>a, <1>k
    <3> QED
      BY <1>p, <1>a, <1>k, <2>1, <3>1, <3>2, <3>3, <3>4, <3>5, <3>6, <3>7
         DEF FrameAccounting, NewestTaken
  <2> QED
    BY <1>9, <2>2, <2>3, <2>4 DEF Pick, Goto, shared
\* The last byte of a frame is out, or a part of it.
<1>10. ASSUME NEW n \in 1..FrameLen, Wrote(n) PROVE (FrameAccounting /\ NewestTaken)'
  <2>1. /\ UNCHANGED <<queue, accepted, lost>> /\ pending' = Advance(n)
        /\ pending.active
        /\ delivered' = IF pending.frame > Cover /\ ~Advance(n).active
                          THEN Append(delivered, pending.frame) ELSE delivered
    BY <1>t, <1>10 DEF Wrote, shared, PendingInv
  <2>2. Taken' = Taken
    BY <2>1 DEF Taken
  <2>3. \/ Advance(n) = Cleared
        \/ Advance(n).active /\ Advance(n).frame = pending.frame
    <3>1. pending.offset \in Int
      BY <1>p DEF Pendings
    <3>2. CASE pending.offset + n >= FrameLen
      BY <1>p, <3>2, AdvanceIsTyped
    <3>3. CASE pending.offset + n < FrameLen
      <4>1. Advance(n).active = pending.active /\ Advance(n).frame = pending.frame
        BY <1>p, <3>3, AdvanceIsTyped
      <4> QED
        BY <2>1, <4>1
    <3> QED
      BY <3>1, <3>2, <3>3
  <2>4. CASE Advance(n).active /\ Advance(n).frame = pending.frame
    BY <1>s, <2>1, <2>4
  <2>5. CASE Advance(n) = Cleared /\ ~(pending.frame > Cover)
    <3>1. inHand = {} /\ delivered' = delivered /\ pending' = Cleared
      BY <2>1, <2>5 DEF AppFrame
    <3> QED
      BY <1>p, <1>a, <1>c, <2>1, <2>2, <3>1 DEF FrameAccounting, NewestTaken
  <2>6. CASE Advance(n) = Cleared /\ pending.frame > Cover
    <3>1. pending.frame = Taken /\ inHand = {Taken} /\ Taken \in Nat \ {0}
      BY <1>p, <1>a, <1>k, <2>6 DEF AppFrame, Cover
    <3>2. delivered' = Append(delivered, Taken) /\ pending' = Cleared
      BY <2>1, <2>6, <3>1, ClearedIs
    <3>3. \A i \in DOMAIN delivered : delivered[i] < Taken
      <4>1. ASSUME NEW i \in DOMAIN delivered PROVE delivered[i] < Taken
        <5>1. delivered[i] \in Elements(delivered)
          BY DEF Elements
        <5> QED
          BY <1>a, <1>k, <3>1, <5>1
      <4> QED
        BY <4>1
    <3>4. Increasing(delivered') /\ Elements(delivered') = Elements(delivered) \cup {Taken}
      BY <1>p, <1>a, <3>1, <3>2, <3>3, AppendDelivered
    <3>5. /\ Elements(delivered') \cup lost = 1..Taken
          /\ Elements(delivered') \cap lost = {}
      BY <1>a, <3>1, <3>4
    <3> QED
      BY <1>p, <1>a, <1>c, <2>1, <2>2, <3>2, <3>4, <3>5 DEF FrameAccounting, NewestTaken
  <2> QED
    BY <2>3, <2>4, <2>5, <2>6
\* The frame in hand is given up.
<1>11. CASE Broken \/ Fatal
  <2>1. /\ UNCHANGED <<queue, accepted, delivered>> /\ pending' = Cleared
        /\ lost' = lost \cup inHand
    BY <1>11 DEF Broken, Fatal, shared
  <2>2. Taken' = Taken
    BY <2>1 DEF Taken
  <2>3. Elements(delivered) \cup lost' = 1..Taken /\ Elements(delivered) \cap lost' = {}
    BY <1>a, <2>1
  <2> QED
    BY <1>p, <1>a, <1>c, <2>1, <2>2, <2>3 DEF FrameAccounting, NewestTaken
<1> QED
  BY <1>1, <1>2, <1>3, <1>4, <1>5, <1>6, <1>7, <1>8, <1>9, <1>10, <1>11
     DEF Next, Tick, Others

\* Whatever the frame length, the buffer, the socket and the order of the threads' steps:
\* every frame ever sent is delivered once and in order, lost, in hand or queued
\* (drain_pending, tick); each byte written is the one the far end waits for; and a closed
\* gate lets at most the frame of the tick in progress out.
THEOREM InvHolds == Spec => []Inv
<1>1. Strong /\ [Next]_vars => Strong'
  BY TypeStep, PlacesStep, GateStep, LineStep, AccountStep DEF Strong, Inv
<1>2. Strong => Inv
  BY DEF Strong
<1> QED
  BY InitStrong, <1>1, <1>2, PTL DEF Spec

\* Once the owner can see the fault, or shutdown() has returned, the key is erased and not
\* one more byte is written: the thread has left its loop by then, and does not go back.
THEOREM NothingAfterTheEnd == Spec => SilentAfterEnd
<1>1. Strong /\ [Next]_vars => Strong'
  BY TypeStep, PlacesStep, GateStep, LineStep, AccountStep DEF Strong, Inv
<1>2. Strong /\ [Next]_vars =>
        [faulted \/ joined => aep = "zeroized" /\ ~\E n \in 1..FrameLen : Wrote(n)]_vars
  <2> SUFFICES ASSUME Strong, faulted \/ joined
               PROVE  aep = "zeroized" /\ ~\E n \in 1..FrameLen : Wrote(n)
    OBVIOUS
  <2>1. pc \in {"exit", "done"} /\ aep = "zeroized"
    BY DEF Strong, EndInv
  <2> QED
    BY <2>1 DEF Wrote
<1> QED
  BY InitStrong, <1>1, <1>2, PTL DEF Spec, SilentAfterEnd

\* The frame on the abstract line.
Line == [frame |-> pending.frame, sent |-> pending.offset]

\* Every step of the bridge is a step of the abstract wire, or none.
LEMMA WireStep == Strong /\ [Next]_vars => [Wire!Next]_(Wire!wireVars)
<1> SUFFICES ASSUME Strong, [Next]_vars PROVE [Wire!Next]_(Wire!wireVars)
  OBVIOUS
<1>t. TypeOK /\ FrameAccounting /\ NewestTaken /\ PendingInv /\ EndInv
  BY DEF Strong, Inv
<1>p. /\ pending \in Pendings /\ pending.frame \in Int /\ pending.offset \in 0..(FrameLen - 1)
      /\ accepted \in 0..MaxFrames
  BY <1>t DEF TypeOK, Pendings
<1>c. /\ [frame |-> Cleared.frame, sent |-> Cleared.offset] = Wire!Idle
      /\ pending.active => Line # Wire!Idle
  <2>1. pending.active => pending.frame # NoFrame
    BY <1>t, <1>p DEF PendingInv, Cover, NoFrame
  <2> QED
    BY <2>1, ClearedIs DEF Wire!Idle, Wire!NoFrame, NoFrame, Line
<1>s. ASSUME UNCHANGED <<queue, pending, delivered, lost>>, (pc' = "done") <=> (pc = "done")
      PROVE  UNCHANGED Wire!wireVars
  BY <1>s DEF Wire!wireVars
<1>1. CASE Disconnect \/ SetGate \/ Shutdown \/ Join \/ KernelDrains \/ PeerGone
  BY <1>s, <1>1 DEF Disconnect, SetGate, Shutdown, Join, KernelDrains, PeerGone,
                    thread, history, shared
<1>2. CASE CheckKernel \/ CheckPeer \/ WouldBlock
  BY <1>s, <1>2 DEF CheckKernel, CheckPeer, WouldBlock, Goto, history, shared
<1>3. CASE UNCHANGED vars
  BY <1>s, <1>3 DEF vars, shared, thread, history
\* A frame is sent: it is younger than every other one.
<1>4. CASE Send
  <2>1. /\ accepted' = accepted + 1 /\ accepted < MaxFrames
        /\ UNCHANGED <<pending, delivered>> /\ pc' = pc
        /\ IF pc = "done"
             THEN lost' = lost \cup {accepted + 1} /\ UNCHANGED queue
             ELSE queue' = Append(queue, accepted + 1) /\ UNCHANGED lost
    BY <1>4 DEF Send, thread
  <2>2. accepted + 1 \in 1..MaxFrames
    BY <1>p, <2>1
  <2>3. /\ Len(queue) \in Nat /\ DOMAIN queue = 1..Len(queue)
        /\ Taken \in 0..accepted /\ Taken + Len(queue) = accepted
    BY <1>t, <1>p DEF TypeOK, NewestTaken, Taken
  <2>4. \A g \in Elements(delivered) \cup lost \cup {pending.frame} : g < accepted + 1
    <3>1. \A g \in Elements(delivered) \cup lost : g \in 1..Taken
      BY <1>t DEF FrameAccounting
    <3>2. pending.frame < accepted + 1
      BY <1>t, <1>p, <2>3 DEF NewestTaken, Cover
    <3> QED
      BY <1>p, <2>3, <3>1, <3>2
  <2>5. \A g \in Wire!Elements(queue \o delivered) : g < accepted + 1
    <3> SUFFICES ASSUME NEW i \in DOMAIN (queue \o delivered)
                 PROVE  (queue \o delivered)[i] < accepted + 1
      BY DEF Wire!Elements
    <3>1. /\ queue \in Seq(Nat \ {0}) /\ delivered \in Seq(Nat \ {0})
          /\ Len(delivered) \in Nat /\ DOMAIN delivered = 1..Len(delivered)
      BY <1>t DEF TypeOK
    <3>2. /\ i \in 1..(Len(queue) + Len(delivered))
          /\ (queue \o delivered)[i] = IF i <= Len(queue) THEN queue[i]
                                       ELSE delivered[i - Len(queue)]
      BY <2>3, <3>1, ConcatProperties
    <3>3. CASE i <= Len(queue)
      <4>1. i \in DOMAIN queue /\ (queue \o delivered)[i] = queue[i]
        BY <2>3, <3>2, <3>3
      <4>2. queue[i] = Taken + i
        BY <1>t, <4>1 DEF FrameAccounting
      <4> QED
        BY <1>p, <2>3, <3>2, <3>3, <4>1, <4>2
    <3>4. CASE i > Len(queue)
      <4>1. i - Len(queue) \in DOMAIN delivered
        BY <2>3, <3>1, <3>2, <3>4
      <4>2. (queue \o delivered)[i] = delivered[i - Len(queue)]
        BY <2>3, <3>2, <3>4
      <4>3. delivered[i - Len(queue)] \in Elements(delivered)
        BY <4>1 DEF Elements
      <4> QED
        BY <2>4, <4>2, <4>3
    <3> QED
      BY <2>3, <3>2, <3>3, <3>4
  <2>6. \A g \in Wire!Elements(queue \o delivered) \cup lost \cup {Line.frame} : g < accepted + 1
    BY <2>4, <2>5 DEF Line
  <2>7. Wire!Accept
    BY <2>1, <2>2, <2>6 DEF Wire!Accept, Line
  <2> QED
    BY <2>7 DEF Wire!Next
\* The thread ends: the line stops.
<1>5. CASE Exit
  <2>1. Wire!Stop
    BY <1>5, <1>c DEF Exit, Wire!Stop, Wire!AppFrame, AppFrame, Wire!Cover, Cover,
                      Wire!Elements, Elements
  <2> QED
    BY <2>1 DEF Wire!Next
<1>6. CASE LoopTop
  BY <1>s, <1>6 DEF LoopTop, Goto, shared, history
<1>7. CASE Guillotine \/ PublishFault
  <2>1. pending' = pending
    BY <1>t, <1>7 DEF Guillotine, PublishFault, PendingInv
  <2> QED
    BY <1>s, <1>7, <2>1 DEF Guillotine, PublishFault, shared, history
\* A frame is put in hand: it begins on the line.
<1>8. CASE Pick
  <2>1. pc = "pick" /\ pc' \in {"write", "loop"} /\ UNCHANGED <<delivered, lost>>
    BY <1>8 DEF Pick, Goto, history
  <2>2. ~pending.active => Line = Wire!Idle
    BY <1>t, <1>c DEF PendingInv, Line
  <2>3. CASE UNCHANGED <<queue, pending>>
    BY <1>s, <2>1, <2>3
  <2>4. CASE ~pending.active /\ queue # <<>> /\ pending' = Activated(Head(queue))
             /\ queue' = Tail(queue)
    <3>1. Wire!Begin
      BY <2>1, <2>2, <2>4 DEF Wire!Begin, Line, Activated
    <3> QED
      BY <3>1 DEF Wire!Next
  <2>5. CASE ~pending.active /\ queue = <<>> /\ pending' = Activated(Cover) /\ queue' = queue
    <3>1. Wire!Begin
      BY <2>1, <2>2, <2>5 DEF Wire!Begin, Line, Activated, Cover, Wire!Cover
    <3> QED
      BY <3>1 DEF Wire!Next
  <2> QED
    BY <1>8, <2>3, <2>4, <2>5 DEF Pick, Goto, shared
\* Bytes go out: the next ones of the frame on the line.
<1>9. ASSUME NEW n \in 1..FrameLen, Wrote(n) PROVE [Wire!Next]_(Wire!wireVars)
  <2>1. /\ pc = "write" /\ pc' \in {"write", "loop"} /\ UNCHANGED <<queue, lost>>
        /\ pending' = Advance(n) /\ n \in Writable
        /\ delivered' = IF pending.frame > Cover /\ ~Advance(n).active
                          THEN Append(delivered, pending.frame) ELSE delivered
    BY <1>9 DEF Wrote, shared
  <2>2. pending.active /\ pending.frame >= Cover /\ Line # Wire!Idle
    BY <1>t, <1>c, <2>1 DEF PendingInv
  <2>3. pending.offset + n <= FrameLen
    BY <1>p, <2>1 DEF Writable, Remaining
  <2>4. CASE pending.offset + n < FrameLen
    <3>1. /\ pending'.frame = pending.frame /\ pending'.offset = pending.offset + n
          /\ delivered' = delivered
      BY <1>p, <2>1, <2>2, <2>4, AdvanceIsTyped
    <3>2. [frame |-> pending'.frame, sent |-> pending'.offset]
            = [Line EXCEPT !.sent = pending.offset + n]
      BY <3>1 DEF Line
    <3>3. pending.offset + n \in (Line.sent + 1)..FrameLen
      BY <1>p, <2>4 DEF Line
    <3>4. Wire!Emit
      BY <2>1, <2>2, <2>4, <3>1, <3>2, <3>3 DEF Wire!Emit, Line
    <3> QED
      BY <3>4 DEF Wire!Next
  <2>5. CASE pending.offset + n = FrameLen
    <3>1. pending' = Cleared
      BY <1>p, <2>1, <2>5, AdvanceIsTyped
    <3>2. delivered' = IF pending.frame = Cover THEN delivered
                       ELSE Append(delivered, pending.frame)
      BY <1>p, <2>1, <2>2, <3>1, ClearedIs DEF Cover
    <3>3. FrameLen \in (Line.sent + 1)..FrameLen /\ ~(FrameLen < FrameLen)
      BY <1>p DEF Line
    <3>4. Wire!Emit
      BY <1>c, <2>1, <2>2, <3>1, <3>2, <3>3 DEF Wire!Emit, Line, Cover, Wire!Cover
    <3> QED
      BY <3>4 DEF Wire!Next
  <2> QED
    BY <1>p, <2>3, <2>4, <2>5
\* The frame in hand is given up with its remainder.
<1>10. CASE (Broken \/ Fatal) /\ pending.active
  <2>1. Wire!GiveUp
    BY <1>c, <1>10 DEF Broken, Fatal, shared, Wire!GiveUp, Line, Wire!AppFrame, AppFrame,
                       Wire!Cover, Cover
  <2> QED
    BY <2>1 DEF Wire!Next
<1>11. Broken \/ Fatal => pending.active
  BY <1>t DEF Broken, Fatal, PendingInv
<1> QED
  BY <1>1, <1>2, <1>3, <1>4, <1>5, <1>6, <1>7, <1>8, <1>9, <1>10, <1>11
     DEF Next, Tick, Others

\* The thread, its partial writes, its gates and its failures are an implementation of the
\* paced wire: frames in the order of acceptance, one at a time and from the first byte on,
\* given up only with the whole remainder, and nothing after the stop.
THEOREM RefinesFrameWire == Spec => ImplementsFrameWire
<1>1. Init => Wire!Init
  BY ClearedIs DEF Init, Wire!Init, Wire!Idle, Wire!NoFrame, NoFrame
<1>2. Strong /\ [Next]_vars => Strong'
  BY TypeStep, PlacesStep, GateStep, LineStep, AccountStep DEF Strong, Inv
<1> QED
  BY InitStrong, WireStep, <1>1, <1>2, PTL DEF Spec, ImplementsFrameWire, Wire!Spec
===============================================================================
