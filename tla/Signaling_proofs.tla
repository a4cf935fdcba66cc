--------------------------- MODULE Signaling_proofs ---------------------------
(***************************************************************************)
(* For any number of recipients and signals and any channel: the daemon's  *)
(* signaler has every signal in one place and attempts them in order, each *)
(* once; once muted and asleep it attempts nothing; and a listener gives   *)
(* up only after its deadline.                                             *)
(***************************************************************************)
EXTENDS Signaling, SequenceTheorems, TLAPS

\* Signals attempted, in the hands of the burst and waiting, place by place.
Gone == Len(tried) + IF held = 0 THEN 0 ELSE 1

Placed ==
  /\ tried \in Seq(Nat) /\ queue \in Seq(Nat)
  /\ \A i \in 1..Len(tried) : tried[i] = i
  /\ held # 0 => held = Len(tried) + 1
  /\ \A i \in 1..Len(queue) : queue[i] = Gone + i
  /\ queued = Gone + Len(queue)

\* Only what was attempted was sent, and nobody gives up early.
Answered ==
  /\ \A n \in sent : n \in 1..Len(tried)
  /\ answer = "timeout" => expired

\* Muted and asleep: what settled says of the present.
SettledInv == settled => ~tor_active /\ burst = "sleep"

\* The inductive invariant.
IInv ==
  /\ TypeOK /\ channel \in Seq({"signal", "other", "garbled"})
  /\ Placed /\ Answered /\ SettledInv

LEMMA InitIInv == Init => IInv
<1> SUFFICES ASSUME Init PROVE IInv
  OBVIOUS
<1>1. MaxSignals \in Nat /\ ChannelSize \in Nat
  BY SignalingAssumption DEF SignalingAssumption
<1>2. TypeOK
  <2>1. /\ tor \in {"ready", "blocked", "stalled"} /\ monitor \in {"starting", "watching"}
        /\ link \in {"down", "handshake", "connecting", "up"}
        /\ burst \in {"sleep", "lock", "pop", "wrap"} /\ burst # "wrap"
        /\ listener \in {"idle", "subscribe", "attach", "check", "receive", "returned"}
        /\ answer \in {"none", "signal", "timeout", "error"}
    BY DEF Init
  <2>2. news \in BOOLEAN /\ tor_active \in BOOLEAN /\ settled \in BOOLEAN /\ expired \in BOOLEAN
    BY Zenon DEF Init
  <2>3. /\ queued \in 0..MaxSignals /\ held \in 0..queued /\ held = 0
        /\ sent \subseteq 1..queued /\ frozen \subseteq 0..(Peers - 1)
    BY <1>1 DEF Init
  <2>4. Len(channel) <= ChannelSize
    <3>1. channel = <<>> /\ Len(<<>>) = 0
      BY DEF Init
    <3> QED
      BY <1>1, <3>1
  <2> QED
    BY <2>1, <2>2, <2>3, <2>4 DEF TypeOK
<1>3. Placed
  <2>1. tried = <<>> /\ queue = <<>> /\ held = 0 /\ queued = 0
    BY DEF Init
  <2> QED
    BY <2>1 DEF Placed, Gone
<1>4. Answered /\ SettledInv /\ channel \in Seq({"signal", "other", "garbled"})
  BY DEF Init, Answered, SettledInv
<1> QED
  BY <1>2, <1>3, <1>4 DEF IInv

-----------------------------------------------------------------------------

\* The monitor's and the connection's variables.
LEMMA TorTypes ==
  ASSUME TypeOK, [Next]_vars
  PROVE  /\ tor' \in {"ready", "blocked", "stalled"} /\ monitor' \in {"starting", "watching"}
         /\ news' \in BOOLEAN /\ tor_active' \in BOOLEAN /\ settled' \in BOOLEAN
         /\ link' \in {"down", "handshake", "connecting", "up"}
<1>t. /\ tor \in {"ready", "blocked", "stalled"} /\ monitor \in {"starting", "watching"}
      /\ news \in BOOLEAN /\ tor_active \in BOOLEAN /\ settled \in BOOLEAN
      /\ link \in {"down", "handshake", "connecting", "up"}
  BY DEF TypeOK
<1>1. settled' \in BOOLEAN
  <2>1. CASE Settle
    BY <2>1 DEF Settle
  <2>2. CASE UNCHANGED vars
    BY <1>t, <2>2 DEF vars
  <2> QED
    BY <2>1, <2>2 DEF Next
<1>2. /\ tor' \in {"ready", "blocked", "stalled"} /\ monitor' \in {"starting", "watching"}
      /\ news' \in BOOLEAN /\ tor_active' \in BOOLEAN
  <2>1. CASE TorChanges
    BY <1>t, <2>1 DEF TorChanges
  <2>2. CASE MonitorStarts
    BY <1>t, <2>2 DEF MonitorStarts
  <2>3. CASE MonitorSees
    <3>1. Verdict \in BOOLEAN
      BY <1>t DEF Verdict
    <3> QED
      BY <1>t, <2>3, <3>1 DEF MonitorSees
  <2>4. CASE UNCHANGED torVars
    BY <1>t, <2>4 DEF torVars
  <2> QED
    BY <2>1, <2>2, <2>3, <2>4 DEF Next, Monitor, Linking, Connect, Handshake, TorConnect,
       Disconnect, linkOnly, queue_signal, Bursting, BurstWakes, BurstLocks, Pop, Wrap, Thaw,
       Listen, Arrive, DeadlinePasses, Listening, Subscribe, Attach, CheckDeadline, Receive,
       listenOnly, vars
<1>3. link' \in {"down", "handshake", "connecting", "up"}
  <2>1. CASE Connect \/ Handshake \/ TorConnect \/ Disconnect
    BY <2>1 DEF Connect, Handshake, TorConnect, Disconnect
  <2>2. CASE link' = link
    BY <1>t, <2>2
  <2> QED
    BY <2>1, <2>2 DEF Next, TorChanges, Monitor, MonitorStarts, MonitorSees, Linking,
       queue_signal, Bursting, BurstWakes, BurstLocks, Pop, Wrap, Thaw, Listen, Arrive,
       DeadlinePasses, Listening, Subscribe, Attach, CheckDeadline, Receive, listenOnly, vars
<1> QED
  BY <1>1, <1>2, <1>3

\* Everything the senders share is left alone by monitor, connection and listener, and the
\* other way round.
LEMMA OthersKeepOut ==
  ASSUME [Next]_vars
  PROVE  \/ queue_signal \/ BurstWakes \/ BurstLocks \/ Pop \/ Wrap \/ Thaw
         \/ UNCHANGED sendVars
  BY DEF Next, TorChanges, Monitor, MonitorStarts, MonitorSees, Linking, Connect, Handshake,
     TorConnect, Disconnect, linkOnly, Bursting, Listen, Arrive, DeadlinePasses, Listening,
     Subscribe, Attach, CheckDeadline, Receive, listenOnly, vars

LEMMA ListenersAlone ==
  ASSUME [Next]_vars
  PROVE  \/ Listen \/ Subscribe \/ Attach \/ Arrive \/ DeadlinePasses \/ CheckDeadline
         \/ Receive \/ UNCHANGED listenVars
  BY DEF Next, TorChanges, Monitor, MonitorStarts, MonitorSees, Linking, Connect, Handshake,
     TorConnect, Disconnect, linkOnly, queue_signal, Bursting, BurstWakes, BurstLocks, Pop,
     Wrap, Thaw, Listening, vars

\* What pop_front takes.
LEMMA PoppedIs == Popped[1] = Head(queue) /\ Popped[2] = Tail(queue)
  BY DEF Popped

LEMMA SendTypes ==
  ASSUME TypeOK, Placed, [Next]_vars
  PROVE  /\ queued' \in 0..MaxSignals /\ held' \in 0..queued'
         /\ (held' # 0 <=> burst' = "wrap")
         /\ sent' \subseteq 1..queued' /\ frozen' \subseteq 0..(Peers - 1)
         /\ burst' \in {"sleep", "lock", "pop", "wrap"}
<1>t. /\ queued \in 0..MaxSignals /\ held \in 0..queued /\ (held # 0 <=> burst = "wrap")
      /\ sent \subseteq 1..queued /\ frozen \subseteq 0..(Peers - 1)
      /\ burst \in {"sleep", "lock", "pop", "wrap"}
      /\ MaxSignals \in Nat /\ Peers \in Nat \ {0}
  BY SignalingAssumption DEF TypeOK, SignalingAssumption
<1>1. CASE queue_signal
  <2>1. /\ queued' = queued + 1 /\ queued < MaxSignals
        /\ UNCHANGED <<held, sent, burst, frozen>>
    BY <1>1 DEF queue_signal
  <2> QED
    BY <1>t, <2>1
<1>2. CASE BurstWakes \/ BurstLocks
  <2>1. /\ UNCHANGED <<queued, held, sent, frozen>> /\ burst # "wrap"
        /\ burst' \in {"lock", "pop"}
    BY <1>2 DEF BurstWakes, BurstLocks
  <2> QED
    BY <1>t, <2>1
<1>3. CASE Pop
  <2>1. CASE queue = <<>>
    <3>1. UNCHANGED <<queued, held, sent, frozen>> /\ burst = "pop" /\ burst' = "sleep"
      BY <1>3, <2>1 DEF Pop
    <3> QED
      BY <1>t, <3>1
  <2>2. CASE queue # <<>>
    <3>1. /\ UNCHANGED <<queued, sent>> /\ burst = "pop" /\ burst' = "wrap"
          /\ held' = Head(queue) /\ frozen' = frozen \cup {Peer(Head(queue))}
      BY <1>3, <2>2, PoppedIs DEF Pop
    <3>2. /\ Len(queue) \in Nat \ {0} /\ Len(tried) \in Nat /\ Head(queue) = queue[1]
          /\ held = 0
      BY <2>2, <3>1, <1>t DEF Placed
    <3>3. Head(queue) = Len(tried) + 1 /\ queued = Len(tried) + Len(queue)
      BY <3>2 DEF Placed, Gone
    <3>4. Head(queue) \in 1..queued
      BY <3>2, <3>3
    <3>5. Peer(Head(queue)) \in 0..(Peers - 1)
      BY <1>t, <3>4 DEF Peer
    <3>6. queued' \in 0..MaxSignals /\ held' \in 0..queued' /\ held' # 0
      BY <1>t, <3>1, <3>4
    <3>7. sent' \subseteq 1..queued' /\ frozen' \subseteq 0..(Peers - 1)
      BY <1>t, <3>1, <3>5
    <3> QED
      BY <3>1, <3>6, <3>7
  <2> QED
    BY <2>1, <2>2
<1>4. CASE Wrap
  <2>1. /\ UNCHANGED <<queued, frozen>> /\ held' = 0 /\ burst' = "pop" /\ burst = "wrap"
        /\ sent' = sent \/ sent' = sent \cup {held}
    BY <1>4 DEF Wrap, AfterWrap
  <2>2. held \in 1..queued
    BY <1>t, <2>1
  <2>3. queued' \in 0..MaxSignals /\ held' \in 0..queued' /\ (held' # 0 <=> burst' = "wrap")
    BY <1>t, <2>1
  <2>4. sent' \subseteq 1..queued' /\ frozen' \subseteq 0..(Peers - 1)
    BY <1>t, <2>1, <2>2
  <2> QED
    BY <2>1, <2>3, <2>4
<1>5. CASE Thaw
  BY <1>t, <1>5 DEF Thaw
<1>6. CASE UNCHANGED sendVars
  BY <1>t, <1>6 DEF sendVars
<1> QED
  BY OthersKeepOut, <1>1, <1>2, <1>3, <1>4, <1>5, <1>6

LEMMA ListenTypes ==
  ASSUME TypeOK, channel \in Seq({"signal", "other", "garbled"}), Answered, [Next]_vars
  PROVE  /\ listener' \in {"idle", "subscribe", "attach", "check", "receive", "returned"}
         /\ channel' \in Seq({"signal", "other", "garbled"})
         /\ Len(channel') <= ChannelSize /\ expired' \in BOOLEAN
         /\ answer' \in {"none", "signal", "timeout", "error"}
         /\ answer' = "timeout" => expired'
<1>t. /\ listener \in {"idle", "subscribe", "attach", "check", "receive", "returned"}
      /\ Len(channel) <= ChannelSize /\ expired \in BOOLEAN /\ ChannelSize \in Nat
      /\ answer \in {"none", "signal", "timeout", "error"}
      /\ answer = "timeout" => expired
  BY SignalingAssumption DEF TypeOK, Answered, SignalingAssumption
<1>1. CASE Listen \/ Subscribe \/ Attach
  <2>1. /\ UNCHANGED <<channel, expired>>
        /\ listener' \in {"idle", "subscribe", "attach", "check", "receive", "returned"}
        /\ answer' \in {answer, "error"}
    BY <1>1 DEF Listen, Subscribe, Attach
  <2> QED
    BY <1>t, <2>1
<1>2. CASE Arrive
  <2>1. PICK e \in {"signal", "other", "garbled"} : channel' = Append(channel, e)
    BY <1>2 DEF Arrive
  <2>2. Len(channel) < ChannelSize /\ UNCHANGED <<listener, expired, answer>>
    BY <1>2 DEF Arrive
  <2>3. Len(channel') = Len(channel) + 1 /\ Len(channel) \in Nat
    BY <2>1
  <2> QED
    BY <1>t, <2>1, <2>2, <2>3
<1>3. CASE DeadlinePasses
  BY <1>t, <1>3 DEF DeadlinePasses
<1>4. CASE CheckDeadline
  BY <1>t, <1>4 DEF CheckDeadline, TimedOut
<1>5. CASE Receive
  <2>1. CASE channel' = channel
    <3>1. expired' = expired
      BY <1>5 DEF Receive
    <3>2. listener' \in {"check", "returned"} /\ answer' \in {answer, "signal", "error"}
      BY <1>5 DEF Receive
    <3> QED
      BY <1>t, <2>1, <3>1, <3>2
  <2>2. CASE channel # <<>> /\ channel' = Tail(channel)
    <3>1. expired' = expired
      BY <1>5 DEF Receive
    <3>2. listener' \in {"check", "returned"} /\ answer' \in {answer, "signal", "error"}
      BY <1>5 DEF Receive
    <3>3. Len(channel') = Len(channel) - 1 /\ Len(channel) \in Nat
          /\ channel' \in Seq({"signal", "other", "garbled"})
      BY <2>2
    <3> QED
      BY <1>t, <3>1, <3>2, <3>3
  <2> QED
    BY <1>5, <2>1, <2>2 DEF Receive
<1>6. CASE UNCHANGED listenVars
  BY <1>t, <1>6 DEF listenVars
<1> QED
  BY ListenersAlone, <1>1, <1>2, <1>3, <1>4, <1>5, <1>6

\* Signals only move from the queue to the burst and from the burst to the attempts.
LEMMA PlacedStep ==
  ASSUME TypeOK, Placed, [Next]_vars
  PROVE  Placed'
<1>t. /\ tried \in Seq(Nat) /\ queue \in Seq(Nat) /\ held \in Nat /\ queued \in Nat
      /\ Len(tried) \in Nat /\ Len(queue) \in Nat
      /\ (held # 0 <=> burst = "wrap")
      /\ \A i \in 1..Len(tried) : tried[i] = i
      /\ held # 0 => held = Len(tried) + 1
      /\ \A i \in 1..Len(queue) : queue[i] = Gone + i
      /\ queued = Gone + Len(queue)
  BY SignalingAssumption DEF TypeOK, Placed, SignalingAssumption
<1>s. ASSUME UNCHANGED <<queued, queue, held, tried>> PROVE Placed'
  BY <1>s DEF Placed, Gone
<1>1. CASE queue_signal
  <2>1. UNCHANGED <<held, tried>> /\ queued' = queued + 1 /\ queue' = Append(queue, queued + 1)
    BY <1>1 DEF queue_signal
  <2>2. Gone' = Gone /\ Gone \in Nat
    BY <1>t, <2>1 DEF Gone
  <2>3. queue' \in Seq(Nat) /\ Len(queue') = Len(queue) + 1
    BY <1>t, <2>1
  <2>4. ASSUME NEW i \in 1..Len(queue') PROVE queue'[i] = Gone + i
    <3>1. CASE i = Len(queue) + 1
      BY <1>t, <2>1, <2>2, <3>1
    <3>2. CASE i \in 1..Len(queue)
      BY <1>t, <2>1, <3>2
    <3> QED
      BY <1>t, <2>3, <3>1, <3>2
  <2>5. queued' = Gone + Len(queue')
    BY <1>t, <2>1, <2>2, <2>3
  <2> QED
    BY <1>t, <2>1, <2>2, <2>3, <2>4, <2>5 DEF Placed
<1>2. CASE Pop
  <2>1. CASE queue = <<>>
    BY <1>2, <2>1, <1>s DEF Pop
  <2>2. CASE queue # <<>>
    <3>1. /\ UNCHANGED <<queued, tried>> /\ held = 0
          /\ held' = Head(queue) /\ queue' = Tail(queue)
      BY <1>t, <1>2, <2>2, PoppedIs DEF Pop
    <3>2. Gone = Len(tried) /\ Len(queue) \in Nat \ {0}
      BY <1>t, <2>2, <3>1 DEF Gone
    <3>3. held' = Len(tried) + 1
      BY <1>t, <2>2, <3>1, <3>2
    <3>4. Gone' = Len(tried) + 1
      BY <1>t, <3>1, <3>3 DEF Gone
    <3>5. /\ queue' \in Seq(Nat) /\ Len(queue') = Len(queue) - 1
          /\ \A i \in 1..Len(queue') : queue'[i] = queue[i + 1]
      BY <1>t, <2>2, <3>1
    <3>6. \A i \in 1..Len(queue') : queue'[i] = Gone' + i
      BY <1>t, <3>2, <3>4, <3>5
    <3>7. queued' = Gone' + Len(queue')
      BY <1>t, <3>1, <3>2, <3>4, <3>5
    <3> QED
      BY <1>t, <3>1, <3>3, <3>5, <3>6, <3>7 DEF Placed
  <2> QED
    BY <2>1, <2>2
<1>3. CASE Wrap
  <2>1. UNCHANGED <<queued, queue>> /\ held # 0 /\ held' = 0 /\ tried' = Append(tried, held)
    BY <1>t, <1>3 DEF Wrap
  <2>2. held = Len(tried) + 1 /\ Gone = Len(tried) + 1
    BY <1>t, <2>1 DEF Gone
  <2>3. tried' \in Seq(Nat) /\ Len(tried') = Len(tried) + 1
    BY <1>t, <2>1
  <2>4. Gone' = Gone
    BY <1>t, <2>1, <2>2, <2>3 DEF Gone
  <2>5. \A i \in 1..Len(tried') : tried'[i] = i
    BY <1>t, <2>1, <2>2, <2>3
  <2> QED
    BY <1>t, <2>1, <2>3, <2>4, <2>5 DEF Placed
<1>4. CASE BurstWakes \/ BurstLocks \/ Thaw
  BY <1>4, <1>s DEF BurstWakes, BurstLocks, Thaw
<1>5. CASE UNCHANGED sendVars
  BY <1>5, <1>s DEF sendVars
<1> QED
  BY OthersKeepOut, <1>1, <1>2, <1>3, <1>4, <1>5

LEMMA SentStep ==
  ASSUME TypeOK, Placed, Answered, [Next]_vars
  PROVE  \A n \in sent' : n \in 1..Len(tried')
<1>t. /\ tried \in Seq(Nat) /\ Len(tried) \in Nat /\ (held # 0 <=> burst = "wrap")
      /\ held # 0 => held = Len(tried) + 1
      /\ \A n \in sent : n \in 1..Len(tried)
  BY DEF TypeOK, Placed, Answered
<1>1. CASE Wrap
  <2>1. /\ tried' = Append(tried, held) /\ burst = "wrap"
        /\ sent' = sent \/ sent' = sent \cup {held}
    BY <1>1 DEF Wrap
  <2>2. Len(tried') = Len(tried) + 1 /\ held = Len(tried) + 1
    BY <1>t, <2>1
  <2> QED
    BY <1>t, <2>1, <2>2
<1>2. CASE UNCHANGED <<sent, tried>>
  BY <1>t, <1>2
<1> QED
  BY OthersKeepOut, <1>1, <1>2 DEF queue_signal, BurstWakes, BurstLocks, Pop, Thaw, sendVars

\* Muted, the burst task does not wake up.
LEMMA SettledStep ==
  ASSUME SettledInv, [Next]_vars
  PROVE  SettledInv'
<1>1. CASE UNCHANGED vars
  <2>1. UNCHANGED settled /\ UNCHANGED tor_active /\ UNCHANGED burst
    BY <1>1 DEF vars, torVars, sendVars
  <2> QED
    BY <2>1, Zenon DEF SettledInv
<1>2. CASE Settle
  <2>1. settled' => ~tor_active' /\ (burst' = "sleep" \/ settled)
    BY <1>2 DEF Settle
  <2>2. ASSUME settled, settled' PROVE burst' = "sleep"
    <3>1. burst = "sleep" /\ ~tor_active
      BY <2>2 DEF SettledInv
    <3> QED
      BY <3>1, OthersKeepOut DEF queue_signal, BurstWakes, MayBurst, is_muted, BurstLocks,
         Pop, Wrap, Thaw, sendVars
  <2> QED
    BY <2>1, <2>2 DEF SettledInv
<1> QED
  BY <1>1, <1>2 DEF Next

LEMMA IInvStep == IInv /\ [Next]_vars => IInv'
<1> SUFFICES ASSUME IInv, [Next]_vars PROVE IInv'
  OBVIOUS
<1>1. TypeOK'
  BY TorTypes, SendTypes, ListenTypes DEF IInv, TypeOK
<1>2. channel' \in Seq({"signal", "other", "garbled"}) /\ Answered'
  BY ListenTypes, SentStep DEF IInv, Answered
<1> QED
  BY <1>1, <1>2, PlacedStep, SettledStep DEF IInv

\* What the invariant says place by place, said of the whole sequence.
LEMMA PlacedAccounts ==
  ASSUME Placed, Answered, held \in Nat
  PROVE  Accounting
<1> DEFINE hand == IF held = 0 THEN <<>> ELSE <<held>>
           all == tried \o hand \o queue
           asQueued == [i \in 1..queued |-> i]
<1>t. /\ tried \in Seq(Nat) /\ queue \in Seq(Nat)
      /\ Len(tried) \in Nat /\ Len(queue) \in Nat
      /\ \A i \in 1..Len(tried) : tried[i] = i
      /\ held # 0 => held = Len(tried) + 1
      /\ \A i \in 1..Len(queue) : queue[i] = Gone + i
      /\ queued = Gone + Len(queue)
  BY DEF Placed
<1>1. /\ hand \in Seq(Nat) /\ Gone = Len(tried) + Len(hand) /\ Len(hand) \in Nat
      /\ \A i \in 1..Len(hand) : hand[i] = Len(tried) + i
  <2>1. CASE held = 0
    <3>1. hand = <<>>
      BY <2>1
    <3> QED
      BY <1>t, <2>1, <3>1 DEF Gone
  <2>2. CASE held # 0
    <3>1. hand = <<held>>
      BY <2>2
    <3> QED
      BY <1>t, <2>2, <3>1 DEF Gone
  <2> QED
    BY <2>1, <2>2
<1>2. /\ tried \o hand \in Seq(Nat) /\ Len(tried \o hand) = Gone
      /\ \A i \in 1..Gone : (tried \o hand)[i] = i
  <2> HIDE DEF hand
  <2>1. /\ tried \o hand \in Seq(Nat) /\ Len(tried \o hand) = Len(tried) + Len(hand)
        /\ \A i \in 1..Len(tried) + Len(hand) : (tried \o hand)[i] =
             IF i <= Len(tried) THEN tried[i] ELSE hand[i - Len(tried)]
    BY <1>t, <1>1, ConcatProperties, ZenonT(60)
  <2>2. ASSUME NEW i \in 1..Gone PROVE (tried \o hand)[i] = i
    <3>1. CASE i <= Len(tried)
      BY <1>t, <1>1, <2>1, <3>1
    <3>2. CASE i > Len(tried)
      <4>1. i - Len(tried) \in 1..Len(hand) /\ (tried \o hand)[i] = hand[i - Len(tried)]
        BY <1>t, <1>1, <2>1, <3>2
      <4> QED
        BY <1>t, <1>1, <4>1
    <3>3. i \in Int
      BY <1>t, <1>1
    <3>4. i <= Len(tried) \/ i > Len(tried)
      BY <1>t, <3>3
    <3> QED
      BY <3>1, <3>2, <3>4, Zenon
  <2> QED
    BY <1>1, <2>1, <2>2
<1>3. all \in Seq(Nat) /\ Len(all) = queued /\ \A i \in 1..queued : all[i] = i
  <2> DEFINE front == tried \o hand
  <2> HIDE DEF hand
  <2>f. front \in Seq(Nat) /\ Len(front) = Gone /\ \A i \in 1..Gone : front[i] = i
    BY <1>2
  <2> HIDE DEF front
  <2>1. /\ front \o queue \in Seq(Nat) /\ Len(front \o queue) = Len(front) + Len(queue)
        /\ \A i \in 1..Len(front) + Len(queue) : (front \o queue)[i] =
             IF i <= Len(front) THEN front[i] ELSE queue[i - Len(front)]
    BY <1>t, <2>f, ConcatProperties, ZenonT(60)
  <2>g. Gone \in Nat
    BY <2>f
  <2>2. ASSUME NEW i \in 1..queued PROVE (front \o queue)[i] = i
    <3>1. CASE i <= Gone
      BY <1>t, <2>f, <2>g, <2>1, <3>1
    <3>2. CASE i > Gone
      <4>1. i - Gone \in 1..Len(queue) /\ (front \o queue)[i] = queue[i - Gone]
        BY <1>t, <2>f, <2>g, <2>1, <3>2
      <4> QED
        BY <1>t, <2>g, <4>1
    <3>3. i \in Int
      BY <1>t, <2>g
    <3>4. i <= Gone \/ i > Gone
      BY <2>g, <3>3
    <3> QED
      BY <3>1, <3>2, <3>4, Zenon
  <2>3. all = front \o queue
    BY DEF front
  <2> QED
    BY <1>t, <2>f, <2>1, <2>2, <2>3
<1>4. all = asQueued
  <2> HIDE DEF all
  <2>1. asQueued \in [1..queued -> Nat] /\ \A i \in 1..queued : asQueued[i] = i
    BY <1>t
  <2>2. all \in [1..queued -> Nat]
    BY <1>3, LenProperties
  <2> HIDE DEF asQueued
  <2> QED
    BY <1>3, <2>1, <2>2
<1>5. \A n \in sent : \E i \in 1..Len(tried) : tried[i] = n
  BY <1>t DEF Answered
<1> QED
  BY <1>4, <1>5 DEF Accounting, Answered

-----------------------------------------------------------------------------

\* The types, and every signal in its place: attempted, in the hands of the burst or
\* waiting, in the order queued; what a relay took had been attempted; nobody gives up
\* before the deadline.
THEOREM InvHolds == Spec => []Inv
<1>1. IInv => Inv
  BY PlacedAccounts DEF IInv, Inv, Placed, TypeOK
<1> QED
  BY InitIInv, IInvStep, <1>1, PTL DEF Spec

\* Muted and asleep the signaler attempts nothing: the one burst that was under way when
\* the flag fell is the last, until the monitor has seen Tor ready again.
THEOREM NothingWhileMuted == Spec => MutedAfterTheBurst
<1>1. IInv /\ [Next]_vars => [settled /\ settled' => tried' = tried]_vars
  <2> SUFFICES ASSUME IInv, [Next]_vars, settled, settled'
               PROVE  tried' = tried
    BY Zenon
  <2>1. burst = "sleep"
    BY DEF IInv, SettledInv
  <2> QED
    BY <2>1, OthersKeepOut DEF queue_signal, BurstWakes, BurstLocks, Pop, Wrap, Thaw, sendVars
<1> QED
  BY InitIInv, IInvStep, <1>1, PTL DEF Spec, MutedAfterTheBurst

\* Seen from the relays, every step of the signaler is a signal accepted, the next signal
\* attempted, or nothing.
THEOREM AttemptsAreInOrder == Spec => ImplementsInOrderAttempts
<1>1. Init => Attempts!Init
  BY DEF Init, Attempts!Init
<1>2. IInv /\ [Next]_vars => [Attempts!Next]_Attempts!deliveryVars
  <2> SUFFICES ASSUME IInv, [Next]_vars
               PROVE  \/ Attempts!Next
                      \/ UNCHANGED <<queued, tried>>
    BY DEF Attempts!deliveryVars
  <2>1. CASE queue_signal
    BY <2>1 DEF queue_signal, Attempts!Next, Attempts!Send
  <2>2. CASE Wrap
    <3>1. /\ tried' = Append(tried, held) /\ held # 0 /\ queued' = queued
      BY <2>2 DEF Wrap, IInv, TypeOK
    <3>2. /\ tried \in Seq(Nat) /\ Len(tried) \in Nat /\ held = Len(tried) + 1
          /\ queued = Len(tried) + 1 + Len(queue) /\ Len(queue) \in Nat
          /\ \A i \in 1..Len(tried) : tried[i] = i
      BY <3>1 DEF IInv, Placed, Gone
    <3> DEFINE m == Len(tried) + 1
               next == [i \in 1..m |-> IF i <= Len(tried) THEN tried[i] ELSE i]
    <3>3. m \in Len(tried)..queued
      BY <3>2
    <3>4. /\ tried' \in [1..m -> Nat] /\ \A i \in 1..m : tried'[i] = i
      <4>1. tried' \in Seq(Nat) /\ Len(tried') = m
        BY <3>1, <3>2
      <4>2. \A i \in 1..m : tried'[i] = i
        BY <3>1, <3>2
      <4> QED
        BY <4>1, <4>2, LenProperties
    <3>5. next \in [1..m -> Nat] /\ \A i \in 1..m : next[i] = i
      BY <3>2
    <3>6. tried' = next
      <4> HIDE DEF next
      <4> QED
        BY <3>4, <3>5
    <3> QED
      BY <3>1, <3>3, <3>6 DEF Attempts!Next, Attempts!Deliver
  <2>3. CASE BurstWakes \/ BurstLocks \/ Pop \/ Thaw
    BY <2>3 DEF BurstWakes, BurstLocks, Pop, Thaw
  <2>4. CASE UNCHANGED sendVars
    BY <2>4 DEF sendVars
  <2> QED
    BY OthersKeepOut, <2>1, <2>2, <2>3, <2>4
<1> QED
  BY InitIInv, IInvStep, <1>1, <1>2, PTL DEF Spec, ImplementsInOrderAttempts, Attempts!Spec
===============================================================================
