---------------------------- MODULE CausalBuffer ----------------------------
(***************************************************************************)
(* The daemon's causal buffer (causal_buffer.rs), which puts the packets   *)
(* of a peer back into tick order, over a network that reorders, repeats   *)
(* and delays them.  A payload is identified by its tick: the buffer never *)
(* looks into it.                                                          *)
(***************************************************************************)
EXTENDS Integers, Sequences, FiniteSets

CONSTANTS
  Horizon,     \* horizon_threshold: 50 in the code
  MaxBuffer,   \* max_buffer_size: 10_000 by default, with_max_buffer sets it
  MaxTick      \* bound: ticks the peer sends

ASSUME CausalAssumption ==
  /\ Horizon \in Nat \ {0}
  /\ MaxBuffer \in Nat
  /\ MaxTick \in Nat

VARIABLES
  committed_tick,   \* the last tick handed up
  buffer,           \* ticks held back
  sent,             \* the peer has sent 1..sent
  delivered         \* history: what process_packet returned, call after call

vars == <<committed_tick, buffer, sent, delivered>>

Init ==
  /\ committed_tick = 0
  /\ buffer = {}
  /\ sent = 0
  /\ delivered = <<>>

\* Fault variant: a full buffer throttles everybody.
ThrottledAll(low) == 10 * Cardinality(buffer) > 9 * MaxBuffer

\* Free-rider throttle: a low bandwidth ratio while the buffer is over 90% full.
Throttled(low) == low /\ 10 * Cardinality(buffer) > 9 * MaxBuffer

BeyondHorizon(t) == t > committed_tick + Horizon

\* Fault variant: the committed tick itself is let through again.
CommittedOffByOne(t) == t < committed_tick

Committed(t) == t <= committed_tick

\* Fault variant: the newest entries go.
EvictedNewest ==
  IF Cardinality(buffer) < MaxBuffer THEN {}
  ELSE {t \in buffer : Cardinality({u \in buffer : u < t}) + 1 >= MaxBuffer}

\* The oldest entries go until one more fits.
Evicted ==
  IF Cardinality(buffer) < MaxBuffer THEN {}
  ELSE {t \in buffer : Cardinality({u \in buffer : u > t}) + 1 >= MaxBuffer}

\* m ends the run of consecutive ticks of s that starts after c.
EndsRun(s, c, m) == (c + 1)..m \subseteq s /\ m + 1 \notin s

\* Fault variant: committed_tick follows every eviction.
FollowsNewestEvicted(e) ==
  e = IF Evicted = {} THEN committed_tick ELSE CHOOSE t \in Evicted : \A u \in Evicted : u <= t

\* committed_tick follows an evicted entry only if that was the next one.
FollowsEvicted(e) == EndsRun(Evicted, committed_tick, e)

\* What process_packet does with a packet it does not drop: make room, insert,
\* then release the consecutive run.
Accept(t) ==
  \E e \in committed_tick..(committed_tick + Horizon) :
    /\ FollowsEvicted(e)
    /\ LET held == (buffer \ Evicted) \cup {t}
       IN \E m \in e..(e + Horizon) :
            /\ EndsRun(held, e, m)
            /\ committed_tick' = m
            /\ buffer' = held \ (e + 1)..m
            /\ delivered' = [i \in 1..(Len(delivered) + m - e) |->
                               IF i <= Len(delivered) THEN delivered[i]
                               ELSE e + i - Len(delivered)]

\* process_packet(t, payload, ratio), low: ratio < 0.5
process_packet(t, low) ==
  /\ IF Throttled(low) \/ BeyondHorizon(t) \/ Committed(t)
       THEN UNCHANGED <<committed_tick, buffer, delivered>>
       ELSE Accept(t)
  /\ UNCHANGED sent

\* The peer numbers its packets 1, 2, ...
Send ==
  /\ sent < MaxTick
  /\ sent' = sent + 1
  /\ UNCHANGED <<committed_tick, buffer, delivered>>

\* The network hands over any packet sent so far, any number of times.
Arrive(t, low) == t <= sent /\ process_packet(t, low)

Next == Send \/ \E t \in 1..MaxTick, low \in BOOLEAN : Arrive(t, low)

(***************************************************************************)
(* The peer repeats a packet until it got through, and its bandwidth ratio *)
(* is not for ever below one half.                                         *)
(***************************************************************************)
Fairness == \A t \in 1..MaxTick : WF_vars(Arrive(t, FALSE))

Spec == Init /\ [][Next]_vars /\ Fairness

-----------------------------------------------------------------------------

TypeOK ==
  /\ committed_tick \in Nat
  /\ buffer \subseteq 1..MaxTick
  /\ sent \in 0..MaxTick
  /\ delivered \in Seq(Nat)

\* Nothing is held back that could be handed up, and nothing beyond the horizon: the
\* buffer has a gap at its front and fits the window behind it (process_packet,
\* steps 1, 2 and 5), and never holds more than its maximum.
WindowInv ==
  /\ \A t \in buffer : committed_tick + 1 < t /\ t <= committed_tick + Horizon
  /\ Cardinality(buffer) <= IF MaxBuffer = 0 THEN 1 ELSE MaxBuffer

\* What was handed up is exactly 1, 2, ..., committed_tick, in that order.
InOrder ==
  /\ delivered = [i \in 1..committed_tick |-> i]
  /\ committed_tick <= sent /\ buffer \subseteq 1..sent

Inv == TypeOK /\ WindowInv /\ InOrder

\* A packet held back is forgotten only from a full buffer, and then everything that
\* was held and stays is newer, although inserting, evicting and releasing a run fall
\* into one call.
ForgetsOldest ==
  [][\A t \in buffer \ buffer' :
       \/ t <= committed_tick'
       \/ /\ Cardinality(buffer) >= MaxBuffer
          /\ \A u \in buffer \cap buffer' : t < u]_vars

\* A buffer at least as large as the horizon never forgets a packet it accepted: it
\* stays until it is handed up.  (With the defaults, 50 and 10_000, neither the
\* eviction nor the throttle can ever act.)
NeverForgets ==
  [][MaxBuffer >= Horizon =>
       \A t \in buffer : t \in buffer' \/ t <= committed_tick']_vars

\* No head-of-line blocking for ever: every packet sent is handed up, although later
\* arrivals may evict it and full buffers may throttle it on the way.
EventuallyDelivered == \A t \in 1..MaxTick : t <= sent ~> t <= committed_tick

\* The buffer implements in-order delivery.
Order == INSTANCE InOrderDelivery
ImplementsInOrderDelivery == Order!Spec
==============================================================================
