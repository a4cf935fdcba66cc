----------------------------- MODULE EgressVault -----------------------------
(***************************************************************************)
(* The egress vault of pq-transport: responses queue up and the metronome  *)
(* task flushes them on its 200 ms tick, if the gear lets it.              *)
(*                                                                         *)
(* One action per critical section of the two tokio mutexes and per read   *)
(* of the wall clock between them.  The task holds the gear lock from the  *)
(* expiry check to the decision to transmit, releases it, and only then    *)
(* takes the queue lock, which it holds for the whole flush; callers shift *)
(* gears and push between these.  A sleep of 195..205 ms is the time spent *)
(* at "sleep".  A packet is the number of its push.                        *)
(***************************************************************************)
EXTENDS Integers, Sequences

CONSTANTS
  Burst,       \* BURST_DURATION_SECS, in the clock's unit: 45 s in the code
  MaxTime,     \* bound: the wall clock stops here
  MaxPackets   \* bound: packets pushed in a behaviour

ASSUME VaultAssumption ==
  /\ Burst \in Nat \ {0}
  /\ MaxTime \in Nat
  /\ MaxPackets \in Nat

VARIABLES
  gear,        \* the MetronomeGear, behind its mutex
  queue,       \* the VecDeque, behind its mutex
  pc,          \* the task: "sleep", "gear", "expiry", "decide", "queue", "flush"
  now,         \* SystemTime::now()
  rx_open,     \* the receiver that new() returned has not been dropped
  pushed,      \* history: packets pushed so far are 1..pushed
  released,    \* history: packets the receiver's channel got, in order
  lost,        \* history: packets popped for a channel that was closed
  stray        \* history: flushes begun since the gear was shifted to Submarine

vars == <<gear, queue, pc, now, rx_open, pushed, released, lost, stray>>

High == [mode |-> "High", deadline_ms |-> 0]
Submarine == [mode |-> "Submarine", deadline_ms |-> 0]
SubmarineBurst(t) == [mode |-> "SubmarineBurst", deadline_ms |-> t]
Gears == {High, Submarine} \cup {SubmarineBurst(t) : t \in 0..MaxTime}

GearLocked == pc \in {"expiry", "decide"}
QueueLocked == pc = "flush"

Init ==
  /\ gear = High /\ queue = <<>> /\ pc = "sleep"
  /\ now = 0 /\ rx_open = TRUE
  /\ pushed = 0 /\ released = <<>> /\ lost = <<>> /\ stray = 0

-----------------------------------------------------------------------------
(* The callers.                                                            *)

set_gear(g) ==
  /\ ~GearLocked
  /\ gear' = g
  /\ stray' = 0
  /\ UNCHANGED <<queue, pc, now, rx_open, pushed, released, lost>>

go_submarine == set_gear(Submarine)
go_high_gear == set_gear(High)

new_burst == SubmarineBurst(now + Burst)
trigger_burst == now + Burst <= MaxTime /\ set_gear(new_burst)

push_response ==
  /\ ~QueueLocked /\ pushed < MaxPackets
  /\ pushed' = pushed + 1
  /\ queue' = Append(queue, pushed')
  /\ UNCHANGED <<gear, pc, now, rx_open, released, lost, stray>>

DropReceiver ==
  /\ rx_open /\ rx_open' = FALSE
  /\ UNCHANGED <<gear, queue, pc, now, pushed, released, lost, stray>>

ClockTick ==
  /\ now < MaxTime /\ now' = now + 1
  /\ UNCHANGED <<gear, queue, pc, rx_open, pushed, released, lost, stray>>

-----------------------------------------------------------------------------
(* The metronome task.                                                     *)

\* Fault variant: a gear without a deadline counts as past it.
ExpiredUnmatched(g) == now >= g.deadline_ms

\* Fault variant: nothing ever expires.
NeverExpired(g) == FALSE

Expired(g) == g.mode = "SubmarineBurst" /\ now >= g.deadline_ms

check_expiry(g) == IF Expired(g) THEN Submarine ELSE g

should_transmit(g) ==
  g.mode = "High" \/ (g.mode = "SubmarineBurst" /\ now < g.deadline_ms)

Sleep ==
  /\ pc = "sleep" /\ pc' = "gear"
  /\ UNCHANGED <<gear, queue, now, rx_open, pushed, released, lost, stray>>

LockGear ==
  /\ pc = "gear" /\ pc' = "expiry"
  /\ UNCHANGED <<gear, queue, now, rx_open, pushed, released, lost, stray>>

CheckExpiry ==
  /\ pc = "expiry" /\ pc' = "decide"
  /\ gear' = check_expiry(gear)
  /\ stray' = IF gear' = gear THEN stray ELSE 0
  /\ UNCHANGED <<queue, now, rx_open, pushed, released, lost>>

Decide ==
  /\ pc = "decide"
  /\ pc' = IF should_transmit(gear) THEN "queue" ELSE "sleep"
  /\ UNCHANGED <<gear, queue, now, rx_open, pushed, released, lost, stray>>

LockQueue ==
  /\ pc = "queue" /\ pc' = "flush"
  /\ stray' = IF gear = Submarine THEN stray + 1 ELSE stray
  /\ UNCHANGED <<gear, queue, now, rx_open, pushed, released, lost>>

\* Fault variant: the newest packet goes first.
PopNewest(packet) ==
  /\ queue # <<>> /\ packet = queue[Len(queue)]
  /\ queue' = SubSeq(queue, 1, Len(queue) - 1)

PopFront(packet) ==
  /\ queue # <<>> /\ packet = Head(queue)
  /\ queue' = Tail(queue)

\* tx.send succeeds while the receiver exists; an error ends the flush, and with it
\* the packet that was popped.
FlushOne ==
  /\ pc = "flush"
  /\ \E packet \in 1..MaxPackets :
       /\ PopFront(packet)
       /\ IF rx_open
            THEN /\ released' = Append(released, packet)
                 /\ UNCHANGED <<pc, lost>>
            ELSE /\ lost' = Append(lost, packet)
                 /\ pc' = "sleep"
                 /\ UNCHANGED released
  /\ UNCHANGED <<gear, now, rx_open, pushed, stray>>

FlushEnd ==
  /\ pc = "flush" /\ queue = <<>> /\ pc' = "sleep"
  /\ UNCHANGED <<gear, queue, now, rx_open, pushed, released, lost, stray>>

Metronome == Sleep \/ LockGear \/ CheckExpiry \/ Decide \/ LockQueue \/ FlushOne \/ FlushEnd

Next ==
  \/ Metronome
  \/ go_submarine \/ go_high_gear \/ trigger_burst
  \/ push_response \/ DropReceiver \/ ClockTick

(***************************************************************************)
(* tokio runs the task again when its sleep is over and hands its mutexes  *)
(* out in the order they were asked for, so the task is never starved; and *)
(* the wall clock moves.                                                   *)
(***************************************************************************)
Fairness == WF_vars(Metronome) /\ WF_vars(ClockTick)

Spec == Init /\ [][Next]_vars /\ Fairness

-----------------------------------------------------------------------------

TypeOK ==
  /\ gear \in Gears
  /\ queue \in Seq(Nat) /\ released \in Seq(Nat) /\ lost \in Seq(Nat)
  /\ pc \in {"sleep", "gear", "expiry", "decide", "queue", "flush"}
  /\ now \in 0..MaxTime
  /\ rx_open \in BOOLEAN
  /\ pushed \in 0..MaxPackets
  /\ stray \in Nat

\* Every packet pushed is in exactly one place, and the three places hold them in the
\* order of their pushes: first what the receiver got, then what a closed channel lost,
\* then what still waits (push_response, and the flush of the metronome task).
Accounting ==
  /\ released \o lost \o queue = [i \in 1..pushed |-> i]
  /\ rx_open => lost = <<>>

\* Radio silence is late by at most one flush: once the gear is Submarine, by a shift or
\* by expiry, only a tick that had decided to transmit before may still flush.
OneStrayFlush == stray <= 1

\* As an inductive invariant: the flush still to come is one the task decided on before
\* the shift.
StrayInv == OneStrayFlush /\ (gear = Submarine /\ pc = "queue" => stray = 0)

\* No packet is lost, doubled or overtaken while the receiver lives, and silence is late by
\* one flush at most, whenever callers push, shift gears or drop the receiver between the
\* steps of the task.
Inv == TypeOK /\ Accounting /\ StrayInv

\* The metronome itself only ever ends a burst, never another gear that a caller
\* shifted to between its clock reads, and not before the deadline.
OnlyEndsBursts ==
  [][Metronome =>
       \/ UNCHANGED gear
       \/ /\ gear.mode = "SubmarineBurst" /\ now >= gear.deadline_ms
          /\ gear' = Submarine]_vars

\* A burst does not last for ever (the automatic transition to Submarine).
BurstEnds ==
  \A t \in 0..MaxTime : gear = SubmarineBurst(t) ~> gear # SubmarineBurst(t)

\* In high gear, with a receiver, every packet pushed gets out.
DrainsInHighGear ==
  \A p \in 1..MaxPackets :
    <>[](gear = High /\ rx_open) =>
      (pushed >= p ~> \E i \in DOMAIN released : released[i] = p)

\* The metronome never sticks: a burst ends by itself, and in high gear every packet
\* pushed gets out.
MetronomeProgress == BurstEnds /\ DrainsInHighGear
==============================================================================
