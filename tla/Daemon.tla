------------------------------- MODULE Daemon -------------------------------
(***************************************************************************)
(* The daemon's main function and the tasks it spawns: the load of the     *)
(* reputation file, the three-hop test if it was asked for, the crucible   *)
(* that sends a packet on every tick, a fragment or else noise, into an    *)
(* unbounded channel, the signaler's start (Tor's bootstrap, which may     *)
(* take for ever or fail), the loop that takes the packets out and drops   *)
(* them while the network is muted, and the active handshake with its      *)
(* punching task and its deadline.                                         *)
(*                                                                         *)
(* Fragments are numbered in the order given to the crucible; 0 is a       *)
(* packet of noise.  Nobody in the daemon gives it any yet, nor mutes the  *)
(* network: both are inputs here.  The size of a fragment is left out, and *)
(* so are the probes of the puncher, on a socket of their own.             *)
(***************************************************************************)
EXTENDS Sphinx

CONSTANTS
  ChunkSize,     \* the largest chunk the store takes
  TestSize,      \* the chunk of the three-hop test
  MaxFragments,  \* bound: fragments given to the crucible
  MaxOut         \* bound: packets in the output channel

ASSUME DaemonAssumption ==
  /\ ChunkSize \in Nat /\ TestSize \in 0..ChunkSize
  /\ MaxFragments \in Nat /\ MaxOut \in Nat

VARIABLES
  main,       \* where main is
  args,       \* the flags given that matter here
  packet,     \* the test's packet on its way, a sequence of at most one
  crucible,   \* the crucible's task runs
  rx_in,      \* fragments on their way to it
  buffer,     \* fragments it holds
  out,        \* the packets it has sent
  messaging,  \* the messaging loop runs
  status,     \* the watched network state
  given,      \* fragments given so far
  handled,    \* history: fragments the messaging loop took, sent on or dropped
  connecting, \* our end of the QUIC link: "none", "connecting", "finished", "up", "closed"
  peer,       \* its end: "none", "answered", "finishing", "up", "closed"
  expired,    \* the fallback deadline has passed
  punching,   \* the punching task runs
  outcome     \* what the handshake came to

crucibleVars == <<crucible, rx_in, buffer, out>>
messageVars == <<messaging, status, given, handled>>
linkVars == <<connecting, peer, expired, punching, outcome>>
daemonVars == <<main, args, packet, crucibleVars, messageVars, linkVars>>

Alive == main # "exited"

DaemonInit ==
  /\ main = "ledger"
  /\ args \in SUBSET {"test_3hop", "connect"}
  /\ packet = <<>>
  /\ crucible = FALSE /\ rx_in = <<>> /\ buffer = <<>> /\ out = <<>>
  /\ messaging = FALSE /\ status = "Active" /\ given = 0 /\ handled = <<>>
  /\ connecting = "none" /\ peer = "none" /\ expired = FALSE /\ punching = FALSE
  /\ outcome = "none"

-----------------------------------------------------------------------------
(* main, up to the handshake.                                              *)

\* An error out of main ends the process, and every task with it.
Exit ==
  /\ main' = "exited"
  /\ crucible' = FALSE /\ messaging' = FALSE /\ punching' = FALSE
  /\ connecting' = IF connecting = "none" THEN "none" ELSE "closed"
  /\ UNCHANGED <<rx_in, buffer, out, status, given, handled, peer, expired>>

Goes(to) == main' = to /\ UNCHANGED <<crucibleVars, messageVars, linkVars>>

\* ReputationManager::new fails on an unreadable file.
LoadLedger ==
  /\ main = "ledger"
  /\ UNCHANGED <<args, packet>>
  /\ \/ Goes(IF "test_3hop" \in args THEN "build" ELSE "crucible")
     \/ Exit /\ UNCHANGED outcome

\* run_3hop_message_test: the packet is built, goes through three hops, and what the exit
\* makes of it is stored.
TestBuilds ==
  /\ main = "build"
  /\ UNCHANGED args
  /\ IF Fits(TestSize)
       THEN Goes("hop") /\ \E last \in {0, 1} : packet' = <<Build(TestSize, last)>>
       ELSE Exit /\ UNCHANGED <<outcome, packet>>

TestHops ==
  /\ main = "hop"
  /\ UNCHANGED args
  /\ LET r == Unwrap(packet[1])
     IN CASE r.kind = "relay" -> Goes("hop") /\ packet' = <<r.next>>
          [] r.kind = "exit" /\ Len(r.data) <= ChunkSize -> Goes("crucible") /\ packet' = <<>>
          [] OTHER -> Exit /\ UNCHANGED outcome /\ packet' = <<>>

SpawnCrucible ==
  /\ main = "crucible" /\ main' = "signaler"
  /\ crucible' = TRUE
  /\ UNCHANGED <<args, packet, rx_in, buffer, out, messageVars, linkVars>>

\* NostrSignaler::new comes back, some time, if at all.
SignalerStarts ==
  /\ main = "signaler"
  /\ UNCHANGED <<args, packet>>
  /\ \/ /\ main' = IF "connect" \in args THEN "connect" ELSE "idle"
        /\ messaging' = TRUE
        /\ UNCHANGED <<crucibleVars, status, given, handled, linkVars>>
     \/ Exit /\ UNCHANGED outcome

-----------------------------------------------------------------------------
(* The crucible and the messaging loop.                                    *)

others == <<main, args, packet, linkVars>>

\* A caller of the input channel.
Give ==
  /\ crucible /\ given < MaxFragments
  /\ given' = given + 1
  /\ rx_in' = Append(rx_in, given + 1)
  /\ UNCHANGED <<others, crucible, buffer, out, messaging, status, handled>>

queue_fragment ==
  /\ crucible /\ rx_in # <<>>
  /\ buffer' = Append(buffer, Head(rx_in)) /\ rx_in' = Tail(rx_in)
  /\ UNCHANGED <<others, crucible, out, messageVars>>

\* Fault variant: the newest fragment goes first.
Popped_newest ==
  IF buffer = <<>> THEN <<0, buffer>>
  ELSE <<buffer[Len(buffer)], SubSeq(buffer, 1, Len(buffer) - 1)>>

\* The packet of a tick, and what is left of the buffer.
Popped == IF buffer = <<>> THEN <<0, buffer>> ELSE <<Head(buffer), Tail(buffer)>>

CrucibleTick ==
  /\ crucible /\ Len(out) < MaxOut
  /\ out' = Append(out, Popped[1]) /\ buffer' = Popped[2]
  /\ UNCHANGED <<others, crucible, rx_in, messageVars>>

\* Fault variant: while the network is muted the loop takes nothing.
Takes_unmuted == messaging /\ out # <<>> /\ status = "Active"

Takes == messaging /\ out # <<>>

\* Sent on if the network is active, else dropped.
Transmit ==
  /\ Takes
  /\ out' = Tail(out)
  /\ handled' = IF Head(out) = 0 THEN handled ELSE Append(handled, Head(out))
  /\ UNCHANGED <<others, crucible, rx_in, buffer, messaging, status, given>>

\* The loop only notes a change.
StatusChanges ==
  /\ Alive
  /\ status' = IF status = "Active" THEN "Muted" ELSE "Active"
  /\ UNCHANGED <<others, crucibleVars, messaging, given, handled>>

-----------------------------------------------------------------------------
(* initiate_handshake.                                                     *)

tasks == <<args, packet, crucibleVars, messageVars>>

\* The address does not parse, or a socket or endpoint cannot be had; or the punching
\* begins and the client hello goes out.
Connect ==
  /\ main = "connect"
  /\ UNCHANGED <<args, packet>>
  /\ \/ /\ main' = "handshake" /\ punching' = TRUE /\ connecting' = "connecting"
        /\ UNCHANGED <<crucibleVars, messageVars, peer, expired, outcome>>
     \/ Exit /\ outcome' = "failed"

\* The client hello arrives, perhaps after the attempt was given up.
PeerAnswers ==
  /\ connecting # "none" /\ peer = "none" /\ peer' = "answered"
  /\ UNCHANGED <<main, tasks, connecting, expired, punching, outcome>>

\* quinn's own task takes the answer and sends the finished message; initiate_handshake
\* is yet to be polled.
ClientFinishes ==
  /\ connecting = "connecting" /\ peer = "answered"
  /\ connecting' = "finished" /\ peer' = "finishing"
  /\ UNCHANGED <<main, tasks, expired, punching, outcome>>

TimeRuns == main = "handshake"

DeadlinePasses ==
  /\ TimeRuns /\ ~expired /\ expired' = TRUE
  /\ UNCHANGED <<main, tasks, connecting, peer, punching, outcome>>

\* The connection is dropped, and so closed, as soon as it was announced.
Established ==
  /\ main = "handshake" /\ connecting = "finished"
  /\ connecting' = "up" /\ outcome' = "link" /\ main' = "drop"
  /\ UNCHANGED <<tasks, peer, expired, punching>>

Drop ==
  /\ main = "drop" /\ main' = "idle"
  /\ connecting' = "closed"
  /\ UNCHANGED <<tasks, peer, expired, punching, outcome>>

\* The attempt is dropped with the call.
Abandoned == "closed"

\* The deadline, or an error of the hand-shake: both lead to the fallback.  timeout polls the
\* hand-shake before it looks at the clock, but quinn's task may finish in between.
Fallback ==
  /\ main = "handshake"
  /\ main' = "idle" /\ outcome' = "fallback"
  /\ connecting' = Abandoned
  /\ UNCHANGED <<tasks, peer, expired, punching>>

\* The finished message arrives, perhaps after the fallback.
PeerFinishes ==
  /\ peer = "finishing" /\ peer' = "up"
  /\ UNCHANGED <<main, tasks, connecting, expired, punching, outcome>>

\* A close arrives, or nothing for 30 seconds.
PeerCloses ==
  /\ peer \in {"answered", "finishing", "up"} /\ connecting = "closed" /\ peer' = "closed"
  /\ UNCHANGED <<main, tasks, connecting, expired, punching, outcome>>

\* Two seconds are over.
PunchEnds ==
  /\ punching /\ punching' = FALSE
  /\ UNCHANGED <<main, tasks, connecting, peer, expired, outcome>>

-----------------------------------------------------------------------------

Startup == LoadLedger \/ TestBuilds \/ TestHops \/ SpawnCrucible
Handshake == Connect \/ Drop \/ (expired /\ Fallback)

DaemonNext ==
  \/ Startup \/ SignalerStarts
  \/ Give \/ queue_fragment \/ CrucibleTick \/ Transmit \/ StatusChanges
  \/ Connect \/ PeerAnswers \/ ClientFinishes \/ DeadlinePasses \/ Established \/ Drop
  \/ Fallback \/ PeerFinishes \/ PeerCloses \/ PunchEnds

(***************************************************************************)
(* The runtime polls every task that is ready and both branches of a       *)
(* select; timers fire.  Neither Tor's bootstrap nor the peer has to come  *)
(* to an end, but the peer drops a link nobody answers on.                 *)
(***************************************************************************)
DaemonSpec ==
  /\ DaemonInit /\ [][DaemonNext]_daemonVars
  /\ WF_daemonVars(Startup) /\ WF_daemonVars(Handshake)
  /\ WF_daemonVars(DeadlinePasses)
  /\ WF_daemonVars(queue_fragment) /\ WF_daemonVars(CrucibleTick)
  /\ WF_daemonVars(Transmit) /\ WF_daemonVars(PeerCloses) /\ WF_daemonVars(PunchEnds)

-----------------------------------------------------------------------------

\* The types; every packet a hop of the test is given has the size of the first one; a
\* fallback once announced leaves no attempt behind that could still become a link; and
\* nothing outlives the process.
DaemonInv ==
  /\ main \in {"ledger", "build", "hop", "crucible", "signaler", "connect", "handshake",
               "drop", "idle", "exited"}
  /\ given \in 0..MaxFragments /\ Len(out) <= MaxOut /\ status \in {"Active", "Muted"}
  /\ packet # <<>> => Size(packet[1]) = Mtu
  /\ outcome = "fallback" => connecting = "closed"
  /\ ~Alive => ~crucible /\ ~messaging /\ ~punching /\ connecting # "up"

\* Fragments come out of the crucible in the order they were given, each once, whatever
\* noise is sent between them, however late the messaging loop starts and however often
\* the network is muted in between.
Fragments == INSTANCE InOrderDelivery WITH sent <- given, delivered <- handled
ImplementsInOrderFragments == Fragments!Spec

\* Once the messaging loop runs for good, no fragment waits for ever behind the noise
\* that piled up while the signaler was starting, nor for the end of a mute.
FragmentsLeave == <>[]messaging => <>[](Len(handled) = given)

\* A hand-shake comes back, to a link or the fallback, whatever the peer does; and in the
\* end the peer holds no half of a link that the deadline cut in two, though it may have
\* been told of the link when the call had fallen back already.
HandshakeSettles ==
  /\ main = "handshake" ~> main \in {"drop", "idle"}
  /\ <>[](peer \in {"none", "closed"})

\* Neither a fragment nor a hand-shake is left hanging.
DaemonProgress == FragmentsLeave /\ HandshakeSettles
=============================================================================
