------------------------------ MODULE Signaling ------------------------------
(***************************************************************************)
(* The daemon's Nostr signaler: callers queue signals, a burst task sends  *)
(* them every half second, a monitor mutes the signaler while Tor is       *)
(* blocked, a background loop keeps the relay connection up through the    *)
(* local SOCKS bridge, and a caller may listen for a signal up to a        *)
(* deadline.  All of them are asynchronous tasks, interleaved at their     *)
(* awaits; the burst holds the queue's lock from its first pop to its end. *)
(*                                                                         *)
(* Tor, the relays and the nostr client are external.  Tor's status is a   *)
(* watch: of several changes only the last is seen.  Signals are numbered  *)
(* in the order queued; what a signal says is left out (the recipient, the *)
(* time, 512 bytes with the padding).                                      *)
(***************************************************************************)
EXTENDS Integers, Sequences

CONSTANTS
  Peers,       \* number of recipients; signal n is for peer n modulo it
  MaxSignals,  \* bound: signals queued in a behaviour
  ChannelSize  \* bound: events waiting for the listener

ASSUME SignalingAssumption ==
  Peers \in Nat \ {0} /\ MaxSignals \in Nat /\ ChannelSize \in Nat \ {0}

VARIABLES
  tor,         \* "ready", "blocked", or "stalled": neither
  news,        \* the watch holds a status the monitor has not seen
  monitor,     \* "starting", "watching"
  tor_active,
  link,        \* to the relays: "down", "handshake", "connecting", "up"
  queued,      \* signals queued so far
  queue,
  held,        \* the signal popped and not yet sent, 0 if none
  tried,       \* signals handed to gift_wrap, in order
  sent,        \* those it accepted
  burst,       \* the burst task: "sleep", "lock", "pop", "wrap"
  frozen,      \* peers whose reputation is frozen
  listener,    \* "idle", "subscribe", "attach", "check", "receive", "returned"
  channel,     \* events the listener has not taken
  expired,     \* its deadline has passed
  answer,      \* what it returned: "none", "signal", "timeout", "error"
  settled      \* history: muted, with no burst begun before the mute under way

torVars == <<tor, news, monitor, tor_active>>
sendVars == <<queued, queue, held, tried, sent, burst, frozen>>
listenVars == <<listener, channel, expired, answer>>
vars == <<torVars, link, sendVars, listenVars, settled>>

Peer(n) == n % Peers

\* NostrSignaler::new: Tor has just bootstrapped, the tasks are spawned.
Init ==
  /\ tor = "ready" /\ news = TRUE /\ monitor = "starting" /\ tor_active = FALSE
  /\ link = "down"
  /\ queued = 0 /\ queue = <<>> /\ held = 0 /\ tried = <<>> /\ sent = {}
  /\ burst = "sleep" /\ frozen = {}
  /\ listener = "idle" /\ channel = <<>> /\ expired = FALSE /\ answer = "none"
  /\ settled = TRUE

is_muted == ~tor_active

\* The history, after every step.
Settle ==
  settled' = (~tor_active' /\ (burst' = "sleep" \/ settled))

-----------------------------------------------------------------------------
(* Tor and the monitor.                                                    *)

TorChanges ==
  /\ tor' \in {"ready", "blocked", "stalled"} \ {tor}
  /\ news' = TRUE
  /\ UNCHANGED <<monitor, tor_active, link, sendVars, listenVars>>

MonitorStarts ==
  /\ monitor = "starting" /\ monitor' = "watching"
  /\ tor_active' = TRUE
  /\ UNCHANGED <<tor, news, link, sendVars, listenVars>>

Verdict ==
  CASE tor = "blocked" -> FALSE
    [] tor = "ready" -> TRUE
    [] OTHER -> tor_active

MonitorSees ==
  /\ monitor = "watching" /\ news
  /\ news' = FALSE
  /\ tor_active' = Verdict
  /\ UNCHANGED <<tor, monitor, link, sendVars, listenVars>>

-----------------------------------------------------------------------------
(* The connection: client, SOCKS bridge, Tor.                              *)

linkOnly == UNCHANGED <<torVars, sendVars, listenVars>>

\* connect, every 10 to 30 seconds.
Connect == link = "down" /\ link' = "handshake" /\ linkOnly

\* The bridge reads the request; a broken one, or one that is no CONNECT, ends it.
Handshake == link = "handshake" /\ link' \in {"connecting", "down"} /\ linkOnly

\* tor_client.connect: SUCCEEDED and the relaying of both directions, or GENERAL_FAILURE.
TorConnect ==
  /\ link = "connecting"
  /\ link' \in {"down"} \cup (IF tor = "ready" THEN {"up"} ELSE {})
  /\ linkOnly

\* Either side closes; shutdown of the signaler does, and the loop connects again.
Disconnect == link = "up" /\ link' = "down" /\ linkOnly

-----------------------------------------------------------------------------
(* Sending.                                                                *)

Locked == burst \in {"pop", "wrap"}

queue_signal ==
  /\ ~Locked /\ queued < MaxSignals
  /\ queued' = queued + 1
  /\ queue' = Append(queue, queued + 1)
  /\ UNCHANGED <<torVars, link, held, tried, sent, burst, frozen, listenVars>>

\* Fault variant: the burst does not ask.
MayBurst_always == TRUE

MayBurst == ~is_muted

\* Every 450 to 550 ms; muted, the burst fails at once and the task sleeps again.
BurstWakes ==
  /\ burst = "sleep" /\ MayBurst
  /\ burst' = "lock"
  /\ UNCHANGED <<torVars, link, queued, queue, held, tried, sent, frozen, listenVars>>

BurstLocks ==
  /\ burst = "lock" /\ burst' = "pop"
  /\ UNCHANGED <<torVars, link, queued, queue, held, tried, sent, frozen, listenVars>>

\* Fault variant: the newest first.
Popped_newest == <<queue[Len(queue)], SubSeq(queue, 1, Len(queue) - 1)>>

\* Fault variant: the signal stays in the queue until it is sent.
Popped_kept == <<Head(queue), queue>>

\* The signal taken and what it leaves in the queue.
Popped == <<Head(queue), Tail(queue)>>

\* pop_front and freeze_peer(300), without an await between them.
Pop ==
  /\ burst = "pop"
  /\ IF queue = <<>>
       THEN burst' = "sleep" /\ UNCHANGED <<queue, held, frozen>>
       ELSE /\ held' = Popped[1] /\ queue' = Popped[2]
            /\ frozen' = frozen \cup {Peer(Popped[1])}
            /\ burst' = "wrap"
  /\ UNCHANGED <<torVars, link, queued, tried, sent, listenVars>>

AfterWrap(ok) == "pop"

\* gift_wrap: without a relay it fails, with one it may; the signal is gone either way.
Wrap ==
  /\ burst = "wrap"
  /\ tried' = Append(tried, held)
  /\ held' = 0
  /\ \E ok \in BOOLEAN :
       /\ ok => link = "up"
       /\ sent' = IF ok THEN sent \cup {held} ELSE sent
       /\ burst' = AfterWrap(ok)
  /\ UNCHANGED <<torVars, link, queued, queue, frozen, listenVars>>

Thaw ==
  /\ \E p \in frozen : frozen' = frozen \ {p}
  /\ UNCHANGED <<torVars, link, queued, queue, held, tried, sent, burst, listenVars>>

-----------------------------------------------------------------------------
(* listen_for_signal: the subscription first, then the receiver.           *)

listenOnly == UNCHANGED <<torVars, link, sendVars>>

Listen ==
  /\ listener = "idle"
  /\ IF is_muted
       THEN listener' = "returned" /\ answer' = "error"
       ELSE listener' = "subscribe" /\ UNCHANGED answer
  /\ UNCHANGED <<channel, expired>> /\ listenOnly

Subscribe ==
  /\ listener = "subscribe"
  /\ \/ link = "up" /\ listener' = "attach" /\ UNCHANGED answer
     \/ listener' = "returned" /\ answer' = "error"
  /\ UNCHANGED <<channel, expired>> /\ listenOnly

\* The deadline counts from here, and events that have arrived before are not seen.
Attach ==
  /\ listener = "attach" /\ listener' = "check"
  /\ UNCHANGED <<channel, expired, answer>> /\ listenOnly

Attached == listener \in {"check", "receive"}

\* What a relay sends: a signal, something else wrapped, a signal that is not hex.
Arrive ==
  /\ link = "up" /\ Attached /\ Len(channel) < ChannelSize
  /\ \E e \in {"signal", "other", "garbled"} : channel' = Append(channel, e)
  /\ UNCHANGED <<listener, expired, answer>> /\ listenOnly

DeadlinePasses ==
  /\ Attached /\ ~expired /\ expired' = TRUE
  /\ UNCHANGED <<listener, channel, answer>> /\ listenOnly

\* Fault variant: the deadline is looked at only when nothing has arrived.
TimedOut_quiet == expired /\ channel = <<>>

TimedOut == expired

CheckDeadline ==
  /\ listener = "check"
  /\ IF TimedOut
       THEN listener' = "returned" /\ answer' = "timeout"
       ELSE listener' = "receive" /\ UNCHANGED answer
  /\ UNCHANGED <<channel, expired>> /\ listenOnly

\* Up to a second for the next event.
Receive ==
  /\ listener = "receive"
  /\ \/ /\ channel # <<>>
        /\ channel' = Tail(channel)
        /\ CASE Head(channel) = "signal" -> listener' = "returned" /\ answer' = "signal"
             [] Head(channel) = "garbled" -> listener' = "returned" /\ answer' = "error"
             [] OTHER -> listener' = "check" /\ UNCHANGED answer
     \/ channel = <<>> /\ listener' = "check" /\ UNCHANGED <<channel, answer>>
  /\ UNCHANGED expired /\ listenOnly

-----------------------------------------------------------------------------

Monitor == MonitorStarts \/ MonitorSees
Linking == Connect \/ Handshake \/ TorConnect
Bursting == BurstWakes \/ BurstLocks \/ Pop \/ Wrap
Listening == Subscribe \/ Attach \/ CheckDeadline \/ Receive

Next ==
  /\ \/ TorChanges \/ Monitor \/ Linking \/ Disconnect
     \/ queue_signal \/ Bursting \/ Thaw
     \/ Listen \/ Arrive \/ DeadlinePasses \/ Listening
  /\ Settle

(***************************************************************************)
(* The runtime runs every task that is ready; time passes, so the sleeps   *)
(* end, a freeze ends and the deadline of a listener comes.                *)
(***************************************************************************)
Spec ==
  /\ Init /\ [][Next]_vars
  /\ WF_vars(Monitor /\ Settle) /\ WF_vars(Linking /\ Settle)
  /\ WF_vars(Bursting /\ Settle) /\ WF_vars(Listening /\ Settle)
  /\ WF_vars(DeadlinePasses /\ Settle)

-----------------------------------------------------------------------------

TypeOK ==
  /\ tor \in {"ready", "blocked", "stalled"} /\ monitor \in {"starting", "watching"}
  /\ news \in BOOLEAN /\ tor_active \in BOOLEAN /\ settled \in BOOLEAN
  /\ link \in {"down", "handshake", "connecting", "up"}
  /\ queued \in 0..MaxSignals /\ held \in 0..queued /\ (held # 0 <=> burst = "wrap")
  /\ sent \subseteq 1..queued /\ frozen \subseteq 0..(Peers - 1)
  /\ burst \in {"sleep", "lock", "pop", "wrap"}
  /\ listener \in {"idle", "subscribe", "attach", "check", "receive", "returned"}
  /\ Len(channel) <= ChannelSize /\ expired \in BOOLEAN
  /\ answer \in {"none", "signal", "timeout", "error"}

\* No signal is forgotten: at every moment it is attempted, in the hands of the burst or
\* in the queue, in the order queued; what a relay took had been attempted; and a
\* listener gives up only after its deadline.
Accounting ==
  /\ tried \o (IF held = 0 THEN <<>> ELSE <<held>>) \o queue = [i \in 1..queued |-> i]
  /\ \A n \in sent : \E i \in 1..Len(tried) : tried[i] = n
  /\ answer = "timeout" => expired

\* The types, and every signal in its place.
Inv == TypeOK /\ Accounting

\* Signals are attempted in the order queued, each once: none is skipped, retried or
\* overtaken by one queued during a burst, whatever happens to the connection.
Attempts == INSTANCE InOrderDelivery WITH sent <- queued, delivered <- tried
ImplementsInOrderAttempts == Attempts!Spec

\* The flag is read before the lock is taken, so a burst outlives the mute; but it is
\* only that one burst: once muted and back asleep, the signaler attempts nothing until
\* the monitor has seen Tor ready again.
MutedAfterTheBurst == [][settled /\ settled' => tried' = tried]_vars

\* The monitor's first, unconditional store and the statuses it misses do not matter in
\* the end: the flag settles on what Tor settles on.
FlagFollowsTor ==
  /\ <>[](tor = "ready") => <>[]tor_active
  /\ <>[](tor = "blocked") => <>[](~tor_active)

\* If Tor stays ready every signal queued is attempted.
SignalsLeave == <>[](tor = "ready") => <>[](queue = <<>> /\ Len(tried) = queued)

\* A listener returns however busy the relays are and whatever Tor does.
ListenReturns == (listener = "subscribe") ~> (listener = "returned")

\* The flag follows Tor, the signals leave and a listener gets its answer.
SignalerProgress == FlagFollowsTor /\ SignalsLeave /\ ListenReturns
==============================================================================
