------------------------------ MODULE Dashboard ------------------------------
(***************************************************************************)
(* The dashboard process: a bootstrap task anchors the kernel's components *)
(* one by one and then opens the gate every command tests; the metronome   *)
(* thread publishes telemetry from the start (AtomicTelemetry), which the  *)
(* pump of the UI reads at any time and a command behind the gate; and two *)
(* commands start and stop the camera loopback, a task that looks at a     *)
(* shared flag every 200 ms.                                               *)
(* Commands run on several threads; one action is one section of a mutex,  *)
(* one access to the lock file or one atomic access.                       *)
(***************************************************************************)
EXTENDS AtomicTelemetry, Sequences

CONSTANTS
  Pump,       \* the reader that is not a command
  Starters,   \* threads in initialize_camera_loopback
  Streams     \* bound: loopback tasks that ever run at a time

VARIABLES
  anchored,      \* cells of KernelState set so far
  panicked,      \* the bootstrap task is dead
  kernel_ready,
  active,        \* stream_metrics.active
  bytes,         \* relay_a_bytes and relay_b_bytes are not zero
  lock_file,
  starter,       \* per starter: "idle", "free", "busy", "owner"
  stream         \* per task: "none", "sleep", "split", "off", and if it owns the camera

gate == <<anchored, panicked, kernel_ready>>
loopback == <<active, bytes, lock_file, starter, stream>>
allVars == <<vars, gate, loopback>>

\* KernelState, in the order of the bootstrap; tor_client is never set and never read.
Cells == <<"identity", "db", "reputation", "storage", "signaler", "physical_bridge">>

NoStream == [at |-> "none", owner |-> FALSE]

DashboardInit ==
  /\ Init
  /\ anchored = 0 /\ panicked = FALSE /\ kernel_ready = FALSE
  /\ active = FALSE /\ bytes = FALSE /\ lock_file = FALSE
  /\ starter = [s \in Starters |-> "idle"]
  /\ stream = [t \in Streams |-> NoStream]

-----------------------------------------------------------------------------
(* The bootstrap.                                                          *)

Booting == ~panicked /\ ~kernel_ready

Unset == anchored < Len(Cells)

\* Every step may panic (expect), which ends the task only.
Anchor ==
  /\ Booting /\ Unset
  /\ \/ anchored' = anchored + 1 /\ UNCHANGED panicked
     \/ panicked' = TRUE /\ UNCHANGED anchored
  /\ UNCHANGED <<vars, kernel_ready, loopback>>

Anchored == anchored = Len(Cells)

Unlock ==
  /\ Booting /\ Anchored
  /\ kernel_ready' = TRUE
  /\ UNCHANGED <<vars, anchored, panicked, loopback>>

\* The cell each command reads behind the gate.
CellOf ==
  [get_mesh_stats |-> "reputation", slash_target |-> "reputation",
   send_sovereign_message |-> "signaler", get_mute_status |-> "signaler",
   get_storage_inventory |-> "storage", get_all_shards |-> "db"]

\* check_ready, then the OnceCell.
Answer(command) ==
  CASE ~kernel_ready -> "KernelSyncing"
    [] kernel_ready /\ \A i \in 1..anchored : Cells[i] # CellOf[command] -> "not anchored"
    [] OTHER -> "ok"

\* The UI's pump, every 250 ms, behind no gate; and get_live_telemetry.
CallSnapshot ==
  /\ \E r \in Readers : (r = Pump \/ kernel_ready) /\ Call(r)
  /\ UNCHANGED <<gate, loopback>>

-----------------------------------------------------------------------------
(* The camera loopback.                                                    *)

stays == UNCHANGED <<vars, gate>>

LookForLock(s) ==
  /\ kernel_ready /\ starter[s] = "idle"
  /\ starter' = [starter EXCEPT ![s] = IF lock_file THEN "busy" ELSE "free"]
  /\ UNCHANGED <<active, bytes, lock_file, stream>> /\ stays

WriteLock(s) ==
  /\ starter[s] = "free"
  /\ lock_file' = TRUE
  /\ starter' = [starter EXCEPT ![s] = "owner"]
  /\ UNCHANGED <<active, bytes, stream>> /\ stays

Spawned(s) ==
  {[stream EXCEPT ![t] = [at |-> "sleep", owner |-> starter[s] = "owner"]] :
     t \in {u \in Streams : stream[u] = NoStream}}

\* "Stream already active", or the flag is set and a task spawned.
Activate(s) ==
  /\ starter[s] \in {"busy", "owner"}
  /\ starter' = [starter EXCEPT ![s] = "idle"]
  /\ active' = TRUE
  /\ IF active THEN UNCHANGED stream ELSE stream' \in Spawned(s)
  /\ UNCHANGED <<bytes, lock_file>> /\ stays

kill_relay_b ==
  /\ kernel_ready
  /\ active' = FALSE /\ bytes' = FALSE
  /\ UNCHANGED <<lock_file, starter, stream>> /\ stays

\* Fault variant: only the owner of the camera breaks out of its loop.
Leaves_owner(t) == ~active /\ stream[t].owner

Leaves(t) == ~active

\* The task wakes and looks at the flag; it then splits a frame, or goes.
Wake(t) ==
  /\ stream[t].at = "sleep"
  /\ stream' = [stream EXCEPT ![t].at = IF Leaves(t) THEN "off" ELSE "split"]
  /\ UNCHANGED <<active, bytes, lock_file, starter>> /\ stays

\* Fault variant: the flag is not looked at again.
MayReport_always == TRUE

MayReport == active

\* The mutex was released while the frame was split; a frame that cannot be split is
\* passed over.
Report(t) ==
  /\ stream[t].at = "split"
  /\ stream' = [stream EXCEPT ![t].at = "sleep"]
  /\ \/ bytes' = (bytes \/ MayReport)
     \/ UNCHANGED bytes
  /\ UNCHANGED <<active, lock_file, starter>> /\ stays

\* Who wrote the lock file removes it, and the task ends.
GoOff(t) ==
  /\ stream[t].at = "off"
  /\ lock_file' = (lock_file /\ ~stream[t].owner)
  /\ stream' = [stream EXCEPT ![t] = NoStream]
  /\ UNCHANGED <<active, bytes, starter>> /\ stays

-----------------------------------------------------------------------------

Telemetry ==
  /\ Writer \/ \E r \in Readers : LoadSeq1(r) \/ LoadField(r) \/ LoadSeq2(r)
  /\ UNCHANGED <<gate, loopback>>

Streaming == \E t \in Streams : Wake(t) \/ Report(t) \/ GoOff(t)

DashboardNext ==
  \/ Anchor \/ Unlock
  \/ Telemetry \/ CallSnapshot
  \/ \E s \in Starters : LookForLock(s) \/ WriteLock(s) \/ Activate(s)
  \/ kill_relay_b \/ Streaming

(***************************************************************************)
(* The threads of the telemetry as in AtomicTelemetry; the runtime runs    *)
(* every loopback task again when its sleep is over.                       *)
(***************************************************************************)
DashboardSpec ==
  /\ DashboardInit /\ [][DashboardNext]_allVars
  /\ Fairness
  /\ \A t \in Streams : WF_allVars(Wake(t) \/ Report(t) \/ GoOff(t))

-----------------------------------------------------------------------------

DashboardTypeOK ==
  /\ anchored \in 0..Len(Cells) /\ panicked \in BOOLEAN /\ kernel_ready \in BOOLEAN
  /\ active \in BOOLEAN /\ bytes \in BOOLEAN /\ lock_file \in BOOLEAN
  /\ starter \in [Starters -> {"idle", "free", "busy", "owner"}]
  /\ stream \in [Streams -> [at : {"none", "sleep", "split", "off"}, owner : BOOLEAN]]

\* No command finds its component missing behind the gate, and a bootstrap that
\* panicked half way never opens it.
GateHolds ==
  /\ \A c \in DOMAIN CellOf : Answer(c) # "not anchored"
  /\ kernel_ready => ~panicked /\ anchored = Len(Cells)

\* A killed stream stays silent: a frame that was being split when the relay was killed
\* does not report its bytes afterwards.
KilledIsSilent == ~active => ~bytes

\* An active stream is served by a task, also when it was started again between the look
\* of the old task at the flag and its end.
ActiveIsServed ==
  active => \E t \in Streams : stream[t].at \in {"sleep", "split"}

\* Behind the gate nothing is missing, and flag, tasks and counters of the loopback agree.
DashboardInv == DashboardTypeOK /\ GateHolds /\ KilledIsSilent /\ ActiveIsServed

\* A stream that is killed for good ends with all its tasks, however many a quick restart
\* has left running.
StreamsEnd == <>[](~active) => <>[](\A t \in Streams : stream[t] = NoStream)

\* Every snapshot comes back and every killed stream ends.
DashboardProgress == SnapshotReturns /\ StreamsEnd
==============================================================================
