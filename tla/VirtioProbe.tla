----------------------------- MODULE VirtioProbe -----------------------------
(***************************************************************************)
(* How the kernel boots its network card: kernel_main tries the slots of   *)
(* the virtio-mmio bus one after the other until a device has gone through *)
(* the hand-shake and has both queues, then enters the main loop; without  *)
(* a device it halts.  All attempts share one pair of rings in the DMA     *)
(* arena, and a failed attempt leaves its device as it is.                 *)
(*                                                                         *)
(* On aarch64 the hand-shake is the modern one and any failure moves on to *)
(* the next slot.  On x86_64 it is the legacy one, the preferred slot is   *)
(* polled for a while, and once a net device answered a failure is final.  *)
(* Devices are external: each answers every register access at once,       *)
(* according to its kind.                                                  *)
(***************************************************************************)
EXTENDS Integers, Sequences, FiniteSets

CONSTANTS
  MmioSlots,        \* number of slots (32); they are scanned upwards
  Preferred,    \* QEMU_VIRTIO_NET_SLOT, tried first
  QUEUE_DEPTH,
  Kinds         \* kinds of device a slot may hold, a subset of AllKinds

Version1 == {"legacy", "legacy_small", "legacy_notx"}
AllKinds == {"empty", "modern", "old", "picky", "norx", "notx", "small"} \cup Version1

ASSUME ProbeAssumption ==
  /\ MmioSlots \in Nat \ {0} /\ Preferred \in 0..(MmioSlots - 1)
  /\ QUEUE_DEPTH \in Nat \ {0, 1}
  /\ Kinds \subseteq AllKinds

VARIABLES
  arch,       \* "aarch64" or "x86_64"
  kind,       \* slot -> what is in it
  up,         \* slots whose device answers already
  status,     \* slot -> bits of the device status register
  acked,      \* slot -> features the driver accepted
  queue,      \* slot -> queue -> [num, pfn, ready], the registers QueueNum, QueuePFN (1:
              \* a page was written) and QueueReady
  kicked,     \* slots whose receive doorbell was rung
  step, at, todo,
  depth,      \* rx_depth and tx_depth
  posted,     \* avail.idx of the receive ring in the arena
  ready       \* VirtioNet::ready

driver == <<step, at, todo, depth, posted, ready>>
device == <<kind, up, status, acked, queue, kicked>>
probeVars == <<arch, driver, device>>

Bus == 0..(MmioSlots - 1)
Queues == {"rx", "tx"}
None == [num |-> 0, pfn |-> 0, ready |-> 0]

\* What the registers of a device say.
is_net_device(s) == s \in up /\ kind[s] # "empty"
Version(s) == IF kind[s] \in Version1 THEN 1 ELSE 2
Offered(s) == {"MAC", "CSUM", "TSO"} \cup
              (IF kind[s] \in Version1 \cup {"old"} THEN {} ELSE {"VERSION_1"})
QueueNumMax(s, q) ==
  CASE kind[s] = "norx" /\ q = "rx" -> 0
    [] kind[s] \in {"notx", "legacy_notx"} /\ q = "tx" -> 0
    [] kind[s] \in {"small", "legacy_small"} -> QUEUE_DEPTH \div 2
    [] OTHER -> 4 * QUEUE_DEPTH

\* A version-2 device uses a queue once QueueReady is 1, an older one once it has its page.
Active(s, q) == (IF Version(s) >= 2 THEN queue[s][q].ready ELSE queue[s][q].pfn) = 1

\* The preferred slot, then all slots upwards; only aarch64 does not try it again.
Order ==
  IF arch = "x86_64"
    THEN [i \in 1..(MmioSlots + 1) |-> IF i = 1 THEN Preferred ELSE i - 2]
    ELSE [i \in 1..MmioSlots |->
            CASE i = 1 -> Preferred [] i \in 2..(Preferred + 1) -> i - 2 [] OTHER -> i - 1]

ProbeInit ==
  /\ arch \in {"aarch64", "x86_64"}
  /\ kind \in [Bus -> Kinds]
  /\ up = IF arch = "aarch64" THEN Bus ELSE Bus \ {Preferred}
  /\ status = [s \in Bus |-> {}] /\ acked = [s \in Bus |-> {}]
  /\ queue = [s \in Bus |-> [q \in Queues |-> None]]
  /\ kicked = {}
  /\ step = "scan" /\ at = 0
  /\ todo = Order
  /\ depth = [q \in Queues |-> 0] /\ posted = 0 /\ ready = FALSE

-----------------------------------------------------------------------------

\* x86_64: the preferred device may answer at any of the 256 polls, or too late for them.
Appear ==
  /\ up # Bus /\ up' = Bus
  /\ UNCHANGED <<arch, driver, kind, status, acked, queue, kicked>>

\* kernel_main: "VirtIO probe failed", for ever.
Halt == step' = "halt"

\* A failed attempt; what has been written to the device stays written.
Fail == step' = IF arch = "aarch64" THEN "scan" ELSE "halt"

\* Fault variant: the scan does not move on from an empty slot.
StuckScan ==
  /\ step = "scan" /\ todo # <<>>
  /\ at' = Head(todo)
  /\ todo' = IF is_net_device(Head(todo)) THEN Tail(todo) ELSE todo
  /\ step' = IF is_net_device(Head(todo)) THEN "reset" ELSE "scan"
  /\ UNCHANGED <<arch, depth, posted, ready, device>>

\* probe_into: the next slot with a net device in it.
Scan ==
  /\ step = "scan"
  /\ IF todo = <<>>
       THEN Halt /\ UNCHANGED <<at, todo>>
       ELSE /\ todo' = Tail(todo)
            /\ at' = Head(todo)
            /\ step' = IF is_net_device(Head(todo)) THEN "reset" ELSE "scan"
  /\ UNCHANGED <<arch, depth, posted, ready, device>>

\* Status 0, ACK, ACK | DRIVER; writing 0 resets the device.
Reset ==
  /\ step = "reset" /\ step' = "features"
  /\ status' = [status EXCEPT ![at] = {"ACK", "DRIVER"}]
  /\ acked' = [acked EXCEPT ![at] = {}]
  /\ queue' = [queue EXCEPT ![at] = [q \in Queues |-> None]]
  /\ kicked' = kicked \ {at}
  /\ UNCHANGED <<arch, kind, up, at, todo, depth, posted, ready>>

Unsuitable(s) == Version(s) >= 2 /\ "VERSION_1" \notin Offered(s)

\* modern_handshake accepts MAC and VERSION_1 and asks the device to confirm, which a
\* picky one does not; begin_legacy accepts MAC.
Features ==
  /\ step = "features"
  /\ LET mac == {"MAC"} \cap Offered(at) IN
       IF arch = "x86_64"
         THEN /\ acked' = [acked EXCEPT ![at] = mac]
              /\ step' = "rx"
              /\ UNCHANGED status
         ELSE IF Unsuitable(at)
         THEN /\ acked' = [acked EXCEPT ![at] = mac]
              /\ Fail
              /\ UNCHANGED status
         ELSE /\ acked' = [acked EXCEPT ![at] = mac \cup {"VERSION_1"}]
              /\ status' = IF kind[at] = "picky" THEN status
                           ELSE [status EXCEPT ![at] = @ \cup {"FEATURES_OK"}]
              /\ step' = "prepare"
  /\ UNCHANGED <<arch, kind, up, queue, kicked, at, todo, depth, posted, ready>>

verify_features_ok == "FAILED" \notin status[at] /\ "FEATURES_OK" \in status[at]

\* prepare_queue_config, and the driver's fields from scratch.
Prepare ==
  /\ step = "prepare"
  /\ IF verify_features_ok
       THEN step' = "rx" /\ depth' = [q \in Queues |-> 0] /\ ready' = FALSE
       ELSE Fail /\ UNCHANGED <<depth, ready>>
  /\ UNCHANGED <<arch, at, todo, posted, device>>

QueueDepth(s, q) ==
  IF QueueNumMax(s, q) < QUEUE_DEPTH THEN QueueNumMax(s, q) ELSE QUEUE_DEPTH

\* configure_virtqueue_dual on aarch64, which writes all three registers; x86_64 writes the
\* depth and the page only.
configure(q) ==
  LET max == QueueNumMax(at, q) IN
    IF max = 0
      THEN Fail /\ UNCHANGED <<queue, depth>>
      ELSE /\ queue' = [queue EXCEPT ![at][q] =
                          [num |-> QueueDepth(at, q), pfn |-> 1,
                           ready |-> IF arch = "aarch64" THEN 1 ELSE queue[at][q].ready]]
           /\ depth' = [depth EXCEPT ![q] = QueueDepth(at, q)]
           /\ step' = IF q = "rx" THEN "tx" ELSE "driver_ok"

\* The receive buffers are posted at once on aarch64, after DRIVER_OK on x86_64.
PostedAtSetup == IF arch = "aarch64" THEN depth'["rx"] ELSE 0

SetupRx ==
  /\ step = "rx"
  /\ configure("rx")
  /\ posted' = IF QueueNumMax(at, "rx") = 0 THEN 0 ELSE PostedAtSetup
  /\ UNCHANGED <<arch, kind, up, status, acked, kicked, at, todo, ready>>

SetupTx ==
  /\ step = "tx"
  /\ configure("tx")
  /\ UNCHANGED <<arch, kind, up, status, acked, kicked, at, todo, posted, ready>>

DriverOk ==
  /\ step = "driver_ok"
  /\ IF arch = "aarch64" /\ ~verify_features_ok
       THEN Fail /\ UNCHANGED status
       ELSE /\ status' = [status EXCEPT ![at] = @ \cup {"DRIVER_OK"}]
            /\ step' = IF arch = "aarch64" THEN "notify" ELSE "post"
  /\ UNCHANGED <<arch, kind, up, acked, queue, kicked, at, todo, depth, posted, ready>>

\* x86_64: avail.idx of the receive ring, with the device live already.
Post ==
  /\ step = "post" /\ step' = "notify"
  /\ posted' = depth["rx"]
  /\ UNCHANGED <<arch, at, todo, depth, ready, device>>

\* Fault variant: probe_into goes on after a success.
Doorbell_goes_on ==
  /\ step = "notify" /\ step' = IF todo = <<>> THEN "loop" ELSE "scan"
  /\ kicked' = kicked \cup {at}
  /\ ready' = TRUE
  /\ UNCHANGED <<arch, kind, up, status, acked, queue, at, todo, depth, posted>>

\* The doorbell, ready, run_after_virtio.
Doorbell ==
  /\ step = "notify" /\ step' = "loop"
  /\ kicked' = kicked \cup {at}
  /\ ready' = TRUE
  /\ UNCHANGED <<arch, kind, up, status, acked, queue, at, todo, depth, posted>>

Boot ==
  \/ Scan \/ Reset \/ Features \/ Prepare \/ SetupRx \/ SetupTx
  \/ DriverOk \/ Post \/ Doorbell
ProbeNext == Boot \/ Appear

\* The boot code is straight-line.
ProbeSpec == ProbeInit /\ [][ProbeNext]_probeVars /\ WF_probeVars(Boot)

-----------------------------------------------------------------------------

ProbeTypeOK ==
  /\ status \in [Bus -> SUBSET {"ACK", "DRIVER", "FEATURES_OK", "DRIVER_OK", "FAILED"}]
  /\ queue \in [Bus -> [Queues -> [num : 0..QUEUE_DEPTH, pfn : 0..1, ready : 0..1]]]
  /\ step \in {"scan", "reset", "features", "prepare", "rx", "tx", "driver_ok", "post",
             "notify", "loop", "halt"}
  /\ at \in Bus /\ todo \in Seq(Bus)
  /\ depth \in [Queues -> 0..QUEUE_DEPTH] /\ posted \in 0..QUEUE_DEPTH
  /\ ready \in BOOLEAN /\ up \subseteq Bus /\ kicked \subseteq Bus

Live == {s \in Bus : "DRIVER_OK" \in status[s]}

\* All attempts hand out the same rings: of the devices that were tried and failed none
\* may ever be told to use them, so at most one device is live, and it is the one the
\* driver talks to.
OneOwnerOfTheArena ==
  /\ Cardinality(Live) <= 1
  /\ ready => Live = {at}

\* A device goes live only with both queues programmed to the depth the driver indexes them
\* with and activated the way its version asks for, and on aarch64 with its features
\* confirmed; only x86_64 says nothing for a version-2 device, which it never activates.  As
\* many receive buffers are posted, on x86_64 before the doorbell is rung at the latest; the
\* doorbell is rung on a live device only.
LiveIsConfigured ==
  /\ kicked \subseteq Live
  /\ \A s \in Live :
       /\ \A q \in Queues : queue[s][q].num = depth[q]
       /\ arch = "aarch64" \/ Version(s) = 1 => \A q \in Queues : Active(s, q)
       /\ arch = "aarch64" \/ s \in kicked => posted = depth["rx"]
       /\ arch = "aarch64" => "FEATURES_OK" \in status[s]

\* A modern device is never driven with a feature it does not offer; offloads are never
\* accepted.
OnlyOffered ==
  \A s \in Bus : /\ Version(s) >= 2 => acked[s] \subseteq Offered(s)
                 /\ acked[s] \subseteq {"MAC", "VERSION_1"}

\* A device the modern hand-shake brings up.
Usable(s) ==
  kind[s] \notin {"empty", "old", "picky"} /\ \A q \in Queues : QueueNumMax(s, q) # 0

\* The kernel gives up only if no device on the bus can be used (aarch64); on x86_64 only if
\* the device chosen lacks a queue, or the preferred one alone is there and answered too
\* late.  The half-configured devices tried before do not matter.
HaltsOnlyWithoutDevice ==
  step = "halt" =>
    IF arch = "aarch64" THEN \A s \in Bus : ~Usable(s)
    ELSE \/ \A s \in Bus : is_net_device(s) => s = Preferred
         \/ \E q \in Queues : QueueNumMax(at, q) = 0

\* At every moment of the probe: one owner of the rings, configured before it goes live,
\* with nothing it does not offer; and no device is given up that could be used.
ProbeInv ==
  /\ ProbeTypeOK /\ OneOwnerOfTheArena /\ LiveIsConfigured /\ OnlyOffered
  /\ HaltsOnlyWithoutDevice

\* Boot ends, in the main loop or in the halt, whatever is on the bus.
BootEnds == <>(step \in {"loop", "halt"})
==============================================================================
