# Sovereign OS in TLA+

A verification development for the Rust workspace under `pq-core/crates`: modules that
model its stateful components, TLC configurations that check them on small instances,
and theorems the TLA+ proof system checks for every value of the constants.
`PROJECT.json` is the machine-readable index: the source lines behind every definition,
the runs, a mutant for every checked property, the hazards and where each is covered.

Run a configuration with `tlc -config X.cfg M`, a proof module with `tlapm M_proofs.tla`.
Paths below are relative to `pq-core/crates/`.

## 1. The system

Sovereign OS is two programs that share a 512-byte frame format. On a desktop, a tokio
**daemon** (`pq-daemon`, embedded in the Tauri **dashboard**) keeps identities, a trust
ledger, a PIR vault and messaging; everything it emits leaves through a *metronome*, a
real-time thread that writes one fixed-size frame per tick so that traffic says nothing.
On bare metal, a **kernel** (`sovereign-kernel`) drives a virtio network card itself and
runs the same metronome on it.

### Components

| Component | State | Operations | Talks to | What is hard | What makes it correct |
|---|---|---|---|---|---|
| Egress bridge, `pq-daemon/src/bridge/*`, `PendingWrite` of `sovereign-frame` | channel, four atomic flags, the partly written frame, cipher keys | tick (gates, pick, write), send, set gates, shutdown/join | socket; daemon watcher; producers | several threads on separate atomics; partial, refused and fatal writes | framing, FIFO and accounting; gates stop; silence and key erasure after the end; shutdown returns |
| Daemon start-up, Crucible, hand-shake: `pq-daemon/src/{main,crucible}.rs`, `pq-transport/src/{lib,nat}.rs` | progress of `main`, channels, network status, link | load, test, spawn, tick, transmit, connect, fall back | ledger, Tor, peer | an unbounded channel filled before its reader exists; the hand-shake races its deadline | fragments in order and never stuck; the hand-shake settles on both sides |
| Nostr signaler and SOCKS bridge, `signaler.rs`, `socks_proxy.rs` | mute flag, queue, relay link, listener | queue, burst, monitor, connect, listen | Tor, relays, ledger | flag read before the lock; a watch skips statuses; failed sends | attempted once and in order; nothing new after a mute; the flag settles on Tor's state; listeners return |
| Causal buffer, `causal_buffer.rs` | committed tick, ordered map | `process_packet` | network, application | reordering, duplicates, eviction, throttle | in order, exactly once; bounded; no head-of-line block |
| Egress vault, `pq-transport/src/lib.rs` | gear and queue behind two mutexes | push, shift gear, burst, metronome task | callers, transmitter | two locks, clock read twice, receiver may go | order, accounting; how late silence is; bursts end |
| PIR vault, `pq-storage/src/vault.rs` | matrix, index, row count, sweep time | `insert_shard`, `guillotine_purge` | clients query rows by number | re-insertion, expiry, epochs | index and matrix agree; rows stay for the TTL |
| Epoch rendezvous, `pq-storage/src/sync.rs`, `pq-stream/src/receipt.rs`, `DeterministicMapper` | sweep cursor, delivery record | address, deposit, record, sweep, query, confirm, time out, redistribute, collect | PIR vault | wakes and deposits interleave, clock, late receipts | what was deposited on time is swept; redistributions are spaced; a receipt is final |
| Reputation ledger, `pq-reputation`, list loop of `pq-daemon/src/orchestra.rs` | score per peer in a `DashMap`, one file | evidence, decay, freeze, save, load | orchestra, payouts, DHT, relay selection | unlocked save, crash, decay on read | disk holds the evidence; standing fades; a start succeeds |
| Trust readers: `pq-storage/src/lib.rs`, `pq-dht`, `SecurityFirstSelector`, `canary.rs` | receipts under way, routing table | kill signal, payout, insert, select | ledger | a score read earlier is acted on later; repeated signals | trust is earned; a receipt is settled |
| Dashboard gate, telemetry, loopback: `pq-dashboard/src-tauri/src/{lib,commands,metrics}.rs` | OnceCells, ready flag, seqlock page, stream flag, lock file | bootstrap, publish, snapshot, start, kill | every component | commands before the bootstrap; weak memory; quick restarts | snapshots never torn; nothing answered early; a killed stream is silent |
| Virtio-net, `sovereign-kernel/src/virtio/{net,queue}.rs`, `net/device.rs` | two rings, counters, buffers | `send_frame`, `poll_rx` | device, smoltcp, main loop | device runs concurrently; 16-bit wrap; full ring; doorbells | no buffer in two hands; in order, once; nothing stuck |
| Kernel main loop and network stack, `entry.rs`, `timer.rs`, `net/stack.rs` | epoch, staging buffer, two bounded socket queues | poll, echo, heartbeat, sleep | driver, smoltcp | two senders on one ring; a lagging device | both streams keep their order; the loop goes on |
| Virtio-mmio probe, `virtio/{mmio,net}.rs`, `dma.rs` | device status and queues, driver fields | scan, reset, features, queues, DRIVER_OK | bus, devices | half-configured devices; two protocols | one live, fully configured device, or a halt because there is none |
| Buddy allocator, `sovereign-alloc` | free lists, lock-out flag | init, `alloc`, `dealloc`, enter/leave metronome | kernel | split and coalesce in any order | blocks disjoint and large enough; all memory comes back |
| Onion packet, `pq-onion/src/lib.rs` | none: bytes of a packet | build, unwrap | three-hop test | lengths and offsets | every hop sees the same size |
| Bridge facade, bandwidth accounting, boot and MMU, RT threads, STUN, identity, cryptography, streams and codecs, message states, front end | small or none | | | none a state machine shows | not modelled or in part, see section 7 |

Interactions that matter: producers reach the bridge's thread through a channel and its
owner through atomics; the egress vault's task and its callers share two mutexes; the
virtio driver and its device share memory; everybody who judges a peer reads the ledger
through a shared map and saves the whole of it; sender and recipient meet only through
rows of the vault and the ids both compute from the epoch.

## 2. Modules and how they correspond to the code

One action is one atomic step of the code: an atomic load or store, what runs under one
lock or between two awaits, one system call, one ring access. History variables (named so
where they are declared) record what a property talks about and guard nothing.

Five modules are checked as parts of compositions, by the configuration of the module that
extends them: **VirtioTx** in KernelLoop, **AtomicTelemetry** in Dashboard, **ZipPirVault**
in Rendezvous, **ReputationLedger** in Mesh, **Sphinx** in Daemon. **Virtqueue** holds what
the two rings of the kernel share, their depth and their wrapping indices. Four are abstract
specifications others are shown to implement: **FrameWire**, **SampleRegister**,
**InOrderDelivery** (by four modules), **DisjointHeap**.

### The daemon

**BridgeMetronome** (over **FrameWire**). The thread's `pc` walks through `tick`: `LoopTop`
(alive), `CheckKernel`, `CheckPeer`, `Pick` (a pending frame, the channel, or cover), then
one write per step. `Wrote(n)` is a write of *n* bytes, `WouldBlock` EAGAIN, `Broken` EPIPE
or a refusal, `Fatal` any other errno, followed by `Guillotine` (keystream and pending frame
erased), `PublishFault` and `Exit`. `Send`, `Disconnect`,
`SetGate`, `Shutdown`, `Join` are the other threads; `KernelDrains` and `PeerGone` are the
socket. `kind` is fixed at the start: a datagram socket takes whole frames and reports a
refusal once; a stream accepts any part.

**Daemon** (over **InOrderDelivery**, with **Sphinx**) follows `main` from the ledger on:
`LoadLedger`, `TestBuilds` and `TestHops` if the flag is given, `SpawnCrucible`,
`SignalerStarts` (Tor may take for ever or fail, and a failure ends the process with all its
tasks), then `Connect` and the two branches of the select in `connect_with_hydra_fallback`,
`Established` against `DeadlinePasses` and `Fallback`. Beside it run the crucible
(`queue_fragment`, `CrucibleTick`), the messaging loop (`Transmit`, `StatusChanges`) and the
puncher (`PunchEnds`). `ClientFinishes` is quinn's own task, which may send the finished
message when the call is about to fall back; `PeerAnswers`, `PeerFinishes` and `PeerCloses`
are the other end, which may hear of it all much later.

**Sphinx** is the large onion packet byte by byte: `Build`, `Unwrap` at a relay with padding
back to the same size, and at the exit. A byte is a field and a value.

**Signaling** (over **InOrderDelivery**) has the monitor task (`MonitorStarts` with its
unconditional store, `MonitorSees`), the connection loop through the SOCKS bridge
(`Connect`, `Handshake`, `TorConnect`, `Disconnect`), the burst task (`BurstWakes` reads the
flag, `BurstLocks` takes the lock, `Pop`, `Wrap`), and a listener (`Listen`, `Subscribe`,
`Attach`, `CheckDeadline`, `Receive`). Tor is `ready`, `blocked` or `stalled` as it likes.

**CausalBuffer** (over **InOrderDelivery**) is `process_packet` as one action (the method
takes `&mut self`): stale check, throttle, horizon, eviction, insertion, release, in the
order of the code. The peer's bandwidth ratio is a Boolean input, the network repeats and
reorders.

**EgressVault** follows the task through its two locks (`gear`, `expiry`, `decide`,
`queue`, `flush`); pushes and shifts of gear fall between any two steps while no lock
forbids it. Packets are numbered. A burst carries its end time.

### Storage and trust

**ZipPirVault** has `insert_shard` with both clock reads, its errors (`Refuses`: a stale
epoch, a shard longer than a cell, a full matrix), and `guillotine_purge`. A cell keeps its
shard and the time of insertion; the hash tree and the signature are left out, the time
signing takes is not.

**Rendezvous** extends it with one delivery: the sender computes its ids (`Address`), deposits
(`Deposit`, or is `Refused`), does its bookkeeping (`Record`), and may repeat what
`check_timeouts` returns (`Redistribute`); the recipient sweeps (`sweep_epochs`) and queries; a
receipt comes back at any time (`confirm_receipt`); records are collected (`gc_confirmed`);
strangers fill rows. An id is the epoch it is for. The repository has the operations and no
caller of them: the model's callers make one call after the other, deposit before they
register or mark, and owe nothing. After an error of `insert_shard` they may compute new ids,
or leave the delivery to the time-outs.

**ReputationLedger** has evidence in halves. An update is one action (the map entry is
locked), the save behind it is several: copy entry after entry, truncate, write. Decay
is modelled for the hours that halve the evidence, where both halves can be counted, and
for those that leave next to nothing. A crash loses the memory; a start loads the file or
gives up. **Mesh** extends it with kill signals and their spawned payouts
(`handle_kill_signal`, `Payout`), the gate and the full bucket of the node table
(`attempt_insert_node`) and the choice of a relay (`select_hop`), which reads with the
threshold of a relay or of an edge. A crash empties everything but the file.

### The dashboard

**AtomicTelemetry** (over **SampleRegister**) is the seqlock with one action per atomic
access, in the order of the code. **Dashboard** extends it with the bootstrap that anchors
the cells one by one (`Anchor`; a failure panics the task), opens the gate (`Unlock`), the
commands that test it (`Answer`), the readers of the page (`CallSnapshot`: a command behind
the gate, the UI's pump at any time), and the camera loopback: the start command in three
steps (`LookForLock`, `WriteLock`, `Activate`), the kill, and the task that looks at the flag
(`Wake`), drops the lock while it splits a frame and reports, unless the frame could not be
split (`Report`), and goes (`GoOff`).

### The kernel

**VirtioTx** (over **InOrderDelivery**) is `send_frame` store by store, `wait_tx_ring_slot`,
the doorbell, and a device that fetches, transmits and returns descriptors on its own.
`IdxMod` stands for 2^16. `ordered` chooses, per behaviour, whether ring entry and index
reach the device in program order. `Patient` assumes the device frees a slot within the
spins. **KernelLoop** extends it with the loop of `run_after_virtio`: `PollVirtio`, the
interface poll (`TakeDatagram`, `AnswerRequest`, `EmitEcho`, `Resolve`, `EndPoll`), the echo
socket (`Recv`), the second poll, `Beat` and `Sleep`. smoltcp is external, its two queues are
not. **VirtioRx** is the drain loop, the re-posting of buffers, the staging buffer of
`VirtioDevice`, runts, buffers that come back empty (`Blanks`), and a device that fills
buffers meanwhile. A buffer is posted again by two plain stores, entry and index, which the
device may see in either order (`RepostEntry`, `RepostIndex`; `EarlyRepost`, `LateEntry`).

**VirtioProbe** takes both architectures at once: `Scan`, `Reset`, `Features`, `Prepare`,
`SetupRx`, `SetupTx`, `DriverOk`, `Post`, `Doorbell`, with the device kinds that make each step
fail. `configure` writes the registers the code writes: aarch64 the depth, the page and
`QueueReady`, x86_64 the depth and the page; `Active` says which of them the device goes by.
On x86_64 the buffers are posted after `DRIVER_OK`, in a step of their own.

**BuddyAllocator** (over **DisjointHeap**) has the free lists as sequences per order,
`layout_to_buddy` and `order_for_layout` on bytes, `alloc` with its splits, `dealloc` with
its merges, initialisation and the lock-out flag, in a pool at any address (`PoolBase`) that
is a multiple of the alignments asked for. Every call is one step: one core, one
thread, no interrupts.

## 3. What the runs check

Every property has a mutant in `PROJECT.json`: a change of one definition, of the kind a bug
would make, that TLC finds with the run's own configuration. Invariants named `...Inv` are
conjunctions of named parts, listed with them in the module.

| Run | Checks | Bounds, and why they are enough |
|---|---|---|
| `bridge` (131 thousand states) | `Inv` (framing, FIFO accounting, gates stop), `SilentAfterEnd`, `ImplementsFrameWire`, `Progress` (shutdown returns, the queue drains) | frames of 2 bytes (one split point), a buffer of 3 (a frame and a half: partial writes happen), 3 frames (one on the wire, two queued), both socket kinds; the safety part is proved for all values |
| `daemon` (61 thousand) | `DaemonInv` (one packet size at every hop, no attempt outlives the fallback), `ImplementsInOrderFragments`, `DaemonProgress` | 4 fragments and 4 packets in the channel before the reader exists; packets of 18 bytes with 2-byte ciphertexts keep all three hops and the padding |
| `signaling` (100 thousand) | `Inv` (every signal in one place), `ImplementsInOrderAttempts`, `MutedAfterTheBurst`, `SignalerProgress` | 2 peers, 2 signals (one queued during the burst of the other), a channel of 1 that overflows |
| `causal_buffer` (607 states) | `Inv`, `ForgetsOldest`, `ImplementsInOrderDelivery`, `EventuallyDelivered` | horizon 6, buffer 3 (evictions and the throttle act), 10 ticks: past the horizon |
| `egress_vault` (4.7 thousand) | `Inv` (order, accounting, silence late by at most one flush), `OnlyEndsBursts`, `MetronomeProgress` | 3 packets, bursts of 2 in 4 units of time: a burst, its end and one after it |
| `rendezvous` (474 thousand) | the vault's `Inv`, `RendezvousInv` (what was on time is never skipped), `RowsKeepTheirCells`, `DeliveriesKept`, `SweepsIndexed` (no indexed cell stays past its TTL) | 2 rows (full with one stranger), TTL 3, epochs of 2, 5 units of time: three epochs, one expiry, one redistribution |
| `mesh` (709 thousand) | `MeshInv` (disk current, a start succeeds, only the earned are admitted), `StandingFades`, `TrustIsEarned`, `ReceiptsSettle` | 1 peer (peers share nothing but the file), 2 tasks whose saves overlap, 2 events, 1 crash |
| `dashboard` (270 thousand) | the page's `Inv`, `DashboardInv` (gate, killed is silent, active is served), `ImplementsRegister`, `DashboardProgress` | 2 fields suffice to tear; the reader is the pump, which calls whenever a command may and before; 2 start commands and 2 stream tasks: a restart before the old one is gone |
| `kernel_loop` (1.3 million) | `LoopInv` (ring discipline, heartbeats and echoes in order), `ImplementsInOrderWire`, `LoopGoesOn` | ring of 2, indices modulo 4, 7 frames: three laps and a wrap; 3 datagrams, one too long; both memory orders |
| `virtio_rx` (7.9 thousand) | `RxInv` (every buffer in one place, frames get newer), `Receives` | ring of 4, indices modulo 8, 11 frames: a wrap and two laps; four of them runts, three in a row of those empty (one fewer than the ring) |
| `virtio_probe` (37 thousand) | `ProbeInv` (one owner of the rings, the live device configured, only offered features accepted, a halt only without a device), `BootEnds` | every bus of 3 slots with 10 kinds of device, both architectures |
| `heap` (5.7 thousand) | `HeapInv` (partition, fully coalesced, no room lost, aligned), `ImplementsHeap` | a pool of 8 smallest blocks (4 orders), sizes below, at and above a block, two alignments; all call sequences |

### Deadlock and termination

`CHECK_DEADLOCK FALSE` stands where the system may stop for good: the bridge after its
guillotine, the daemon after an early exit, the probe in the loop or the halt, the dashboard
when nothing is left running, the ledger after a failed start, the heap after an exhausted
allocation panicked, and the causal buffer, the signaler and the main loop when a bounded run
has sent everything. The other runs (`egress_vault`, `rendezvous`, `virtio_rx`) check for
deadlock.

### Fairness

* Bridge: the thread is scheduled and its calls do not block (the socket is non-blocking,
  the channel is polled), the kernel drains the send buffer, and whoever calls `shutdown`
  waits in `join`. Nobody has to send, open a gate or shut down.
* Daemon: tokio polls what is ready, timers fire, and a peer drops a link nobody answers on.
  Tor's bootstrap may take for ever; the peer need never answer.
* Signaling: the runtime runs ready tasks; time passes, so that sleeps end and the deadline
  of a listener comes. Tor owes nothing; each liveness property names what it supposes of it.
* Causal buffer: the peer repeats a packet until it arrives, on a path that is not
  throttled. Without that a throttled packet may be dropped for ever, which the code
  intends.
* Egress vault: the tokio task runs and the clock advances.
* Rendezvous: the guillotine's interval and the clock. The sender may stop at any step, the
  recipient may sleep for ever, and a receipt need never come.
* Mesh: time passes, the orchestra lists all scores every 60 seconds, and what was spawned
  runs. Nobody has to add evidence, crash or start.
* Dashboard: a `publish` once begun goes on, and so does a `snapshot`; a loopback task whose
  sleep is over runs. Nobody has to start, kill or publish again. The bound on the samples
  means that a reader is interrupted finitely often: that the publishes, 200 ms apart, leave
  every snapshot room to finish is assumed and not shown.
* Kernel: the loop is straight-line code on a core of its own, and the device serves what it
  was notified of. `Receives` supposes, in its hypothesis, a network that goes on sending.

## 4. What is proved

A proof module is named after a run's module and extends it; the modules that composition
extends are proved there too. Two hold the proofs of several specifications: `Daemon_proofs`
those of Daemon and Mesh, `Kernel_proofs` those of KernelLoop, VirtioRx, VirtioProbe and
BuddyAllocator. The theorems hold for every value of the constants that the named
assumptions allow; the bounds on behaviours are arbitrary naturals. Every inductive
invariant was an invariant of a TLC run before it was proved.

* **BridgeMetronome_proofs**: `InvHolds`, `NothingAfterTheEnd`, `RefinesFrameWire`. `Inv` is
  not inductive. `LineInv` says where the far end is: on a stream that has not broken it
  waits for exactly the pending offset of the pending frame, on a datagram socket it is always
  between two frames. `GateInv` ties what leaked past a closed gate to the place of the thread:
  nothing if it has yet to test the flag, at most the pending offset in the middle of a write.
  `NewestTaken` identifies the frame in hand as the last one taken from the channel, `EndInv`
  and `PendingInv` what holds at each place. One lemma per part shows that every step keeps
  it. In the refinement a frame begins at `Pick`, every `Wrote` emits, `Broken` and `Fatal`
  give up, the end of the thread stops the line, and every test of a flag stutters.
* **Dashboard_proofs**: of the page `InvHolds`, `SnapshotsNotTorn`, `PageImplementsRegister`;
  of the dashboard `DashboardImplementsPage`, `DashboardInvHolds`, `DashboardKeepsPage`.
  `TornFree` is not inductive: whether a snapshot is torn is settled long before it is
  returned. `WriterInv` says that `seq` numbers the prefix of the fields already stored;
  `ReaderInv` says that what a reader has copied is the sample of `seq1` as long as `seq`
  has not moved. The refinement maps `publish` to its closing increment and a snapshot to
  its second load of `seq`; every other step stutters. The composition implies `Spec` of the
  page, step by step and with its fairness, so the page's theorems carry over.
  `DashboardInv` is inductive as it stands.
* **CausalBuffer_proofs**: `InvHolds`, `DeliversInOrder`, `OnlyOldestForgotten`,
  `AmpleNeverForgets`. `WindowInv` says that the next tick is never held back (a gap is at
  the front) and that all held-back ticks lie inside the horizon; with `InOrder` it is
  inductive. `AcceptRun` shows that a released run is contiguous, `EvictionMakesRoom` that
  one eviction keeps the bound. `AmpleNeverForgets`: with a buffer as large as the horizon,
  the default configuration, nothing accepted is dropped again.
* **EgressVault_proofs**: `InvHolds` (from `PacketsAccountedFor` and `SilenceLateByOneFlush`)
  and `MetronomeOnlyEndsBursts`. The accounting is that what was released, what was lost and
  what is queued, in this order, is 1..pushed; `StrayInv` ties the flushes after a shift
  to the place of the task.
* **Rendezvous_proofs**: of the vault `InvHolds`, `RowsKept`; of the delivery
  `DeliveryInvHolds`, `RendezvousInvHolds`, `DeliveryKeepsVault`, `DeliveriesAreKept`. In the
  vault the row counter equals the number of occupied rows, the index points at cells of its
  own shard, and a cell is as old as its time says; `PurgeCounts` shows that a sweep lowers
  the counter by the rows it frees. The delivery adds `RecordInv` (there is no record, or one
  to be repeated, while a deposit is on its way) and `SpacedInv` (the record is no older than
  the last deposit, and the next one waits for the time-out): a redistribution takes several
  steps, and what makes it late enough was tested in the first.
* **Signaling_proofs**: `InvHolds`, `NothingWhileMuted`, `AttemptsAreInOrder`. `Placed` is the
  accounting element by element: the i-th attempt is signal i, the one in hand the next, the
  queue the rest. `SettledInv` says what the history variable of `MutedAfterTheBurst` means.
* **Kernel_proofs**, the loop: `LoopInvHolds`, `FramesLeaveInOrder`, both under the hypothesis
  `Patient` that the device frees a slot within the 4096 spins. Without it the driver
  overwrites a descriptor in use (section 5) and neither holds, so the hypothesis is in the
  theorem and not in the model. `RingIInv` puts every frame by its number: which of the
  descriptors the frames between the counters occupy, which ring entries name them, and that
  `Depth` dividing `IdxMod` keeps slots and wrapped indices in step (`Counted`, `Distinct`,
  `SameRemainder`). `LoopIInv` labels the frames: the heartbeats sent are the epochs so far,
  and the datagrams in the staging buffer, the inbox, the outbox and on the ring are in order.
* **Kernel_proofs**, reception: `RxInvHolds`. `RxIInv` counts the buffers posted again, k: the
  used ring is read at k, the avail ring written at k + `Depth`, and since buffers go round in
  their order frame n lies in buffer n - 1 modulo the depth (`Counters`, `Rounds`). That the
  device never overtakes the driver by more than a lap is then the bound on the counters, and
  what is staged or delivered is older than what is still to be handled (`Staged`).
* **Kernel_proofs**, the probe: `ProbeInvHolds`, `BootIsBounded`. `Attempt` says how far the
  slot being tried has come, so that `DRIVER_OK` finds what it needs; `LiveInv` that a failed
  attempt leaves no live device behind; `PassedOver` that every slot the scan has gone past was
  tried and failed for a reason of its device (`UsableKinds`), which is what a halt has to
  answer for. `BootIsBounded` is the half of `BootEnds` that needs no fairness: every step of
  the boot code lowers `BootLeft`, and a device that appears late does not raise it.
* **Kernel_proofs**, the heap: `HeapInvHolds`, `AllComesBackHolds`, `HeapImplemented`. `IsPool`
  adds to the property that every block lies at a multiple of its size, which a merge needs
  (the buddy of a joined block is where the code looks for it), and that the order of a block
  in use is the one its layout gives, so that `dealloc` finds the order `alloc` chose. A call
  exchanges some blocks for others that cover the same units (`Exchange`): `alloc` one block
  for its upper halves and the block handed out (`Splits`), `dealloc` a block and its free
  buddies for one (`Joins`); that the joined block was on no list before follows from the
  partition. What 1 << k is for every k, and how far a chain of merges reaches, are inductions:
  `Least` has a least element in every set of naturals, `Inductive` draws induction over a set
  from it, and `Pow2Is` that the recursive function `Pow2` satisfies its definition.
  `AllocAssumption` says what `Layout` guarantees, that an alignment is a power of two. The
  refinement maps `alloc` to `Alloc` with the block's order as its size and `dealloc` to
  `Free`. `NoRoomLost` says what coalescing is for: a request fails only if at every place a
  block of its order could have stands a block in use. At a place without one everything would
  be free; of two blocks at multiples of their sizes that overlap one lies in the other
  (`Nested`), so the smallest free block there would lie beside a buddy that is free as well
  (`RoomIs`), and the two would have been merged. With nothing in use the whole pool can be had
  again (`AllComesBackHolds`).
* **Daemon_proofs**: of Mesh `MeshInvHolds`, `OnlyPraiseLifts`; of Daemon `DaemonInvHolds`,
  `FragmentsInOrder`. `DiskCurrent` speaks of a file at rest; what carries it through a save
  is `Covers`: a save that runs alone has every entry it visited, up to decay since. `Readable`
  says that an unreadable file has a save at work on it, or was put at risk; `Book` that evidence
  above the first half point has been praised, in memory, in every copy and in the file.
  `OnlyPraiseLifts` is arithmetic: decay, as modelled, never raises alpha / (alpha + beta) to a
  threshold of 0.7 or 0.9 (`DecayNeverLifts`), and a bad report never does. It speaks of the
  report and not of a higher count of good evidence, because `update_score` decays before it
  adds: the count may fall in the very step that lifts the peer. `DaemonInv` needs `Proper`: header and
  payload have the sizes `Build` gave them, which a relay keeps since it strips, prepends and
  pads; that a packet is never longer than the MTU needs a margin of at least the 7 bytes of
  hop counts and length, where the code reserves 4096. The fragments' order is `FlowInv`: what
  was given and not handled is in the channel with noise between (`InChannel`), then in the
  buffer, then in the inbox.

Model-checked only: all liveness properties, since fairness is outside the prover's reach
(of `BootEnds` the measure that makes it true is proved).
The safety properties of every run are proved.

## 5. Observations

Met while reading and modelling; each is what the code does, and no run states it.

The kernel:

* `virtio/net.rs:737` has a compiler fence between ring entry and index; on AArch64 the
  device may see the new index with an old entry. `ImplementsInOrderWire` under the weak
  order therefore starts with the second lap.
* The wait for a transmit slot gives up after 4096 spins and the next frame then overwrites a
  descriptor the device still owns, although `driver.rs:18` speaks of queueing a frame.
  The model takes a device that is fast enough (`Patient`).
* Nothing orders the two stores by which `drain_rx_queue` posts a buffer again
  (`virtio/net.rs:647`). It is harmless: with a device that uses buffers in order the entry
  is already there from the lap before (`SameEntry` in `Kernel_proofs`).
* A drain in which every buffer came back with length 0 rings no doorbell
  (`virtio/net.rs:678`): `Depth` of them in a row on a device that has gone to sleep would
  end reception. A device writes at least the header, so the run stays below that, with
  `Depth - 1` in a row.
* `poll_rx` re-reads the used index (`virtio/net.rs:625`), so one poll is not bounded by the
  depth of the ring; and `VirtioDevice` has one staging buffer (`net/device.rs:39`), so of
  the frames of one poll the stack sees the last.
* The transmit buffers hold 512 bytes but `send_eth_frame` accepts 1514: the echo of a UDP
  payload of more than 458 bytes, and the reply to a ping of that length, panic the kernel.
  `KernelLoop` has such datagrams (`Long`), and a reply that panics (`AnswerRequest`).
* `StaticPool` is aligned to 4096, not to its 32 MiB (`sovereign-alloc/src/pool.rs:6`):
  `AlignedAsAsked` assumes that the pool is aligned to every alignment asked for
  (`AllocAssumption`), which the code promises up to 4096; a larger one is not covered.
* The bare-metal `kernel_main` never initialises the heap, and the global allocator exists
  only for `target_os = "none"`. `RtFramePool`, `probe_legacy` and `sovereign-frame`'s
  `run_loop` are not used by anything.
* `finish_x86_queues` never writes `QueueReady`, which a version-2 device asks for: such a
  device goes live on x86_64 with no queue activated, and the kernel enters its loop. What
  `LiveIsConfigured` says of activation on x86_64 is therefore of version-1 devices. Between
  `DRIVER_OK` and `avail.idx` (`virtio/net.rs:247-254`) the device is live with nothing posted.

The daemon:

* An eviction from the causal buffer does not advance `committed_tick`
  (`causal_buffer.rs:83`): the evicted tick blocks the line until the peer repeats it.
* `go_submarine` is not silent at once (`pq-transport/src/lib.rs:35` "No packets are
  emitted"): a tick that had decided to transmit still flushes, packets pushed since included.
  `Inv` of `egress_vault` states what does hold, one flush at most.
* An event that arrives between the subscription (`signaler.rs:263`) and the call of
  `notifications()` (269) is missed; after `shutdown` the connection loop connects again.
* `initiate_handshake` drops the connection it has just announced as established; any error
  of the hand-shake takes the fallback path too; the puncher has its own socket and goes on
  past the deadline.
* Nobody gives the crucible fragments, the send of `Muted` is commented out, and noise piles
  up in an unbounded channel while the signaler waits for Tor.
* A relay prepends the hop count although the rest of the payload starts with its own, so
  the headers of the next hop are off by one byte; and the exit reads the length of its proof
  partly from the last ciphertext. `--test-3hop` ends with an error every time, and the
  success line (`main.rs:413`) is never printed.

Storage, trust and dashboard:

* Inserting a known shard re-points the index; the older cell is out of reach of the purge,
  which says that it "removes all entries older than" the TTL (`vault.rs:272`).
* `CausalNack::handle_nack` says "Automatically re-shredding payload"
  (`pq-transport/src/lib.rs:235`) and only logs: nothing computes new ids or deposits again
  what the vault refused.
* A shard accepted in the grace period after its recipient swept past its epoch is queried by
  nobody; only a redistribution repairs that. Shards live for 48 hours, sweeps reach back four
  epochs. A receipt that comes before `register_delivery` is an error. One clock is assumed
  for all. Nothing in the repository drives these components yet.
* `update_score`, `apply_auth_failure` and decay act on a frozen peer, although
  `pq-reputation/src/lib.rs:231` says that all recalculations are suspended; the freeze itself
  is not saved.
* `tokio::fs::write` truncates first; a crash before the data is written leaves a ledger
  the next start refuses (`pq-reputation/src/lib.rs:209`, `88`).
* Every repeated kill signal with a valid receipt pays again, whether or not the chunk was
  held. A record stays in the node table after the score of its peer falls.
* The canary payload is as large as the packet it must fit in (`canary.rs:21`,
  `SphinxPacket::build`): the audit fails before it reports anything.
* The page's relaxed loads allow, under C11, a mixed snapshot with both loads of `seq` equal;
  the comment at `metrics.rs:82` claims more of a release store than it orders. The model and
  its theorems take memory in the order of the code.
* A kill and a quick restart leave two loopback tasks for one stream until the next kill; the
  lock file is tested and written in two steps and left behind by a crash. `tor_client` is
  never set.

## 6. Plan

What is left, most important first:

1. Proofs: measures for the other liveness properties, as `BootLeft` is one for `BootEnds`.
2. Stateful parts still outside: the contents of the ephemeral chunk store with their time to
   live, the message life cycle in the rendezvous, the retries of the STUN exchange.
3. Larger instances of `mesh` (two peers) and `kernel_loop` (a ring of 4), outside the regular
   runs, once the proofs carry the regular ones.

## 7. Not modelled, and why

Cryptography is ideal: a signature verifies, a cipher hides. Encoders, erasure codes, mix
packets, delegation certificates and page tables are functions of their inputs and would only
be transcribed. Sockets, Tor, QUIC, SQLite, smoltcp and the operating system appear only as
the outcomes they give the code. Wall-clock time is a counter where code compares times, and
absent where it only paces. Bandwidth accounting is one mutex around counters; boot, MMU and
UART are straight-line register writes; real-time thread set-up is a sequence of system calls.
The front end, examples, scripts and CI hold no logic of the system. What a "partly" component
leaves out is named in its note in `PROJECT.json`.
