--------------------------- MODULE AtomicTelemetry ---------------------------
(***************************************************************************)
(* The sequence-locked telemetry page of the dashboard (metrics.rs): the   *)
(* metronome thread publishes five fields between two increments of seq,   *)
(* and any number of readers (the UI pump, the get_live_telemetry command) *)
(* copy them between two loads of seq and retry on a collision.            *)
(*                                                                         *)
(* Every atomic access is one step, and a load returns the latest store,   *)
(* which is what an in-order machine (x86) gives this program; the weaker  *)
(* memory its orderings would allow is left out.                           *)
(*                                                                         *)
(* A field holds the number of the sample it comes from; sample 0 is the   *)
(* zero-initialised page.  Field 1 is epoch, 2 clock_skew_us, 3            *)
(* egress_queue_depth, 4 real_frames_sent, 5 decoy_frames_sent.            *)
(***************************************************************************)
EXTENDS Integers

CONSTANTS
  Readers,      \* threads that call snapshot()
  NumFields,    \* 5 in the code
  MaxSamples    \* bound: samples published; seq stays far below 2^64

ASSUME TelemetryAssumption == NumFields \in Nat \ {0} /\ MaxSamples \in Nat

VARIABLES
  seq, field,   \* the page
  sample,       \* number of the last sample publish was called with
  wi,           \* writer: 0 between calls, else the next field to store;
                \* NumFields + 1 when only the closing increment is left
  rpc, seq1,    \* per reader: program counter, first load of seq
  ri, copy,     \* per reader: next field to load, fields loaded so far
  snap          \* per reader: the snapshot last returned and its seq

page == <<seq, field>>
writer == <<sample, wi>>
reader == <<rpc, seq1, ri, copy, snap>>
vars == <<page, writer, reader>>

Field == 1..NumFields

Init ==
  /\ seq = 0 /\ field = [f \in Field |-> 0]
  /\ sample = 0 /\ wi = 0
  /\ rpc = [r \in Readers |-> "idle"]
  /\ seq1 = [r \in Readers |-> 0]
  /\ ri = [r \in Readers |-> 1]
  /\ copy = [r \in Readers |-> [f \in Field |-> 0]]
  /\ snap = [r \in Readers |-> [seq |-> 0, fields |-> [f \in Field |-> 0]]]

(***************************************************************************)
(* publish_from_metronome: seq to odd, the fields in order, seq to even.   *)
(***************************************************************************)

\* Fault variant: the fields are written without announcing it first.
PublishUnannounced ==
  /\ wi = 0 /\ sample < MaxSamples
  /\ sample' = sample + 1
  /\ wi' = 1
  /\ UNCHANGED <<page, reader>>

PublishBegin ==
  /\ wi = 0 /\ sample < MaxSamples
  /\ sample' = sample + 1
  /\ seq' = seq + 1
  /\ wi' = 1
  /\ UNCHANGED <<field, reader>>

StoreField ==
  /\ wi \in Field
  /\ field' = [field EXCEPT ![wi] = sample]
  /\ wi' = wi + 1
  /\ UNCHANGED <<seq, sample, reader>>

PublishEnd ==
  /\ wi = NumFields + 1
  /\ seq' = seq + 1
  /\ wi' = 0
  /\ UNCHANGED <<field, sample, reader>>

(***************************************************************************)
(* snapshot                                                                *)
(***************************************************************************)

Call(r) ==
  /\ rpc[r] = "idle"
  /\ rpc' = [rpc EXCEPT ![r] = "seq1"]
  /\ UNCHANGED <<page, writer, seq1, ri, copy, snap>>

LoadSeq1(r) ==
  /\ rpc[r] = "seq1"
  /\ seq1' = [seq1 EXCEPT ![r] = seq]
  /\ rpc' = [rpc EXCEPT ![r] = IF seq % 2 = 0 THEN "copy" ELSE "seq1"]
  /\ ri' = [ri EXCEPT ![r] = 1]
  /\ UNCHANGED <<page, writer, copy, snap>>

LoadField(r) ==
  /\ rpc[r] = "copy"
  /\ copy' = [copy EXCEPT ![r][ri[r]] = field[ri[r]]]
  /\ ri' = [ri EXCEPT ![r] = @ + 1]
  /\ rpc' = [rpc EXCEPT ![r] = IF ri[r] = NumFields THEN "seq2" ELSE "copy"]
  /\ UNCHANGED <<page, writer, seq1, snap>>

\* Fault variant: the second load accepts any even value.
LoadSeq2EvenOnly(r) ==
  /\ rpc[r] = "seq2"
  /\ IF seq % 2 = 0
       THEN /\ snap' = [snap EXCEPT ![r] = [seq |-> seq1[r], fields |-> copy[r]]]
            /\ rpc' = [rpc EXCEPT ![r] = "idle"]
       ELSE /\ rpc' = [rpc EXCEPT ![r] = "seq1"]
            /\ UNCHANGED snap
  /\ UNCHANGED <<page, writer, seq1, ri, copy>>

LoadSeq2(r) ==
  /\ rpc[r] = "seq2"
  /\ IF seq1[r] = seq
       THEN /\ snap' = [snap EXCEPT ![r] = [seq |-> seq1[r], fields |-> copy[r]]]
            /\ rpc' = [rpc EXCEPT ![r] = "idle"]
       ELSE /\ rpc' = [rpc EXCEPT ![r] = "seq1"]
            /\ UNCHANGED snap
  /\ UNCHANGED <<page, writer, seq1, ri, copy>>

Writer == PublishBegin \/ StoreField \/ PublishEnd
Reader(r) == Call(r) \/ LoadSeq1(r) \/ LoadField(r) \/ LoadSeq2(r)
Next == Writer \/ \E r \in Readers : Reader(r)

(***************************************************************************)
(* A publish that began is finished (the metronome thread runs at real-time *)
(* priority) and a reader inside snapshot() is scheduled; neither is       *)
(* obliged to start a call.                                                *)
(***************************************************************************)
Fairness ==
  /\ WF_vars(StoreField \/ PublishEnd)
  /\ \A r \in Readers : WF_vars(LoadSeq1(r) \/ LoadField(r) \/ LoadSeq2(r))

Spec == Init /\ [][Next]_vars /\ Fairness

-----------------------------------------------------------------------------

TypeOK ==
  /\ seq \in Nat /\ sample \in 0..MaxSamples
  /\ field \in [Field -> Nat]
  /\ wi \in 0..(NumFields + 1)
  /\ rpc \in [Readers -> {"idle", "seq1", "copy", "seq2"}]
  /\ seq1 \in [Readers -> Nat]
  /\ ri \in [Readers -> 1..(NumFields + 1)]
  /\ copy \in [Readers -> [Field -> Nat]]
  /\ snap \in [Readers -> [seq : Nat, fields : [Field -> Nat]]]

\* No torn snapshot: the five fields snapshot() returns come from one publish, the
\* one its seq numbers, however the writer's stores fall between its loads.
TornFree ==
  \A r \in Readers : \A f \in Field : 2 * snap[r].fields[f] = snap[r].seq

\* The writer's half of the argument: seq tells exactly which prefix of the fields
\* the current publish has stored.
WriterInv ==
  /\ seq = IF wi = 0 THEN 2 * sample ELSE 2 * sample - 1
  /\ wi > 0 => sample > 0
  /\ \A f \in Field : field[f] = IF wi > 0 /\ f >= wi THEN sample - 1 ELSE sample

\* The reader's half: while seq has not moved since the first load, everything
\* copied so far is from the sample that seq numbers.
CopyOK(r) ==
  rpc[r] \in {"copy", "seq2"} =>
    /\ seq1[r] <= seq
    /\ rpc[r] = "copy" => ri[r] \in Field
    /\ rpc[r] = "seq2" => ri[r] = NumFields + 1
    /\ seq1[r] = seq => /\ wi = 0
                        /\ \A f \in Field : f < ri[r] => copy[r][f] = sample

ReaderInv == \A r \in Readers : CopyOK(r)

Inv == TypeOK /\ WriterInv /\ ReaderInv /\ TornFree

\* A caller of snapshot() gets an answer: it cannot be left spinning on an odd seq.
SnapshotReturns == \A r \in Readers : rpc[r] = "seq1" ~> rpc[r] = "idle"

\* The page is a linearizable register: publish takes effect at its closing
\* increment and a snapshot is the register's content when seq2 is loaded, so it is
\* never older than a publish completed before the call.
Register == INSTANCE SampleRegister WITH
              current <- seq \div 2,
              seen    <- [r \in Readers |-> snap[r].fields]

ImplementsRegister == Register!Spec
==============================================================================
