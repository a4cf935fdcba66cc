--------------------------- MODULE Dashboard_proofs ---------------------------
(***************************************************************************)
(* First the telemetry page on its own, for any number of readers, fields  *)
(* and samples: a snapshot is never torn and the page implements an atomic *)
(* register, on a machine where loads return the latest store.             *)
(*                                                                         *)
(* Then the dashboard around it, for any number of starters and loopback   *)
(* tasks: it runs the page by the page's own rules, and behind its gate    *)
(* nothing is missing.                                                     *)
(***************************************************************************)
EXTENDS Dashboard, TLAPS

USE TelemetryAssumption DEF TelemetryAssumption, Field

LEMMA InitInv == Init => Inv
  BY DEF Init, Inv, TypeOK, WriterInv, ReaderInv, CopyOK, TornFree

\* Type correctness is preserved by every step from a state satisfying Inv.
LEMMA TypeStep == Inv /\ [Next]_vars => TypeOK'
<1> SUFFICES ASSUME Inv, [Next]_vars PROVE TypeOK'
  OBVIOUS
<1> USE DEF Inv, TypeOK
<1>1. CASE PublishBegin
  BY <1>1, SMTT(60) DEF PublishBegin, reader
<1>2. CASE StoreField
  <2>1. sample \in Nat /\ wi + 1 \in 0..(NumFields + 1)
    BY <1>2 DEF StoreField
  <2>2. field' \in [Field -> Nat]
    BY <1>2, <2>1 DEF StoreField
  <2> QED
    BY <1>2, <2>1, <2>2 DEF StoreField, reader
<1>3. CASE PublishEnd
  BY <1>3, SMTT(60) DEF PublishEnd, reader
<1>4. ASSUME NEW r \in Readers, Call(r) PROVE TypeOK'
  BY <1>4 DEF Call, page, writer
<1>5. ASSUME NEW r \in Readers, LoadSeq1(r) PROVE TypeOK'
  <2>1. rpc' \in [Readers -> {"idle", "seq1", "copy", "seq2"}]
    BY <1>5 DEF LoadSeq1
  <2>2. seq1' \in [Readers -> Nat]
    BY <1>5 DEF LoadSeq1
  <2>3. ri' \in [Readers -> 1..(NumFields + 1)]
    BY <1>5 DEF LoadSeq1
  <2> QED
    BY <1>5, <2>1, <2>2, <2>3 DEF LoadSeq1, page, writer
<1>6. ASSUME NEW r \in Readers, LoadField(r) PROVE TypeOK'
  <2>1. ri[r] \in 1..NumFields
    BY <1>6 DEF LoadField, ReaderInv, CopyOK
  <2>2. rpc' \in [Readers -> {"idle", "seq1", "copy", "seq2"}]
    BY <1>6 DEF LoadField
  <2>6. ri' = [ri EXCEPT ![r] = ri[r] + 1] /\ ri[r] + 1 \in 1..(NumFields + 1)
    <3> HIDE DEF Inv, TypeOK
    <3>1. ri' = [ri EXCEPT ![r] = ri[r] + 1]
      BY <1>6, ZenonT(60) DEF LoadField
    <3>2. ri[r] + 1 \in 1..(NumFields + 1)
      BY <2>1, SMTT(60)
    <3> QED
      BY <3>1, <3>2
  <2>3. ri' \in [Readers -> 1..(NumFields + 1)]
    <3>1. ri \in [Readers -> 1..(NumFields + 1)]
      OBVIOUS
    <3> HIDE DEF Inv, TypeOK
    <3> QED
      BY <2>6, <3>1, ZenonT(60)
  <2>4. [copy[r] EXCEPT ![ri[r]] = field[ri[r]]] \in [Field -> Nat]
    BY <2>1
  <2>5. copy' \in [Readers -> [Field -> Nat]]
    BY <1>6, <2>4 DEF LoadField
  <2> QED
    BY <1>6, <2>2, <2>3, <2>5 DEF LoadField, page, writer
<1>7. ASSUME NEW r \in Readers, LoadSeq2(r) PROVE TypeOK'
  <2>1. rpc' \in [Readers -> {"idle", "seq1", "copy", "seq2"}]
    BY <1>7 DEF LoadSeq2
  <2>2. [seq |-> seq1[r], fields |-> copy[r]] \in [seq : Nat, fields : [Field -> Nat]]
    OBVIOUS
  <2>3. snap' \in [Readers -> [seq : Nat, fields : [Field -> Nat]]]
    <3>1. snap \in [Readers -> [seq : Nat, fields : [Field -> Nat]]]
      OBVIOUS
    <3>2. \/ snap' = snap
          \/ snap' = [snap EXCEPT ![r] = [seq |-> seq1[r], fields |-> copy[r]]]
      BY <1>7 DEF LoadSeq2
    <3> HIDE DEF Inv, TypeOK
    <3> QED
      BY <2>2, <3>1, <3>2, ZenonT(60)
  <2> QED
    BY <1>7, <2>1, <2>3 DEF LoadSeq2, page, writer
<1>8. CASE UNCHANGED vars
  BY <1>8 DEF vars, page, writer, reader
<1> QED
  BY <1>1, <1>2, <1>3, <1>4, <1>5, <1>6, <1>7, <1>8 DEF Next, Writer, Reader

\* The writer keeps seq in step with the fields it has stored.
LEMMA WriterStep == Inv /\ [Next]_vars => WriterInv'
<1> SUFFICES ASSUME Inv, [Next]_vars PROVE WriterInv'
  OBVIOUS
<1> USE DEF Inv, TypeOK, WriterInv
<1>1. CASE PublishBegin
  BY <1>1 DEF PublishBegin
<1>2. CASE StoreField
  BY <1>2 DEF StoreField
<1>3. CASE PublishEnd
  BY <1>3 DEF PublishEnd
<1>4. ASSUME NEW r \in Readers, Reader(r) PROVE WriterInv'
  BY <1>4, ZenonT(60) DEF Reader, Call, LoadSeq1, LoadField, LoadSeq2, page, writer
<1>5. CASE UNCHANGED vars
  BY <1>5 DEF vars, page, writer
<1> QED
  BY <1>1, <1>2, <1>3, <1>4, <1>5 DEF Next, Writer

\* Once seq has moved past a reader's first load it never equals it again, and as
\* long as it has not moved no field changes under the reader.
LEMMA ReaderStep == Inv /\ [Next]_vars => ReaderInv'
<1> SUFFICES ASSUME Inv, [Next]_vars, NEW q \in Readers PROVE CopyOK(q)'
  BY DEF ReaderInv
<1>0. CopyOK(q) /\ TypeOK /\ WriterInv
  BY DEF Inv, ReaderInv
<1>1. CASE PublishBegin
  BY <1>0, <1>1, SMTT(60) DEF PublishBegin, reader, CopyOK, TypeOK
<1>2. CASE StoreField
  <2>1. rpc[q] \in {"copy", "seq2"} => seq1[q] # seq
    BY <1>0, <1>2 DEF StoreField, CopyOK
  <2> QED
    BY <1>0, <1>2, <2>1 DEF StoreField, reader, CopyOK
<1>3. CASE PublishEnd
  BY <1>0, <1>3, SMTT(60) DEF PublishEnd, reader, CopyOK, TypeOK
<1>4. ASSUME NEW r \in Readers, r # q, Reader(r) PROVE CopyOK(q)'
  <2>1. /\ rpc'[q] = rpc[q] /\ seq1'[q] = seq1[q]
        /\ ri'[q] = ri[q] /\ copy'[q] = copy[q]
    BY <1>0, <1>4 DEF Reader, Call, LoadSeq1, LoadField, LoadSeq2, TypeOK
  <2>2. UNCHANGED <<seq, wi, sample>>
    BY <1>4 DEF Reader, Call, LoadSeq1, LoadField, LoadSeq2, page, writer
  <2> QED
    BY <1>0, <2>1, <2>2 DEF CopyOK
<1>5. CASE Call(q) \/ LoadSeq2(q)
  <2>1. rpc'[q] \notin {"copy", "seq2"}
    BY <1>0, <1>5 DEF Call, LoadSeq2, TypeOK
  <2> QED
    BY <2>1 DEF CopyOK
<1>6. CASE LoadSeq1(q)
  <2>1. seq % 2 = 0 => wi = 0
    BY <1>0 DEF WriterInv, TypeOK
  <2>2. /\ rpc'[q] = IF seq % 2 = 0 THEN "copy" ELSE "seq1"
        /\ seq1'[q] = seq /\ ri'[q] = 1
    BY <1>0, <1>6 DEF LoadSeq1, TypeOK
  <2>3. UNCHANGED <<seq, wi, sample>> /\ seq \in Nat
    BY <1>0, <1>6 DEF LoadSeq1, page, writer, TypeOK
  <2> QED
    BY <2>1, <2>2, <2>3 DEF CopyOK
<1>7. CASE LoadField(q)
  <2>1. /\ ri[q] \in Field /\ ri'[q] = ri[q] + 1 /\ seq1'[q] = seq1[q]
        /\ rpc'[q] = IF ri[q] = NumFields THEN "seq2" ELSE "copy"
        /\ UNCHANGED <<seq, wi, sample>> /\ rpc[q] = "copy"
    BY <1>0, <1>7 DEF LoadField, TypeOK, CopyOK, page, writer
  <2>2. \A f \in Field : copy'[q][f] = IF f = ri[q] THEN field[f] ELSE copy[q][f]
    BY <1>0, <1>7, <2>1 DEF LoadField, TypeOK
  <2>3. wi = 0 => \A f \in Field : field[f] = sample
    BY <1>0 DEF WriterInv
  <2>4. seq1'[q] = seq' =>
          wi' = 0 /\ \A f \in Field : f < ri'[q] => copy'[q][f] = sample'
    BY <1>0, <2>1, <2>2, <2>3 DEF CopyOK
  <2> QED
    BY <1>0, <2>1, <2>4 DEF CopyOK
<1>8. CASE UNCHANGED vars
  BY <1>0, <1>8 DEF vars, page, writer, reader, CopyOK
<1> QED
  BY <1>1, <1>2, <1>3, <1>4, <1>5, <1>6, <1>7, <1>8 DEF Next, Writer, Reader

\* A snapshot is returned only when both loads of seq agree.
LEMMA TornFreeStep == Inv /\ [Next]_vars => TornFree'
<1> SUFFICES ASSUME Inv, [Next]_vars PROVE TornFree'
  OBVIOUS
<1> USE DEF Inv, TypeOK, TornFree
<1>1. CASE Writer
  BY <1>1 DEF Writer, PublishBegin, StoreField, PublishEnd, reader
<1>2. ASSUME NEW r \in Readers, Call(r) \/ LoadSeq1(r) \/ LoadField(r) PROVE TornFree'
  BY <1>2 DEF Call, LoadSeq1, LoadField
<1>3. ASSUME NEW r \in Readers, LoadSeq2(r) PROVE TornFree'
  <2>1. CASE seq1[r] = seq
    <3>1. seq = 2 * sample /\ \A f \in Field : copy[r][f] = sample
      BY <1>3, <2>1, SMTT(60) DEF LoadSeq2, WriterInv, ReaderInv, CopyOK
    <3>2. /\ snap'[r].seq = seq /\ snap'[r].fields = copy[r]
          /\ \A q \in Readers \ {r} : snap'[q] = snap[q]
      BY <1>3, <2>1 DEF LoadSeq2
    <3> QED
      BY <3>1, <3>2
  <2>2. CASE seq1[r] # seq
    BY <1>3, <2>2 DEF LoadSeq2
  <2> QED
    BY <2>1, <2>2
<1>4. CASE UNCHANGED vars
  BY <1>4 DEF vars, reader
<1> QED
  BY <1>1, <1>2, <1>3, <1>4 DEF Next, Reader

\* Inv is an inductive invariant of the telemetry page.
THEOREM InvHolds == Spec => []Inv
<1>1. Inv /\ [Next]_vars => Inv'
  BY TypeStep, WriterStep, ReaderStep, TornFreeStep DEF Inv
<1> QED
  BY InitInv, <1>1, PTL DEF Spec

\* snapshot() never returns a torn sample (metrics.rs, publish_from_metronome and
\* snapshot), whatever the number of readers, fields and publishes.
THEOREM SnapshotsNotTorn == Spec => []TornFree
  BY InvHolds, PTL DEF Inv

-----------------------------------------------------------------------------

LEMMA RegisterInit == Init => Register!Init
  BY DEF Init, Register!Init, Register!Sample

\* Only the closing increment publishes and only an accepted second load reads.
LEMMA RegisterStep == Inv /\ [Next]_vars => [Register!Next]_(Register!regVars)
<1> SUFFICES ASSUME Inv, [Next]_vars
             PROVE  Register!Next \/ UNCHANGED Register!regVars
  OBVIOUS
<1> USE DEF Register!regVars
<1>1. CASE PublishBegin
  <2>1. seq = 2 * sample /\ seq' = 2 * sample + 1 /\ sample \in Nat
    BY <1>1 DEF PublishBegin, Inv, TypeOK, WriterInv
  <2>2. seq' \div 2 = seq \div 2
    BY <2>1
  <2> QED
    BY <1>1, <2>2 DEF PublishBegin, reader
<1>2. CASE StoreField
  BY <1>2 DEF StoreField, reader
<1>3. CASE PublishEnd
  <2>1. seq = 2 * sample - 1 /\ seq' = 2 * sample /\ sample \in Nat \ {0}
    BY <1>3 DEF PublishEnd, Inv, TypeOK, WriterInv
  <2>2. seq' \div 2 = seq \div 2 + 1
    BY <2>1
  <2> QED
    BY <1>3, <2>2 DEF PublishEnd, reader, Register!Next, Register!Publish
<1>4. ASSUME NEW r \in Readers, Call(r) \/ LoadSeq1(r) \/ LoadField(r)
      PROVE  UNCHANGED Register!regVars
  BY <1>4 DEF Call, LoadSeq1, LoadField, page
<1>5. ASSUME NEW r \in Readers, LoadSeq2(r)
      PROVE  Register!Next \/ UNCHANGED Register!regVars
  <2>1. CASE seq1[r] # seq
    BY <1>5, <2>1 DEF LoadSeq2, page
  <2>2. CASE seq1[r] = seq
    <3>1. seq = 2 * sample /\ sample \in Nat
      BY <1>5, <2>2 DEF LoadSeq2, Inv, TypeOK, WriterInv, ReaderInv, CopyOK
    <3>2. \A f \in Field : copy[r][f] = seq \div 2
      BY <1>5, <2>2, <3>1, SMTT(60) DEF LoadSeq2, Inv, TypeOK, ReaderInv, CopyOK
    <3>3. copy[r] = Register!Sample(seq \div 2)
      BY <3>2 DEF Register!Sample, Inv, TypeOK
    <3>4. seq' = seq /\ snap' = [snap EXCEPT ![r] = [seq |-> seq1[r], fields |-> copy[r]]]
      BY <1>5, <2>2 DEF LoadSeq2, page
    <3>5. [q \in Readers |-> snap'[q].fields]
            = [[q \in Readers |-> snap[q].fields] EXCEPT ![r] = copy[r]]
      BY <3>4 DEF Inv, TypeOK
    <3> QED
      BY <3>3, <3>4, <3>5 DEF Register!Next, Register!Snapshot
  <2> QED
    BY <2>1, <2>2
<1>6. CASE UNCHANGED vars
  BY <1>6 DEF vars, page, reader
<1> QED
  BY <1>1, <1>2, <1>3, <1>4, <1>5, <1>6 DEF Next, Writer, Reader

\* The sequence-locked page is a linearizable register of whole samples.
THEOREM PageImplementsRegister == Spec => ImplementsRegister
  BY RegisterInit, RegisterStep, InvHolds, PTL
     DEF Spec, ImplementsRegister, Register!Spec

-----------------------------------------------------------------------------
(* The dashboard.                                                          *)

\* A step of the dashboard is one of the page or leaves the page alone.
LEMMA DashboardRunsPage == [DashboardNext]_allVars => [Next]_vars
<1> SUFFICES ASSUME [DashboardNext]_allVars PROVE Next \/ UNCHANGED vars
  OBVIOUS
<1>1. CASE Anchor \/ Unlock
  BY <1>1 DEF Anchor, Unlock
<1>2. CASE Telemetry
  BY <1>2 DEF Telemetry, Next, Reader
<1>3. CASE CallSnapshot
  BY <1>3 DEF CallSnapshot, Next, Reader
<1>4. ASSUME NEW s \in Starters, LookForLock(s) \/ WriteLock(s) \/ Activate(s)
      PROVE  UNCHANGED vars
  BY <1>4 DEF LookForLock, WriteLock, Activate, stays
<1>5. CASE kill_relay_b
  BY <1>5 DEF kill_relay_b, stays
<1>6. CASE Streaming
  BY <1>6 DEF Streaming, Wake, Report, GoOff, stays
<1>7. CASE UNCHANGED allVars
  BY <1>7 DEF allVars
<1> QED
  BY <1>1, <1>2, <1>3, <1>4, <1>5, <1>6, <1>7 DEF DashboardNext

\* The dashboard runs the telemetry page as AtomicTelemetry has it, fairness included.
THEOREM DashboardImplementsPage == DashboardSpec => Spec
<1>1. DashboardInit => Init
  BY DEF DashboardInit
<1> QED
  BY <1>1, DashboardRunsPage, PTL DEF DashboardSpec, Spec

LEMMA DashboardInitInv == DashboardInit => DashboardInv
<1> SUFFICES ASSUME DashboardInit PROVE DashboardInv
  OBVIOUS
<1>1. NoStream \in [at : {"none", "sleep", "split", "off"}, owner : BOOLEAN]
  BY DEF NoStream
<1>2. stream \in [Streams -> [at : {"none", "sleep", "split", "off"}, owner : BOOLEAN]]
  BY <1>1 DEF DashboardInit
<1>3. DashboardTypeOK
  <2>1. 0 \in 0..Len(Cells)
    BY DEF Cells
  <2>2. starter \in [Starters -> {"idle", "free", "busy", "owner"}]
    BY DEF DashboardInit
  <2> QED
    BY <1>2, <2>1, <2>2 DEF DashboardInit, DashboardTypeOK
<1>4. GateHolds
  <2>1. ~kernel_ready
    BY DEF DashboardInit
  <2>2. ASSUME NEW c PROVE Answer(c) # "not anchored"
    BY <2>1 DEF Answer
  <2> QED
    BY <2>1, <2>2 DEF GateHolds
<1> QED
  BY <1>3, <1>4 DEF DashboardInit, DashboardInv, KilledIsSilent, ActiveIsServed

LEMMA DashboardTypeStep ==
  ASSUME DashboardTypeOK, [DashboardNext]_allVars
  PROVE  DashboardTypeOK'
<1> USE DEF DashboardTypeOK
<1>1. CASE Anchor
  <2>1. Len(Cells) = 6
    BY DEF Cells
  <2>2. anchored' \in 0..Len(Cells)
    BY <1>1, <2>1 DEF Anchor, Unset
  <2> QED
    BY <1>1, <2>2 DEF Anchor, loopback
<1>2. CASE Unlock
  BY <1>2 DEF Unlock, loopback
<1>3. CASE Telemetry \/ CallSnapshot \/ UNCHANGED allVars
  <2>1. UNCHANGED <<gate, loopback>>
    BY <1>3 DEF Telemetry, CallSnapshot, allVars
  <2> QED
    BY <2>1 DEF gate, loopback
<1>4. ASSUME NEW s \in Starters, LookForLock(s) PROVE DashboardTypeOK'
  BY <1>4 DEF LookForLock, stays, gate
<1>5. ASSUME NEW s \in Starters, WriteLock(s) PROVE DashboardTypeOK'
  BY <1>5 DEF WriteLock, stays, gate
<1>6. ASSUME NEW s \in Starters, Activate(s) PROVE DashboardTypeOK'
  <2>1. stream' = stream \/ stream' \in Spawned(s)
    BY <1>6 DEF Activate
  <2>2. [at |-> "sleep", owner |-> starter[s] = "owner"]
          \in [at : {"none", "sleep", "split", "off"}, owner : BOOLEAN]
    OBVIOUS
  <2>3. stream' \in [Streams -> [at : {"none", "sleep", "split", "off"}, owner : BOOLEAN]]
    BY <2>1, <2>2, ZenonT(60) DEF Spawned
  <2>4. starter' \in [Starters -> {"idle", "free", "busy", "owner"}] /\ active' \in BOOLEAN
    BY <1>6 DEF Activate
  <2> QED
    BY <1>6, <2>3, <2>4 DEF Activate, stays, gate
<1>7. CASE kill_relay_b
  BY <1>7 DEF kill_relay_b, stays, gate
<1>8. ASSUME NEW t \in Streams, Wake(t) PROVE DashboardTypeOK'
  BY <1>8 DEF Wake, stays, gate
<1>9. ASSUME NEW t \in Streams, Report(t) PROVE DashboardTypeOK'
  <2>1. bytes' \in BOOLEAN
    BY <1>9 DEF Report, MayReport
  <2> QED
    BY <1>9, <2>1 DEF Report, stays, gate
<1>10. ASSUME NEW t \in Streams, GoOff(t) PROVE DashboardTypeOK'
  <2>1. lock_file' \in BOOLEAN
    BY <1>10 DEF GoOff
  <2> QED
    BY <1>10, <2>1 DEF GoOff, NoStream, stays, gate
<1> QED
  BY <1>1, <1>2, <1>3, <1>4, <1>5, <1>6, <1>7, <1>8, <1>9, <1>10
     DEF DashboardNext, Streaming

\* Only the bootstrap touches the cells, and it ends with the gate.
LEMMA GateStep ==
  ASSUME GateHolds, [DashboardNext]_allVars
  PROVE  GateHolds'
<1>1. (kernel_ready => ~panicked /\ anchored = Len(Cells))'
  <2>1. CASE Anchor
    BY <2>1 DEF Anchor, Booting
  <2>2. CASE Unlock
    BY <2>2 DEF Unlock, Booting, Anchored
  <2>3. CASE UNCHANGED gate
    BY <2>3 DEF gate, GateHolds
  <2> QED
    BY <2>1, <2>2, <2>3 DEF DashboardNext, Telemetry, CallSnapshot, LookForLock, WriteLock,
         Activate, kill_relay_b, Streaming, Wake, Report, GoOff, stays, allVars
<1>2. ASSUME NEW c \in DOMAIN CellOf, anchored' = Len(Cells)
      PROVE  \E i \in 1..anchored' : Cells[i] = CellOf[c]
  <2>1. Len(Cells) = 6
    BY DEF Cells
  <2>2. CellOf[c] \in {"reputation", "signaler", "storage", "db"}
    BY DEF CellOf
  <2>3. Cells[2] = "db" /\ Cells[3] = "reputation" /\ Cells[4] = "storage"
          /\ Cells[5] = "signaler"
    BY DEF Cells
  <2> QED
    BY <1>2, <2>1, <2>2, <2>3
<1>3. \A c \in DOMAIN CellOf : Answer(c)' # "not anchored"
  BY <1>1, <1>2 DEF Answer
<1> QED
  BY <1>1, <1>3 DEF GateHolds

\* Bytes are reported under the lock only while the flag is set; whoever clears the flag
\* clears them with it.
LEMMA SilentStep ==
  ASSUME DashboardTypeOK, KilledIsSilent, [DashboardNext]_allVars
  PROVE  KilledIsSilent'
<1> USE DEF KilledIsSilent
<1>1. CASE UNCHANGED <<active, bytes>>
  BY <1>1
<1>2. ASSUME NEW s \in Starters, Activate(s) PROVE KilledIsSilent'
  BY <1>2 DEF Activate
<1>3. CASE kill_relay_b
  BY <1>3 DEF kill_relay_b
<1>4. ASSUME NEW t \in Streams, Report(t) PROVE KilledIsSilent'
  BY <1>4 DEF Report, MayReport
<1> QED
  BY <1>1, <1>2, <1>3, <1>4 DEF DashboardNext, Anchor, Unlock, Telemetry, CallSnapshot,
     LookForLock, WriteLock, Streaming, Wake, GoOff, allVars, loopback

\* A task leaves only when it has seen the flag cleared, and who sets it again brings a
\* task of its own.
LEMMA ServedStep ==
  ASSUME DashboardTypeOK, ActiveIsServed, [DashboardNext]_allVars
  PROVE  ActiveIsServed'
<1> USE DEF ActiveIsServed
<1>t. stream \in [Streams -> [at : {"none", "sleep", "split", "off"}, owner : BOOLEAN]]
  BY DEF DashboardTypeOK
<1>1. CASE UNCHANGED <<active, stream>>
  BY <1>1
<1>2. ASSUME NEW s \in Starters, Activate(s) PROVE ActiveIsServed'
  <2>1. CASE active
    BY <1>2, <2>1 DEF Activate
  <2>2. CASE ~active
    <3>1. PICK t \in Streams :
            stream' = [stream EXCEPT ![t] = [at |-> "sleep", owner |-> starter[s] = "owner"]]
      BY <1>2, <2>2 DEF Activate, Spawned
    <3>2. stream'[t].at = "sleep"
      BY <1>t, <3>1
    <3> QED
      BY <3>2
  <2> QED
    BY <2>1, <2>2
<1>3. CASE kill_relay_b
  BY <1>3 DEF kill_relay_b
<1>4. ASSUME NEW t \in Streams, Wake(t) \/ Report(t), active PROVE ActiveIsServed'
  <2>1. stream'[t].at \in {"sleep", "split"}
    BY <1>t, <1>4 DEF Wake, Report, Leaves
  <2> QED
    BY <2>1
<1>5. ASSUME NEW t \in Streams, GoOff(t), active PROVE ActiveIsServed'
  <2>1. PICK u \in Streams : stream[u].at \in {"sleep", "split"}
    BY <1>5
  <2>2. u # t /\ stream' = [stream EXCEPT ![t] = NoStream]
    BY <1>5, <2>1 DEF GoOff
  <2>3. stream'[u] = stream[u]
    BY <1>t, <2>2
  <2> QED
    BY <2>1, <2>3
<1>6. CASE ~active /\ Streaming
  BY <1>6 DEF Streaming, Wake, Report, GoOff
<1> QED
  BY <1>1, <1>2, <1>3, <1>4, <1>5, <1>6 DEF DashboardNext, Anchor, Unlock, Telemetry,
     CallSnapshot, LookForLock, WriteLock, Streaming, allVars, loopback

\* Whatever the commands, the bootstrap and the loopback tasks do between each other's
\* steps: no command finds a component missing behind the gate (commands.rs, check_ready),
\* a killed stream is silent and an active one is served.
THEOREM DashboardInvHolds == DashboardSpec => []DashboardInv
<1>1. DashboardInv /\ [DashboardNext]_allVars => DashboardInv'
  BY DashboardTypeStep, GateStep, SilentStep, ServedStep DEF DashboardInv
<1> QED
  BY DashboardInitInv, <1>1, PTL DEF DashboardSpec

\* In the dashboard, too, snapshots are whole and the page is a register.
THEOREM DashboardKeepsPage == DashboardSpec => []Inv /\ ImplementsRegister
  BY DashboardImplementsPage, InvHolds, PageImplementsRegister, PTL
===============================================================================
