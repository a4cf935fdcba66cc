-------------------------- MODULE Rendezvous_proofs --------------------------
(***************************************************************************)
(* First the PIR vault on its own, for every number of rows, set of        *)
(* shards, TTL and epoch: the count and the index agree with the matrix,   *)
(* and a row keeps its cell for the TTL.                                   *)
(*                                                                         *)
(* Then the delivery through it, for every sweep length, time-out and      *)
(* number of redistributions: the vault stays as correct as it was, no     *)
(* epoch with a deposit on time is passed over, redistributions are spaced *)
(* and a confirmation is final.                                            *)
(***************************************************************************)
EXTENDS Rendezvous, FiniteSetTheorems, TLAPS

LEMMA RowsFinite ==
  ASSUME NEW S, S \subseteq Rows
  PROVE  IsFiniteSet(S) /\ Cardinality(S) \in Nat
<1>1. IsFiniteSet(1..MaxRows)
  BY FS_Interval, ZipPirAssumption DEF ZipPirAssumption
<1> QED
  BY <1>1, FS_Subset, FS_CardinalityType DEF Rows

LEMMA EmptyIsNoCell ==
  ASSUME NEW s, NEW t, NEW n \in Nat \ {0}
  PROVE  /\ Cell(s, t, n) # Empty
         /\ Cell(s, t, n).shard = s
         /\ Cell(s, t, n).inserted_at = t
         /\ Cell(s, t, n).nr = n
  BY DEF Cell, Empty

LEMMA InitInv == Init => Inv
<1> SUFFICES ASSUME Init PROVE Inv
  OBVIOUS
<1>1. Occupied = {}
  BY DEF Init, Occupied
<1>2. TypeOK
  BY ZipPirAssumption DEF Init, TypeOK, Cells, ZipPirAssumption
<1>3. Counted
  BY <1>1, FS_EmptySet DEF Init, Counted
<1> QED
  BY <1>1, <1>2, <1>3 DEF Init, Inv, IndexLeads, HistoryInv

\* What insert_shard does to the matrix and the index.
LEMMA InsertEffect ==
  ASSUME Inv, NEW s \in Shards, NEW e, NEW d \in 0..MaxSign, insert_shard(s, e, d)
  PROVE  \E r \in Rows :
           /\ matrix[r] = Empty
           /\ matrix' = [matrix EXCEPT ![r] = Cell(s, now', inserts')]
           /\ index' = [index EXCEPT ![s] = r]
           /\ active_rows' = active_rows + 1
           /\ inserts' = inserts + 1 /\ now' \in Nat /\ now <= now'
           /\ Occupied' = Occupied \cup {r} /\ r \notin Occupied
<1>1. PICK r \in Rows :
        /\ FirstEmpty(r)
        /\ matrix' = [matrix EXCEPT ![r] = Cell(s, now', inserts')]
        /\ index' = [index EXCEPT ![s] = r]
        /\ active_rows' = active_rows + 1
  BY DEF insert_shard, Indexes, Counts
<1>2. matrix[r] = Empty /\ r \notin Occupied
  BY <1>1 DEF FirstEmpty, Occupied
<1>3. inserts' = inserts + 1 /\ now' = now + d /\ inserts \in Nat /\ now \in Nat /\ d \in Nat
  BY ZipPirAssumption DEF insert_shard, Inv, TypeOK, ZipPirAssumption
<1>4. Cell(s, now', inserts') # Empty
  BY <1>3, EmptyIsNoCell
<1>5. DOMAIN matrix = Rows
  BY DEF Inv, TypeOK
<1>6. Occupied' = Occupied \cup {r}
  <2>1. \A q \in Rows : matrix'[q] = IF q = r THEN Cell(s, now', inserts') ELSE matrix[q]
    BY <1>1, <1>5
  <2>2. Occupied' = {q \in Rows : matrix'[q] # Empty}
    BY DEF Occupied
  <2> QED
    BY <2>1, <2>2, <1>4 DEF Occupied
<1>7. now' \in Nat /\ now <= now'
  BY <1>3
<1> WITNESS r \in Rows
<1> QED
  BY <1>1, <1>2, <1>3, <1>6, <1>7

LEMMA InsertInv ==
  ASSUME Inv, NEW s \in Shards, NEW e, NEW d \in 0..MaxSign, insert_shard(s, e, d)
  PROVE  Inv'
<1>1. PICK r \in Rows :
        /\ matrix[r] = Empty
        /\ matrix' = [matrix EXCEPT ![r] = Cell(s, now', inserts')]
        /\ index' = [index EXCEPT ![s] = r]
        /\ active_rows' = active_rows + 1
        /\ inserts' = inserts + 1 /\ now' \in Nat /\ now <= now'
        /\ Occupied' = Occupied \cup {r} /\ r \notin Occupied
  BY InsertEffect
<1>2. TypeOK
  BY DEF Inv
<1>3. inserts' \in Nat \ {0}
  BY <1>1, <1>2 DEF TypeOK
<1>4. /\ matrix'[r].shard = s /\ matrix'[r].inserted_at = now'
      /\ matrix'[r].nr = inserts' /\ matrix'[r] # Empty
      /\ index'[s] = r
  BY <1>1, <1>2, <1>3, EmptyIsNoCell DEF TypeOK
<1>5. /\ \A q \in Rows \ {r} : matrix'[q] = matrix[q]
      /\ \A u \in Shards \ {s} : index'[u] = index[u]
  BY <1>1, <1>2 DEF TypeOK
<1>6. r \in 1..MaxRows /\ r # 0
  BY ZipPirAssumption DEF Rows, ZipPirAssumption
<1>7. TypeOK'
  <2>1. Cell(s, now', inserts') \in Cells
    BY <1>1, <1>3 DEF Cells, Cell
  <2>2. matrix' \in [Rows -> Cells]
    BY <1>1, <1>2, <2>1 DEF TypeOK
  <2>3. index' \in [Shards -> 0..MaxRows]
    BY <1>1, <1>2, <1>6, ZipPirAssumption DEF TypeOK, ZipPirAssumption
  <2> QED
    BY <1>1, <1>2, <1>3, <2>2, <2>3 DEF TypeOK
<1>8. Counted'
  <2>1. IsFiniteSet(Occupied)
    BY RowsFinite DEF Occupied
  <2>2. Cardinality(Occupied \cup {r}) = Cardinality(Occupied) + 1
    BY <1>1, <2>1, FS_AddElement
  <2> QED
    BY <1>1, <2>2 DEF Inv, Counted
<1>9. HistoryInv'
  <2>1. ASSUME NEW q \in Occupied PROVE matrix'[q].nr <= inserts' /\ matrix'[q].inserted_at <= now'
    <3>1. q \in Rows /\ q # r /\ matrix[q] \in Cells \ {Empty}
      BY <1>1, <1>2 DEF TypeOK, Occupied
    <3>2. matrix[q].nr \in Nat /\ matrix[q].inserted_at \in Nat
      BY <3>1 DEF Cells
    <3> QED
      BY <1>1, <1>2, <1>5, <3>1, <3>2 DEF Inv, HistoryInv, TypeOK
  <2>2. inserts' <= inserts' /\ now' <= now'
    BY <1>1, <1>3
  <2> QED
    BY <1>1, <1>4, <2>1, <2>2 DEF HistoryInv
<1>10. IndexLeads'
  <2>1. ASSUME NEW u \in Shards, index'[u] # 0
        PROVE  matrix'[index'[u]] # Empty /\ matrix'[index'[u]].shard = u
    <3>1. CASE u = s
      BY <3>1, <1>4
    <3>2. CASE u # s
      <4>1. index[u] # 0 /\ index'[u] = index[u]
        BY <2>1, <3>2, <1>5
      <4>2. matrix[index[u]] # Empty /\ matrix[index[u]].shard = u
        BY <4>1 DEF Inv, IndexLeads, verify_shard
      <4>3. index[u] \in Rows /\ index[u] # r
        BY <4>1, <4>2, <1>1, <1>2, ZipPirAssumption DEF TypeOK, Rows, ZipPirAssumption
      <4> QED
        BY <4>1, <4>2, <4>3, <1>5
    <3> QED
      BY <3>1, <3>2
  <2>2. ASSUME NEW q \in Occupied', index'[matrix'[q].shard] # 0
        PROVE  matrix'[q].nr <= matrix'[index'[matrix'[q].shard]].nr
    <3>1. CASE q = r
      BY <3>1, <1>3, <1>4
    <3>2. CASE q # r
      <4>1. q \in Occupied /\ q \in Rows /\ matrix'[q] = matrix[q]
        BY <2>2, <3>2, <1>1, <1>5 DEF Occupied
      <4>2. matrix[q] \in Cells \ {Empty}
        BY <4>1, <1>2 DEF TypeOK, Occupied
      <4> DEFINE u == matrix[q].shard
      <4>3. u \in Shards /\ matrix[q].nr \in Nat
        BY <4>2 DEF Cells
      <4>4. CASE u = s
        BY <4>1, <4>3, <4>4, <1>1, <1>2, <1>4 DEF Inv, HistoryInv, TypeOK
      <4>5. CASE u # s
        <5>1. index'[u] = index[u] /\ index[u] # 0
          BY <2>2, <4>1, <4>3, <4>5, <1>5
        <5>2. matrix[q].nr <= matrix[index[u]].nr /\ matrix[index[u]] # Empty
          BY <4>1, <4>3, <5>1 DEF Inv, IndexLeads, verify_shard
        <5>3. index[u] \in Rows /\ index[u] # r
          BY <4>3, <5>1, <5>2, <1>1, <1>2, ZipPirAssumption DEF TypeOK, Rows, ZipPirAssumption
        <5> QED
          BY <4>1, <5>1, <5>2, <5>3, <1>5
      <4> QED
        BY <4>4, <4>5
    <3> QED
      BY <3>1, <3>2
  <2> QED
    BY <2>1, <2>2 DEF IndexLeads, verify_shard
<1> QED
  BY <1>7, <1>8, <1>9, <1>10 DEF Inv

\* The purge empties one row for every shard it drops from the index: different shards
\* have different rows, since each leads to a cell of its own.
LEMMA PurgeCounts ==
  ASSUME Inv, guillotine_purge
  PROVE  LET rows == {index[s] : s \in ExpiredShards}
         IN /\ rows \subseteq Occupied
            /\ Occupied' = Occupied \ rows
            /\ active_rows' = Cardinality(Occupied \ rows)
<1> DEFINE rows == {index[s] : s \in ExpiredShards}
<1>1. TypeOK /\ Counted
  BY DEF Inv
<1>2. \A s \in ExpiredShards :
        index[s] \in Rows /\ matrix[index[s]] # Empty /\ matrix[index[s]].shard = s
  BY <1>1, ZipPirAssumption
     DEF Inv, IndexLeads, verify_shard, TypeOK, Rows, ExpiredShards, ZipPirAssumption
<1>3. rows \subseteq Occupied
  BY <1>2 DEF Occupied
<1>4. matrix' = [r \in Rows |-> IF r \in rows THEN Empty ELSE matrix[r]]
  BY DEF guillotine_purge
<1>5. Occupied' = Occupied \ rows
  <2>1. Occupied' = {q \in Rows : matrix'[q] # Empty}
    BY DEF Occupied
  <2> HIDE DEF rows
  <2> QED
    BY <1>4, <2>1 DEF Occupied
<1>6. Cardinality(rows) = Cardinality(ExpiredShards)
  <2> DEFINE f == [r \in rows |-> matrix[r].shard]
  <2>1. f \in [rows -> ExpiredShards]
    BY <1>2
  <2>2. \A r \in rows : index[f[r]] = r
    BY <1>2
  <2>3. \A s \in ExpiredShards : index[s] \in rows /\ f[index[s]] = s
    BY <1>2
  <2> HIDE DEF f, rows
  <2>4. f \in Bijection(rows, ExpiredShards)
    BY <2>1, <2>2, <2>3 DEF Bijection, Injection, Surjection, IsInjective
  <2>5. IsFiniteSet(rows)
    BY <1>3, RowsFinite DEF Occupied
  <2> QED
    BY <2>4, <2>5, FS_Bijection DEF ExistsBijection
<1>7. /\ IsFiniteSet(Occupied) /\ Cardinality(Occupied) \in Nat
      /\ IsFiniteSet(rows) /\ Cardinality(rows) \in Nat
      /\ IsFiniteSet(Occupied \ rows) /\ Cardinality(Occupied \ rows) \in Nat
  <2> HIDE DEF rows
  <2> QED
    BY <1>3, RowsFinite DEF Occupied
<1>8. Cardinality(Occupied) = Cardinality(Occupied \ rows) + Cardinality(rows)
  <2> HIDE DEF rows
  <2>1. (Occupied \ rows) \cup rows = Occupied /\ (Occupied \ rows) \cap rows = {}
    BY <1>3
  <2>2. Cardinality((Occupied \ rows) \cup rows)
          = Cardinality(Occupied \ rows) + Cardinality(rows)
              - Cardinality((Occupied \ rows) \cap rows)
    BY <1>7, FS_Union
  <2>3. Cardinality((Occupied \ rows) \cap rows) = 0
    BY <2>1, FS_EmptySet
  <2>4. Cardinality(Occupied) = Cardinality(Occupied \ rows) + Cardinality(rows) - 0
    BY <2>1, <2>2, <2>3, Zenon
  <2> QED
    BY <1>7, <2>4
<1>9. active_rows' = Cardinality(Occupied \ rows)
  <2>1. active_rows' = Minus(Cardinality(Occupied), Cardinality(rows))
    BY <1>1, <1>6 DEF guillotine_purge, Counted
  <2> HIDE DEF rows
  <2> QED
    BY <1>7, <1>8, <2>1 DEF Minus
<1> QED
  BY <1>3, <1>5, <1>9

LEMMA PurgeInv ==
  ASSUME Inv, guillotine_purge
  PROVE  Inv'
<1> DEFINE rows == {index[s] : s \in ExpiredShards}
<1>1. TypeOK /\ IndexLeads /\ HistoryInv
  BY DEF Inv
<1>2. /\ matrix' = [r \in Rows |-> IF r \in rows THEN Empty ELSE matrix[r]]
      /\ index' = [s \in Shards |-> IF s \in ExpiredShards THEN 0 ELSE index[s]]
      /\ now' = now /\ inserts' = inserts
  BY DEF guillotine_purge, PurgedIndex
<1>3. /\ rows \subseteq Occupied /\ Occupied' = Occupied \ rows
      /\ active_rows' = Cardinality(Occupied \ rows)
  BY PurgeCounts
<1>4. Counted'
  <2> HIDE DEF rows
  <2> QED
    BY <1>3 DEF Counted
<1>5. TypeOK'
  <2>1. Cardinality(Occupied \ rows) \in Nat
    BY <1>3, RowsFinite DEF Occupied
  <2> HIDE DEF rows
  <2>2. matrix' \in [Rows -> Cells]
    BY <1>1, <1>2 DEF TypeOK, Cells
  <2>3. index' \in [Shards -> 0..MaxRows]
    BY <1>1, <1>2, ZipPirAssumption DEF TypeOK, ZipPirAssumption
  <2> QED
    BY <1>1, <1>2, <1>3, <2>1, <2>2, <2>3 DEF TypeOK
<1>6. HistoryInv'
  <2> HIDE DEF rows
  <2> QED
    BY <1>1, <1>2, <1>3 DEF HistoryInv, Occupied
\* A shard that stays indexed keeps its cell: no other shard leads to its row.
<1>7. ASSUME NEW u \in Shards, index'[u] # 0
      PROVE  /\ index'[u] = index[u] /\ index[u] # 0
             /\ matrix'[index[u]] = matrix[index[u]]
  <2>1. u \notin ExpiredShards /\ index'[u] = index[u] /\ index[u] # 0
    BY <1>2, <1>7
  <2>2. index[u] \in Rows /\ matrix[index[u]].shard = u
    BY <1>1, <2>1, ZipPirAssumption
       DEF IndexLeads, verify_shard, TypeOK, Rows, ZipPirAssumption
  <2>3. \A s \in ExpiredShards : matrix[index[s]].shard = s
    BY <1>1 DEF IndexLeads, verify_shard, ExpiredShards
  <2>4. index[u] \notin rows
    BY <2>1, <2>2, <2>3
  <2> HIDE DEF rows
  <2> QED
    BY <1>2, <2>1, <2>2, <2>4
<1>8. IndexLeads'
  <2>1. \A u \in Shards : index'[u] # 0 =>
          matrix'[index'[u]] # Empty /\ matrix'[index'[u]].shard = u
    BY <1>1, <1>7 DEF IndexLeads, verify_shard
  <2>2. ASSUME NEW q \in Occupied', index'[matrix'[q].shard] # 0
        PROVE  matrix'[q].nr <= matrix'[index'[matrix'[q].shard]].nr
    <3>1. q \in Occupied /\ q \in Rows /\ q \notin rows
      BY <1>3 DEF Occupied
    <3>2. matrix'[q] = matrix[q] /\ matrix[q] \in Cells \ {Empty}
      BY <1>1, <1>2, <3>1 DEF TypeOK, Occupied
    <3>3. matrix[q].shard \in Shards
      BY <3>2 DEF Cells
    <3> QED
      BY <1>1, <1>7, <2>2, <3>1, <3>2, <3>3 DEF IndexLeads
  <2> QED
    BY <2>1, <2>2 DEF IndexLeads, verify_shard
<1> QED
  BY <1>4, <1>5, <1>6, <1>8 DEF Inv

LEMMA TickInv ==
  ASSUME Inv, ClockTick \/ UNCHANGED vars
  PROVE  Inv'
<1>1. /\ UNCHANGED <<matrix, index, active_rows, inserts>>
      /\ now \in Nat /\ now' \in Nat /\ now <= now'
  BY DEF ClockTick, vars, Inv, TypeOK
<1>2. TypeOK' /\ Counted' /\ IndexLeads'
  BY <1>1 DEF Inv, TypeOK, Counted, Occupied, IndexLeads, verify_shard
<1>3. \A r \in Occupied : matrix[r].inserted_at \in Nat
  BY DEF Inv, TypeOK, Occupied, Cells
<1>4. HistoryInv'
  BY <1>1, <1>3 DEF Inv, HistoryInv, Occupied
<1> QED
  BY <1>2, <1>4 DEF Inv

LEMMA InvStep == Inv /\ [Next]_vars => Inv'
  BY InsertInv, PurgeInv, TickInv DEF Next

\* The count, the index and the matrix of the vault agree after any sequence of
\* insertions and sweeps.
THEOREM InvHolds == Spec => []Inv
  BY InitInv, InvStep, PTL DEF Spec

Kept == \A r \in Occupied :
          \/ blind_query(r)' = blind_query(r)
          \/ blind_query(r)' = Empty /\ now - matrix[r].inserted_at >= Ttl

LEMMA KeptStep == Inv /\ [Next]_vars => [Kept]_vars
<1>1. ASSUME Inv, [Next]_vars PROVE [Kept]_vars
  <2> SUFFICES ASSUME NEW r \in Occupied
               PROVE  \/ matrix'[r] = matrix[r]
                      \/ matrix'[r] = Empty /\ now - matrix[r].inserted_at >= Ttl
    BY DEF blind_query, Kept
  <2>1. r \in Rows /\ DOMAIN matrix = Rows
    BY <1>1 DEF Occupied, Inv, TypeOK
  <2>2. ASSUME NEW s \in Shards, NEW e, NEW d \in 0..MaxSign, insert_shard(s, e, d)
        PROVE  matrix'[r] = matrix[r]
    <3>1. PICK q \in Rows :
            /\ matrix' = [matrix EXCEPT ![q] = Cell(s, now', inserts')]
            /\ q \notin Occupied
      BY <1>1, <2>2, InsertEffect
    <3> QED
      BY <2>1, <3>1
  <2>3. CASE guillotine_purge
    BY <2>1, <2>3 DEF guillotine_purge, ExpiredShards, Expired
  <2>4. CASE ClockTick \/ UNCHANGED vars
    BY <2>4 DEF ClockTick, vars
  <2> QED
    BY <1>1, <2>2, <2>3, <2>4 DEF Next
<1> QED
  BY <1>1

\* A row handed out by insert_shard holds its cell for the TTL.
THEOREM RowsKept == Spec => RowsKeepTheirCells
  BY KeptStep, InvHolds, PTL DEF Spec, RowsKeepTheirCells, Kept

-----------------------------------------------------------------------------
(* The delivery.                                                           *)

\* What the sender's record says of its place: while a deposit is on its way there is
\* none yet, or it is to be repeated and may be.
RecordInv ==
  /\ record \in [epoch : Nat, deposited_at : Nat, confirmed : BOOLEAN, count : -1..MaxAgain]
  /\ Tracked => record.count >= 0
  /\ sender \in {"address", "deposit", "record"} /\ Tracked =>
       again /\ record.count < MaxAgain

\* The record of a delivery is no older than its last deposit, and a time-out has passed
\* when the next one is under way.
SpacedInv ==
  /\ last \in Nat \cup {-1}
  /\ sender \in {"address", "deposit", "tracked"} /\ Tracked => last <= record.deposited_at
  /\ sender \in {"address", "deposit"} /\ last # -1 => now - last >= Timeout

\* The inductive invariant of the delivery.
DeliveryInv == Inv /\ now <= MaxTime /\ RendezvousInv /\ RecordInv /\ SpacedInv

LEMMA DivType ==
  ASSUME NEW a \in Nat, NEW b \in Nat \ {0}
  PROVE  a \div b \in Nat
  OBVIOUS

LEMMA DivMonotonic ==
  ASSUME NEW a \in Nat, NEW c \in Nat, NEW b \in Nat \ {0}, a <= c
  PROVE  a \div b <= c \div b
  OBVIOUS

\* Division by the length of an epoch is monotonic.
LEMMA EpochOf ==
  ASSUME NEW t \in Nat, NEW u \in Nat, t <= u
  PROVE  t \div EpochDuration \in 0..(u \div EpochDuration)
<1>1. EpochDuration \in Nat \ {0}
  BY ZipPirAssumption DEF ZipPirAssumption
<1>2. t \div EpochDuration \in Nat /\ u \div EpochDuration \in Nat
  BY <1>1, DivType
<1>3. t \div EpochDuration <= u \div EpochDuration
  BY <1>1, DivMonotonic
<1> QED
  BY <1>2, <1>3

\* A step of the delivery is one of the vault or leaves the vault alone.
LEMMA DeliveryRunsVault ==
  ASSUME target \in Epochs, [RendezvousNext]_allVars
  PROVE  [Next]_vars
<1>1. CASE Deposit
  <2>1. PICK d \in 0..MaxSign : insert_shard(target, target, d)
    BY <1>1 DEF Deposit
  <2>2. target \in Shards /\ target \in 0..(MaxTime \div EpochDuration)
    BY RendezvousAssumption DEF RendezvousAssumption, Epochs
  <2> QED
    BY <2>1, <2>2 DEF Next
<1>2. CASE Strangers
  BY <1>2 DEF Strangers, Next, Epochs
<1>3. CASE alone(guillotine_purge) \/ alone(ClockTick)
  BY <1>3 DEF alone, Next
<1>4. CASE UNCHANGED vars
  BY <1>4
<1> QED
  BY <1>1, <1>2, <1>3, <1>4 DEF RendezvousNext, Sending, Address, Refused, Record,
     Redistribute, confirm_receipt, gc_confirmed, sweep_epochs, Query, Abandon, allVars

\* Time goes forward, up to the bound.
LEMMA ClockForward ==
  ASSUME Inv, now <= MaxTime, [Next]_vars
  PROVE  now' \in Nat /\ now <= now' /\ now' <= MaxTime
<1>1. now \in Nat /\ MaxTime \in Nat /\ MaxSign \in Nat
  BY ZipPirAssumption DEF Inv, TypeOK, ZipPirAssumption
<1>2. ASSUME NEW s, NEW e, NEW d \in 0..MaxSign, insert_shard(s, e, d)
      PROVE  now' \in Nat /\ now <= now' /\ now' <= MaxTime
  <2>1. now' = now + d /\ now + d <= MaxTime
    BY <1>2 DEF insert_shard
  <2> QED
    BY <1>1, <2>1
<1>3. CASE guillotine_purge \/ UNCHANGED vars
  BY <1>1, <1>3 DEF guillotine_purge, vars
<1>4. CASE ClockTick
  BY <1>1, <1>4 DEF ClockTick
<1> QED
  BY <1>2, <1>3, <1>4 DEF Next

LEMMA DeliveryInitInv == RendezvousInit => DeliveryInv
<1> SUFFICES ASSUME RendezvousInit PROVE DeliveryInv
  OBVIOUS
<1>c. /\ EpochDuration \in Nat \ {0} /\ MaxTime \in Nat /\ MaxAgain \in Nat /\ MaxForeign \in Nat
      /\ 2 * EpochDuration <= MaxTime
  BY ZipPirAssumption, RendezvousAssumption DEF ZipPirAssumption, RendezvousAssumption
<1>1. Inv
  BY InitInv DEF RendezvousInit
<1>2. now \in Nat /\ now <= MaxTime
  BY <1>c DEF RendezvousInit, Init
<1>3. Epoch \in Nat /\ 0 \in Epochs
  BY <1>c, <1>2, EpochOf DEF Epoch, Epochs
<1>4. RendezvousTypeOK
  <2>1. record.count = -1 /\ record.deposited_at = 0
    BY DEF RendezvousInit, NoRecord
  <2>2. cursor \in 0..Epoch /\ last <= now /\ foreign \in 0..MaxForeign
    BY <1>c, <1>2, <1>3 DEF RendezvousInit
  <2>3. again \in BOOLEAN /\ receipt \in BOOLEAN
    BY DEF RendezvousInit
  <2> QED
    BY <1>c, <1>2, <1>3, <2>1, <2>2, <2>3 DEF RendezvousInit, RendezvousTypeOK
<1>5. NothingOnTimeIsSkipped /\ SpacedInv
  BY DEF RendezvousInit, NothingOnTimeIsSkipped, SpacedInv, Tracked
<1>6. RecordInv
  BY <1>c DEF RendezvousInit, RecordInv, NoRecord, Tracked
<1> QED
  BY <1>1, <1>2, <1>4, <1>5, <1>6 DEF DeliveryInv, RendezvousInv

\* What the record becomes when a deposit is written down.
LEMMA RecordedType ==
  ASSUME DeliveryInv, sender = "record", ~(again /\ ~Tracked)
  PROVE  /\ Recorded \in [epoch : Nat, deposited_at : Nat, confirmed : BOOLEAN,
                           count : -1..MaxAgain]
         /\ Recorded.count >= 0 /\ Recorded.deposited_at = now
         /\ Recorded.confirmed = record.confirmed
<1>1. /\ record \in [epoch : Nat, deposited_at : Nat, confirmed : BOOLEAN,
                      count : -1..MaxAgain]
      /\ Tracked => record.count \in 0..(MaxAgain - 1)
      /\ MaxAgain \in Nat
  BY RendezvousAssumption DEF DeliveryInv, RecordInv, RendezvousAssumption
<1>2. ~Tracked => record.count = -1
  BY DEF Tracked, NoRecord
<1>3. record.count + 1 \in 0..MaxAgain
  BY <1>1, <1>2
<1>4. target \in Nat /\ now \in Nat
  BY DEF DeliveryInv, RendezvousInv, RendezvousTypeOK, Epochs, Inv, TypeOK
<1>5. Recorded \in [epoch : Nat, deposited_at : Nat, confirmed : BOOLEAN, count : -1..MaxAgain]
  <2>1. record.count + 1 \in -1..MaxAgain
    BY <1>1, <1>3
  <2> QED
    BY <1>1, <1>4, <2>1, ZenonT(60) DEF Recorded
<1>6. /\ Recorded.count = record.count + 1 /\ Recorded.deposited_at = now
      /\ Recorded.confirmed = record.confirmed
  BY <1>1 DEF Recorded
<1> QED
  BY <1>3, <1>5, <1>6

LEMMA RecordStep ==
  ASSUME DeliveryInv, [RendezvousNext]_allVars
  PROVE  RecordInv'
<1> DEFINE R == [epoch : Nat, deposited_at : Nat, confirmed : BOOLEAN, count : -1..MaxAgain]
<1>t. /\ record \in R
      /\ Tracked => record.count >= 0
      /\ sender \in {"address", "deposit", "record"} /\ Tracked =>
           again /\ record.count < MaxAgain
  BY DEF DeliveryInv, RecordInv
<1>n. NoRecord \in R
  BY RendezvousAssumption DEF NoRecord, RendezvousAssumption
<1> HIDE DEF R
<1>s. ASSUME UNCHANGED record, UNCHANGED again,
             sender' \in {"address", "deposit", "record"} =>
               sender \in {"address", "deposit", "record"}
      PROVE  RecordInv'
  BY <1>t, <1>s DEF RecordInv, Tracked, R
<1>1. CASE Address \/ Deposit \/ Refused
  BY <1>1, <1>s DEF Address, Deposit, Refused
<1>2. CASE Record
  <2>1. CASE again /\ ~Tracked
    BY <1>2, <2>1, <1>s DEF Record
  <2>2. CASE ~(again /\ ~Tracked)
    <3>1. sender = "record" /\ sender' = "tracked" /\ record' = Recorded
      BY <1>2, <2>2 DEF Record
    <3>2. Recorded \in R /\ Recorded.count >= 0
      BY <2>2, <3>1, RecordedType DEF R
    <3> QED
      BY <3>1, <3>2 DEF RecordInv, R
  <2> QED
    BY <2>1, <2>2
<1>3. CASE Redistribute
  BY <1>3, <1>t DEF Redistribute, check_timeouts, MayRepeat, RecordInv, Tracked, R
<1>4. CASE confirm_receipt
  <2>1. UNCHANGED <<sender, again>>
    BY <1>4 DEF confirm_receipt
  <2>2. CASE Tracked
    <3>1. record' = [record EXCEPT !.confirmed = TRUE]
      BY <1>4, <2>2 DEF confirm_receipt
    <3>2. record' \in R /\ record'.count = record.count
      BY <1>t, <3>1 DEF R
    <3> QED
      BY <1>t, <2>1, <2>2, <3>2 DEF RecordInv, R
  <2>3. CASE ~Tracked
    BY <1>4, <2>1, <2>3, <1>s DEF confirm_receipt
  <2> QED
    BY <2>2, <2>3
<1>5. CASE gc_confirmed
  BY <1>5, <1>n DEF gc_confirmed, RecordInv, Tracked, R
<1>6. CASE UNCHANGED senderVars
  BY <1>6, <1>s DEF senderVars
<1> QED
  BY <1>1, <1>2, <1>3, <1>4, <1>5, <1>6 DEF RendezvousNext, Sending, sweep_epochs, Query,
     Abandon, Strangers, alone, recipientVars, allVars

LEMMA Apart ==
  ASSUME NEW a \in Int, NEW b \in Int, a <= b, NEW c \in Int, NEW d \in Int, d <= c,
         NEW T \in Int, a - c >= T
  PROVE  b - d >= T
  OBVIOUS

\* The time-out is measured from the last deposit, and time only goes forward.
LEMMA SpacedStep ==
  ASSUME DeliveryInv, [RendezvousNext]_allVars, now' \in Nat, now <= now'
  PROVE  SpacedInv'
<1>t. /\ last \in Nat \cup {-1} /\ last <= now /\ now \in Nat /\ Timeout \in Nat \ {0}
      /\ sender \in {"address", "deposit", "tracked"} /\ Tracked => last <= record.deposited_at
      /\ sender \in {"address", "deposit"} /\ last # -1 => now - last >= Timeout
  BY RendezvousAssumption
     DEF DeliveryInv, SpacedInv, RendezvousInv, RendezvousTypeOK, Inv, TypeOK,
         RendezvousAssumption
<1>r. record.deposited_at \in Int
  BY DEF DeliveryInv, RecordInv
<1>n. now \in Int /\ now' \in Int /\ now <= now' /\ Timeout \in Int
  BY <1>t
<1>m. ASSUME UNCHANGED last, last' # -1, sender \in {"address", "deposit"}
      PROVE  now' - last' >= Timeout
  <2>1. last \in Int /\ last <= last /\ now - last >= Timeout
    BY <1>m, <1>t
  <2>2. now' - last >= Timeout
    BY <1>n, <2>1, Apart, Zenon
  <2> QED
    BY <1>m, <2>2
<1>s. ASSUME UNCHANGED <<record, last>>,
             sender' \in {"address", "deposit", "tracked"} =>
               sender \in {"address", "deposit", "tracked"},
             sender' \in {"address", "deposit"} => sender \in {"address", "deposit"}
      PROVE  SpacedInv'
  <2>1. sender' \in {"address", "deposit"} /\ last' # -1 => now' - last' >= Timeout
    BY <1>s, <1>m
  <2> QED
    BY <1>t, <1>s, <2>1 DEF SpacedInv, Tracked
<1>1. CASE Address \/ Refused
  BY <1>1, <1>s DEF Address, Refused, history
<1>2. CASE Deposit
  BY <1>2 DEF Deposit, SpacedInv
<1>3. CASE Record
  <2>1. CASE again /\ ~Tracked
    BY <1>3, <2>1, <1>s DEF Record, history
  <2>2. CASE ~(again /\ ~Tracked)
    <3>1. sender = "record" /\ sender' = "tracked" /\ record' = Recorded /\ last' = last
      BY <1>3, <2>2 DEF Record, history
    <3>2. record'.deposited_at = now
      BY <2>2, <3>1, RecordedType
    <3> QED
      BY <1>t, <3>1, <3>2 DEF SpacedInv
  <2> QED
    BY <2>1, <2>2
<1>4. CASE Redistribute
  <2>1. /\ sender = "tracked" /\ sender' = "address" /\ Tracked
        /\ Minus(now, record.deposited_at) >= Timeout
        /\ last' = last /\ record' = record
    BY <1>4 DEF Redistribute, check_timeouts, history, Age
  <2>2. now - record.deposited_at >= Timeout
    BY <1>t, <1>r, <2>1 DEF Minus
  <2>3. now' - last' >= Timeout
    <3>1. last <= record.deposited_at /\ last \in Int
      BY <1>t, <2>1
    <3>2. now' - last >= Timeout
      BY <1>n, <1>r, <2>2, <3>1, Apart, Zenon
    <3> QED
      BY <2>1, <3>2
  <2> QED
    BY <1>t, <2>1, <2>3 DEF SpacedInv, Tracked
<1>5. CASE confirm_receipt
  <2>1. /\ sender' = sender /\ last' = last
        /\ \/ record' = record
           \/ Tracked /\ record' = [record EXCEPT !.confirmed = TRUE]
    BY <1>5, Zenon DEF confirm_receipt, history
  <2>2. record'.deposited_at = record.deposited_at /\ (Tracked' => Tracked)
    BY <2>1 DEF DeliveryInv, RecordInv, Tracked
  <2>3. sender' \in {"address", "deposit"} /\ last' # -1 => now' - last' >= Timeout
    BY <1>m, <2>1
  <2> QED
    BY <1>t, <2>1, <2>2, <2>3 DEF SpacedInv
<1>6. CASE gc_confirmed
  <2>1. UNCHANGED <<sender, last>> /\ ~Tracked'
    BY <1>6 DEF gc_confirmed, history, Tracked
  <2>2. sender' \in {"address", "deposit"} /\ last' # -1 => now' - last' >= Timeout
    BY <1>m, <2>1
  <2> QED
    BY <1>t, <2>1, <2>2 DEF SpacedInv
<1>7. CASE UNCHANGED <<senderVars, last>>
  BY <1>7, <1>s DEF senderVars
<1> QED
  BY <1>1, <1>2, <1>3, <1>4, <1>5, <1>6, <1>7 DEF RendezvousNext, Sending, sweep_epochs,
     Query, Abandon, Strangers, alone, recipientVars, history, allVars

\* The epochs before and after a step.
LEMMA EpochForward ==
  ASSUME Inv, now <= MaxTime, now' \in Nat, now <= now', now' <= MaxTime
  PROVE  /\ Epoch \in Nat /\ Epoch \in Epochs
         /\ Epoch' \in Nat /\ Epoch <= Epoch'
         /\ \A e \in Nat : e <= Epoch => e \in Epochs
<1>1. now \in Nat /\ MaxTime \in Nat
  BY ZipPirAssumption DEF Inv, TypeOK, ZipPirAssumption
<1>2. /\ now \div EpochDuration \in 0..(MaxTime \div EpochDuration)
      /\ now' \div EpochDuration \in 0..(MaxTime \div EpochDuration)
      /\ now \div EpochDuration \in 0..(now' \div EpochDuration)
      /\ MaxTime \div EpochDuration \in Nat
  BY <1>1, EpochOf, DivType, ZipPirAssumption DEF ZipPirAssumption
<1>3. Epoch = now \div EpochDuration /\ Epoch' = now' \div EpochDuration
  BY DEF Epoch
<1> QED
  BY <1>2, <1>3 DEF Epochs

\* The sender's half of the types.
LEMMA SenderTypeStep ==
  ASSUME DeliveryInv, [RendezvousNext]_allVars, now' \in Nat, now <= now', now' <= MaxTime
  PROVE  /\ sender' \in {"address", "deposit", "record", "tracked", "failed"}
         /\ target' \in Epochs /\ again' \in BOOLEAN /\ receipt' \in BOOLEAN
         /\ record'.deposited_at <= now'
<1>t. /\ sender \in {"address", "deposit", "record", "tracked", "failed"}
      /\ target \in Epochs /\ again \in BOOLEAN /\ receipt \in BOOLEAN
      /\ record.deposited_at <= now /\ now \in Nat /\ record.deposited_at \in Nat
  BY DEF DeliveryInv, RendezvousInv, RendezvousTypeOK, Inv, TypeOK, RecordInv
<1>e. Epoch \in Epochs
  BY EpochForward DEF DeliveryInv
<1>1. sender' \in {"address", "deposit", "record", "tracked", "failed"}
  BY <1>t DEF RendezvousNext, Sending, Address, Deposit, Refused, Record, Redistribute,
     confirm_receipt, gc_confirmed, sweep_epochs, Query, Abandon, Strangers, alone,
     senderVars, allVars
<1>2. target' \in Epochs
  BY <1>t, <1>e DEF RendezvousNext, Sending, Address, Deposit, Refused, Record,
     Redistribute, confirm_receipt, gc_confirmed, sweep_epochs, Query, Abandon, Strangers,
     alone, senderVars, allVars
<1>3. again' \in BOOLEAN
  BY <1>t, ZenonT(60) DEF RendezvousNext, Sending, Address, Deposit, Refused, Record,
     Redistribute, confirm_receipt, gc_confirmed, sweep_epochs, Query, Abandon, Strangers,
     alone, senderVars, allVars
<1>4. receipt' \in BOOLEAN
  <2>1. CASE Query
    <3>1. PICK e \in queries : receipt' = (receipt \/ (index[e] # 0 /\ verify_shard(e)))
      BY <2>1 DEF Query
    <3>2. (receipt \/ (index[e] # 0 /\ verify_shard(e))) \in BOOLEAN
      OBVIOUS
    <3> QED
      BY <3>1, <3>2
  <2>2. CASE confirm_receipt
    BY <2>2, <1>t DEF confirm_receipt
  <2>3. CASE receipt' = receipt
    BY <2>3, <1>t
  <2> QED
    BY <2>1, <2>2, <2>3 DEF RendezvousNext, Sending, Address, Deposit, Refused, Record,
       Redistribute, gc_confirmed, sweep_epochs, Abandon, Strangers, alone,
       recipientVars, allVars
<1>5. record'.deposited_at <= now'
  <2>1. CASE Record /\ ~(again /\ ~Tracked)
    <3>1. record' = Recorded /\ sender = "record"
      BY <2>1 DEF Record
    <3>2. record'.deposited_at = now
      BY <2>1, <3>1, RecordedType
    <3> QED
      BY <3>2
  <2>2. CASE confirm_receipt
    <3>1. record' = record \/ record' = [record EXCEPT !.confirmed = TRUE]
      BY <2>2 DEF confirm_receipt
    <3>2. record'.deposited_at = record.deposited_at
      BY <3>1 DEF DeliveryInv, RecordInv
    <3> QED
      BY <1>t, <3>2
  <2>3. CASE gc_confirmed
    <3>1. record'.deposited_at = 0
      BY <2>3 DEF gc_confirmed, NoRecord
    <3> QED
      BY <3>1
  <2>4. CASE record' = record
    BY <2>4, <1>t
  <2> QED
    BY <2>1, <2>2, <2>3, <2>4 DEF RendezvousNext, Sending, Address, Deposit, Refused, Record,
       Redistribute, sweep_epochs, Query, Abandon, Strangers, alone, senderVars, allVars
<1> QED
  BY <1>1, <1>2, <1>3, <1>4, <1>5

\* The recipient's half, and that no epoch with a deposit on time falls behind the cursor
\* within the reach of a sweep.
LEMMA SweepStep ==
  ASSUME DeliveryInv, [RendezvousNext]_allVars, now' \in Nat, now <= now', now' <= MaxTime
  PROVE  /\ cursor' \in 0..Epoch' /\ queries' \subseteq 0..cursor'
         /\ unswept' \subseteq 0..Epoch' /\ last' <= now'
         /\ NothingOnTimeIsSkipped'
<1>t. /\ cursor \in 0..Epoch /\ queries \subseteq 0..cursor /\ unswept \subseteq 0..Epoch
      /\ last <= now /\ now \in Nat /\ MaxSweep \in Nat
      /\ \A e \in unswept : e >= cursor \/ e + MaxSweep < cursor
  BY RendezvousAssumption
     DEF DeliveryInv, RendezvousInv, RendezvousTypeOK, Inv, TypeOK, NothingOnTimeIsSkipped,
         RendezvousAssumption
<1>l. last \in Int
  BY DEF DeliveryInv, SpacedInv
<1>e. /\ Epoch \in Nat /\ Epoch' \in Nat /\ Epoch <= Epoch'
      /\ \A e \in Nat : e <= Epoch => e \in Epochs
  BY EpochForward DEF DeliveryInv
<1> HIDE DEF Epoch
<1>s. ASSUME cursor' = cursor, queries' \subseteq queries, unswept' = unswept, last' = last
      PROVE  /\ cursor' \in 0..Epoch' /\ queries' \subseteq 0..cursor'
             /\ unswept' \subseteq 0..Epoch' /\ last' <= now'
             /\ NothingOnTimeIsSkipped'
  BY <1>s, <1>t, <1>l, <1>e DEF NothingOnTimeIsSkipped
<1>1. CASE Deposit
  <2>1. /\ UNCHANGED <<cursor, queries>> /\ last' = now'
        /\ unswept' = unswept \cup ({target} \cap {Epoch'})
    BY <1>1 DEF Deposit, recipientVars
  <2>2. \A e \in unswept' : e \in unswept \/ e = Epoch'
    BY <2>1
  <2>3. NothingOnTimeIsSkipped'
    BY <1>t, <1>e, <2>1, <2>2 DEF NothingOnTimeIsSkipped
  <2> QED
    BY <1>t, <1>e, <2>1, <2>2, <2>3
<1>2. CASE sweep_epochs
  <2>1. /\ queries' = queries \cup Sweep /\ cursor' = Epoch /\ unswept' = unswept \ Sweep
        /\ last' = last /\ now' = now
    BY <1>2 DEF sweep_epochs, vars
  <2>2. Epoch' = Epoch
    BY <2>1 DEF Epoch
  <2>3. Sweep \subseteq 0..Epoch
    BY <1>e DEF Sweep, Epochs
  <2>4. ASSUME NEW e \in unswept' PROVE e >= Epoch \/ e + MaxSweep < Epoch
    <3>1. e \in unswept /\ e \notin Sweep /\ e \in Nat /\ e <= Epoch
      BY <2>1, <2>4, <1>t
    <3>2. e \in Epochs
      BY <3>1, <1>e
    <3>3. CASE cursor >= Epoch
      BY <1>t, <1>e, <3>1, <3>3
    <3>4. CASE cursor < Epoch
      <4>1. ~(e >= cursor /\ e + MaxSweep >= Epoch)
        BY <1>t, <1>e, <3>1, <3>2, <3>4 DEF Sweep, FirstSwept
      <4> QED
        BY <1>t, <1>e, <3>1, <3>4, <4>1
    <3> QED
      BY <1>t, <1>e, <3>3, <3>4
  <2>5. NothingOnTimeIsSkipped'
    BY <2>1, <2>4 DEF NothingOnTimeIsSkipped
  <2> QED
    BY <1>t, <1>e, <2>1, <2>2, <2>3, <2>5
<1>3. CASE Query \/ Abandon
  <2>1. queries' \subseteq queries
    BY <1>3 DEF Query, Abandon
  <2> QED
    BY <1>3, <2>1, <1>s DEF Query, Abandon, history
<1>4. CASE UNCHANGED <<cursor, queries, unswept, last>>
  BY <1>4, <1>s
<1> QED
  BY <1>1, <1>2, <1>3, <1>4 DEF RendezvousNext, Sending, Address, Refused, Record,
     Redistribute, confirm_receipt, gc_confirmed, Strangers, alone, recipientVars, history,
     allVars

LEMMA DeliveryStep ==
  ASSUME DeliveryInv, [RendezvousNext]_allVars
  PROVE  DeliveryInv' /\ [Next]_vars
<1>1. [Next]_vars
  BY DeliveryRunsVault DEF DeliveryInv, RendezvousInv, RendezvousTypeOK
<1>2. Inv'
  BY <1>1, InvStep DEF DeliveryInv
<1>3. now' \in Nat /\ now <= now' /\ now' <= MaxTime
  BY <1>1, ClockForward DEF DeliveryInv
<1>4. RecordInv' /\ SpacedInv'
  BY <1>3, RecordStep, SpacedStep
<1>5. record'.count \in -1..MaxAgain
  BY <1>4 DEF RecordInv
<1>6. foreign' \in 0..MaxForeign
  <2>1. foreign \in 0..MaxForeign /\ MaxForeign \in Nat
    BY RendezvousAssumption DEF DeliveryInv, RendezvousInv, RendezvousTypeOK, RendezvousAssumption
  <2>2. CASE Strangers
    <3>1. foreign < MaxForeign /\ foreign' = foreign + 1
      BY <2>2 DEF Strangers
    <3> QED
      BY <2>1, <3>1
  <2>3. CASE foreign' = foreign
    BY <2>1, <2>3
  <2> QED
    BY <2>2, <2>3 DEF RendezvousNext, Sending, Address, Deposit, Refused, Record,
       Redistribute, confirm_receipt, gc_confirmed, sweep_epochs, Query, Abandon, alone,
       allVars
<1>7. RendezvousInv'
  BY <1>3, <1>5, <1>6, SenderTypeStep, SweepStep DEF RendezvousInv, RendezvousTypeOK
<1> QED
  BY <1>1, <1>2, <1>3, <1>4, <1>7 DEF DeliveryInv

\* DeliveryInv is inductive: records, time-outs and sweeps stay in step with the clock.
THEOREM DeliveryInvHolds == RendezvousSpec => []DeliveryInv
<1>1. DeliveryInv /\ [RendezvousNext]_allVars => DeliveryInv'
  BY DeliveryStep
<1> QED
  BY DeliveryInitInv, <1>1, PTL DEF RendezvousSpec

\* However deposits, refusals, receipts and the recipient's wakes interleave: the
\* bookkeeping agrees with the clock, and an epoch with a deposit made on time is swept
\* by the recipient or lay behind the longest sweep (sync.rs, sweep_epochs).
THEOREM RendezvousInvHolds == RendezvousSpec => []RendezvousInv
  BY DeliveryInvHolds, PTL DEF DeliveryInv

\* The vault, used by a sender and by strangers while the guillotine runs, keeps its count
\* and its index, and its rows keep their cells for the TTL.
THEOREM DeliveryKeepsVault == RendezvousSpec => []Inv /\ RowsKeepTheirCells
<1>1. DeliveryInv /\ [RendezvousNext]_allVars => Inv /\ [Kept]_vars
  BY DeliveryStep, KeptStep DEF DeliveryInv
<1> QED
  BY <1>1, DeliveryInvHolds, PTL DEF RendezvousSpec, RowsKeepTheirCells, Kept

\* RedistributionsSpaced of one step.
Spaced == last' # last /\ last # -1 => last' - last >= Timeout

LEMMA SpacedAction == DeliveryInv /\ [RendezvousNext]_allVars => [Spaced]_allVars
<1> SUFFICES ASSUME DeliveryInv, [RendezvousNext]_allVars, last' # last, last # -1
             PROVE  last' - last >= Timeout
  BY DEF Spaced
<1>1. Deposit
  BY DEF RendezvousNext, Sending, Address, Refused, Record, Redistribute, confirm_receipt,
     gc_confirmed, sweep_epochs, Query, Abandon, Strangers, alone, history, allVars
<1>2. last' = now' /\ now - last >= Timeout
  BY <1>1 DEF Deposit, DeliveryInv, SpacedInv
<1>3. now' \in Int /\ now <= now' /\ now \in Int
  BY DeliveryStep, ClockForward DEF DeliveryInv, Inv, TypeOK
<1>4. last \in Int /\ last <= last /\ Timeout \in Int
  BY RendezvousAssumption DEF DeliveryInv, SpacedInv, RendezvousAssumption
<1>5. now' - last >= Timeout
  BY <1>2, <1>3, <1>4, Apart, Zenon
<1> QED
  BY <1>2, <1>5

\* ConfirmedIsFinal of one step.
Final ==
  /\ Tracked /\ record.confirmed =>
       /\ ~Tracked' \/ record'.confirmed
       /\ sender = "tracked" => sender' = "tracked"
  /\ again /\ ~Tracked => ~Tracked'

LEMMA FinalAction == DeliveryInv /\ [RendezvousNext]_allVars => [Final]_allVars
<1> SUFFICES ASSUME DeliveryInv, [RendezvousNext]_allVars PROVE Final
  OBVIOUS
<1>1. CASE Record
  <2>1. CASE again /\ ~Tracked
    BY <1>1, <2>1 DEF Record, Final, Tracked
  <2>2. CASE ~(again /\ ~Tracked)
    <3>1. record' = Recorded /\ sender = "record"
      BY <1>1, <2>2 DEF Record
    <3>2. record'.confirmed = record.confirmed
      BY <2>2, <3>1, RecordedType
    <3> QED
      BY <2>2, <3>1, <3>2 DEF Final
  <2> QED
    BY <2>1, <2>2
<1>2. CASE Redistribute
  BY <1>2 DEF Redistribute, check_timeouts, Final, Tracked
<1>3. CASE confirm_receipt
  <2>1. CASE Tracked
    <3>1. record' = [record EXCEPT !.confirmed = TRUE] /\ sender' = sender
      BY <1>3, <2>1 DEF confirm_receipt
    <3>2. record'.confirmed
      BY <3>1 DEF DeliveryInv, RecordInv
    <3> QED
      BY <2>1, <3>1, <3>2 DEF Final
  <2>2. CASE ~Tracked
    BY <1>3, <2>2 DEF confirm_receipt, Final, Tracked
  <2> QED
    BY <2>1, <2>2
<1>4. CASE gc_confirmed
  BY <1>4 DEF gc_confirmed, Final, Tracked
<1>5. CASE record' = record /\ (sender = "tracked" => sender' = "tracked")
  BY <1>5 DEF Final, Tracked
<1> QED
  BY <1>1, <1>2, <1>3, <1>4, <1>5 DEF RendezvousNext, Sending, Address, Deposit, Refused,
     sweep_epochs, Query, Abandon, Strangers, alone, senderVars, allVars

\* A redistribution follows the deposit before it by a whole time-out, and a receipt that
\* overlaps with one is neither lost nor undone (receipt.rs).
THEOREM DeliveriesAreKept == RendezvousSpec => DeliveriesKept
<1>1. DeliveryInv /\ [RendezvousNext]_allVars => [Spaced]_allVars /\ [Final]_allVars
  BY SpacedAction, FinalAction
<1>2. RendezvousSpec => [][Spaced]_allVars /\ [][Final]_allVars
  BY <1>1, DeliveryInvHolds, PTL DEF RendezvousSpec
<1> QED
  BY <1>2 DEF DeliveriesKept, RedistributionsSpaced, ConfirmedIsFinal, Spaced, Final
==============================================================================
