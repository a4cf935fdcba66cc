----------------------------- MODULE ZipPirVault -----------------------------
(***************************************************************************)
(* The PIR vault of pq-storage: a matrix of cells, an index from shard id  *)
(* to row, a count of the rows in use, and the guillotine task that sweeps *)
(* out what is older than the TTL.  Every operation has &mut self or runs  *)
(* under the tokio mutex of spawn_guillotine, so it is one action; only    *)
(* the clock, read twice by insert_shard around the signing, moves inside  *)
(* one.  A cell is known by the shard and the number of its insertion: its *)
(* 512 bytes and its signature never decide anything.                      *)
(***************************************************************************)
EXTENDS Integers, FiniteSets

CONSTANTS
  Shards,          \* shard ids
  MaxRows,         \* PIR_MAX_ROWS: 1024 in the code, with_capacity sets it
  Ttl,             \* VAULT_TTL_SECS
  EpochDuration,   \* epoch_duration_secs of the callers
  Grace,           \* Temporal Write Grace: 300 s
  MaxSign,         \* bound: what signing a shard takes at most
  MaxTime          \* bound: the wall clock stops here

ASSUME ZipPirAssumption ==
  /\ MaxRows \in Nat /\ Ttl \in Nat \ {0} /\ EpochDuration \in Nat \ {0}
  /\ Grace \in Nat /\ MaxSign \in Nat /\ MaxTime \in Nat

VARIABLES
  matrix,        \* row -> cell or Empty
  index,         \* shard -> row, 0 when the shard is not in the map
  active_rows,
  now,           \* SystemTime::now(), in seconds
  inserts        \* history: insertions so far

vars == <<matrix, index, active_rows, now, inserts>>

Rows == 1..MaxRows
Empty == [shard |-> -1, inserted_at |-> 0, nr |-> 0]
Cell(s, t, n) == [shard |-> s, inserted_at |-> t, nr |-> n]
Occupied == {r \in Rows : matrix[r] # Empty}
Cells == {Empty} \cup [shard : Shards, inserted_at : Nat, nr : Nat \ {0}]

\* with_capacity; the clock is anywhere in the first epochs.
Init ==
  /\ matrix = [r \in Rows |-> Empty]
  /\ index = [s \in Shards |-> 0]
  /\ active_rows = 0
  /\ now \in 0..(2 * EpochDuration)
  /\ inserts = 0

-----------------------------------------------------------------------------

\* REJECT_STALE_EPOCH, unless target_epoch is the current one, or the last one and the
\* flip is at most Grace ago.
InEpoch(target_epoch) ==
  LET current_epoch == now \div EpochDuration
  IN \/ target_epoch = current_epoch
     \/ /\ target_epoch + 1 = current_epoch
        /\ now <= current_epoch * EpochDuration + Grace

\* Fault variant: any row will do, empty or not.
AnySlot(r) == r \in Rows

\* The slot of a new cell: the first empty one.
FirstEmpty(r) == r \in Rows \ Occupied /\ \A q \in Rows \ Occupied : r <= q

\* Fault variant: the row is not counted when the shard was there already.
CountsNewShards(s) == active_rows + IF index[s] = 0 THEN 1 ELSE 0

Counts(s) == active_rows + 1

\* index.insert: a shard that is inserted again is found under its new row.
Indexes(s, r) == [index EXCEPT ![s] = r]

\* The errors of insert_shard, which leave the vault as it is; fits: the shard is no longer
\* than a cell.
Refuses(target_epoch, fits) == ~InEpoch(target_epoch) \/ ~fits \/ active_rows >= MaxRows

\* insert_shard of a shard that fits; d is the time signing takes.
insert_shard(s, target_epoch, d) ==
  /\ ~Refuses(target_epoch, TRUE)
  /\ now + d <= MaxTime
  /\ now' = now + d
  /\ inserts' = inserts + 1
  /\ \E r \in Rows :
       /\ FirstEmpty(r)
       /\ matrix' = [matrix EXCEPT ![r] = Cell(s, now', inserts')]
       /\ index' = Indexes(s, r)
       /\ active_rows' = Counts(s)

Expired(s) == now - matrix[index[s]].inserted_at >= Ttl

\* The shards guillotine_purge collects: it walks the index, not the matrix.
ExpiredShards ==
  {s \in Shards : index[s] # 0 /\ matrix[index[s]] # Empty /\ Expired(s)}

\* Fault variant: the shards stay in the map.
PurgedIndex_kept == index

PurgedIndex == [s \in Shards |-> IF s \in ExpiredShards THEN 0 ELSE index[s]]

\* saturating_sub.
Minus(a, b) == IF a < b THEN 0 ELSE a - b

guillotine_purge ==
  LET rows == {index[s] : s \in ExpiredShards}
  IN /\ matrix' = [r \in Rows |-> IF r \in rows THEN Empty ELSE matrix[r]]
     /\ index' = PurgedIndex
     /\ active_rows' = Minus(active_rows, Cardinality(ExpiredShards))
     /\ UNCHANGED <<now, inserts>>

\* blind_query with the one-hot vector of row r; with any other vector the rows are
\* combined, which no client can use.
blind_query(r) == matrix[r]

\* verify_shard, for the shards it does not call missing: the signature covers the id
\* and the data, so it verifies if the cell is one of that shard.
verify_shard(s) == matrix[index[s]] # Empty /\ matrix[index[s]].shard = s

ClockTick ==
  /\ now < MaxTime /\ now' = now + 1
  /\ UNCHANGED <<matrix, index, active_rows, inserts>>

Next ==
  \/ \E s \in Shards, e \in 0..(MaxTime \div EpochDuration), d \in 0..MaxSign :
       insert_shard(s, e, d)
  \/ guillotine_purge
  \/ ClockTick

\* interval.tick() of the guillotine task never ends, and time goes on.
Fairness == WF_vars(guillotine_purge) /\ WF_vars(ClockTick)

Spec == Init /\ [][Next]_vars /\ Fairness

-----------------------------------------------------------------------------

TypeOK ==
  /\ matrix \in [Rows -> Cells]
  /\ index \in [Shards -> 0..MaxRows]
  /\ active_rows \in Nat
  /\ now \in Nat
  /\ inserts \in Nat

\* The count is the number of occupied rows, so the search for a slot succeeds whenever
\* the vault is not called full, and the saturating_sub of the purge never saturates.
Counted == active_rows = Cardinality(Occupied)

\* Every map entry leads to the newest cell of its shard, so verify_shard and the purge
\* find what the last insert_shard put there.
IndexLeads ==
  /\ \A s \in Shards : index[s] # 0 => verify_shard(s)
  /\ \A r \in Occupied :
       LET s == matrix[r].shard
       IN index[s] # 0 => matrix[r].nr <= matrix[index[s]].nr

\* No cell is from the future, and none of an insertion that was not made.
HistoryInv ==
  \A r \in Occupied : matrix[r].nr <= inserts /\ matrix[r].inserted_at <= now

Inv == TypeOK /\ Counted /\ IndexLeads /\ HistoryInv

\* The row a client got from insert_shard keeps answering blind queries with its cell
\* for the whole TTL: whatever is inserted or swept meanwhile, a cell is only ever
\* emptied, and only when it is old enough.
RowsKeepTheirCells ==
  [][\A r \in Occupied :
       \/ blind_query(r)' = blind_query(r)
       \/ blind_query(r)' = Empty /\ now - matrix[r].inserted_at >= Ttl]_vars

\* The guillotine keeps up: again and again there is no cell in the index that is past its
\* TTL, whatever is inserted meanwhile.
SweepsIndexed == []<>(\A s \in Shards : index[s] # 0 => ~Expired(s))
==============================================================================
