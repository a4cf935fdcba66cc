-------------------------------- MODULE Mesh --------------------------------
(***************************************************************************)
(* What stands on the ledger of reputations: the store that pays a peer    *)
(* for a chunk when its kill signal brings a signed receipt (pq-storage,   *)
(* EphemeralStore), the table of nodes and the choice of relays that ask   *)
(* for a standing first (pq-dht, TrustGatedDht; pq-onion,                  *)
(* SecurityFirstSelector).  All of it is in memory and gone after a crash; *)
(* only the ledger's file is left.                                         *)
(*                                                                         *)
(* One bucket of the table stands for all: they share nothing.  A score    *)
(* is read and the table changed without a step of anybody who reads the   *)
(* table in between, so that the two are one action.                       *)
(***************************************************************************)
EXTENDS ReputationLedger, FiniteSets

CONSTANTS
  BucketSize,  \* K_BUCKET_SIZE, 20 in the code
  Others,      \* records of other nodes in the bucket from before
  MaxReceipts  \* bound: receipts waiting for their task

ASSUME MeshAssumption ==
  /\ BucketSize \in Nat /\ Others \in 0..BucketSize
  /\ MaxReceipts \in Nat

VARIABLES
  receipts,  \* those left to tasks that have not run yet
  bucket,    \* the peers that have a record
  earned     \* history: the peers of which something good was ever reported

ledgerVars == vars
meshVars == <<ledgerVars, receipts, bucket, earned>>

Trusted == [alpha |-> 9 * One, beta |-> One, streak |-> 0]

\* A first start, or one with a ledger in which the peers stand well.
MeshInit ==
  /\ \/ StartsFrom(NoFile) /\ earned = {}
     \/ /\ StartsFrom([kind |-> "ledger", scores |-> [p \in Peers |-> Trusted]])
        /\ earned = Peers
  /\ receipts = {} /\ bucket = {}

-----------------------------------------------------------------------------
(* Standing.                                                               *)

\* E[R] >= tenths / 10
Meets(r, tenths) == 10 * r.alpha >= tenths * (r.alpha + r.beta)

\* Fault variant: a peer is refused only when it stands below neutral.
Admits_neutral(r) == Meets(r, 5)

Admits(r) == Meets(r, 7)

EdgeTenths == 9
RelayTenths == 7

-----------------------------------------------------------------------------
(* The store.                                                              *)

Promised == Cardinality({r \in receipts : r.good})

\* The bound on events, less what the receipts will need.
Room == events + Promised < MaxEvents

\* handle_kill_signal, once the MAC is right: the chunk goes whether it was there or not,
\* and the receipt is left to a task.  It is good if it has the length, names this chunk
\* and is signed by the key that came with the call.
handle_kill_signal(p) ==
  /\ phase = "up" /\ Cardinality(receipts) < MaxReceipts
  /\ \E good \in BOOLEAN :
       /\ good => Room
       /\ receipts' = receipts \cup {[peer |-> p, good |-> good]}
  /\ UNCHANGED <<ledgerVars, bucket>>

\* Fault variant: the payout waits for the end of a freeze.
Pays_thawed(t, r) ==
  IF r.good THEN r.peer \notin frozen /\ update_score(t, r.peer, TRUE) ELSE UNCHANGED ledgerVars

\* A good receipt pays, frozen or not; a bad one is logged.
Pays(t, r) ==
  IF r.good THEN update_score(t, r.peer, TRUE) ELSE UNCHANGED ledgerVars

Payout(t) ==
  /\ phase = "up"
  /\ \E r \in receipts : Pays(t, r) /\ receipts' = receipts \ {r}
  /\ UNCHANGED bucket

-----------------------------------------------------------------------------
(* Who asks for a standing.                                                *)

\* get_score: an entry for a peer never seen, else no change.
Asks(p) == IF p \in Known THEN phase = "up" /\ UNCHANGED ledgerVars ELSE get_score(p) /\ Room

Full == Cardinality(bucket) + Others >= BucketSize

\* A peer that has a record gets its address replaced; a full bucket takes no new one.
attempt_insert_node(p) ==
  /\ Asks(p)
  /\ \E r \in Decayed(p) :
       bucket' = IF Admits(r) /\ ~Full THEN bucket \cup {p} ELSE bucket
  /\ UNCHANGED receipts

\* select_hop reads the candidates one after the other and takes the first that meets its
\* threshold; all it leaves behind are entries for those it did not know.
select_hop(p) ==
  /\ p \notin Known /\ Asks(p)
  /\ UNCHANGED <<receipts, bucket>>

-----------------------------------------------------------------------------

\* Something good is reported of p.  The count itself may fall in such a step, when the
\* decay that comes first takes more than the report adds.
Praised(p) == \E t \in Tasks : apply_canary_result(t, p, TRUE) \/ update_score(t, p, TRUE)

Earns == earned' = earned \cup {p \in Peers : Praised(p)}

Alone == UNCHANGED <<receipts, bucket>>

\* Everybody else who calls the manager, leaving room for what the receipts promise.
LedgerStep ==
  /\ \/ \E t \in Tasks : Save(t)
     \/ \E t \in Tasks, p \in Peers : Call(t, p) /\ Room
     \/ \E p \in Peers :
          \/ get_all_scores(p) \/ Thaw(p)
          \/ freeze_peer(p) /\ Room
     \/ AnHourPasses \/ Start
  /\ Alone

CrashAll ==
  /\ Crash
  /\ receipts' = {} /\ bucket' = {}

MeshNext ==
  /\ \/ LedgerStep \/ CrashAll
     \/ \E t \in Tasks \ {Auditor} : Payout(t)
     \/ \E p \in Peers : handle_kill_signal(p) \/ attempt_insert_node(p) \/ select_hop(p)
  /\ Earns

(***************************************************************************)
(* As in the ledger; and the runtime runs what was spawned: saves end, and *)
(* a receipt is looked at.                                                 *)
(***************************************************************************)
Runtime ==
  \/ \E t \in Tasks : Save(t) /\ Alone
  \/ \E t \in Tasks \ {Auditor} : Payout(t)

MeshSpec ==
  /\ MeshInit /\ [][MeshNext]_meshVars
  /\ WF_meshVars(Runtime /\ Earns)
  /\ WF_meshVars(AnHourPasses /\ Alone /\ Earns)
  /\ \A p \in Peers : WF_meshVars(get_all_scores(p) /\ Alone /\ Earns)

-----------------------------------------------------------------------------

\* Whoever is in the table has had good evidence reported at some time: no decay, freeze,
\* crash or stale file alone gets a peer through the gate; and the bucket keeps its size.
Admitted == bucket \subseteq earned /\ Cardinality(bucket) + Others <= BucketSize

\* The ledger's invariants and the table's.
MeshInv ==
  /\ TypeOK /\ DiskCurrent /\ StartsAgain
  /\ bucket \subseteq Known
  /\ receipts \subseteq [peer : Peers, good : BOOLEAN]
  /\ Admitted

\* While the daemon runs, a peer rises over the threshold of an edge or of a relay only
\* by a good report: neither time nor a listing, a freeze, a bad report that finds the
\* evidence decayed or an unknown peer's first entry lifts it there.
TrustIsEarned ==
  [][\A p \in Peers, tenths \in {RelayTenths, EdgeTenths} :
       phase = "up" /\ Meets(Entry(p)', tenths) /\ ~Meets(Entry(p), tenths) => Praised(p)]_meshVars

\* No receipt is left lying: while the daemon stays up, every one is paid or refused,
\* whether its peer is frozen meanwhile or not.
ReceiptsSettle == []<>(phase # "up" \/ receipts = {})
=============================================================================
