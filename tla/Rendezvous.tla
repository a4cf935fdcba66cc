----------------------------- MODULE Rendezvous -----------------------------
(***************************************************************************)
(* Delivery through the PIR vault: a sender deposits a payload under the   *)
(* id of the epoch, tracks its receipt and may deposit it again when none  *)
(* came in time; the recipient, awake now and then, sweeps the epochs it   *)
(* missed and queries their ids.  Sender, recipient and the vault's        *)
(* guillotine run on their own; a receipt may come back at any moment.     *)
(*                                                                         *)
(* One payload is followed, as one shard (the shards of a payload take the *)
(* same path), and its id in epoch e is e: a hash of secret, epoch and     *)
(* shard, equal for both sides and for no other input.  Other ids are the  *)
(* shards of strangers, who share the vault.  Nothing in the repository    *)
(* drives these components yet: the operations are the code's, their       *)
(* callers are any that make one call after the other and deposit before   *)
(* they register or mark.  No caller is taken to do anything in the end.   *)
(***************************************************************************)
EXTENDS ZipPirVault

CONSTANTS
  MaxSweep,   \* MAX_SWEEP_EPOCHS
  Timeout,    \* RECEIPT_TIMEOUT_SECS
  MaxAgain,   \* max_redistributions
  MaxForeign  \* bound: insertions of strangers

\* The ids of the epochs are shard ids, and the clock can start where Init has it.
ASSUME RendezvousAssumption ==
  /\ MaxSweep \in Nat /\ Timeout \in Nat \ {0} /\ MaxAgain \in Nat /\ MaxForeign \in Nat
  /\ 0..(MaxTime \div EpochDuration) \subseteq Shards
  /\ 2 * EpochDuration <= MaxTime

VARIABLES
  sender,     \* "address", "deposit", "record", "tracked" (nothing under way), "failed"
  target,     \* the epoch whose id it deposits under
  again,      \* the deposit is a redistribution
  record,     \* its DeliveryRecord, NoRecord before it is registered and once collected
  foreign,    \* insertions of strangers so far
  cursor,     \* epoch_sync_cursor of the recipient
  queries,    \* epochs whose ids the recipient has yet to ask for
  receipt,    \* a receipt is on its way back
  unswept,    \* history: epochs with a deposit made in them and not swept since
  last        \* history: when the last deposit was made, -1 before the first

senderVars == <<sender, target, again, record>>
recipientVars == <<cursor, queries, receipt>>
history == <<unswept, last>>
allVars == <<vars, senderVars, foreign, recipientVars, history>>

Epoch == now \div EpochDuration
Epochs == 0..(MaxTime \div EpochDuration)
NoRecord == [epoch |-> 0, deposited_at |-> 0, confirmed |-> FALSE, count |-> -1]
Tracked == record # NoRecord

RendezvousInit ==
  /\ Init
  /\ sender = "address" /\ target = 0 /\ again = FALSE /\ record = NoRecord
  /\ foreign = 0
  /\ cursor = Epoch /\ queries = {} /\ receipt = FALSE
  /\ unswept = {} /\ last = -1

-----------------------------------------------------------------------------
(* The sender.                                                             *)

\* compute_shard_vault_ids: the epoch is read here, before the vault sees the shard.
Address ==
  /\ sender = "address" /\ sender' = "deposit" /\ target' = Epoch
  /\ UNCHANGED <<vars, again, record, foreign, recipientVars, history>>

Deposit ==
  /\ sender = "deposit" /\ sender' = "record"
  /\ \E d \in 0..MaxSign : insert_shard(target, target, d)
  /\ unswept' = unswept \cup ({target} \cap {Epoch'})
  /\ last' = now'
  /\ UNCHANGED <<target, again, record, foreign, recipientVars>>

\* Any error of insert_shard.  Nothing follows from it by itself: the caller may compute new
\* ids, or leave the delivery to the time-outs, which find it if it is registered.
Refused ==
  /\ sender = "deposit" /\ sender' \in {"address", "tracked"}
  /\ \E fits \in BOOLEAN : Refuses(target, fits)
  /\ UNCHANGED <<vars, target, again, record, foreign, recipientVars, history>>

\* Fault variant: a redistribution starts from a fresh record.
Recorded_fresh ==
  [epoch |-> target, deposited_at |-> now, confirmed |-> FALSE, count |-> record.count + 1]

\* register_delivery, and mark_redistributed for one that is registered.
Recorded == [record EXCEPT !.epoch = target, !.count = @ + 1, !.deposited_at = now]

\* mark_redistributed fails if the record was collected meanwhile.
Record ==
  /\ sender = "record"
  /\ IF again /\ ~Tracked
       THEN sender' = "failed" /\ UNCHANGED record
       ELSE sender' = "tracked" /\ record' = Recorded
  /\ UNCHANGED <<vars, target, again, foreign, recipientVars, history>>

MayRepeat == record.count < MaxAgain

Age == Minus(now, record.deposited_at)

\* The hash is on the list check_timeouts returns.
check_timeouts == Tracked /\ ~record.confirmed /\ MayRepeat /\ Age >= Timeout

\* The caller goes through the list, one delivery after the other.
Redistribute ==
  /\ sender = "tracked" /\ sender' = "address"
  /\ check_timeouts
  /\ again' = TRUE
  /\ UNCHANGED <<vars, target, record, foreign, recipientVars, history>>

\* A receipt that finds no record is an error of the caller, who may look again.
confirm_receipt ==
  /\ receipt
  /\ IF Tracked
       THEN record' = [record EXCEPT !.confirmed = TRUE] /\ receipt' = FALSE
       ELSE UNCHANGED record /\ receipt' \in BOOLEAN
  /\ UNCHANGED <<vars, sender, target, again, foreign, cursor, queries, history>>

gc_confirmed ==
  /\ Tracked /\ record.confirmed /\ record' = NoRecord
  /\ UNCHANGED <<vars, sender, target, again, foreign, recipientVars, history>>

-----------------------------------------------------------------------------
(* The recipient.                                                          *)

\* Fault variant: the epoch of the cursor was swept already.
FirstSwept_next(e) == e > cursor /\ e + MaxSweep >= Epoch

FirstSwept(e) == e >= cursor /\ e + MaxSweep >= Epoch

\* Nothing when the cursor is at the current epoch, which is swept as the last one.
Sweep == IF cursor >= Epoch THEN {} ELSE {e \in Epochs : FirstSwept(e) /\ e <= Epoch}

\* The cursor moves when the ids are computed; what is still to be asked is kept apart.
sweep_epochs ==
  /\ queries' = queries \cup Sweep
  /\ cursor' = Epoch
  /\ unswept' = unswept \ Sweep
  /\ UNCHANGED <<vars, senderVars, foreign, receipt, last>>

\* A blind query for the cell of the id, and a receipt if it verifies.
Query ==
  /\ \E e \in queries :
       /\ queries' = queries \ {e}
       /\ receipt' = (receipt \/ (index[e] # 0 /\ verify_shard(e)))
  /\ UNCHANGED <<vars, senderVars, foreign, cursor, history>>

\* The app sleeps again, or a query fails, before all are answered.
Abandon ==
  /\ queries # {} /\ queries' = {}
  /\ UNCHANGED <<vars, senderVars, foreign, cursor, receipt, history>>

-----------------------------------------------------------------------------

\* The rest of the vault: strangers, the guillotine, the clock.
Strangers ==
  /\ \E s \in Shards \ Epochs, e \in Epochs, d \in 0..MaxSign : insert_shard(s, e, d)
  /\ foreign < MaxForeign /\ foreign' = foreign + 1
  /\ UNCHANGED <<senderVars, recipientVars, history>>

alone(A) == A /\ UNCHANGED <<senderVars, foreign, recipientVars, history>>

Sending == Address \/ Deposit \/ Refused \/ Record

RendezvousNext ==
  \/ Sending \/ Redistribute \/ confirm_receipt \/ gc_confirmed
  \/ sweep_epochs \/ Query \/ Abandon
  \/ Strangers \/ alone(guillotine_purge) \/ alone(ClockTick)

(***************************************************************************)
(* The guillotine's interval and the clock as in the vault.  Sender and    *)
(* recipient may stop at any moment.                                       *)
(***************************************************************************)
RendezvousSpec ==
  /\ RendezvousInit /\ [][RendezvousNext]_allVars
  /\ WF_allVars(alone(guillotine_purge)) /\ WF_allVars(alone(ClockTick))

-----------------------------------------------------------------------------

RendezvousTypeOK ==
  /\ sender \in {"address", "deposit", "record", "tracked", "failed"}
  /\ target \in Epochs /\ again \in BOOLEAN /\ receipt \in BOOLEAN
  /\ record.count \in -1..MaxAgain /\ record.deposited_at <= now
  /\ cursor \in 0..Epoch /\ queries \subseteq 0..cursor
  /\ unswept \subseteq 0..Epoch /\ last <= now /\ foreign \in 0..MaxForeign

\* A shard deposited in its own epoch is swept, however the wakes of the recipient fall
\* between the deposits: one behind the cursor was behind the longest sweep.  (One
\* deposited within the grace, an epoch late, may be behind it already.)
NothingOnTimeIsSkipped ==
  \A e \in unswept : e >= cursor \/ e + MaxSweep < cursor

\* Bookkeeping and sweeps agree with the clock, and no epoch is passed over.
RendezvousInv == RendezvousTypeOK /\ NothingOnTimeIsSkipped

\* A payload is deposited again only a whole time-out after its last deposit, whenever
\* the check, the vault's refusals and the bookkeeping happen.
RedistributionsSpaced ==
  [][last' # last /\ last # -1 => last' - last >= Timeout]_allVars

\* A receipt that comes while a redistribution is under way is not lost with it: the
\* delivery stays confirmed, only what had begun is finished, and a record that was
\* collected does not come back.
ConfirmedIsFinal ==
  [][/\ Tracked /\ record.confirmed =>
          /\ ~Tracked' \/ record'.confirmed
          /\ sender = "tracked" => sender' = "tracked"
     /\ again /\ ~Tracked => ~Tracked']_allVars

\* A redistribution neither comes too early nor undoes a receipt.
DeliveriesKept == RedistributionsSpaced /\ ConfirmedIsFinal
==============================================================================
