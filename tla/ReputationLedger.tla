-------------------------- MODULE ReputationLedger --------------------------
(***************************************************************************)
(* The reputation manager (pq-reputation): the Beta evidence it holds of   *)
(* every peer in memory, the tasks that add evidence and save the whole    *)
(* ledger to one file after every change, and what a crash and a new start *)
(* make of it.  An update is atomic (the entry's lock is held), the save   *)
(* that follows it is not: it copies entry after entry, truncates the file *)
(* and then writes it, while other tasks do the same.                      *)
(*                                                                         *)
(* Evidence is counted in halves, the smallest amount the code adds.  The  *)
(* decay multiplies what exceeds the prior by 0.95 to the hours elapsed;   *)
(* it is modelled for the hours that halve it, where both halves can be    *)
(* counted, and for those that leave next to nothing.                      *)
(* Latency averages, bytes routed and the wording of the file are left     *)
(* out: nothing below depends on them.                                     *)
(***************************************************************************)
EXTENDS Integers

CONSTANTS
  Peers,
  Tasks,      \* the asynchronous tasks that call the manager
  Auditor,    \* the one of them that reports canaries, the orchestra's
  MaxEvents,  \* bound: calls that add evidence, freeze or introduce a peer
  MaxCrashes  \* bound: crashes in a behaviour

ASSUME LedgerAssumption ==
  Auditor \in Tasks /\ MaxEvents \in Nat /\ MaxCrashes \in Nat

VARIABLES
  scores,   \* the evidence of the known peers
  frozen,   \* peers whose frozen_until lies ahead
  old,      \* known peers whose last_interaction is an hour back, or more
  file,     \* the file: what kind of content it has, and the ledger it holds
  phase,    \* "up", "down", or "failed": the last start gave up
  pc,       \* per task: "idle" or the step its save is at
  visited,  \* per task: the entries its save has still to copy
  snap,     \* per task: the entries its save has copied
  events, crashes,
  raced,    \* history: the last save began while another was under way, or failed
  risked    \* history: a save ever overlapped another or failed, or a crash cut one short

saving == <<pc, visited, snap>>
bounds == <<events, crashes>>
vars == <<scores, frozen, old, file, phase, saving, bounds, raced, risked>>

Half == 1
One == 2 * Half
Fresh == [alpha |-> One, beta |-> One, streak |-> 0]
NoScores == [p \in {} |-> Fresh]

Known == DOMAIN scores
Entry(p) == IF p \in Known THEN scores[p] ELSE Fresh
With(s, p, r) == [q \in DOMAIN s \cup {p} |-> IF q = p THEN r ELSE s[q]]

Least(a, b) == IF a < b THEN a ELSE b

\* ReputationManager::new on a first start, or on a file an earlier run has left.
StartsFrom(f) ==
  /\ file = f /\ scores = f.scores
  /\ frozen = {} /\ old = {}
  /\ phase = "up"
  /\ pc = [t \in Tasks |-> "idle"]
  /\ visited = [t \in Tasks |-> {}]
  /\ snap = [t \in Tasks |-> NoScores]
  /\ events = 0 /\ crashes = 0
  /\ raced = FALSE /\ risked = FALSE

NoFile == [kind |-> "absent", scores |-> NoScores]

Init == StartsFrom(NoFile)

-----------------------------------------------------------------------------
(* Evidence.                                                               *)

\* Half an excess, or nothing when half cannot be counted.
HalfExcess(n) == One + (IF n % 2 = 0 THEN (n - One) \div 2 ELSE 0)

\* Fault variant: the positive evidence does not decay.
DecaysFreely(r) == {[r EXCEPT !.beta = b] : b \in {One, HalfExcess(r.beta)}}

\* apply_decay: both excesses shrink by the same factor, to half (13 hours) or to nothing.
DecaysTo(r) ==
  {[r EXCEPT !.alpha = One, !.beta = One]} \cup
    IF (r.alpha - One) % 2 = 0 /\ (r.beta - One) % 2 = 0
      THEN {[r EXCEPT !.alpha = HalfExcess(@), !.beta = HalfExcess(@)]} ELSE {}

\* apply_decay on the entry of p
Decayed(p) == IF p \in old THEN DecaysTo(Entry(p)) ELSE {Entry(p)}

\* A canary that came back in time: half a point per success in a row, five at most.
Succeeds(r) == [r EXCEPT !.streak = Least(@ + 1, 5),
                         !.alpha = @ + Least(r.streak + 1, 5) * Half]
Fails(r) == [r EXCEPT !.streak = 0, !.beta = @ + 2 * One]
Updated(r, positive) ==
  IF positive THEN [r EXCEPT !.alpha = @ + One] ELSE [r EXCEPT !.beta = @ + One]
AuthFailed(r) == [r EXCEPT !.streak = 0, !.beta = @ + 10 * One]

Overlaps(t) == \E u \in Tasks \ {t} : pc[u] # "idle"

\* The entry of p becomes r, under its lock, and the save begins.
Record(t, p, r) ==
  /\ phase = "up" /\ pc[t] = "idle" /\ events < MaxEvents
  /\ scores' = With(scores, p, r)
  /\ pc' = [pc EXCEPT ![t] = "collect"]
  /\ visited' = [visited EXCEPT ![t] = DOMAIN scores']
  /\ snap' = [snap EXCEPT ![t] = NoScores]
  /\ events' = events + 1
  /\ raced' = Overlaps(t)
  /\ risked' = (risked \/ Overlaps(t))
  /\ UNCHANGED <<frozen, file, phase, crashes>>

\* A frozen peer's result is discarded before anything is changed or saved.
apply_canary_result(t, p, success) ==
  /\ p \notin frozen
  /\ \E r \in Decayed(p) : Record(t, p, IF success THEN Succeeds(r) ELSE Fails(r))
  /\ old' = old \ {p}

update_score(t, p, positive) ==
  /\ \E r \in Decayed(p) : Record(t, p, Updated(r, positive))
  /\ old' = old \ {p}

\* No decay, and the time of the last interaction stays.
apply_auth_failure(t, p) ==
  /\ Record(t, p, AuthFailed(Entry(p)))
  /\ UNCHANGED old

-----------------------------------------------------------------------------
(* save: copy the entries one by one, then tokio::fs::write.               *)

\* An entry that appears during the iteration may be met or missed.
Collect(t, p) ==
  /\ phase = "up" /\ pc[t] = "collect"
  /\ p \in Known \ DOMAIN snap[t]
  /\ snap' = [snap EXCEPT ![t] = With(@, p, scores[p])]
  /\ visited' = [visited EXCEPT ![t] = @ \ {p}]
  /\ UNCHANGED <<scores, frozen, old, file, phase, pc, bounds, raced, risked>>

Truncate(t) ==
  /\ phase = "up" /\ pc[t] = "collect" /\ visited[t] = {}
  /\ pc' = [pc EXCEPT ![t] = "write"]
  /\ file' = [kind |-> "empty", scores |-> NoScores]
  /\ UNCHANGED <<scores, frozen, old, phase, visited, snap, bounds, raced, risked>>

SaveEnds(t) ==
  pc' = [pc EXCEPT ![t] = "idle"] /\ snap' = [snap EXCEPT ![t] = NoScores]

\* Over an empty file the ledger is written whole.  Over what another task has written
\* since, from the same offset on, it may leave the end of a longer text standing.
Written(t) ==
  [kind : IF file.kind = "empty" THEN {"ledger"} ELSE {"ledger", "torn"},
   scores : {snap[t]}]

Write(t) ==
  /\ phase = "up" /\ pc[t] = "write"
  /\ file' \in Written(t)
  /\ SaveEnds(t)
  /\ UNCHANGED <<scores, frozen, old, phase, visited, bounds, raced, risked>>

\* An I/O error ends the save at either of its steps; memory keeps the change.
SaveFails(t) ==
  /\ phase = "up" /\ pc[t] # "idle" /\ visited[t] = {}
  /\ SaveEnds(t)
  /\ raced' = TRUE /\ risked' = TRUE
  /\ UNCHANGED <<scores, frozen, old, file, phase, visited, bounds>>

-----------------------------------------------------------------------------
(* Readers, the freeze, time.                                              *)

\* Fault variant: the list shows decayed scores, the ledger keeps the old ones.
ShowsDecayed(p) == p \in old /\ old' = old \ {p} /\ UNCHANGED scores

DecaysEntry(p) ==
  /\ p \in old /\ old' = old \ {p}
  /\ \E r \in Decayed(p) : scores' = With(scores, p, r)

\* get_all_scores, at the entry of p: the decay is kept, and not saved.
get_all_scores(p) ==
  /\ phase = "up"
  /\ DecaysEntry(p)
  /\ UNCHANGED <<frozen, file, phase, saving, bounds, raced, risked>>

\* get_score decays a copy; all it leaves behind is an entry for a new peer.
get_score(p) ==
  /\ phase = "up" /\ p \notin Known /\ events < MaxEvents
  /\ scores' = With(scores, p, Fresh)
  /\ events' = events + 1
  /\ UNCHANGED <<frozen, old, file, phase, saving, crashes, raced, risked>>

\* A second freeze only moves the end of the first, which Thaw leaves open anyway.
freeze_peer(p) ==
  /\ phase = "up" /\ p \notin frozen /\ events < MaxEvents
  /\ frozen' = frozen \cup {p}
  /\ scores' = With(scores, p, Entry(p))
  /\ events' = events + 1
  /\ UNCHANGED <<old, file, phase, saving, crashes, raced, risked>>

Thaw(p) ==
  /\ p \in frozen /\ frozen' = frozen \ {p}
  /\ UNCHANGED <<scores, old, file, phase, saving, bounds, raced, risked>>

AnHourPasses ==
  /\ phase = "up" /\ old # Known
  /\ old' = Known
  /\ UNCHANGED <<scores, frozen, file, phase, saving, bounds, raced, risked>>

-----------------------------------------------------------------------------
(* Crash and start.                                                        *)

Crash ==
  /\ phase = "up" /\ crashes < MaxCrashes
  /\ phase' = "down"
  /\ crashes' = crashes + 1
  /\ scores' = NoScores /\ old' = {}
  /\ pc' = [t \in Tasks |-> "idle"]
  /\ visited' = [t \in Tasks |-> {}] /\ snap' = [t \in Tasks |-> NoScores]
  /\ risked' = (risked \/ \E t \in Tasks : pc[t] = "write")
  /\ UNCHANGED <<frozen, file, events, raced>>

\* ReputationManager::new: no file is an empty ledger, an unreadable one an error that
\* ends the daemon.  Of the freezes only those the file knew are left; what Thaw and
\* AnHourPasses do right after stands for the file's older times.
Start ==
  /\ phase = "down"
  /\ IF file.kind \in {"absent", "ledger"}
       THEN /\ phase' = "up" /\ scores' = file.scores
            /\ frozen' = frozen \cap DOMAIN file.scores
       ELSE phase' = "failed" /\ UNCHANGED <<scores, frozen>>
  /\ UNCHANGED <<old, file, saving, bounds, raced, risked>>

Save(t) == (\E p \in Peers : Collect(t, p)) \/ Truncate(t) \/ Write(t) \/ SaveFails(t)

Call(t, p) ==
  \/ t = Auditor /\ \E b \in BOOLEAN : apply_canary_result(t, p, b)
  \/ t # Auditor /\ \E b \in BOOLEAN : update_score(t, p, b)
  \/ t # Auditor /\ apply_auth_failure(t, p)

Next ==
  \/ \E t \in Tasks : Save(t) \/ \E p \in Peers : Call(t, p)
  \/ \E p \in Peers : get_all_scores(p) \/ get_score(p) \/ freeze_peer(p) \/ Thaw(p)
  \/ AnHourPasses \/ Crash \/ Start

(***************************************************************************)
(* The orchestra lists all scores every 60 seconds and time passes; nobody *)
(* has to add evidence.                                                    *)
(***************************************************************************)
Fairness == WF_vars(AnHourPasses) /\ \A p \in Peers : WF_vars(get_all_scores(p))

Spec == Init /\ [][Next]_vars /\ Fairness

-----------------------------------------------------------------------------

\* The evidence never falls below the prior.
Evidence == {n \in Nat : n >= One}
Score == [alpha : Evidence, beta : Evidence, streak : 0..5]

\* The types of the variables.
TypeOK ==
  /\ Known \subseteq Peers /\ \A p \in Known : scores[p] \in Score
  /\ frozen \subseteq Peers /\ old \subseteq Known
  /\ file.kind \in {"absent", "empty", "ledger", "torn"}
  /\ DOMAIN file.scores \subseteq Peers
  /\ phase \in {"up", "down", "failed"}
  /\ pc \in [Tasks -> {"idle", "collect", "write"}]
  /\ \A t \in Tasks : visited[t] \subseteq Peers /\ DOMAIN snap[t] \subseteq Peers
  /\ events \in 0..MaxEvents /\ crashes \in 0..MaxCrashes
  /\ raced \in BOOLEAN /\ risked \in BOOLEAN

\* r is what f became by decay: both excesses in the same proportion.
Faded(r, f) ==
  /\ r.streak = f.streak /\ r.alpha <= f.alpha /\ r.beta <= f.beta
  /\ (r.alpha - One) * (f.beta - One) = (r.beta - One) * (f.alpha - One)

Saved(p) == IF p \in DOMAIN file.scores THEN file.scores[p] ELSE Fresh

\* When no save is under way and the last one ran alone, the file holds the evidence of
\* every peer, up to decay: a crash then costs nothing but freezes, whatever mixture of
\* calls and overlapping saves went before.
DiskCurrent ==
  phase = "up" /\ ~raced /\ (\A t \in Tasks : pc[t] = "idle") =>
    /\ file.kind \in {"absent", "ledger"}
    /\ DOMAIN file.scores \subseteq Known
    /\ \A p \in Known : Faded(scores[p], Saved(p))

\* The daemon fails to start only if some save was cut short between truncating and
\* writing the file, failed, or overlapped another.
StartsAgain == phase = "failed" => risked

\* Expected value between 0.4 and 0.6: the peers the orchestra audits.
Neutral(r) == 2 * (r.alpha + r.beta) <= 5 * r.alpha /\ 5 * r.alpha <= 3 * (r.alpha + r.beta)

HasFaded(p) == phase = "up" => Neutral(Entry(p))

\* No standing is for ever: once no more evidence comes in, the decay takes every peer
\* back to where the orchestra audits it again, slashed or trusted, frozen or not.
StandingFades == \A p \in Peers : <>[]HasFaded(p)
=============================================================================
