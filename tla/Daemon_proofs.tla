---------------------------- MODULE Daemon_proofs ----------------------------
(***************************************************************************)
(* Proofs about the daemon process: the ledger and the table its tasks     *)
(* share (Mesh), then its start-up, its crucible and its hand-shake        *)
(* (Daemon).  The two specifications have no variable in common.           *)
(*                                                                         *)
(* MeshInv speaks of the file only while no save is under way.  What makes *)
(* it inductive is what a save that runs alone has already copied          *)
(* (Covers), that a ledger that was never put at risk is readable unless a *)
(* save is between truncating and writing (Readable), and that a peer of   *)
(* which nothing good was reported has no good evidence in memory, in a    *)
(* save's copy or in the file (Book).                                      *)
(*                                                                         *)
(* DaemonInv adds to the hand-shake what a hop needs of its packet         *)
(* (Proper): the sizes the whole onion was built with.  The order of the   *)
(* fragments rests on FlowInv: those handed over and not yet handled are,  *)
(* each once and in their order, in the channel with noise between them    *)
(* (InChannel), then in the crucible's buffer, then in its inbox.          *)
(***************************************************************************)
EXTENDS Mesh, Daemon, FiniteSetTheorems, SequenceTheorems, TLAPS

-----------------------------------------------------------------------------
(* The ledger and the table: the inductive invariant.                      *)

\* A ledger of known peers' scores, and of no praise nobody gave.
Book(s, praised) ==
  /\ DOMAIN s \subseteq Peers
  /\ \A p \in DOMAIN s : s[p] \in Score /\ (p \in praised \/ s[p].alpha = One)

Books ==
  /\ Book(scores, earned) /\ Book(file.scores, earned)
  /\ \A t \in Tasks : Book(snap[t], earned)

At(s, p) == IF p \in DOMAIN s THEN s[p] ELSE Fresh

\* Every known peer's evidence is in the ledger s, up to decay, or still to be copied.
Holds(s, todo) ==
  /\ DOMAIN s \subseteq Known
  /\ \A p \in Known : p \in todo \/ Faded(scores[p], At(s, p))

Active(t) == pc[t] # "idle"

\* Of the saves: one that runs alone has copied what it has visited.
Covers ==
  phase = "up" /\ ~raced => \A t \in Tasks : Active(t) => Holds(snap[t], visited[t])

AtMostOne == ~raced => \A t, u \in Tasks : Active(t) /\ Active(u) => t = u

Writes ==
  \A t \in Tasks : pc[t] = "write" => visited[t] = {} /\ (~raced => file.kind = "empty")

\* Nothing was put at risk: the file is readable, unless it is just being written.
Readable ==
  ~risked => ~raced /\ (file.kind \in {"absent", "ledger"} \/ \E t \in Tasks : pc[t] = "write")

\* A daemon that is not up saves nothing and holds no entry to decay.
Idle == phase # "up" => old = {} /\ \A t \in Tasks : ~Active(t)

LedgerTypes == TypeOK /\ DOMAIN snap = Tasks /\ DOMAIN visited = Tasks

LedgerIInv ==
  /\ LedgerTypes /\ Books
  /\ AtMostOne /\ Covers /\ Writes /\ DiskCurrent
  /\ Readable /\ Idle /\ StartsAgain

\* The table's part: only a daemon that is up has one.
TableIInv ==
  /\ receipts \subseteq [peer : Peers, good : BOOLEAN]
  /\ bucket \subseteq Known /\ IsFiniteSet(bucket)
  /\ Admitted
  /\ phase # "up" => bucket = {}

IInv == LedgerIInv /\ TableIInv

-----------------------------------------------------------------------------
(* Evidence: what the manager does to one entry.                           *)

\* The decay of an excess leaves it even halves, or none.
LEMMA HalfExcessBounds ==
  ASSUME NEW n \in Evidence
  PROVE  /\ HalfExcess(n) \in Evidence /\ HalfExcess(n) <= n
         /\ n = One => HalfExcess(n) = One
         /\ n % 2 = 0 => 2 * (HalfExcess(n) - One) = n - One
BY SMT DEF Evidence, HalfExcess, One, Half

\* The ways of the decay: all the excess goes, or half of it.
LEMMA DecayCases ==
  ASSUME NEW r \in Score, NEW d \in DecaysTo(r)
  PROVE  /\ d \in Score /\ d.streak = r.streak
         /\ \/ d.alpha = One /\ d.beta = One
            \/ /\ 2 * (d.alpha - One) = r.alpha - One
               /\ 2 * (d.beta - One) = r.beta - One
<1>1. r.alpha \in Evidence /\ r.beta \in Evidence BY DEF Score
<1>2. One \in Evidence BY SMT DEF One, Half, Evidence
<1>3. CASE d = [r EXCEPT !.alpha = One, !.beta = One]
  <2>1. d = [alpha |-> One, beta |-> One, streak |-> r.streak] BY <1>3 DEF Score
  <2> QED BY <1>2, <2>1 DEF Score
<1>4. CASE /\ (r.alpha - One) % 2 = 0 /\ (r.beta - One) % 2 = 0
           /\ d = [r EXCEPT !.alpha = HalfExcess(@), !.beta = HalfExcess(@)]
  <2>1. r.alpha % 2 = 0 /\ r.beta % 2 = 0
    BY <1>1, <1>4, SMT DEF Evidence, One, Half
  <2>2. HalfExcess(r.alpha) \in Evidence /\ HalfExcess(r.beta) \in Evidence
    BY <1>1, HalfExcessBounds
  <2>3. /\ 2 * (HalfExcess(r.alpha) - One) = r.alpha - One
        /\ 2 * (HalfExcess(r.beta) - One) = r.beta - One
    BY <1>1, <2>1, HalfExcessBounds
  <2>4. d = [alpha |-> HalfExcess(r.alpha), beta |-> HalfExcess(r.beta), streak |-> r.streak]
    BY <1>4 DEF Score
  <2> QED BY <2>2, <2>3, <2>4 DEF Score
<1> QED BY <1>3, <1>4 DEF DecaysTo

\* apply_decay takes from both counts, and leaves no excess where there was none.
LEMMA DecayTakes ==
  ASSUME NEW r \in Score, NEW d \in DecaysTo(r)
  PROVE  /\ d.alpha <= r.alpha /\ d.beta <= r.beta
         /\ r.alpha = One => d.alpha = One
<1>1. /\ r.alpha \in Evidence /\ r.beta \in Evidence
      /\ d.alpha \in Evidence /\ d.beta \in Evidence
  BY DecayCases DEF Score
<1> QED BY <1>1, DecayCases, SMT DEF Evidence, One, Half

\* A product of an even number is taken in halves.
LEMMA HalvedProducts ==
  ASSUME NEW x \in Int, NEW y \in Int, NEW u \in Int, NEW v \in Int,
         NEW a \in Int, NEW b \in Int,
         2 * x = u, 2 * y = v, u * b = v * a
  PROVE  x * b = y * a
<1>1. u * b = 2 * (x * b) /\ v * a = 2 * (y * a) BY SMT
<1>2. x * b \in Int /\ y * a \in Int BY SMT
<1> QED BY <1>1, <1>2, SMT

\* A score that decays goes on being what an older one became by decay.
LEMMA DecayFades ==
  ASSUME NEW f \in Score, NEW r \in Score, NEW d \in DecaysTo(r), Faded(r, f)
  PROVE  Faded(d, f)
<1>1. /\ r.alpha \in Evidence /\ r.beta \in Evidence
      /\ d.alpha \in Evidence /\ d.beta \in Evidence
      /\ f.alpha \in Evidence /\ f.beta \in Evidence
  BY DecayCases DEF Score
<1>2. d.streak = f.streak BY DecayCases DEF Faded
<1>3. d.alpha <= f.alpha /\ d.beta <= f.beta
  BY <1>1, DecayTakes, SMT DEF Faded, Evidence
<1>4. (d.alpha - One) * (f.beta - One) = (d.beta - One) * (f.alpha - One)
  <2> DEFINE x == d.alpha - One  y == d.beta - One
             u == r.alpha - One  v == r.beta - One
             a == f.alpha - One  b == f.beta - One
  <2>1. x \in Int /\ y \in Int /\ u \in Int /\ v \in Int /\ a \in Int /\ b \in Int
    BY <1>1, SMT DEF Evidence, One, Half
  <2>2. u * b = v * a BY DEF Faded
  <2>3. CASE d.alpha = One /\ d.beta = One
    <3>1. x = 0 /\ y = 0 BY <1>1, <2>3, SMT DEF One, Half
    <3> QED BY <2>1, <3>1, SMT
  <2>4. CASE 2 * x = u /\ 2 * y = v
    <3> HIDE DEF x, y, u, v, a, b
    <3>1. x * b = y * a BY <2>1, <2>2, <2>4, HalvedProducts
    <3> QED BY <3>1 DEF x, y, a, b
  <2> QED BY <2>3, <2>4, DecayCases
<1> QED BY <1>2, <1>3, <1>4 DEF Faded

\* No decay lifts a score over the threshold of a relay or of an edge.
LEMMA DecayNeverLifts ==
  ASSUME NEW r \in Score, NEW d \in DecaysTo(r), NEW tenths \in {RelayTenths, EdgeTenths},
         Meets(d, tenths)
  PROVE  Meets(r, tenths)
<1>1. /\ r.alpha \in Evidence /\ r.beta \in Evidence
      /\ d.alpha \in Evidence /\ d.beta \in Evidence
  BY DecayCases DEF Score
<1>2. tenths = 7 \/ tenths = 9 BY DEF RelayTenths, EdgeTenths
<1>3. CASE d.alpha = One /\ d.beta = One
  BY <1>1, <1>2, <1>3, SMT DEF Meets, One, Half, Evidence
<1>4. CASE 2 * (d.alpha - One) = r.alpha - One /\ 2 * (d.beta - One) = r.beta - One
  BY <1>1, <1>2, <1>4, SMT DEF Meets, One, Half, Evidence
<1> QED BY <1>3, <1>4, DecayCases

\* What a report makes of a score is a score; only a good one adds to alpha.
LEMMA Reported ==
  ASSUME NEW r \in Score, NEW b \in BOOLEAN
  PROVE  /\ Succeeds(r) \in Score
         /\ Fails(r) \in Score /\ Fails(r).alpha = r.alpha /\ Fails(r).beta >= r.beta
         /\ Updated(r, b) \in Score
         /\ ~b => Updated(r, b).alpha = r.alpha /\ Updated(r, b).beta >= r.beta
         /\ AuthFailed(r) \in Score
         /\ AuthFailed(r).alpha = r.alpha /\ AuthFailed(r).beta >= r.beta
<1>1. /\ r.alpha \in Evidence /\ r.beta \in Evidence /\ r.streak \in 0..5
      /\ r = [alpha |-> r.alpha, beta |-> r.beta, streak |-> r.streak]
  BY DEF Score
<1>2. /\ Least(r.streak + 1, 5) \in 0..5
      /\ r.alpha + Least(r.streak + 1, 5) * Half \in Evidence
      /\ r.alpha + One \in Evidence /\ r.beta + One \in Evidence
      /\ r.beta + 2 * One \in Evidence /\ r.beta + 10 * One \in Evidence
      /\ r.beta <= r.beta + One /\ r.beta <= r.beta + 2 * One /\ r.beta <= r.beta + 10 * One
  BY <1>1, SMT DEF Evidence, One, Half, Least
<1>3. /\ Succeeds(r).alpha = r.alpha + Least(r.streak + 1, 5) * Half
      /\ Succeeds(r) \in Score
  BY <1>1, <1>2 DEF Score, Succeeds
<1>4. /\ Fails(r) \in Score /\ Fails(r).alpha = r.alpha /\ Fails(r).beta = r.beta + 2 * One
  <2>1. 0 \in 0..5 BY SMT
  <2> QED BY <1>1, <1>2, <2>1 DEF Score, Fails
<1>5. /\ AuthFailed(r) \in Score
      /\ AuthFailed(r).alpha = r.alpha /\ AuthFailed(r).beta = r.beta + 10 * One
  <2>1. 0 \in 0..5 BY SMT
  <2> QED BY <1>1, <1>2, <2>1 DEF Score, AuthFailed
<1>6. /\ Updated(r, b) \in Score
      /\ ~b => Updated(r, b).alpha = r.alpha /\ Updated(r, b).beta = r.beta + One
  BY <1>1, <1>2 DEF Score, Updated
<1> QED BY <1>2, <1>3, <1>4, <1>5, <1>6, SMT

LEMMA FreshIsAScore == Fresh \in Score /\ Fresh.alpha = One /\ Fresh.beta = One
<1>1. One \in Evidence /\ 0 \in 0..5 BY SMT DEF One, Half, Evidence
<1> QED BY <1>1 DEF Fresh, Score
-----------------------------------------------------------------------------
(* Ledgers.                                                                *)

\* A book stays one when an entry is recorded, and as praise comes in.
LEMMA BookKept ==
  ASSUME NEW s, NEW a, NEW b, Book(s, a), a \subseteq b
  PROVE  Book(s, b)
BY DEF Book

LEMMA BookWith ==
  ASSUME NEW s, NEW a, NEW p \in Peers, NEW r \in Score,
         Book(s, a), p \in a \/ r.alpha = One
  PROVE  Book(With(s, p, r), a)
<1>1. DOMAIN With(s, p, r) \subseteq Peers BY DEF Book, With
<1>2. ASSUME NEW q \in DOMAIN With(s, p, r)
      PROVE  With(s, p, r)[q] \in Score /\ (q \in a \/ With(s, p, r)[q].alpha = One)
  <2>1. CASE q = p BY <2>1 DEF With
  <2>2. CASE q # p
    <3>1. q \in DOMAIN s BY <2>2 DEF With
    <3>2. With(s, p, r)[q] = s[q] BY <2>2, <3>1 DEF With
    <3> QED BY <3>1, <3>2 DEF Book
  <2> QED BY <2>1, <2>2
<1> QED BY <1>1, <1>2 DEF Book

LEMMA EmptyBook == \A a : Book(NoScores, a)
BY DEF Book, NoScores

LEMMA AtScore ==
  ASSUME NEW s, NEW a, Book(s, a), NEW p
  PROVE  At(s, p) \in Score /\ (p \in a \/ At(s, p).alpha = One)
BY FreshIsAScore DEF At, Book

LEMMA EntryIsAt == \A p : Entry(p) = At(scores, p)
BY DEF Entry, At, Known

\* The evidence of an entry after the decay that a call begins with.
LEMMA DecayedFacts ==
  ASSUME NEW a, Book(scores, a), NEW p, NEW r \in Decayed(p)
  PROVE  /\ r \in Score /\ (p \in a \/ r.alpha = One)
         /\ r.alpha <= Entry(p).alpha
         /\ \A f \in Score : Faded(Entry(p), f) => Faded(r, f)
         /\ \A tenths \in {RelayTenths, EdgeTenths} : Meets(r, tenths) => Meets(Entry(p), tenths)
<1>1. Entry(p) \in Score /\ (p \in a \/ Entry(p).alpha = One)
  BY AtScore, EntryIsAt
<1>2. CASE r \in DecaysTo(Entry(p))
  <2>1. r \in Score BY <1>1, <1>2, DecayCases
  <2>2. r.alpha <= Entry(p).alpha /\ (p \in a \/ r.alpha = One)
    BY <1>1, <1>2, DecayTakes
  <2>3. \A f \in Score : Faded(Entry(p), f) => Faded(r, f)
    BY <1>1, <1>2, DecayFades
  <2>4. \A tenths \in {RelayTenths, EdgeTenths} : Meets(r, tenths) => Meets(Entry(p), tenths)
    BY <1>1, <1>2, DecayNeverLifts
  <2> QED BY <2>1, <2>2, <2>3, <2>4
<1>3. CASE r = Entry(p)
  <2>1. r.alpha <= Entry(p).alpha BY <1>1, <1>3, SMT DEF Score, Evidence
  <2> QED BY <1>1, <1>3, <2>1
<1> QED BY <1>2, <1>3 DEF Decayed

\* A new or a fading entry leaves what a file or a save holds of the ledger as it is.
LEMMA HoldsOn ==
  ASSUME NEW s, NEW todo, NEW a, NEW p, NEW r,
         Book(s, a), Holds(s, todo), scores' = With(scores, p, r),
         \A f \in Score : Faded(Entry(p), f) => Faded(r, f)
  PROVE  DOMAIN s \subseteq Known' /\ \A q \in Known' : q \in todo \/ Faded(scores'[q], At(s, q))
<1>1. Known' = Known \cup {p} BY DEF Known, With
<1>2. DOMAIN s \subseteq Known' BY <1>1 DEF Holds
<1>3. ASSUME NEW q \in Known', q \notin todo
      PROVE  Faded(scores'[q], At(s, q))
  <2>1. CASE q # p
    <3>1. q \in Known BY <1>1, <2>1
    <3>2. scores'[q] = scores[q] BY <2>1, <3>1 DEF Known, With
    <3> QED BY <1>3, <3>1, <3>2 DEF Holds
  <2>2. CASE q = p
    <3>1. scores'[q] = r BY <2>2 DEF With
    <3>2. Faded(Entry(p), At(s, p))
      <4>1. CASE p \in Known BY <1>3, <2>2, <4>1 DEF Holds, Entry
      <4>2. CASE p \notin Known
        <5>1. Entry(p) = Fresh /\ At(s, p) = Fresh BY <4>2 DEF Entry, At, Holds
        <5>2. Faded(Fresh, Fresh) BY SMT DEF Faded, Fresh, One, Half
        <5> QED BY <5>1, <5>2
      <4> QED BY <4>1, <4>2
    <3>3. At(s, p) \in Score BY AtScore
    <3> QED BY <2>2, <3>1, <3>2, <3>3
  <2> QED BY <2>1, <2>2
<1> QED BY <1>2, <1>3

LEMMA FadedFromItself == ASSUME NEW r \in Score PROVE Faded(r, r)
<1>1. r.alpha \in Evidence /\ r.beta \in Evidence BY DEF Score
<1>2. r.alpha - One \in Int /\ r.beta - One \in Int BY <1>1, SMT DEF Evidence, One, Half
<1>3. (r.alpha - One) * (r.beta - One) = (r.beta - One) * (r.alpha - One) BY <1>2, SMT
<1>4. r.alpha <= r.alpha /\ r.beta <= r.beta BY <1>1, SMT DEF Evidence
<1> QED BY <1>3, <1>4 DEF Faded

\* The file, or a save's copy, as DiskCurrent sees it.
LEMMA DiskHolds ==
  DiskCurrent <=>
    (phase = "up" /\ ~raced /\ (\A t \in Tasks : pc[t] = "idle") =>
       file.kind \in {"absent", "ledger"} /\ Holds(file.scores, {}))
BY DEF DiskCurrent, Holds, Saved, At

-----------------------------------------------------------------------------
(* Steps of the ledger.  First those that leave the saves and the file     *)
(* alone: with the entries as they are (Still), or with one that is new or *)
(* has decayed (Soft).                                                     *)

Quiet == UNCHANGED <<file, phase, saving, crashes, raced, risked>>

Still ==
  /\ Quiet /\ UNCHANGED <<scores, events>>
  /\ old' \subseteq Known /\ frozen' \subseteq Peers
  /\ phase # "up" => old' = {}

Soft(p, r) ==
  /\ Quiet /\ phase = "up" /\ events' \in 0..MaxEvents
  /\ scores' = With(scores, p, r)
  /\ old' \subseteq Known' /\ frozen' \subseteq Peers

LEMMA StillStep ==
  ASSUME LedgerIInv, Still, earned \subseteq earned'
  PROVE  LedgerIInv'
<1>1. /\ file' = file /\ phase' = phase /\ pc' = pc /\ visited' = visited /\ snap' = snap
      /\ crashes' = crashes /\ raced' = raced /\ risked' = risked
      /\ scores' = scores /\ events' = events
  BY DEF Still, Quiet, saving
<1>2. Known' = Known /\ \A t : Active(t)' <=> Active(t) BY <1>1 DEF Known, Active
<1>3. LedgerTypes'
  BY <1>1, <1>2 DEF LedgerIInv, LedgerTypes, TypeOK, Still
<1>4. Books' BY <1>1, BookKept DEF LedgerIInv, Books
<1>5. AtMostOne' BY <1>1, <1>2 DEF LedgerIInv, AtMostOne
<1>6. Covers' BY <1>1, <1>2 DEF LedgerIInv, Covers, Holds
<1>7. Writes' BY <1>1 DEF LedgerIInv, Writes
<1>8. DiskCurrent' BY <1>1, <1>2 DEF LedgerIInv, DiskCurrent, Saved
<1>9. Readable' BY <1>1 DEF LedgerIInv, Readable
<1>10. Idle' BY <1>1, <1>2 DEF LedgerIInv, Idle, Still
<1>11. StartsAgain' BY <1>1 DEF LedgerIInv, StartsAgain
<1> QED
  BY <1>3, <1>4, <1>5, <1>6, <1>7, <1>8, <1>9, <1>10, <1>11 DEF LedgerIInv

LEMMA SoftStep ==
  ASSUME LedgerIInv, earned \subseteq earned',
         NEW p \in Peers, NEW r \in Score, Soft(p, r),
         p \in earned' \/ r.alpha = One,
         \A f \in Score : Faded(Entry(p), f) => Faded(r, f)
  PROVE  LedgerIInv'
<1>1. /\ file' = file /\ phase' = phase /\ pc' = pc /\ visited' = visited /\ snap' = snap
      /\ crashes' = crashes /\ raced' = raced /\ risked' = risked
      /\ phase = "up" /\ scores' = With(scores, p, r)
  BY DEF Soft, Quiet, saving
<1>2. \A t : Active(t)' <=> Active(t) BY <1>1 DEF Active
<1>3. Books'
  <2>1. Book(scores, earned') /\ Book(file.scores, earned')
        /\ \A t \in Tasks : Book(snap[t], earned')
    BY BookKept DEF LedgerIInv, Books
  <2>2. Book(scores', earned') BY <1>1, <2>1, BookWith
  <2> QED BY <1>1, <2>1, <2>2 DEF Books
<1>4. LedgerTypes'
  <2>1. Known' \subseteq Peers /\ \A q \in Known' : scores'[q] \in Score
    BY <1>3 DEF Books, Book, Known
  <2>2. frozen' \subseteq Peers /\ old' \subseteq Known' /\ events' \in 0..MaxEvents
    BY DEF Soft
  <2> QED BY <1>1, <2>1, <2>2 DEF LedgerIInv, LedgerTypes, TypeOK
<1>5. AtMostOne' BY <1>1, <1>2 DEF LedgerIInv, AtMostOne
<1>6. Covers'
  <2>1. ASSUME ~raced, NEW t \in Tasks, Active(t)
        PROVE  Holds(snap[t], visited[t])'
    <3>1. Holds(snap[t], visited[t]) BY <1>1, <2>1 DEF LedgerIInv, Covers
    <3>2. Book(snap[t], earned) BY DEF LedgerIInv, Books
    <3>3. /\ DOMAIN snap[t] \subseteq Known'
          /\ \A q \in Known' : q \in visited[t] \/ Faded(scores'[q], At(snap[t], q))
      BY <1>1, <3>1, <3>2, HoldsOn
    <3> QED BY <1>1, <3>3 DEF Holds
  <2> QED BY <1>1, <1>2, <2>1 DEF Covers
<1>7. Writes' BY <1>1 DEF LedgerIInv, Writes
<1>8. DiskCurrent'
  <2>1. ASSUME ~raced, \A t \in Tasks : pc[t] = "idle"
        PROVE  file.kind \in {"absent", "ledger"} /\ Holds(file.scores, {})'
    <3>1. file.kind \in {"absent", "ledger"} /\ Holds(file.scores, {})
      BY <1>1, <2>1, DiskHolds DEF LedgerIInv
    <3>2. Book(file.scores, earned) BY DEF LedgerIInv, Books
    <3>3. /\ DOMAIN file.scores \subseteq Known'
          /\ \A q \in Known' : q \in {} \/ Faded(scores'[q], At(file.scores, q))
      BY <1>1, <3>1, <3>2, HoldsOn
    <3> QED BY <1>1, <3>1, <3>3 DEF Holds
  <2> QED BY <1>1, <2>1 DEF DiskCurrent, Holds, Saved, At
<1>9. Readable' BY <1>1 DEF LedgerIInv, Readable
<1>10. Idle' BY <1>1 DEF Idle
<1>11. StartsAgain' BY <1>1 DEF LedgerIInv, StartsAgain
<1> QED
  BY <1>3, <1>4, <1>5, <1>6, <1>7, <1>8, <1>9, <1>10, <1>11 DEF LedgerIInv

\* A call that records evidence and begins a save.
LEMMA RecordStep ==
  ASSUME LedgerIInv, earned \subseteq earned',
         NEW t \in Tasks, NEW p \in Peers, NEW r \in Score, Record(t, p, r),
         old' \subseteq old, p \in earned' \/ r.alpha = One
  PROVE  LedgerIInv'
<1>1. /\ phase = "up" /\ pc[t] = "idle" /\ events < MaxEvents /\ events' = events + 1
      /\ scores' = With(scores, p, r)
      /\ pc' = [pc EXCEPT ![t] = "collect"]
      /\ visited' = [visited EXCEPT ![t] = DOMAIN scores']
      /\ snap' = [snap EXCEPT ![t] = NoScores]
      /\ frozen' = frozen /\ file' = file /\ phase' = phase /\ crashes' = crashes
  BY DEF Record
<1>2. (raced' <=> Overlaps(t)) /\ (risked' <=> risked \/ Overlaps(t))
      /\ raced' \in BOOLEAN /\ risked' \in BOOLEAN
  BY DEF Record, Overlaps, LedgerIInv, LedgerTypes, TypeOK
<1>3. /\ pc \in [Tasks -> {"idle", "collect", "write"}]
      /\ DOMAIN snap = Tasks /\ DOMAIN visited = Tasks
  BY DEF LedgerIInv, LedgerTypes, TypeOK
<1>4. Books'
  <2>1. Book(scores, earned') /\ Book(file.scores, earned')
        /\ \A u \in Tasks : Book(snap[u], earned')
    BY BookKept DEF LedgerIInv, Books
  <2>2. Book(scores', earned') BY <1>1, <2>1, BookWith
  <2>3. \A u \in Tasks : snap'[u] = snap[u] \/ snap'[u] = NoScores BY <1>1, <1>3
  <2> QED BY <1>1, <2>1, <2>2, <2>3, EmptyBook DEF Books
<1>5. LedgerTypes'
  <2>1. Known' \subseteq Peers /\ \A q \in Known' : scores'[q] \in Score
    BY <1>4 DEF Books, Book, Known
  <2>2. frozen' \subseteq Peers /\ old' \subseteq Known'
    BY <1>1 DEF LedgerIInv, LedgerTypes, TypeOK, Known, With
  <2>3. events' \in 0..MaxEvents /\ crashes' \in 0..MaxCrashes
    BY <1>1, LedgerAssumption, SMT DEF LedgerIInv, LedgerTypes, TypeOK
  <2>4. pc' \in [Tasks -> {"idle", "collect", "write"}]
        /\ DOMAIN snap' = Tasks /\ DOMAIN visited' = Tasks
    BY <1>1, <1>3
  <2>5. \A u \in Tasks : visited'[u] \subseteq Peers /\ DOMAIN snap'[u] \subseteq Peers
    <3>1. \A u \in Tasks : visited'[u] = visited[u] \/ visited'[u] = Known'
      BY <1>1, <1>3 DEF Known
    <3>2. \A u \in Tasks : visited[u] \subseteq Peers
      BY DEF LedgerIInv, LedgerTypes, TypeOK
    <3>3. \A u \in Tasks : DOMAIN snap'[u] \subseteq Peers BY <1>4 DEF Books, Book
    <3> QED BY <2>1, <3>1, <3>2, <3>3
  <2>6. /\ file'.kind \in {"absent", "empty", "ledger", "torn"}
        /\ DOMAIN file'.scores \subseteq Peers
        /\ phase' \in {"up", "down", "failed"}
    BY <1>1 DEF LedgerIInv, LedgerTypes, TypeOK
  <2> QED BY <1>2, <2>1, <2>2, <2>3, <2>4, <2>5, <2>6 DEF LedgerTypes, TypeOK
<1>6. \A u \in Tasks \ {t} : pc'[u] = pc[u] BY <1>1, <1>3
<1>7. ~raced' => \A u \in Tasks : Active(u)' => u = t
  BY <1>2, <1>6 DEF Overlaps, Active
<1>8. AtMostOne' BY <1>7 DEF AtMostOne
<1>9. Covers'
  <2>1. Holds(snap[t], visited[t])'
    <3>1. snap'[t] = NoScores /\ visited'[t] = Known' BY <1>1, <1>3 DEF Known
    <3> QED BY <3>1 DEF Holds, NoScores
  <2> QED BY <1>7, <2>1 DEF Covers
<1>10. Writes'
  <2>1. pc'[t] = "collect" BY <1>1, <1>3
  <2>2. ~raced' => \A u \in Tasks : pc'[u] # "write"
    BY <1>7, <2>1 DEF Active
  <2>3. \A u \in Tasks \ {t} : visited'[u] = visited[u] BY <1>1, <1>3
  <2> QED BY <1>6, <2>1, <2>2, <2>3 DEF LedgerIInv, Writes
<1>11. DiskCurrent'
  <2>1. pc'[t] # "idle" BY <1>1, <1>3
  <2> QED BY <2>1 DEF DiskCurrent
<1>12. Readable'
  <2>1. \A u \in Tasks : pc[u] = "write" => pc'[u] = "write" BY <1>1, <1>3
  <2> QED BY <1>1, <1>2, <2>1 DEF LedgerIInv, Readable
<1>13. Idle' BY <1>1 DEF Idle
<1>14. StartsAgain' BY <1>1 DEF StartsAgain
<1> QED
  BY <1>4, <1>5, <1>8, <1>9, <1>10, <1>11, <1>12, <1>13, <1>14 DEF LedgerIInv

-----------------------------------------------------------------------------
(* The steps of a save.                                                    *)

LEMMA SaveTypes ==
  ASSUME LedgerIInv
  PROVE  /\ pc \in [Tasks -> {"idle", "collect", "write"}]
         /\ DOMAIN snap = Tasks /\ DOMAIN visited = Tasks
         /\ \A t \in Tasks : visited[t] \subseteq Peers /\ DOMAIN snap[t] \subseteq Peers
         /\ raced \in BOOLEAN /\ risked \in BOOLEAN
BY DEF LedgerIInv, LedgerTypes, TypeOK

\* What no step of a save changes.
SaveKeeps == UNCHANGED <<scores, frozen, old, phase, events, crashes>>

LEMMA SaveStepTypes ==
  ASSUME LedgerIInv, SaveKeeps, Books',
         pc' \in [Tasks -> {"idle", "collect", "write"}],
         DOMAIN snap' = Tasks, DOMAIN visited' = Tasks,
         \A t \in Tasks : visited'[t] \subseteq visited[t],
         file'.kind \in {"absent", "empty", "ledger", "torn"},
         raced' \in BOOLEAN, risked' \in BOOLEAN
  PROVE  LedgerTypes' /\ Known' = Known
<1>1. /\ scores' = scores /\ frozen' = frozen /\ old' = old /\ phase' = phase
      /\ events' = events /\ crashes' = crashes
  BY DEF SaveKeeps
<1>2. Known' = Known BY <1>1 DEF Known
<1>3. DOMAIN file'.scores \subseteq Peers /\ \A t \in Tasks : DOMAIN snap'[t] \subseteq Peers
  BY DEF Books, Book
<1>4. \A t \in Tasks : visited'[t] \subseteq Peers BY SaveTypes
<1> QED BY <1>1, <1>2, <1>3, <1>4 DEF LedgerIInv, LedgerTypes, TypeOK

LEMMA CollectStep ==
  ASSUME LedgerIInv, earned \subseteq earned',
         NEW t \in Tasks, NEW p \in Peers, Collect(t, p)
  PROVE  LedgerIInv'
<1>1. /\ phase = "up" /\ pc[t] = "collect" /\ p \in Known /\ p \notin DOMAIN snap[t]
      /\ snap' = [snap EXCEPT ![t] = With(snap[t], p, scores[p])]
      /\ visited' = [visited EXCEPT ![t] = visited[t] \ {p}]
      /\ scores' = scores /\ frozen' = frozen /\ old' = old /\ file' = file
      /\ phase' = phase /\ pc' = pc /\ events' = events /\ crashes' = crashes
      /\ raced' = raced /\ risked' = risked
  BY DEF Collect, bounds
<1>2. Known' = Known /\ \A u : Active(u)' <=> Active(u) BY <1>1 DEF Known, Active
<1>3. /\ snap'[t] = With(snap[t], p, scores[p]) /\ visited'[t] = visited[t] \ {p}
      /\ \A u \in Tasks \ {t} : snap'[u] = snap[u] /\ visited'[u] = visited[u]
      /\ DOMAIN snap' = Tasks /\ DOMAIN visited' = Tasks
  BY <1>1, SaveTypes
<1>4. Books'
  <2>1. Book(scores, earned') /\ Book(file.scores, earned')
        /\ \A u \in Tasks : Book(snap[u], earned')
    BY BookKept DEF LedgerIInv, Books
  <2>2. scores[p] \in Score /\ (p \in earned' \/ scores[p].alpha = One)
    BY <1>1, <2>1 DEF Book, Known
  <2>3. Book(snap'[t], earned') BY <1>3, <2>1, <2>2, BookWith
  <2> QED BY <1>1, <1>3, <2>1, <2>3 DEF Books
<1>5. LedgerTypes'
  <2>1. \A u \in Tasks : visited'[u] \subseteq visited[u] BY <1>3
  <2>2. /\ pc' \in [Tasks -> {"idle", "collect", "write"}]
        /\ file'.kind \in {"absent", "empty", "ledger", "torn"}
        /\ raced' \in BOOLEAN /\ risked' \in BOOLEAN
    BY <1>1, SaveTypes DEF LedgerIInv, LedgerTypes, TypeOK
  <2> QED BY <1>1, <1>3, <1>4, <2>1, <2>2, SaveStepTypes DEF SaveKeeps
<1>6. AtMostOne' BY <1>1, <1>2 DEF LedgerIInv, AtMostOne
<1>7. Covers'
  <2>1. ASSUME ~raced, NEW u \in Tasks, Active(u)
        PROVE  Holds(snap[u], visited[u])'
    <3>1. Holds(snap[u], visited[u]) BY <1>1, <2>1 DEF LedgerIInv, Covers
    <3>2. CASE u # t BY <1>1, <1>2, <1>3, <3>1, <3>2 DEF Holds
    <3>3. CASE u = t
      <4>1. DOMAIN snap'[t] = DOMAIN snap[t] \cup {p} BY <1>3 DEF With
      <4>2. ASSUME NEW q \in Known, q \notin visited'[t]
            PROVE  Faded(scores[q], At(snap'[t], q))
        <5>1. CASE q = p
          <6>1. At(snap'[t], q) = scores[p] BY <1>3, <5>1 DEF At, With
          <6>2. scores[p] \in Score BY <1>1 DEF LedgerIInv, Books, Book, Known
          <6> QED BY <5>1, <6>1, <6>2, FadedFromItself
        <5>2. CASE q # p
          <6>1. q \notin visited[t] BY <1>3, <4>2, <5>2
          <6>2. Faded(scores[q], At(snap[t], q)) BY <3>1, <3>3, <4>2, <6>1 DEF Holds
          <6>3. At(snap'[t], q) = At(snap[t], q) BY <1>3, <5>2 DEF At, With
          <6> QED BY <6>2, <6>3
        <5> QED BY <5>1, <5>2
      <4>3. DOMAIN snap'[t] \subseteq Known BY <1>1, <3>1, <3>3, <4>1 DEF Holds
      <4> QED BY <1>1, <1>2, <3>3, <4>2, <4>3 DEF Holds
    <3> QED BY <3>2, <3>3
  <2> QED BY <1>1, <1>2, <2>1 DEF Covers
<1>8. Writes' BY <1>1, <1>3 DEF LedgerIInv, Writes
<1>9. DiskCurrent' BY <1>1 DEF DiskCurrent
<1>10. Readable' BY <1>1 DEF LedgerIInv, Readable
<1>11. Idle' BY <1>1 DEF Idle
<1>12. StartsAgain' BY <1>1 DEF LedgerIInv, StartsAgain
<1> QED
  BY <1>4, <1>5, <1>6, <1>7, <1>8, <1>9, <1>10, <1>11, <1>12 DEF LedgerIInv

LEMMA TruncateStep ==
  ASSUME LedgerIInv, earned \subseteq earned', NEW t \in Tasks, Truncate(t)
  PROVE  LedgerIInv'
<1>1. /\ phase = "up" /\ pc[t] = "collect" /\ visited[t] = {}
      /\ pc' = [pc EXCEPT ![t] = "write"]
      /\ file' = [kind |-> "empty", scores |-> NoScores]
      /\ snap' = snap /\ visited' = visited
      /\ scores' = scores /\ frozen' = frozen /\ old' = old
      /\ phase' = phase /\ events' = events /\ crashes' = crashes
      /\ raced' = raced /\ risked' = risked
  BY DEF Truncate, bounds
<1>2. /\ pc'[t] = "write" /\ \A u \in Tasks \ {t} : pc'[u] = pc[u]
      /\ pc' \in [Tasks -> {"idle", "collect", "write"}]
  BY <1>1, SaveTypes
<1>3. /\ Known' = Known /\ \A u \in Tasks : Active(u)' <=> Active(u)
      /\ file'.kind = "empty" /\ file'.scores = NoScores
  BY <1>1, <1>2 DEF Known, Active
<1>4. Books' BY <1>1, <1>3, BookKept, EmptyBook DEF LedgerIInv, Books
<1>5. LedgerTypes'
  <2>1. \A u \in Tasks : visited'[u] \subseteq visited[u] BY <1>1
  <2>2. raced' \in BOOLEAN /\ risked' \in BOOLEAN
        /\ DOMAIN snap' = Tasks /\ DOMAIN visited' = Tasks
    BY <1>1, SaveTypes
  <2> QED BY <1>1, <1>2, <1>3, <1>4, <2>1, <2>2, SaveStepTypes DEF SaveKeeps
<1>6. AtMostOne' BY <1>1, <1>3 DEF LedgerIInv, AtMostOne
<1>7. Covers' BY <1>1, <1>3 DEF LedgerIInv, Covers, Holds
<1>8. Writes' BY <1>1, <1>2, <1>3 DEF LedgerIInv, Writes
<1>9. DiskCurrent' BY <1>2 DEF DiskCurrent
<1>10. Readable' BY <1>1, <1>2 DEF LedgerIInv, Readable
<1>11. Idle' BY <1>1 DEF Idle
<1>12. StartsAgain' BY <1>1 DEF LedgerIInv, StartsAgain
<1> QED
  BY <1>4, <1>5, <1>6, <1>7, <1>8, <1>9, <1>10, <1>11, <1>12 DEF LedgerIInv

LEMMA WriteStep ==
  ASSUME LedgerIInv, earned \subseteq earned', NEW t \in Tasks, Write(t)
  PROVE  LedgerIInv'
<1>1. /\ phase = "up" /\ pc[t] = "write" /\ file' \in Written(t)
      /\ pc' = [pc EXCEPT ![t] = "idle"]
      /\ snap' = [snap EXCEPT ![t] = NoScores] /\ visited' = visited
      /\ scores' = scores /\ frozen' = frozen /\ old' = old
      /\ phase' = phase /\ events' = events /\ crashes' = crashes
      /\ raced' = raced /\ risked' = risked
  BY DEF Write, SaveEnds, bounds
<1>2. /\ pc'[t] = "idle" /\ \A u \in Tasks \ {t} : pc'[u] = pc[u] /\ snap'[u] = snap[u]
      /\ snap'[t] = NoScores /\ DOMAIN snap' = Tasks
      /\ pc' \in [Tasks -> {"idle", "collect", "write"}]
  BY <1>1, SaveTypes
<1>3. /\ file'.kind \in {"ledger", "torn"} /\ file'.scores = snap[t]
      /\ file.kind = "empty" => file'.kind = "ledger"
  BY <1>1 DEF Written
<1>4. Known' = Known /\ \A u \in Tasks : Active(u)' <=> Active(u) /\ u # t
  BY <1>1, <1>2 DEF Known, Active
<1>5. Books'
  <2>1. Book(scores, earned') /\ \A u \in Tasks : Book(snap[u], earned')
    BY BookKept DEF LedgerIInv, Books
  <2>2. \A u \in Tasks : Book(snap'[u], earned') BY <1>2, <2>1, EmptyBook
  <2> QED BY <1>1, <1>3, <2>1, <2>2 DEF Books
<1>6. LedgerTypes'
  <2>1. \A u \in Tasks : visited'[u] \subseteq visited[u] BY <1>1
  <2>2. raced' \in BOOLEAN /\ risked' \in BOOLEAN /\ DOMAIN visited' = Tasks
    BY <1>1, SaveTypes
  <2> QED BY <1>1, <1>2, <1>3, <1>5, <2>1, <2>2, SaveStepTypes DEF SaveKeeps
<1>7. AtMostOne' BY <1>1, <1>4 DEF LedgerIInv, AtMostOne
<1>8. Active(t) BY <1>1 DEF Active
<1>9. ~raced => /\ \A u \in Tasks : ~Active(u)'
                /\ file'.kind = "ledger" /\ Holds(snap[t], {})
  <2>1. ASSUME ~raced
        PROVE  /\ \A u \in Tasks : ~Active(u)'
               /\ file'.kind = "ledger" /\ Holds(snap[t], {})
    <3>1. \A u \in Tasks : Active(u) => u = t
      BY <1>8, <2>1 DEF LedgerIInv, AtMostOne
    <3>2. visited[t] = {} /\ file.kind = "empty" BY <1>1, <2>1 DEF LedgerIInv, Writes
    <3>3. Holds(snap[t], visited[t]) BY <1>1, <1>8, <2>1 DEF LedgerIInv, Covers
    <3> QED BY <1>3, <1>4, <3>1, <3>2, <3>3
  <2> QED BY <2>1
<1>10. Covers' BY <1>1, <1>9 DEF Covers
<1>11. Writes'
  <2>1. ~raced => \A u \in Tasks : pc'[u] # "write" BY <1>9 DEF Active
  <2>2. \A u \in Tasks : pc'[u] = "write" => visited'[u] = {}
    BY <1>1, <1>2 DEF LedgerIInv, Writes
  <2> QED BY <1>1, <2>1, <2>2 DEF Writes
<1>12. DiskCurrent'
  <2>1. ~raced => file'.kind \in {"absent", "ledger"} /\ Holds(file.scores, {})'
    BY <1>1, <1>3, <1>4, <1>9 DEF Holds
  <2> QED BY <1>1, <2>1 DEF DiskCurrent, Holds, Saved, At
<1>13. Readable' BY <1>1, <1>9 DEF LedgerIInv, Readable
<1>14. Idle' BY <1>1 DEF Idle
<1>15. StartsAgain' BY <1>1 DEF LedgerIInv, StartsAgain
<1> QED
  BY <1>5, <1>6, <1>7, <1>10, <1>11, <1>12, <1>13, <1>14, <1>15 DEF LedgerIInv

LEMMA SaveFailsStep ==
  ASSUME LedgerIInv, earned \subseteq earned', NEW t \in Tasks, SaveFails(t)
  PROVE  LedgerIInv'
<1>1. /\ phase = "up" /\ raced' = TRUE /\ risked' = TRUE
      /\ pc' = [pc EXCEPT ![t] = "idle"]
      /\ snap' = [snap EXCEPT ![t] = NoScores] /\ visited' = visited
      /\ scores' = scores /\ frozen' = frozen /\ old' = old /\ file' = file
      /\ phase' = phase /\ events' = events /\ crashes' = crashes
  BY DEF SaveFails, SaveEnds, bounds
<1>2. /\ pc'[t] = "idle" /\ \A u \in Tasks \ {t} : pc'[u] = pc[u] /\ snap'[u] = snap[u]
      /\ snap'[t] = NoScores /\ DOMAIN snap' = Tasks
      /\ pc' \in [Tasks -> {"idle", "collect", "write"}]
  BY <1>1, SaveTypes
<1>3. Books'
  <2>1. /\ Book(scores, earned') /\ Book(file.scores, earned')
        /\ \A u \in Tasks : Book(snap[u], earned')
    BY BookKept DEF LedgerIInv, Books
  <2>2. \A u \in Tasks : Book(snap'[u], earned') BY <1>2, <2>1, EmptyBook
  <2> QED BY <1>1, <2>1, <2>2 DEF Books
<1>4. LedgerTypes'
  <2>1. \A u \in Tasks : visited'[u] \subseteq visited[u] BY <1>1
  <2>2. raced' \in BOOLEAN /\ risked' \in BOOLEAN /\ DOMAIN visited' = Tasks
    BY <1>1, SaveTypes
  <2>3. file'.kind \in {"absent", "empty", "ledger", "torn"}
    BY <1>1 DEF LedgerIInv, LedgerTypes, TypeOK
  <2> QED BY <1>1, <1>2, <1>3, <2>1, <2>2, <2>3, SaveStepTypes DEF SaveKeeps
<1>5. AtMostOne' /\ Covers' /\ DiskCurrent' /\ Readable'
  BY <1>1 DEF AtMostOne, Covers, DiskCurrent, Readable
<1>6. Writes' BY <1>1, <1>2 DEF LedgerIInv, Writes
<1>7. Idle' /\ StartsAgain' BY <1>1 DEF Idle, StartsAgain
<1> QED BY <1>3, <1>4, <1>5, <1>6, <1>7 DEF LedgerIInv

LEMMA SaveStep ==
  ASSUME LedgerIInv, earned \subseteq earned', NEW t \in Tasks, Save(t)
  PROVE  LedgerIInv'
BY CollectStep, TruncateStep, WriteStep, SaveFailsStep DEF Save

-----------------------------------------------------------------------------
(* Crash and start.                                                        *)

LEMMA CrashStep ==
  ASSUME LedgerIInv, earned \subseteq earned', Crash
  PROVE  LedgerIInv'
<1>1. /\ phase = "up" /\ phase' = "down" /\ crashes < MaxCrashes /\ crashes' = crashes + 1
      /\ scores' = NoScores /\ old' = {}
      /\ pc' = [t \in Tasks |-> "idle"]
      /\ visited' = [t \in Tasks |-> {}] /\ snap' = [t \in Tasks |-> NoScores]
      /\ frozen' = frozen /\ file' = file /\ events' = events /\ raced' = raced
  BY DEF Crash
<1>2. /\ risked' \in BOOLEAN
      /\ ~risked' => ~risked /\ \A t \in Tasks : pc[t] # "write"
  BY SaveTypes DEF Crash
<1>3. Books'
  <2>1. Book(file.scores, earned') BY BookKept DEF LedgerIInv, Books
  <2> QED BY <1>1, <2>1, EmptyBook DEF Books
<1>4. LedgerTypes'
  <2>1. Known' = {} BY <1>1 DEF Known, NoScores
  <2>2. events' \in 0..MaxEvents /\ crashes' \in 0..MaxCrashes
    BY <1>1, LedgerAssumption, SMT DEF LedgerIInv, LedgerTypes, TypeOK
  <2>3. /\ file'.kind \in {"absent", "empty", "ledger", "torn"}
        /\ DOMAIN file'.scores \subseteq Peers /\ frozen' \subseteq Peers
        /\ raced' \in BOOLEAN
    BY <1>1 DEF LedgerIInv, LedgerTypes, TypeOK
  <2>4. \A t \in Tasks : visited'[t] \subseteq Peers /\ DOMAIN snap'[t] \subseteq Peers
    BY <1>1 DEF NoScores
  <2>5. /\ pc' \in [Tasks -> {"idle", "collect", "write"}]
        /\ DOMAIN snap' = Tasks /\ DOMAIN visited' = Tasks
    BY <1>1
  <2> QED BY <1>1, <1>2, <2>1, <2>2, <2>3, <2>4, <2>5 DEF LedgerTypes, TypeOK
<1>5. \A t \in Tasks : pc'[t] = "idle" /\ ~Active(t)' BY <1>1 DEF Active
<1>6. AtMostOne' /\ Covers' /\ DiskCurrent'
  BY <1>1, <1>5 DEF AtMostOne, Covers, DiskCurrent
<1>7. Writes' /\ Idle' /\ StartsAgain'
  BY <1>1, <1>5 DEF Writes, Idle, StartsAgain
<1>8. Readable' BY <1>1, <1>2 DEF LedgerIInv, Readable
<1> QED BY <1>3, <1>4, <1>6, <1>7, <1>8 DEF LedgerIInv

LEMMA StartStep ==
  ASSUME LedgerIInv, earned \subseteq earned', Start
  PROVE  LedgerIInv'
<1>1. /\ phase = "down" /\ old' = old /\ file' = file
      /\ pc' = pc /\ visited' = visited /\ snap' = snap
      /\ events' = events /\ crashes' = crashes /\ raced' = raced /\ risked' = risked
  BY DEF Start, saving, bounds
<1>2. old = {} /\ \A t \in Tasks : ~Active(t) BY <1>1 DEF LedgerIInv, Idle
<1>3. \A t \in Tasks : pc'[t] = "idle" /\ ~Active(t)' BY <1>1, <1>2 DEF Active
<1>4. \/ /\ file.kind \in {"absent", "ledger"} /\ phase' = "up"
         /\ scores' = file.scores /\ frozen' \subseteq frozen
      \/ /\ file.kind \notin {"absent", "ledger"} /\ phase' = "failed"
         /\ scores' = scores /\ frozen' = frozen
  BY DEF Start
<1>5. Books'
  <2>1. /\ Book(scores, earned') /\ Book(file.scores, earned')
        /\ \A t \in Tasks : Book(snap[t], earned')
    BY BookKept DEF LedgerIInv, Books
  <2> QED BY <1>1, <1>4, <2>1 DEF Books
<1>6. LedgerTypes'
  <2>1. Known' \subseteq Peers /\ \A p \in Known' : scores'[p] \in Score
    BY <1>5 DEF Books, Book, Known
  <2>2. frozen' \subseteq Peers /\ old' \subseteq Known' /\ phase' \in {"up", "down", "failed"}
    BY <1>1, <1>2, <1>4 DEF LedgerIInv, LedgerTypes, TypeOK
  <2> QED BY <1>1, <2>1, <2>2 DEF LedgerIInv, LedgerTypes, TypeOK
<1>7. AtMostOne' /\ Covers' BY <1>3 DEF AtMostOne, Covers
<1>8. Writes' /\ Idle' BY <1>1, <1>2, <1>3 DEF Writes, Idle
<1>9. DiskCurrent'
  <2>1. ASSUME phase' = "up"
        PROVE  /\ file'.kind \in {"absent", "ledger"}
               /\ DOMAIN file'.scores \subseteq Known'
               /\ \A p \in Known' : Faded(scores'[p], Saved(p)')
    <3>1. file.kind \in {"absent", "ledger"} /\ scores' = file.scores BY <1>4, <2>1
    <3>2. \A p \in Known' : Saved(p)' = scores'[p] BY <1>1, <3>1 DEF Saved, Known
    <3>3. \A p \in Known' : scores'[p] \in Score BY <1>5 DEF Books, Book, Known
    <3> QED BY <1>1, <3>1, <3>2, <3>3, FadedFromItself DEF Known
  <2> QED BY <2>1 DEF DiskCurrent
<1>10. Readable' BY <1>1 DEF LedgerIInv, Readable
<1>11. StartsAgain'
  <2>1. ~risked => file.kind \in {"absent", "ledger"}
    BY <1>2 DEF LedgerIInv, Readable, Active
  <2> QED BY <1>1, <1>4, <2>1 DEF StartsAgain
<1> QED BY <1>5, <1>6, <1>7, <1>8, <1>9, <1>10, <1>11 DEF LedgerIInv

-----------------------------------------------------------------------------
(* The calls of the manager.                                               *)

\* Whoever is praised in a step has earned something after it.
Praise == earned \subseteq earned' /\ \A p \in Peers : Praised(p) => p \in earned'

LEMMA Reports ==
  ASSUME LedgerIInv, Praise, NEW t \in Tasks, NEW p \in Peers,
         \/ \E b \in BOOLEAN : apply_canary_result(t, p, b)
         \/ \E b \in BOOLEAN : update_score(t, p, b)
         \/ apply_auth_failure(t, p)
  PROVE  LedgerIInv'
<1>1. Book(scores, earned) /\ earned \subseteq earned' BY DEF LedgerIInv, Books, Praise
<1>2. ASSUME NEW b \in BOOLEAN, apply_canary_result(t, p, b)
      PROVE  LedgerIInv'
  <2>1. PICK r \in Decayed(p) : Record(t, p, IF b THEN Succeeds(r) ELSE Fails(r))
    BY <1>2 DEF apply_canary_result
  <2>2. old' \subseteq old BY <1>2 DEF apply_canary_result
  <2>3. r \in Score /\ (p \in earned \/ r.alpha = One) BY <1>1, DecayedFacts
  <2>4. CASE b
    <3>1. Praised(p) BY <1>2, <2>4 DEF Praised
    <3> QED BY <1>1, <2>1, <2>2, <2>3, <2>4, <3>1, Reported, RecordStep DEF Praise
  <2>5. CASE ~b
    <3>1. Fails(r) \in Score /\ (p \in earned' \/ Fails(r).alpha = One)
      BY <1>1, <2>3, Reported
    <3> QED BY <1>1, <2>1, <2>2, <2>5, <3>1, RecordStep
  <2> QED BY <2>4, <2>5
<1>3. ASSUME NEW b \in BOOLEAN, update_score(t, p, b)
      PROVE  LedgerIInv'
  <2>1. PICK r \in Decayed(p) : Record(t, p, Updated(r, b))
    BY <1>3 DEF update_score
  <2>2. old' \subseteq old BY <1>3 DEF update_score
  <2>3. r \in Score /\ (p \in earned \/ r.alpha = One) BY <1>1, DecayedFacts
  <2>4. Updated(r, b) \in Score BY <2>3, Reported
  <2>5. CASE b
    <3>1. Praised(p) BY <1>3, <2>5 DEF Praised
    <3> QED BY <1>1, <2>1, <2>2, <2>4, <3>1, RecordStep DEF Praise
  <2>6. CASE ~b
    <3>1. p \in earned' \/ Updated(r, b).alpha = One BY <1>1, <2>3, <2>6, Reported
    <3> QED BY <1>1, <2>1, <2>2, <2>4, <3>1, RecordStep
  <2> QED BY <2>5, <2>6
<1>4. ASSUME apply_auth_failure(t, p)
      PROVE  LedgerIInv'
  <2>1. Record(t, p, AuthFailed(Entry(p))) /\ old' \subseteq old
    BY <1>4 DEF apply_auth_failure
  <2>2. Entry(p) \in Score /\ (p \in earned \/ Entry(p).alpha = One)
    BY <1>1, AtScore, EntryIsAt
  <2>3. AuthFailed(Entry(p)) \in Score /\ (p \in earned' \/ AuthFailed(Entry(p)).alpha = One)
    BY <1>1, <2>2, Reported
  <2> QED BY <1>1, <2>1, <2>3, RecordStep
<1> QED BY <1>2, <1>3, <1>4

\* The readers, the freeze and time.
LEMMA Readers ==
  ASSUME LedgerIInv, Praise, NEW p \in Peers,
         get_all_scores(p) \/ get_score(p) \/ freeze_peer(p) \/ Thaw(p) \/ AnHourPasses
  PROVE  LedgerIInv'
<1>1. /\ Book(scores, earned) /\ earned \subseteq earned'
      /\ old \subseteq Known /\ frozen \subseteq Peers
      /\ phase # "up" => old = {}
  BY DEF LedgerIInv, Books, Praise, LedgerTypes, TypeOK, Idle
<1>2. Entry(p) \in Score /\ (p \in earned' \/ Entry(p).alpha = One)
  BY <1>1, AtScore, EntryIsAt
<1>3. events \in 0..MaxEvents /\ (events < MaxEvents => events + 1 \in 0..MaxEvents)
  BY LedgerAssumption, SMT DEF LedgerIInv, LedgerTypes, TypeOK
<1>4. CASE get_all_scores(p)
  <2>1. PICK r \in Decayed(p) : scores' = With(scores, p, r)
    BY <1>4 DEF get_all_scores, DecaysEntry
  <2>2. /\ r \in Score /\ (p \in earned \/ r.alpha = One)
        /\ \A f \in Score : Faded(Entry(p), f) => Faded(r, f)
    BY <1>1, DecayedFacts
  <2>3. Soft(p, r)
    <3>1. Known' = Known \cup {p} BY <2>1 DEF Known, With
    <3> QED BY <1>1, <1>3, <1>4, <2>1, <3>1
        DEF Soft, Quiet, get_all_scores, DecaysEntry, bounds
  <2> QED BY <1>1, <2>2, <2>3, SoftStep
<1>5. CASE get_score(p)
  <2>1. scores' = With(scores, p, Fresh) /\ p \notin Known BY <1>5 DEF get_score
  <2>2. Known' = Known \cup {p} /\ Entry(p) = Fresh BY <2>1 DEF Known, With, Entry
  <2>3. Soft(p, Fresh)
    BY <1>1, <1>3, <1>5, <2>1, <2>2 DEF Soft, Quiet, get_score
  <2> QED BY <1>1, <2>2, <2>3, FreshIsAScore, SoftStep
<1>6. CASE freeze_peer(p)
  <2>1. scores' = With(scores, p, Entry(p)) BY <1>6 DEF freeze_peer
  <2>2. Known' = Known \cup {p} BY <2>1 DEF Known, With
  <2>3. Soft(p, Entry(p))
    BY <1>1, <1>3, <1>6, <2>1, <2>2 DEF Soft, Quiet, freeze_peer
  <2> QED BY <1>1, <1>2, <2>3, SoftStep
<1>7. CASE Thaw(p)
  <2>1. Still BY <1>1, <1>7 DEF Still, Quiet, Thaw, bounds
  <2> QED BY <1>1, <2>1, StillStep
<1>8. CASE AnHourPasses
  <2>1. Still BY <1>1, <1>8 DEF Still, Quiet, AnHourPasses, bounds, Known
  <2> QED BY <1>1, <2>1, StillStep
<1> QED BY <1>4, <1>5, <1>6, <1>7, <1>8

-----------------------------------------------------------------------------
(* Every step, seen from the ledger.                                       *)

ReceiptsTyped == receipts \subseteq [peer : Peers, good : BOOLEAN]

LEMMA EarnsPraises == Earns => Praise
BY DEF Earns, Praise

LEMMA NothingHappens ==
  ASSUME LedgerIInv, UNCHANGED ledgerVars, earned \subseteq earned'
  PROVE  LedgerIInv'
<1>1. Still
  BY DEF ledgerVars, vars, saving, bounds, Still, Quiet, LedgerIInv, LedgerTypes, TypeOK, Idle
<1> QED BY <1>1, StillStep

LEMMA LedgerNext ==
  ASSUME LedgerIInv, ReceiptsTyped, MeshNext
  PROVE  LedgerIInv'
<1>1. Praise /\ earned \subseteq earned'
  BY EarnsPraises DEF MeshNext, Praise
<1>2. ASSUME NEW p \in Peers, Asks(p)
      PROVE  LedgerIInv'
  BY <1>1, <1>2, NothingHappens, Readers DEF Asks
<1>3. CASE LedgerStep
  <2>1. ASSUME NEW t \in Tasks, Save(t)
        PROVE  LedgerIInv'
    BY <1>1, <2>1, SaveStep
  <2>2. ASSUME NEW t \in Tasks, NEW p \in Peers, Call(t, p)
        PROVE  LedgerIInv'
    BY <1>1, <2>2, Reports DEF Call
  <2>3. ASSUME NEW p \in Peers, get_all_scores(p) \/ Thaw(p) \/ freeze_peer(p)
        PROVE  LedgerIInv'
    BY <1>1, <2>3, Readers
  <2>4. CASE AnHourPasses
    <3>1. CASE Peers = {}
      <4>1. Known = {} BY <3>1 DEF LedgerIInv, LedgerTypes, TypeOK
      <4>2. old = {} BY <4>1 DEF LedgerIInv, LedgerTypes, TypeOK
      <4> QED BY <2>4, <4>1, <4>2 DEF AnHourPasses
    <3>2. CASE Peers # {} BY <1>1, <2>4, <3>2, Readers
    <3> QED BY <3>1, <3>2
  <2>5. CASE Start BY <1>1, <2>5, StartStep
  <2> QED BY <1>3, <2>1, <2>2, <2>3, <2>4, <2>5 DEF LedgerStep
<1>4. CASE CrashAll BY <1>1, <1>4, CrashStep DEF CrashAll
<1>5. ASSUME NEW t \in Tasks \ {Auditor}, Payout(t)
      PROVE  LedgerIInv'
  <2>1. PICK r \in receipts : Pays(t, r) BY <1>5 DEF Payout
  <2>2. r.peer \in Peers BY DEF ReceiptsTyped
  <2>3. CASE r.good
    <3>1. update_score(t, r.peer, TRUE) BY <2>1, <2>3 DEF Pays
    <3> QED BY <1>1, <2>2, <3>1, Reports
  <2>4. CASE ~r.good BY <1>1, <2>1, <2>4, NothingHappens DEF Pays
  <2> QED BY <2>3, <2>4
<1>6. ASSUME NEW p \in Peers, handle_kill_signal(p)
      PROVE  LedgerIInv'
  BY <1>1, <1>6, NothingHappens DEF handle_kill_signal
<1>7. ASSUME NEW p \in Peers, attempt_insert_node(p) \/ select_hop(p)
      PROVE  LedgerIInv'
  BY <1>2, <1>7 DEF attempt_insert_node, select_hop
<1> QED BY <1>3, <1>4, <1>5, <1>6, <1>7 DEF MeshNext

-----------------------------------------------------------------------------
(* Every step, seen from the table.                                        *)

\* Nothing goes but in a crash, and only a crash and a start change the phase.
LEMMA KnownStay ==
  ASSUME NEW t \in Tasks, NEW p \in Peers,
         \/ Save(t) \/ Call(t, p) \/ update_score(t, p, TRUE)
         \/ get_all_scores(p) \/ get_score(p) \/ freeze_peer(p) \/ Thaw(p) \/ AnHourPasses
         \/ UNCHANGED ledgerVars
  PROVE  Known \subseteq Known' /\ phase' = phase
<1>1. ASSUME NEW q, NEW r, scores' = With(scores, q, r)
      PROVE  Known \subseteq Known'
  BY <1>1 DEF Known, With
<1>2. ASSUME scores' = scores PROVE Known \subseteq Known'
  BY <1>2 DEF Known
<1>3. CASE Save(t)
  BY <1>2, <1>3 DEF Save, Collect, Truncate, Write, SaveFails
<1>4. CASE Call(t, p) \/ update_score(t, p, TRUE)
  BY <1>1, <1>4 DEF Call, apply_canary_result, update_score, apply_auth_failure, Record
<1>5. CASE get_all_scores(p) \/ get_score(p) \/ freeze_peer(p)
  BY <1>1, <1>5 DEF get_all_scores, DecaysEntry, get_score, freeze_peer
<1>6. CASE Thaw(p) \/ AnHourPasses \/ UNCHANGED ledgerVars
  BY <1>2, <1>6 DEF Thaw, AnHourPasses, ledgerVars, vars
<1> QED BY <1>3, <1>4, <1>5, <1>6

LEMMA TableStays ==
  ASSUME TableIInv, bucket' = bucket, receipts' \subseteq [peer : Peers, good : BOOLEAN],
         earned \subseteq earned', Known \subseteq Known', phase' = phase
  PROVE  TableIInv'
BY DEF TableIInv, Admitted

LEMMA EmptyTable ==
  ASSUME bucket' = {}, receipts' \subseteq [peer : Peers, good : BOOLEAN]
  PROVE  TableIInv'
<1>1. Cardinality(bucket') = 0 /\ IsFiniteSet(bucket') BY FS_EmptySet
<1>2. 0 + Others <= BucketSize BY MeshAssumption, SMT
<1> QED BY <1>1, <1>2 DEF TableIInv, Admitted

\* A peer that passes the gate has been praised: a fresh entry, and what the decay leaves
\* of it, stays below.
LEMMA GateAsksForPraise ==
  ASSUME NEW r \in Score, Admits(r)
  PROVE  r.alpha # One
<1>1. r.alpha \in Evidence /\ r.beta \in Evidence BY DEF Score
<1> QED BY <1>1, SMT DEF Admits, Meets, Evidence, One, Half

LEMMA InsertStep ==
  ASSUME LedgerIInv, TableIInv, earned \subseteq earned', NEW p \in Peers,
         attempt_insert_node(p)
  PROVE  TableIInv'
<1>1. PICK r \in Decayed(p) : bucket' = IF Admits(r) /\ ~Full THEN bucket \cup {p} ELSE bucket
  BY DEF attempt_insert_node
<1>2. Asks(p) /\ receipts' = receipts BY DEF attempt_insert_node
<1>3. phase = "up" /\ phase' = phase /\ Known' = Known \cup {p}
  <2>1. CASE p \in Known BY <1>2, <2>1 DEF Asks, ledgerVars, vars, Known
  <2>2. CASE p \notin Known BY <1>2, <2>2 DEF Asks, get_score, Known, With
  <2> QED BY <2>1, <2>2
<1>4. receipts' \subseteq [peer : Peers, good : BOOLEAN] BY <1>2 DEF TableIInv
<1>5. CASE Admits(r) /\ ~Full
  <2>1. bucket' = bucket \cup {p} BY <1>1, <1>5
  <2>2. p \in earned
    <3>1. Book(scores, earned) BY DEF LedgerIInv, Books
    <3>2. r \in Score /\ (p \in earned \/ r.alpha = One) BY <3>1, DecayedFacts
    <3> QED BY <1>5, <3>2, GateAsksForPraise
  <2>3. bucket' \subseteq Known' /\ bucket' \subseteq earned'
    BY <1>3, <2>1, <2>2 DEF TableIInv, Admitted
  <2>4. /\ IsFiniteSet(bucket') /\ Cardinality(bucket) \in Nat
        /\ Cardinality(bucket') \in {Cardinality(bucket), Cardinality(bucket) + 1}
    BY <2>1, FS_AddElement, FS_CardinalityType DEF TableIInv
  <2>5. Cardinality(bucket') + Others <= BucketSize
    <3>1. Cardinality(bucket) + Others < BucketSize
      BY <1>5, <2>4, MeshAssumption, SMT DEF Full
    <3> QED BY <2>4, <3>1, MeshAssumption, SMT
  <2> QED BY <1>3, <1>4, <2>3, <2>4, <2>5 DEF TableIInv, Admitted
<1>6. CASE ~(Admits(r) /\ ~Full)
  <2>1. bucket' = bucket BY <1>1, <1>6
  <2> QED BY <1>3, <1>4, <2>1, TableStays
<1> QED BY <1>5, <1>6

LEMMA TableNext ==
  ASSUME LedgerIInv, TableIInv, MeshNext
  PROVE  TableIInv'
<1>1. earned \subseteq earned' BY EarnsPraises DEF MeshNext, Praise
<1>2. ReceiptsTyped BY DEF ReceiptsTyped, TableIInv
<1>3. CASE LedgerStep
  <2>1. bucket' = bucket /\ receipts' = receipts BY <1>3 DEF LedgerStep, Alone
  <2>2. ASSUME Known \subseteq Known', phase' = phase
        PROVE  TableIInv'
    BY <1>1, <1>2, <2>1, <2>2, TableStays DEF ReceiptsTyped
  <2>3. CASE Start
    <3>1. bucket' = {} BY <2>1, <2>3 DEF Start, TableIInv
    <3> QED BY <1>2, <2>1, <3>1, EmptyTable DEF ReceiptsTyped
  <2>4. CASE AnHourPasses
    BY <2>2, <2>4 DEF AnHourPasses, Known
  <2>5. ASSUME NEW t \in Tasks, Save(t)
        PROVE  Known \subseteq Known' /\ phase' = phase
    BY <2>5 DEF Save, Collect, Truncate, Write, SaveFails, Known
  <2>6. ASSUME NEW t \in Tasks, NEW p \in Peers, Call(t, p)
        PROVE  Known \subseteq Known' /\ phase' = phase
    BY <2>6, KnownStay
  <2>7. ASSUME NEW p \in Peers, get_all_scores(p) \/ Thaw(p) \/ freeze_peer(p)
        PROVE  Known \subseteq Known' /\ phase' = phase
    BY <2>7, KnownStay, LedgerAssumption
  <2> QED BY <1>3, <2>2, <2>3, <2>4, <2>5, <2>6, <2>7 DEF LedgerStep
<1>4. CASE CrashAll
  <2>1. receipts' \subseteq [peer : Peers, good : BOOLEAN] BY <1>4 DEF CrashAll
  <2> QED BY <1>4, <2>1, EmptyTable DEF CrashAll
<1>5. ASSUME NEW t \in Tasks \ {Auditor}, Payout(t)
      PROVE  TableIInv'
  <2>1. PICK r \in receipts : Pays(t, r) /\ receipts' = receipts \ {r} BY <1>5 DEF Payout
  <2>2. bucket' = bucket /\ receipts' \subseteq [peer : Peers, good : BOOLEAN]
    BY <1>2, <1>5, <2>1 DEF Payout, ReceiptsTyped
  <2>3. r.peer \in Peers BY <1>2 DEF ReceiptsTyped
  <2>4. Known \subseteq Known' /\ phase' = phase BY <2>1, <2>3, KnownStay DEF Pays
  <2> QED BY <1>1, <2>2, <2>4, TableStays
<1>6. ASSUME NEW p \in Peers, handle_kill_signal(p)
      PROVE  TableIInv'
  <2>1. bucket' = bucket /\ UNCHANGED ledgerVars BY <1>6 DEF handle_kill_signal
  <2>2. receipts' \subseteq [peer : Peers, good : BOOLEAN]
    BY <1>2, <1>6 DEF handle_kill_signal, ReceiptsTyped
  <2>3. Known \subseteq Known' /\ phase' = phase BY <2>1, KnownStay, LedgerAssumption
  <2> QED BY <1>1, <2>1, <2>2, <2>3, TableStays
<1>7. ASSUME NEW p \in Peers, attempt_insert_node(p)
      PROVE  TableIInv'
  BY <1>1, <1>7, InsertStep
<1>8. ASSUME NEW p \in Peers, select_hop(p)
      PROVE  TableIInv'
  <2>1. bucket' = bucket /\ receipts' = receipts /\ get_score(p)
    BY <1>8 DEF select_hop, Asks
  <2>2. Known \subseteq Known' /\ phase' = phase BY <2>1, KnownStay, LedgerAssumption
  <2> QED BY <1>1, <1>2, <2>1, <2>2, TableStays DEF ReceiptsTyped
<1> QED BY <1>3, <1>4, <1>5, <1>6, <1>7, <1>8 DEF MeshNext

-----------------------------------------------------------------------------
(* The invariant.                                                          *)

LEMMA StartsSound ==
  ASSUME MeshInit
  PROVE  IInv
<1> DEFINE trusted == [kind |-> "ledger", scores |-> [p \in Peers |-> Trusted]]
<1>1. /\ receipts = {} /\ bucket = {}
      /\ \/ StartsFrom(NoFile) /\ earned = {}
         \/ StartsFrom(trusted) /\ earned = Peers
  BY DEF MeshInit
<1>2. /\ scores = file.scores /\ frozen = {} /\ old = {} /\ phase = "up"
      /\ pc = [t \in Tasks |-> "idle"] /\ visited = [t \in Tasks |-> {}]
      /\ snap = [t \in Tasks |-> NoScores]
      /\ events = 0 /\ crashes = 0 /\ raced = FALSE /\ risked = FALSE
  BY <1>1 DEF StartsFrom
<1>3. file.kind \in {"absent", "ledger"} /\ Book(file.scores, earned)
  <2>1. CASE StartsFrom(NoFile) BY <2>1, EmptyBook DEF StartsFrom, NoFile
  <2>2. CASE StartsFrom(trusted) /\ earned = Peers
    <3>1. file.kind = "ledger" /\ file.scores = [p \in Peers |-> Trusted]
      BY <2>2 DEF StartsFrom
    <3>2. Trusted \in Score
      <4>1. 9 * One \in Evidence /\ One \in Evidence /\ 0 \in 0..5
        BY SMT DEF Evidence, One, Half
      <4> QED BY <4>1 DEF Trusted, Score
    <3> QED BY <2>2, <3>1, <3>2 DEF Book
  <2> QED BY <1>1, <2>1, <2>2
<1>4. Books BY <1>2, <1>3, EmptyBook DEF Books
<1>5. LedgerTypes
  <2>1. Known \subseteq Peers /\ \A p \in Known : scores[p] \in Score
    BY <1>4 DEF Books, Book, Known
  <2>2. events \in 0..MaxEvents /\ crashes \in 0..MaxCrashes
    BY <1>2, LedgerAssumption, SMT
  <2>3. pc \in [Tasks -> {"idle", "collect", "write"}]
        /\ DOMAIN snap = Tasks /\ DOMAIN visited = Tasks
    BY <1>2
  <2>4. \A t \in Tasks : visited[t] \subseteq Peers /\ DOMAIN snap[t] \subseteq Peers
    BY <1>2 DEF NoScores
  <2>5. DOMAIN file.scores \subseteq Peers BY <1>3 DEF Book
  <2> QED BY <1>2, <1>3, <2>1, <2>2, <2>3, <2>4, <2>5 DEF LedgerTypes, TypeOK
<1>6. \A t \in Tasks : pc[t] = "idle" /\ ~Active(t) BY <1>2 DEF Active
<1>7. AtMostOne /\ Covers /\ Writes /\ Idle
  BY <1>2, <1>6 DEF AtMostOne, Covers, Writes, Idle
<1>8. DiskCurrent
  <2>1. \A p \in Known : scores[p] \in Score /\ Saved(p) = scores[p]
    BY <1>2, <1>4 DEF Books, Book, Known, Saved
  <2> QED BY <1>2, <1>3, <2>1, FadedFromItself DEF DiskCurrent, Known
<1>9. Readable /\ StartsAgain BY <1>2, <1>3 DEF Readable, StartsAgain
<1>10. TableIInv
  <2>1. Cardinality({}) = 0 /\ IsFiniteSet({}) BY FS_EmptySet
  <2>2. 0 + Others <= BucketSize BY MeshAssumption, SMT
  <2> QED BY <1>1, <2>1, <2>2 DEF TableIInv, Admitted
<1> QED BY <1>4, <1>5, <1>7, <1>8, <1>9, <1>10 DEF IInv, LedgerIInv

LEMMA MeshStep ==
  ASSUME IInv, [MeshNext]_meshVars
  PROVE  IInv'
<1>1. CASE MeshNext
  BY <1>1, LedgerNext, TableNext DEF IInv, TableIInv, ReceiptsTyped
<1>2. CASE UNCHANGED meshVars
  <2>1. /\ UNCHANGED ledgerVars /\ receipts' = receipts /\ bucket' = bucket
        /\ earned' = earned
    BY <1>2 DEF meshVars
  <2>2. Known' = Known /\ phase' = phase BY <2>1 DEF ledgerVars, vars, Known
  <2>3. LedgerIInv' BY <2>1, NothingHappens DEF IInv
  <2>4. TableIInv' BY <2>1, <2>2, TableStays DEF IInv, TableIInv
  <2> QED BY <2>3, <2>4 DEF IInv
<1> QED BY <1>1, <1>2

\* The ledger survives: when no save is under way and the last one ran alone, the file
\* holds everybody's evidence up to decay; the daemon fails to start only over a save that
\* was cut short, failed or overlapped another; and the table holds only peers of which
\* something good was reported, in a bucket that keeps its size.
THEOREM MeshInvHolds == MeshSpec => []MeshInv
<1>1. MeshInit => IInv BY StartsSound
<1>2. IInv /\ [MeshNext]_meshVars => IInv' BY MeshStep
<1>3. IInv => MeshInv
  BY DEF IInv, LedgerIInv, LedgerTypes, TableIInv, MeshInv
<1> QED BY <1>1, <1>2, <1>3, PTL DEF MeshSpec

-----------------------------------------------------------------------------
(* Standing.                                                               *)

\* More against a peer and no more for it: no threshold is passed.
LEMMA BadReportsNeverLift ==
  ASSUME NEW r \in Score, NEW s \in Score, s.alpha = r.alpha, s.beta >= r.beta,
         NEW tenths \in {RelayTenths, EdgeTenths}, Meets(s, tenths)
  PROVE  Meets(r, tenths)
<1>1. /\ r.alpha \in Evidence /\ r.beta \in Evidence
      /\ s.alpha \in Evidence /\ s.beta \in Evidence
  BY DEF Score
<1>2. tenths = 7 \/ tenths = 9 BY DEF RelayTenths, EdgeTenths
<1> QED BY <1>1, <1>2, SMT DEF Meets, Evidence

LEMMA FreshIsBelow ==
  ASSUME NEW tenths \in {RelayTenths, EdgeTenths}
  PROVE  ~Meets(Fresh, tenths)
BY SMT DEF Meets, Fresh, RelayTenths, EdgeTenths, One, Half

\* What a step that is no good report of p does to the standing of p.
Lifts(p, tenths) == Meets(Entry(p)', tenths) /\ ~Meets(Entry(p), tenths)

LEMMA EntryAfter ==
  ASSUME NEW p, NEW q, NEW r, scores' = With(scores, q, r)
  PROVE  Entry(p)' = IF p = q THEN r ELSE Entry(p)
BY DEF Entry, Known, With

LEMMA OneEntry ==
  ASSUME NEW p, NEW tenths, NEW q, NEW r, scores' = With(scores, q, r),
         p = q /\ Meets(r, tenths) => Meets(Entry(p), tenths)
  PROVE  ~Lifts(p, tenths)
<1>1. CASE p = q BY <1>1, EntryAfter DEF Lifts
<1>2. CASE p # q BY <1>2, EntryAfter DEF Lifts
<1> QED BY <1>1, <1>2

LEMMA NoEntry ==
  ASSUME NEW p, NEW tenths, scores' = scores
  PROVE  ~Lifts(p, tenths)
<1>1. Entry(p)' = Entry(p) BY DEF Entry, Known
<1> QED BY <1>1 DEF Lifts

LEMMA ReportsLift ==
  ASSUME LedgerIInv, NEW t \in Tasks, NEW q \in Peers,
         \/ \E b \in BOOLEAN : apply_canary_result(t, q, b)
         \/ \E b \in BOOLEAN : update_score(t, q, b)
         \/ apply_auth_failure(t, q),
         NEW p \in Peers, NEW tenths \in {RelayTenths, EdgeTenths}, ~Praised(p)
  PROVE  ~Lifts(p, tenths)
<1>1. Book(scores, earned) BY DEF LedgerIInv, Books
<1>2. Entry(q) \in Score BY <1>1, AtScore, EntryIsAt
<1>3. ASSUME NEW b \in BOOLEAN, apply_canary_result(t, q, b)
      PROVE  ~Lifts(p, tenths)
  <2>1. PICK r \in Decayed(q) : scores' = With(scores, q, IF b THEN Succeeds(r) ELSE Fails(r))
    BY <1>3 DEF apply_canary_result, Record
  <2>2. b => p # q BY <1>3 DEF Praised
  <2>3. r \in Score /\ (Meets(r, tenths) => Meets(Entry(q), tenths)) BY <1>1, DecayedFacts
  <2>4. Meets(Fails(r), tenths) => Meets(r, tenths)
    BY <2>3, Reported, BadReportsNeverLift
  <2>5. CASE b BY <2>1, <2>2, <2>5, OneEntry
  <2>6. CASE ~b BY <2>1, <2>3, <2>4, <2>6, OneEntry
  <2> QED BY <2>5, <2>6
<1>4. ASSUME NEW b \in BOOLEAN, update_score(t, q, b)
      PROVE  ~Lifts(p, tenths)
  <2>1. PICK r \in Decayed(q) : scores' = With(scores, q, Updated(r, b))
    BY <1>4 DEF update_score, Record
  <2>2. b => p # q BY <1>4 DEF Praised
  <2>3. r \in Score /\ (Meets(r, tenths) => Meets(Entry(q), tenths)) BY <1>1, DecayedFacts
  <2>4. ~b /\ Meets(Updated(r, b), tenths) => Meets(r, tenths)
    BY <2>3, Reported, BadReportsNeverLift
  <2> QED BY <2>1, <2>2, <2>3, <2>4, OneEntry
<1>5. ASSUME apply_auth_failure(t, q)
      PROVE  ~Lifts(p, tenths)
  <2>1. scores' = With(scores, q, AuthFailed(Entry(q)))
    BY <1>5 DEF apply_auth_failure, Record
  <2>2. /\ AuthFailed(Entry(q)) \in Score
        /\ AuthFailed(Entry(q)).alpha = Entry(q).alpha
        /\ AuthFailed(Entry(q)).beta >= Entry(q).beta
    BY <1>2, Reported
  <2>3. Meets(AuthFailed(Entry(q)), tenths) => Meets(Entry(q), tenths)
    BY <1>2, <2>2, BadReportsNeverLift
  <2> QED BY <2>1, <2>3, OneEntry
<1> QED BY <1>3, <1>4, <1>5

LEMMA ReadersLift ==
  ASSUME LedgerIInv, NEW q,
         get_all_scores(q) \/ get_score(q) \/ freeze_peer(q) \/ UNCHANGED ledgerVars,
         NEW p, NEW tenths \in {RelayTenths, EdgeTenths}
  PROVE  ~Lifts(p, tenths)
<1>1. Book(scores, earned) BY DEF LedgerIInv, Books
<1>2. CASE get_all_scores(q)
  <2>1. PICK r \in Decayed(q) : scores' = With(scores, q, r)
    BY <1>2 DEF get_all_scores, DecaysEntry
  <2>2. Meets(r, tenths) => Meets(Entry(q), tenths) BY <1>1, DecayedFacts
  <2> QED BY <2>1, <2>2, OneEntry
<1>3. CASE get_score(q) BY <1>3, FreshIsBelow, OneEntry DEF get_score
<1>4. CASE freeze_peer(q) BY <1>4, OneEntry DEF freeze_peer
<1>5. CASE UNCHANGED ledgerVars BY <1>5, NoEntry DEF ledgerVars, vars
<1> QED BY <1>2, <1>3, <1>4, <1>5

LEMMA NothingElseLifts ==
  ASSUME IInv, [MeshNext]_meshVars, phase = "up",
         NEW p \in Peers, NEW tenths \in {RelayTenths, EdgeTenths}, ~Praised(p)
  PROVE  ~Lifts(p, tenths)
<1>1. LedgerIInv /\ ReceiptsTyped BY DEF IInv, TableIInv, ReceiptsTyped
<1>2. ASSUME NEW q \in Peers, Asks(q)
      PROVE  ~Lifts(p, tenths)
  BY <1>1, <1>2, ReadersLift DEF Asks
<1>3. CASE LedgerStep
  <2>1. ASSUME NEW t \in Tasks, Save(t)
        PROVE  ~Lifts(p, tenths)
    BY <2>1, NoEntry DEF Save, Collect, Truncate, Write, SaveFails
  <2>2. ASSUME NEW t \in Tasks, NEW q \in Peers, Call(t, q)
        PROVE  ~Lifts(p, tenths)
    BY <1>1, <2>2, ReportsLift DEF Call
  <2>3. ASSUME NEW q \in Peers, get_all_scores(q) \/ Thaw(q) \/ freeze_peer(q)
        PROVE  ~Lifts(p, tenths)
    BY <1>1, <2>3, ReadersLift, NoEntry DEF Thaw
  <2>4. CASE AnHourPasses BY <2>4, NoEntry DEF AnHourPasses
  <2>5. ~Start BY DEF Start
  <2> QED BY <1>3, <2>1, <2>2, <2>3, <2>4, <2>5 DEF LedgerStep
<1>4. CASE CrashAll
  <2>1. Entry(p)' = Fresh BY <1>4 DEF CrashAll, Crash, NoScores, Entry, Known
  <2> QED BY <2>1, FreshIsBelow DEF Lifts
<1>5. ASSUME NEW t \in Tasks \ {Auditor}, Payout(t)
      PROVE  ~Lifts(p, tenths)
  <2>1. PICK r \in receipts : Pays(t, r) BY <1>5 DEF Payout
  <2>2. r.peer \in Peers BY <1>1 DEF ReceiptsTyped
  <2>3. CASE r.good
    <3>1. update_score(t, r.peer, TRUE) BY <2>1, <2>3 DEF Pays
    <3> QED BY <1>1, <2>2, <3>1, ReportsLift
  <2>4. CASE ~r.good BY <1>1, <2>1, <2>4, ReadersLift DEF Pays
  <2> QED BY <2>3, <2>4
<1>6. ASSUME NEW q \in Peers, handle_kill_signal(q)
      PROVE  ~Lifts(p, tenths)
  BY <1>1, <1>6, ReadersLift DEF handle_kill_signal
<1>7. ASSUME NEW q \in Peers, attempt_insert_node(q) \/ select_hop(q)
      PROVE  ~Lifts(p, tenths)
  BY <1>2, <1>7 DEF attempt_insert_node, select_hop
<1>8. CASE UNCHANGED meshVars BY <1>1, <1>8, ReadersLift DEF meshVars
<1> QED BY <1>3, <1>4, <1>5, <1>6, <1>7, <1>8 DEF MeshNext

\* While the daemon runs, a peer passes the threshold of a relay or of an edge only in the
\* step of a good report: no listing, decay, freeze, bad report or first entry lifts it.
THEOREM OnlyPraiseLifts == MeshSpec => TrustIsEarned
<1>1. MeshInit => IInv BY StartsSound
<1>2. IInv /\ [MeshNext]_meshVars => IInv' BY MeshStep
<1>3. IInv /\ [MeshNext]_meshVars =>
        [\A p \in Peers, tenths \in {RelayTenths, EdgeTenths} :
           phase = "up" /\ Meets(Entry(p)', tenths) /\ ~Meets(Entry(p), tenths)
             => Praised(p)]_meshVars
  BY NothingElseLifts DEF Lifts
<1> QED BY <1>1, <1>2, <1>3, PTL DEF MeshSpec, TrustIsEarned

-----------------------------------------------------------------------------
(* The test's packet.                                                      *)

Fields == {"noise", "hops", "length", "data", "exit", "middle", "guard"}
Byte == [of : Fields, val : Nat]

LEMMA SameLength ==
  ASSUME NEW a \in Nat, NEW b \in Nat, 1..a = 1..b
  PROVE  a = b
<1>1. a <= b
  <2>1. CASE a = 0 BY <2>1
  <2>2. CASE a # 0
    <3>1. a \in 1..a BY <2>2
    <3> QED BY <3>1
  <2> QED BY <2>1, <2>2
<1>2. b <= a
  <2>1. CASE b = 0 BY <2>1
  <2>2. CASE b # 0
    <3>1. b \in 1..b BY <2>2
    <3> QED BY <3>1
  <2> QED BY <2>1, <2>2
<1> QED BY <1>1, <1>2

LEMMA BytesFacts ==
  ASSUME NEW of \in Fields, NEW n \in Nat, NEW val \in Nat
  PROVE  Bytes(of, n, val) \in Seq(Byte) /\ Len(Bytes(of, n, val)) = n
<1>1. Bytes(of, n, val) \in [1..n -> Byte] BY DEF Bytes, Byte
<1>2. Bytes(of, n, val) \in Seq(Byte) BY <1>1, SeqDef
<1>3. DOMAIN Bytes(of, n, val) = 1..n BY DEF Bytes
<1>4. /\ Len(Bytes(of, n, val)) \in Nat
      /\ 1..Len(Bytes(of, n, val)) = 1..n
  BY <1>2, <1>3, LenProperties
<1> QED BY <1>2, <1>4, SameLength

LEMMA Joined ==
  ASSUME NEW s \in Seq(Byte), NEW t \in Seq(Byte)
  PROVE  s \o t \in Seq(Byte) /\ Len(s \o t) = Len(s) + Len(t)
         /\ Len(s) \in Nat /\ Len(t) \in Nat
BY ConcatProperties, LenProperties

LEMMA HopsFacts ==
  ASSUME NEW n \in Nat
  PROVE  Hops(n) \in Seq(Byte) /\ Len(Hops(n)) = 1
<1>1. 1 \in Nat /\ "hops" \in Fields BY DEF Fields
<1> QED BY <1>1, BytesFacts DEF Hops

LEMMA NoiseFacts ==
  ASSUME NEW n \in Nat
  PROVE  Noise(n) \in Seq(Byte) /\ Len(Noise(n)) = n
<1>1. 1 \in Nat /\ "noise" \in Fields BY DEF Fields
<1> QED BY <1>1, BytesFacts DEF Noise

LEMMA CiphertextFacts ==
  ASSUME NEW hop \in Fields, NEW last \in Nat
  PROVE  Ciphertext(hop, last) \in Seq(Byte) /\ Len(Ciphertext(hop, last)) = CtSize
<1>1. /\ CtSize - 1 \in Nat /\ 1 \in Nat /\ CtSize \in Nat /\ CtSize - 1 + 1 = CtSize
  BY SphinxAssumption, SMT
<1>2. /\ Bytes(hop, CtSize - 1, 1) \in Seq(Byte)
      /\ Len(Bytes(hop, CtSize - 1, 1)) = CtSize - 1
  BY <1>1, BytesFacts
<1>3. Bytes(hop, 1, last) \in Seq(Byte) /\ Len(Bytes(hop, 1, last)) = 1
  BY <1>1, BytesFacts
<1>4. /\ Ciphertext(hop, last) \in Seq(Byte)
      /\ Len(Ciphertext(hop, last)) = (CtSize - 1) + 1
  BY <1>2, <1>3, Joined DEF Ciphertext
<1> QED BY <1>1, <1>4

\* A packet as every hop expects it: a header of one ciphertext and the whole MTU.
Proper(p) ==
  /\ p.header \in Seq(Byte) /\ p.payload \in Seq(Byte)
  /\ Len(p.header) = CtSize /\ Len(p.payload) = Mtu - CtSize

\* What build makes of data that fits is padded to the MTU, and never longer.
LEMMA BuildIsProper ==
  ASSUME NEW n \in Nat, NEW last \in Nat, Fits(n)
  PROVE  Proper(Build(n, last))
<1> DEFINE exit == (Hops(0) \o Bytes("length", 4, 0)) \o Bytes("data", n, 1)
           middle == (Hops(1) \o Ciphertext("exit", last)) \o exit
           guard == (Hops(2) \o Ciphertext("middle", 1)) \o middle
           short == Mtu - CtSize - Len(guard)
           pad == IF short > 0 THEN short ELSE 0
<1>1. /\ 0 \in Nat /\ 1 \in Nat /\ 2 \in Nat /\ 4 \in Nat
      /\ CtSize \in Nat /\ Mtu \in Nat /\ Margin \in Nat /\ Margin >= 7
  BY SphinxAssumption
<1>0. {"length", "data", "exit", "middle", "guard"} \subseteq Fields BY DEF Fields
<1>2. exit \in Seq(Byte) /\ Len(exit) = 5 + n
  <2>1. Hops(0) \in Seq(Byte) /\ Len(Hops(0)) = 1 BY <1>1, HopsFacts
  <2>2. Bytes("length", 4, 0) \in Seq(Byte) /\ Len(Bytes("length", 4, 0)) = 4
    BY <1>1, <1>0, BytesFacts
  <2>3. Bytes("data", n, 1) \in Seq(Byte) /\ Len(Bytes("data", n, 1)) = n
    BY <1>1, <1>0, BytesFacts
  <2>4. /\ Hops(0) \o Bytes("length", 4, 0) \in Seq(Byte)
        /\ Len(Hops(0) \o Bytes("length", 4, 0)) = 1 + 4
    BY <2>1, <2>2, Joined
  <2>5. exit \in Seq(Byte) /\ Len(exit) = (1 + 4) + n
    BY <2>3, <2>4, Joined
  <2> QED BY <2>5
<1>3. middle \in Seq(Byte) /\ Len(middle) = 6 + CtSize + n
  <2>1. Hops(1) \in Seq(Byte) /\ Len(Hops(1)) = 1 BY <1>1, HopsFacts
  <2>2. Ciphertext("exit", last) \in Seq(Byte) /\ Len(Ciphertext("exit", last)) = CtSize
    BY <1>0, CiphertextFacts
  <2>3. /\ Hops(1) \o Ciphertext("exit", last) \in Seq(Byte)
        /\ Len(Hops(1) \o Ciphertext("exit", last)) = 1 + CtSize
    BY <2>1, <2>2, Joined
  <2> HIDE DEF exit
  <2>4. middle \in Seq(Byte) /\ Len(middle) = (1 + CtSize) + (5 + n)
    BY <1>2, <2>3, Joined
  <2> QED BY <1>1, <2>4
<1>4. guard \in Seq(Byte) /\ Len(guard) = 7 + 2 * CtSize + n
  <2>1. Hops(2) \in Seq(Byte) /\ Len(Hops(2)) = 1 BY <1>1, HopsFacts
  <2>2. Ciphertext("middle", 1) \in Seq(Byte) /\ Len(Ciphertext("middle", 1)) = CtSize
    BY <1>1, <1>0, CiphertextFacts
  <2>3. /\ Hops(2) \o Ciphertext("middle", 1) \in Seq(Byte)
        /\ Len(Hops(2) \o Ciphertext("middle", 1)) = 1 + CtSize
    BY <2>1, <2>2, Joined
  <2> HIDE DEF middle
  <2>4. guard \in Seq(Byte) /\ Len(guard) = (1 + CtSize) + (6 + CtSize + n)
    BY <1>3, <2>3, Joined
  <2> QED BY <1>1, <2>4
<1>5. pad \in Nat /\ (7 + 2 * CtSize + n) + pad = Mtu - CtSize
  <2>1. short = Mtu - CtSize - (7 + 2 * CtSize + n) BY <1>4
  <2>2. n + 3 * CtSize + Margin <= Mtu BY DEF Fits
  <2> HIDE DEF guard, short
  <2>3. short \in Nat /\ (7 + 2 * CtSize + n) + short = Mtu - CtSize
    BY <1>1, <2>1, <2>2, SMT
  <2>4. pad = short BY <2>3
  <2> QED BY <2>3, <2>4
<1>6. Noise(pad) \in Seq(Byte) /\ Len(Noise(pad)) = pad BY <1>5, NoiseFacts
<1>7. /\ Build(n, last).header = Ciphertext("guard", 1)
      /\ Build(n, last).payload = guard \o Noise(pad)
  BY DEF Build
<1>8. Build(n, last).header \in Seq(Byte) /\ Len(Build(n, last).header) = CtSize
  BY <1>1, <1>0, <1>7, CiphertextFacts
<1>9. guard \o Noise(pad) \in Seq(Byte) /\ Len(guard \o Noise(pad)) = Mtu - CtSize
  <2> HIDE DEF guard, pad
  <2>1. /\ guard \o Noise(pad) \in Seq(Byte)
        /\ Len(guard \o Noise(pad)) = Len(guard) + Len(Noise(pad))
    BY <1>4, <1>6, Joined
  <2> QED BY <1>4, <1>5, <1>6, <2>1
<1> QED BY <1>7, <1>8, <1>9 DEF Proper

\* A relay cuts one header off and pads by as much.
LEMMA RelayIsProper ==
  ASSUME NEW p, Proper(p), Unwrap(p).kind = "relay"
  PROVE  Proper(Unwrap(p).next)
<1> DEFINE inner == Tail(p.payload)
           hops == Head(p.payload).val
           head == SubSeq(inner, 1, CtSize)
           rest == SubSeq(inner, CtSize + 1, Len(inner))
<1>1. CtSize \in Nat /\ CtSize >= 1 /\ Mtu \in Nat /\ Mtu >= 3 * CtSize + 7
  BY SphinxAssumption
<1>2. p.payload \in Seq(Byte) /\ Len(p.payload) = Mtu - CtSize BY DEF Proper
<1>3. p.payload # <<>>
  <2>1. Len(p.payload) # 0 BY <1>1, <1>2, SMT
  <2> QED BY <1>2, <2>1, EmptySeq
<1>4. /\ hops \in Nat /\ inner \in Seq(Byte) /\ Len(inner) = Mtu - CtSize - 1
      /\ \A i \in 1..Len(inner) : inner[i] \in Byte
  <2>1. /\ Head(p.payload) \in Byte /\ inner \in Seq(Byte)
        /\ Len(inner) = Len(p.payload) - 1
    BY <1>2, <1>3, HeadTailProperties
  <2>2. hops \in Nat BY <2>1 DEF Byte
  <2> HIDE DEF inner
  <2>3. \A i \in 1..Len(inner) : inner[i] \in Byte BY <2>1, ElementOfSeq
  <2> QED BY <1>2, <2>1, <2>2, <2>3
<1>5. hops > 0 /\ Unwrap(p).next = NextPacket(hops, inner)
  <2> HIDE DEF inner, hops
  <2>1. Unwrap(p) = CASE hops = 0 -> AtExit(inner)
                      [] hops > 0 /\ Len(inner) < CtSize -> Failed
                      [] OTHER -> [kind |-> "relay", next |-> NextPacket(hops, inner)]
    BY <1>3 DEF Unwrap, inner, hops
  <2>2. AtExit(inner).kind # "relay" /\ Failed.kind # "relay" BY DEF AtExit, Failed
  <2>3. ~(hops > 0 /\ Len(inner) < CtSize)
    BY <1>1, <1>4, SMT
  <2>4. hops # 0 BY <2>1, <2>2
  <2> QED BY <1>4, <2>1, <2>3, <2>4, SMT
<1> HIDE DEF inner, hops
<1>6. head \in Seq(Byte) /\ Len(head) = CtSize
  <2>1. \A i \in 1..CtSize : inner[i] \in Byte BY <1>1, <1>4, SMT
  <2>2. 1 \in Int /\ CtSize \in Int BY <1>1
  <2> QED BY <1>1, <2>1, <2>2, SubSeqProperties
<1>7. rest \in Seq(Byte) /\ Len(rest) = Mtu - CtSize - 1 - CtSize
  <2>1. CtSize + 1 \in Int /\ Len(inner) \in Int /\ CtSize + 1 <= Len(inner)
    BY <1>1, <1>4, SMT
  <2>2. \A i \in CtSize + 1 .. Len(inner) : inner[i] \in Byte BY <1>1, <1>4, SMT
  <2>3. /\ rest \in Seq(Byte)
        /\ Len(rest) = IF CtSize + 1 <= Len(inner) THEN Len(inner) - (CtSize + 1) + 1 ELSE 0
    BY <2>1, <2>2, SubSeqProperties
  <2> QED BY <1>1, <1>4, <2>1, <2>3, SMT
<1> HIDE DEF head, rest
<1>8. Hops(hops - 1) \in Seq(Byte) /\ Len(Hops(hops - 1)) = 1
  <2>1. hops - 1 \in Nat BY <1>4, <1>5, SMT
  <2> QED BY <2>1, HopsFacts
<1>9. Noise(CtSize) \in Seq(Byte) /\ Len(Noise(CtSize)) = CtSize BY <1>1, NoiseFacts
<1>10. /\ (Hops(hops - 1) \o rest) \o Noise(CtSize) \in Seq(Byte)
       /\ Len((Hops(hops - 1) \o rest) \o Noise(CtSize)) = Mtu - CtSize
  <2>1. /\ Hops(hops - 1) \o rest \in Seq(Byte)
        /\ Len(Hops(hops - 1) \o rest) = 1 + (Mtu - CtSize - 1 - CtSize)
    BY <1>7, <1>8, Joined
  <2>2. /\ (Hops(hops - 1) \o rest) \o Noise(CtSize) \in Seq(Byte)
        /\ Len((Hops(hops - 1) \o rest) \o Noise(CtSize))
             = 1 + (Mtu - CtSize - 1 - CtSize) + CtSize
    BY <1>9, <2>1, Joined
  <2> QED BY <1>1, <2>2, SMT
<1>11. /\ NextPacket(hops, inner).header = head
       /\ NextPacket(hops, inner).payload = (Hops(hops - 1) \o rest) \o Noise(CtSize)
  BY DEF NextPacket, head, rest
<1> QED BY <1>5, <1>6, <1>10, <1>11 DEF Proper

-----------------------------------------------------------------------------
(* The inductive invariant of the daemon.                                  *)

MainPlaces ==
  {"ledger", "build", "hop", "crucible", "signaler", "connect", "handshake", "drop",
   "idle", "exited"}

\* Before the hand-shake begins there is neither a link nor an outcome.
BeforeLink == {"ledger", "build", "hop", "crucible", "signaler", "connect"}

LinkInv ==
  /\ main \in MainPlaces
  /\ main \in BeforeLink => outcome = "none" /\ connecting = "none"
  /\ main = "handshake" => outcome = "none" /\ connecting \in {"connecting", "finished"}
  /\ outcome = "fallback" => connecting = "closed"
  /\ ~Alive => ~crucible /\ ~messaging /\ ~punching /\ connecting # "up"

PacketInv ==
  /\ packet # <<>> => Proper(packet[1])
  /\ main = "hop" => packet # <<>>

\* The fragments that have left the crucible's buffer.
Ticked == given - Len(rx_in) - Len(buffer)

\* In the channel are, with noise between them, the fragments after the first h up to
\* the n-th, each once and in order.
InChannel(channel, h, n) ==
  /\ \A i \in 1..Len(channel) : channel[i] = 0 \/ channel[i] \in (h + 1)..n
  /\ \A i, j \in 1..Len(channel) :
       i < j /\ channel[i] # 0 /\ channel[j] # 0 => channel[i] < channel[j]
  /\ \A k \in (h + 1)..n : \E i \in 1..Len(channel) : channel[i] = k

FlowTypes ==
  /\ given \in 0..MaxFragments /\ Len(out) <= MaxOut /\ status \in {"Active", "Muted"}
  /\ rx_in \in Seq(Nat) /\ buffer \in Seq(Nat) /\ out \in Seq(Nat) /\ handled \in Seq(Nat)

FlowInv ==
  /\ Len(handled) <= Ticked
  /\ \A i \in 1..Len(handled) : handled[i] = i
  /\ InChannel(out, Len(handled), Ticked)
  /\ \A i \in 1..Len(buffer) : buffer[i] = Ticked + i
  /\ \A i \in 1..Len(rx_in) : rx_in[i] = Ticked + Len(buffer) + i

DaemonIInv == LinkInv /\ PacketInv /\ FlowTypes /\ FlowInv

-----------------------------------------------------------------------------
(* The channel.                                                            *)

LEMMA PushNoise ==
  ASSUME NEW c \in Seq(Nat), NEW h \in Nat, NEW n \in Nat, InChannel(c, h, n)
  PROVE  InChannel(Append(c, 0), h, n)
<1> DEFINE d == Append(c, 0)
<1>1. /\ Len(c) \in Nat /\ Len(d) = Len(c) + 1 /\ d[Len(c) + 1] = 0
      /\ \A i \in 1..Len(c) : d[i] = c[i]
  BY AppendProperties, LenProperties
<1> HIDE DEF d
<1>2. \A i \in 1..Len(d) : i \in 1..Len(c) \/ i = Len(c) + 1 BY <1>1
<1>3. \A i \in 1..Len(c) : i \in 1..Len(d) BY <1>1
<1>4. \A i \in 1..Len(d) : d[i] = 0 \/ d[i] \in (h + 1)..n
  BY <1>1, <1>2 DEF InChannel
<1>5. ASSUME NEW i \in 1..Len(d), NEW j \in 1..Len(d), i < j, d[i] # 0, d[j] # 0
      PROVE  d[i] < d[j]
  <2>1. i \in 1..Len(c) /\ j \in 1..Len(c) BY <1>1, <1>2, <1>5
  <2> QED BY <1>1, <1>5, <2>1 DEF InChannel
<1>6. \A k \in (h + 1)..n : \E i \in 1..Len(d) : d[i] = k
  BY <1>1, <1>3 DEF InChannel
<1> QED BY <1>4, <1>5, <1>6 DEF InChannel, d

LEMMA PushNext ==
  ASSUME NEW c \in Seq(Nat), NEW h \in Nat, NEW n \in Nat, h <= n, InChannel(c, h, n)
  PROVE  InChannel(Append(c, n + 1), h, n + 1)
<1> DEFINE d == Append(c, n + 1)
<1>1. /\ Len(c) \in Nat /\ Len(d) = Len(c) + 1 /\ d[Len(c) + 1] = n + 1
      /\ \A i \in 1..Len(c) : d[i] = c[i]
  BY AppendProperties, LenProperties
<1> HIDE DEF d
<1>2. \A i \in 1..Len(d) : i \in 1..Len(c) \/ i = Len(c) + 1 BY <1>1
<1>3. \A i \in 1..Len(c) : i \in 1..Len(d) BY <1>1
<1>4. \A i \in 1..Len(c) : d[i] = 0 \/ d[i] \in (h + 1)..n BY <1>1 DEF InChannel
<1>5. ASSUME NEW i \in 1..Len(d)
      PROVE  d[i] = 0 \/ d[i] \in (h + 1)..(n + 1)
  BY <1>1, <1>2, <1>4, SMT
<1>6. ASSUME NEW i \in 1..Len(d), NEW j \in 1..Len(d), i < j, d[i] # 0, d[j] # 0
      PROVE  d[i] < d[j]
  <2>1. i \in 1..Len(c) BY <1>1, <1>2, <1>6
  <2>2. CASE j \in 1..Len(c) BY <1>1, <1>6, <2>1, <2>2 DEF InChannel
  <2>3. CASE j = Len(c) + 1 BY <1>1, <1>4, <1>6, <2>1, <2>3
  <2> QED BY <1>2, <2>2, <2>3
<1>7. ASSUME NEW k \in (h + 1)..(n + 1)
      PROVE  \E i \in 1..Len(d) : d[i] = k
  <2>1. CASE k = n + 1
    <3>1. Len(c) + 1 \in 1..Len(d) BY <1>1
    <3> QED BY <1>1, <2>1, <3>1
  <2>2. CASE k # n + 1
    <3>1. k \in (h + 1)..n BY <2>2
    <3>2. PICK i \in 1..Len(c) : c[i] = k BY <3>1 DEF InChannel
    <3> QED BY <1>1, <1>3, <3>2
  <2> QED BY <2>1, <2>2
<1> QED BY <1>5, <1>6, <1>7 DEF InChannel, d

LEMMA TailFacts ==
  ASSUME NEW c \in Seq(Nat), c # <<>>
  PROVE  /\ Head(c) = c[1] /\ Head(c) \in Nat /\ 1 \in 1..Len(c)
         /\ Tail(c) \in Seq(Nat) /\ Len(c) \in Nat /\ Len(Tail(c)) = Len(c) - 1
         /\ \A i \in 1..Len(Tail(c)) : Tail(c)[i] = c[i + 1] /\ i + 1 \in 1..Len(c)
         /\ \A i \in 1..Len(c) : i = 1 \/ i - 1 \in 1..Len(Tail(c))
<1>1. /\ Head(c) \in Nat /\ Tail(c) \in Seq(Nat) /\ Len(Tail(c)) = Len(c) - 1
      /\ \A i \in 1..Len(Tail(c)) : Tail(c)[i] = c[i + 1]
  BY HeadTailProperties
<1>2. Len(c) \in Nat \ {0} BY EmptySeq
<1>3. Head(c) = c[1] BY SMT
<1> QED BY <1>1, <1>2, <1>3

LEMMA PopNoise ==
  ASSUME NEW c \in Seq(Nat), c # <<>>, NEW h \in Nat, NEW n \in Nat, InChannel(c, h, n),
         Head(c) = 0
  PROVE  InChannel(Tail(c), h, n)
<1> DEFINE d == Tail(c)
<1>1. /\ Len(c) \in Nat /\ Len(d) = Len(c) - 1 /\ c[1] = 0
      /\ \A i \in 1..Len(d) : d[i] = c[i + 1] /\ i + 1 \in 1..Len(c)
      /\ \A i \in 1..Len(c) : i = 1 \/ i - 1 \in 1..Len(d)
  BY TailFacts
<1> HIDE DEF d
<1>2. \A i \in 1..Len(d) : d[i] = 0 \/ d[i] \in (h + 1)..n BY <1>1 DEF InChannel
<1>3. ASSUME NEW i \in 1..Len(d), NEW j \in 1..Len(d), i < j, d[i] # 0, d[j] # 0
      PROVE  d[i] < d[j]
  <2>1. i + 1 < j + 1 BY <1>3
  <2> QED BY <1>1, <1>3, <2>1 DEF InChannel
<1>4. ASSUME NEW k \in (h + 1)..n
      PROVE  \E i \in 1..Len(d) : d[i] = k
  <2>1. PICK i \in 1..Len(c) : c[i] = k BY DEF InChannel
  <2>2. i # 1 BY <1>1, <2>1
  <2>3. i - 1 \in 1..Len(d) /\ (i - 1) + 1 = i BY <1>1, <2>2
  <2> QED BY <1>1, <2>1, <2>3
<1> QED BY <1>2, <1>3, <1>4 DEF InChannel, d

LEMMA PopNext ==
  ASSUME NEW c \in Seq(Nat), c # <<>>, NEW h \in Nat, NEW n \in Nat, InChannel(c, h, n),
         Head(c) # 0
  PROVE  Head(c) = h + 1 /\ h + 1 <= n /\ InChannel(Tail(c), h + 1, n)
<1> DEFINE d == Tail(c)
<1>1. /\ Len(c) \in Nat /\ Len(d) = Len(c) - 1 /\ c[1] # 0 /\ Head(c) = c[1]
      /\ 1 \in 1..Len(c)
      /\ \A i \in 1..Len(d) : d[i] = c[i + 1] /\ i + 1 \in 1..Len(c)
      /\ \A i \in 1..Len(c) : i = 1 \/ i - 1 \in 1..Len(d)
  BY TailFacts
<1> HIDE DEF d
<1>2. c[1] \in (h + 1)..n BY <1>1 DEF InChannel
<1>3. c[1] = h + 1
  <2>1. h + 1 \in (h + 1)..n BY <1>2
  <2>2. PICK i \in 1..Len(c) : c[i] = h + 1 BY <2>1 DEF InChannel
  <2>3. CASE i = 1 BY <2>2, <2>3
  <2>4. CASE i # 1
    <3>1. 1 < i BY <2>4
    <3>2. h + 1 # 0 BY SMT
    <3>3. c[1] < c[i] BY <1>1, <2>2, <3>1, <3>2 DEF InChannel
    <3> QED BY <1>2, <2>2, <3>3
  <2> QED BY <2>3, <2>4
<1>4. ASSUME NEW i \in 1..Len(d)
      PROVE  d[i] = 0 \/ d[i] \in ((h + 1) + 1)..n
  <2>1. d[i] = c[i + 1] /\ i + 1 \in 1..Len(c) /\ 1 < i + 1 BY <1>1
  <2>2. CASE d[i] # 0
    <3>1. c[i + 1] \in (h + 1)..n BY <2>1, <2>2 DEF InChannel
    <3>2. c[1] < c[i + 1] BY <1>1, <2>1, <2>2 DEF InChannel
    <3> QED BY <1>3, <2>1, <3>1, <3>2
  <2> QED BY <2>2
<1>5. ASSUME NEW i \in 1..Len(d), NEW j \in 1..Len(d), i < j, d[i] # 0, d[j] # 0
      PROVE  d[i] < d[j]
  <2>1. i + 1 < j + 1 BY <1>5
  <2> QED BY <1>1, <1>5, <2>1 DEF InChannel
<1>6. ASSUME NEW k \in ((h + 1) + 1)..n
      PROVE  \E i \in 1..Len(d) : d[i] = k
  <2>1. k \in (h + 1)..n /\ k # h + 1 BY SMT
  <2>2. PICK i \in 1..Len(c) : c[i] = k BY <2>1 DEF InChannel
  <2>3. i # 1 BY <1>3, <2>1, <2>2
  <2>4. i - 1 \in 1..Len(d) /\ (i - 1) + 1 = i BY <1>1, <2>3
  <2> QED BY <1>1, <2>2, <2>4
<1>7. InChannel(d, h + 1, n) BY <1>4, <1>5, <1>6 DEF InChannel
<1> QED BY <1>1, <1>2, <1>3, <1>7 DEF d

-----------------------------------------------------------------------------
(* The fragments, step by step.                                            *)

LEMMA Lengths ==
  ASSUME FlowTypes
  PROVE  /\ given \in Nat /\ Len(rx_in) \in Nat /\ Len(buffer) \in Nat
         /\ Len(out) \in Nat /\ Len(handled) \in Nat /\ Ticked \in Int
BY LenProperties DEF FlowTypes, Ticked

LEMMA FlowKept ==
  ASSUME FlowTypes, FlowInv, UNCHANGED <<rx_in, buffer, out, given, handled>>,
         status' \in {"Active", "Muted"}
  PROVE  FlowTypes' /\ FlowInv'
<1>1. FlowTypes' BY DEF FlowTypes
<1>2. Ticked' = Ticked BY DEF Ticked
<1> QED BY <1>1, <1>2 DEF FlowInv

LEMMA GiveStep ==
  ASSUME FlowTypes, FlowInv, Give
  PROVE  FlowTypes' /\ FlowInv'
<1>1. /\ given < MaxFragments /\ given' = given + 1 /\ rx_in' = Append(rx_in, given + 1)
      /\ buffer' = buffer /\ out' = out /\ status' = status /\ handled' = handled
  BY DEF Give
<1>2. /\ given \in Nat /\ Len(rx_in) \in Nat /\ Len(buffer) \in Nat
      /\ rx_in \in Seq(Nat) /\ given + 1 \in Nat
  BY Lengths DEF FlowTypes
<1>3. /\ rx_in' \in Seq(Nat) /\ Len(rx_in') = Len(rx_in) + 1
      /\ \A i \in 1..Len(rx_in) : rx_in'[i] = rx_in[i]
      /\ rx_in'[Len(rx_in) + 1] = given + 1
  BY <1>1, <1>2, AppendProperties
<1>4. given' \in 0..MaxFragments BY <1>1, <1>2, DaemonAssumption
<1>5. FlowTypes' BY <1>1, <1>3, <1>4 DEF FlowTypes
<1>6. Ticked' = Ticked BY <1>1, <1>2, <1>3, SMT DEF Ticked
<1>7. ASSUME NEW i \in 1..Len(rx_in')
      PROVE  rx_in'[i] = Ticked + Len(buffer) + i
  <2>1. CASE i \in 1..Len(rx_in) BY <1>3, <2>1 DEF FlowInv
  <2>2. CASE i = Len(rx_in) + 1
    <3>1. given + 1 = Ticked + Len(buffer) + (Len(rx_in) + 1) BY <1>2, SMT DEF Ticked
    <3> QED BY <1>3, <2>2, <3>1
  <2> QED BY <1>2, <1>3, <2>1, <2>2
<1> QED BY <1>1, <1>5, <1>6, <1>7 DEF FlowInv

LEMMA QueueStep ==
  ASSUME FlowTypes, FlowInv, queue_fragment
  PROVE  FlowTypes' /\ FlowInv'
<1>1. /\ rx_in # <<>> /\ buffer' = Append(buffer, Head(rx_in)) /\ rx_in' = Tail(rx_in)
      /\ out' = out /\ status' = status /\ given' = given /\ handled' = handled
  BY DEF queue_fragment, messageVars
<1>2. /\ given \in Nat /\ Len(buffer) \in Nat
      /\ rx_in \in Seq(Nat) /\ buffer \in Seq(Nat) /\ Ticked \in Int
  BY Lengths DEF FlowTypes
<1>3. /\ Head(rx_in) = rx_in[1] /\ Head(rx_in) \in Nat /\ 1 \in 1..Len(rx_in)
      /\ rx_in' \in Seq(Nat) /\ Len(rx_in) \in Nat /\ Len(rx_in') = Len(rx_in) - 1
      /\ \A i \in 1..Len(rx_in') : rx_in'[i] = rx_in[i + 1] /\ i + 1 \in 1..Len(rx_in)
  BY <1>1, <1>2, TailFacts
<1>4. /\ buffer' \in Seq(Nat) /\ Len(buffer') = Len(buffer) + 1
      /\ \A i \in 1..Len(buffer) : buffer'[i] = buffer[i]
      /\ buffer'[Len(buffer) + 1] = rx_in[1]
  BY <1>1, <1>2, <1>3, AppendProperties
<1>5. FlowTypes' BY <1>1, <1>3, <1>4 DEF FlowTypes
<1>6. Ticked' = Ticked BY <1>1, <1>2, <1>3, <1>4, SMT DEF Ticked
<1>7. ASSUME NEW i \in 1..Len(buffer')
      PROVE  buffer'[i] = Ticked + i
  <2>1. CASE i \in 1..Len(buffer) BY <1>4, <2>1 DEF FlowInv
  <2>2. CASE i = Len(buffer) + 1
    <3>1. rx_in[1] = Ticked + Len(buffer) + 1 BY <1>3 DEF FlowInv
    <3> QED BY <1>2, <1>4, <2>2, <3>1
  <2> QED BY <1>2, <1>4, <2>1, <2>2
<1>8. ASSUME NEW i \in 1..Len(rx_in')
      PROVE  rx_in'[i] = Ticked + Len(buffer') + i
  <2>1. rx_in'[i] = rx_in[i + 1] /\ i + 1 \in 1..Len(rx_in) BY <1>3
  <2>2. rx_in[i + 1] = Ticked + Len(buffer) + (i + 1) BY <2>1 DEF FlowInv
  <2> QED BY <1>2, <1>4, <2>1, <2>2
<1> QED BY <1>1, <1>5, <1>6, <1>7, <1>8 DEF FlowInv

LEMMA TickStep ==
  ASSUME FlowTypes, FlowInv, CrucibleTick
  PROVE  FlowTypes' /\ FlowInv'
<1>1. /\ Len(out) < MaxOut /\ out' = Append(out, Popped[1]) /\ buffer' = Popped[2]
      /\ rx_in' = rx_in /\ status' = status /\ given' = given /\ handled' = handled
  BY DEF CrucibleTick, messageVars
<1>2. /\ given \in Nat /\ Len(rx_in) \in Nat /\ Len(out) \in Nat /\ Len(handled) \in Nat
      /\ Len(buffer) \in Nat /\ Ticked \in Int
      /\ out \in Seq(Nat) /\ buffer \in Seq(Nat)
  BY Lengths DEF FlowTypes
<1>3. Len(handled) <= Ticked /\ InChannel(out, Len(handled), Ticked) /\ Ticked \in Nat
  BY <1>2 DEF FlowInv
<1>4. CASE buffer = <<>>
  <2>1. out' = Append(out, 0) /\ buffer' = buffer BY <1>1, <1>4 DEF Popped
  <2>2. out' \in Seq(Nat) /\ Len(out') = Len(out) + 1 BY <1>2, <2>1, AppendProperties
  <2>3. Len(out') <= MaxOut BY <1>1, <1>2, <2>2, DaemonAssumption
  <2>4. FlowTypes' BY <1>1, <2>1, <2>2, <2>3 DEF FlowTypes
  <2>5. Ticked' = Ticked BY <1>1, <2>1 DEF Ticked
  <2>6. InChannel(out', Len(handled), Ticked) BY <1>2, <1>3, <2>1, PushNoise
  <2> QED BY <1>1, <2>1, <2>4, <2>5, <2>6 DEF FlowInv
<1>5. CASE buffer # <<>>
  <2>1. out' = Append(out, Head(buffer)) /\ buffer' = Tail(buffer)
    BY <1>1, <1>5 DEF Popped
  <2>2. /\ Head(buffer) = buffer[1] /\ Head(buffer) \in Nat /\ 1 \in 1..Len(buffer)
        /\ buffer' \in Seq(Nat) /\ Len(buffer') = Len(buffer) - 1
        /\ \A i \in 1..Len(buffer') : buffer'[i] = buffer[i + 1] /\ i + 1 \in 1..Len(buffer)
    BY <1>2, <1>5, <2>1, TailFacts
  <2>3. out' \in Seq(Nat) /\ Len(out') = Len(out) + 1
    BY <1>2, <2>1, <2>2, AppendProperties
  <2>4. Len(out') <= MaxOut BY <1>1, <1>2, <2>3, DaemonAssumption
  <2>5. FlowTypes' BY <1>1, <2>2, <2>3, <2>4 DEF FlowTypes
  <2>6. Ticked' = Ticked + 1 BY <1>1, <1>2, <2>2, SMT DEF Ticked
  <2>7. Head(buffer) = Ticked + 1 BY <2>2 DEF FlowInv
  <2>8. InChannel(out', Len(handled), Ticked + 1) BY <1>2, <1>3, <2>1, <2>7, PushNext
  <2>9. ASSUME NEW i \in 1..Len(buffer')
        PROVE  buffer'[i] = Ticked + 1 + i
    <3>1. buffer'[i] = buffer[i + 1] /\ i + 1 \in 1..Len(buffer) BY <2>2
    <3>2. buffer[i + 1] = Ticked + (i + 1) BY <3>1 DEF FlowInv
    <3> QED BY <1>2, <3>1, <3>2
  <2>10. ASSUME NEW i \in 1..Len(rx_in)
         PROVE  rx_in[i] = Ticked + 1 + Len(buffer') + i
    <3>1. rx_in[i] = Ticked + Len(buffer) + i BY DEF FlowInv
    <3> QED BY <1>2, <2>2, <3>1
  <2>11. \A i \in 1..Len(handled) : handled[i] = i BY DEF FlowInv
  <2>12. Len(handled) <= Ticked + 1 BY <1>2, <1>3
  <2> QED BY <1>1, <2>5, <2>6, <2>8, <2>9, <2>10, <2>11, <2>12 DEF FlowInv
<1> QED BY <1>4, <1>5

\* Only the next fragment can come out of the channel.
LEMMA TransmitStep ==
  ASSUME FlowTypes, FlowInv, Transmit
  PROVE  /\ FlowTypes' /\ FlowInv' /\ given' = given
         /\ \/ handled' = handled
            \/ handled' = Append(handled, Len(handled) + 1) /\ Len(handled) + 1 <= given
<1>1. /\ out # <<>> /\ out' = Tail(out)
      /\ handled' = IF Head(out) = 0 THEN handled ELSE Append(handled, Head(out))
      /\ rx_in' = rx_in /\ buffer' = buffer /\ status' = status /\ given' = given
  BY DEF Transmit, Takes
<1>2. /\ given \in Nat /\ Len(rx_in) \in Nat /\ Len(buffer) \in Nat /\ Len(handled) \in Nat
      /\ out \in Seq(Nat) /\ handled \in Seq(Nat) /\ Len(out) <= MaxOut
  BY Lengths DEF FlowTypes
<1>3. /\ out' \in Seq(Nat) /\ Len(out) \in Nat /\ Len(out') = Len(out) - 1
      /\ Head(out) \in Nat
  BY <1>1, <1>2, TailFacts
<1>4. Len(out') <= MaxOut BY <1>2, <1>3, DaemonAssumption
<1>5. Ticked' = Ticked BY <1>1 DEF Ticked
<1>6. /\ Len(handled) <= Ticked /\ InChannel(out, Len(handled), Ticked) /\ Ticked \in Nat
      /\ Ticked <= given
  BY <1>2, SMT DEF FlowInv, Ticked
<1>7. CASE Head(out) = 0
  <2>1. handled' = handled BY <1>1, <1>7
  <2>2. InChannel(out', Len(handled), Ticked) BY <1>1, <1>2, <1>6, <1>7, PopNoise
  <2>3. FlowTypes' BY <1>1, <1>3, <1>4, <2>1 DEF FlowTypes
  <2> QED BY <1>1, <1>5, <2>1, <2>2, <2>3 DEF FlowInv
<1>8. CASE Head(out) # 0
  <2>1. /\ Head(out) = Len(handled) + 1 /\ Len(handled) + 1 <= Ticked
        /\ InChannel(out', Len(handled) + 1, Ticked)
    BY <1>1, <1>2, <1>6, <1>8, PopNext
  <2>2. handled' = Append(handled, Len(handled) + 1) BY <1>1, <1>8, <2>1
  <2>3. Len(handled) + 1 \in Nat BY <1>2
  <2>4. /\ handled' \in Seq(Nat) /\ Len(handled') = Len(handled) + 1
        /\ \A i \in 1..Len(handled) : handled'[i] = handled[i]
        /\ handled'[Len(handled) + 1] = Len(handled) + 1
    BY <1>2, <2>2, <2>3, AppendProperties
  <2>5. \A i \in 1..Len(handled') : handled'[i] = i
    <3>1. \A i \in 1..Len(handled') : i \in 1..Len(handled) \/ i = Len(handled) + 1
      BY <1>2, <2>4
    <3> QED BY <2>4, <3>1 DEF FlowInv
  <2>6. FlowTypes' BY <1>1, <1>3, <1>4, <2>4 DEF FlowTypes
  <2>7. Len(handled) + 1 <= given BY <1>2, <1>6, <2>1
  <2> QED BY <1>1, <1>5, <2>1, <2>2, <2>4, <2>5, <2>6, <2>7 DEF FlowInv
<1> QED BY <1>7, <1>8

-----------------------------------------------------------------------------
(* main, the test and the hand-shake, step by step.                        *)

\* What the steps of main leave of the fragments.
FlowStands == UNCHANGED <<rx_in, buffer, out, given, handled, status>>

LEMMA ExitStep ==
  ASSUME LinkInv, Exit, outcome' \in {outcome, "failed"}
  PROVE  LinkInv' /\ FlowStands /\ main' = "exited"
<1>1. /\ main' = "exited" /\ crucible' = FALSE /\ messaging' = FALSE /\ punching' = FALSE
      /\ connecting' = IF connecting = "none" THEN "none" ELSE "closed"
      /\ FlowStands
  BY DEF Exit, FlowStands
<1>2. main' \in MainPlaces /\ main' \notin BeforeLink /\ main' # "handshake"
  BY <1>1 DEF MainPlaces, BeforeLink
<1>3. outcome' = "fallback" => connecting' = "closed" BY <1>1 DEF LinkInv
<1>4. ~crucible' /\ ~messaging' /\ ~punching' /\ connecting' # "up" BY <1>1
<1> QED BY <1>1, <1>2, <1>3, <1>4 DEF LinkInv

\* From one place before the hand-shake to another.
LEMMA GoesStep ==
  ASSUME LinkInv, NEW to, Goes(to), main \in BeforeLink, to \in BeforeLink \cup {"idle"}
  PROVE  LinkInv' /\ FlowStands
<1>1. /\ main' = to /\ connecting' = connecting /\ outcome' = outcome /\ FlowStands
  BY DEF Goes, crucibleVars, messageVars, linkVars, FlowStands
<1>2. outcome = "none" /\ connecting = "none" BY DEF LinkInv
<1>3. main' \in MainPlaces /\ main' # "handshake" /\ main' # "exited"
  BY <1>1 DEF MainPlaces, BeforeLink
<1> QED BY <1>1, <1>2, <1>3 DEF LinkInv, Alive

LEMMA StartupStep ==
  ASSUME LinkInv, PacketInv, Startup \/ SignalerStarts
  PROVE  LinkInv' /\ PacketInv' /\ FlowStands
<1>1. CASE LoadLedger
  <2>1. main = "ledger" /\ packet' = packet BY <1>1 DEF LoadLedger
  <2>2. CASE Goes(IF "test_3hop" \in args THEN "build" ELSE "crucible")
    <3>1. main \in BeforeLink /\ "build" \in BeforeLink /\ "crucible" \in BeforeLink
      BY <2>1 DEF BeforeLink
    <3>2. LinkInv' /\ FlowStands BY <2>2, <3>1, GoesStep
    <3>3. main' # "hop" BY <2>2 DEF Goes
    <3> QED BY <2>1, <3>2, <3>3 DEF PacketInv
  <2>3. CASE Exit /\ outcome' = outcome
    BY <2>1, <2>3, ExitStep DEF PacketInv
  <2> QED BY <1>1, <2>2, <2>3 DEF LoadLedger
<1>2. CASE TestBuilds
  <2>1. main = "build" BY <1>2 DEF TestBuilds
  <2>2. CASE Fits(TestSize)
    <3>1. Goes("hop") /\ \E last \in {0, 1} : packet' = <<Build(TestSize, last)>>
      BY <1>2, <2>2 DEF TestBuilds
    <3>2. main \in BeforeLink /\ "hop" \in BeforeLink BY <2>1 DEF BeforeLink
    <3>3. LinkInv' /\ FlowStands BY <3>1, <3>2, GoesStep
    <3>4. TestSize \in Nat BY DaemonAssumption
    <3>5. PICK last \in {0, 1} : packet' = <<Build(TestSize, last)>> BY <3>1
    <3>6. Proper(Build(TestSize, last)) BY <2>2, <3>4, BuildIsProper
    <3>7. packet' # <<>> /\ packet'[1] = Build(TestSize, last) BY <3>5
    <3> QED BY <3>3, <3>6, <3>7 DEF PacketInv
  <2>3. CASE ~Fits(TestSize)
    <3>1. Exit /\ outcome' = outcome /\ packet' = packet BY <1>2, <2>3 DEF TestBuilds
    <3> QED BY <3>1, ExitStep DEF PacketInv
  <2> QED BY <2>2, <2>3
<1>3. CASE TestHops
  <2> DEFINE r == Unwrap(packet[1])
  <2>1. main = "hop" BY <1>3 DEF TestHops
  <2>2. main \in BeforeLink /\ "hop" \in BeforeLink /\ "crucible" \in BeforeLink
    BY <2>1 DEF BeforeLink
  <2>3. Proper(packet[1]) BY <2>1 DEF PacketInv
  <2>4. \/ r.kind = "relay" /\ Goes("hop") /\ packet' = <<r.next>>
        \/ Goes("crucible") /\ packet' = <<>>
        \/ Exit /\ outcome' = outcome /\ packet' = <<>>
    BY <1>3 DEF TestHops
  <2>5. CASE r.kind = "relay" /\ Goes("hop") /\ packet' = <<r.next>>
    <3>1. LinkInv' /\ FlowStands BY <2>2, <2>5, GoesStep
    <3>2. Proper(r.next) BY <2>3, <2>5, RelayIsProper
    <3>3. packet' # <<>> /\ packet'[1] = r.next BY <2>5
    <3> QED BY <3>1, <3>2, <3>3 DEF PacketInv
  <2>6. CASE Goes("crucible") /\ packet' = <<>>
    <3>1. LinkInv' /\ FlowStands BY <2>2, <2>6, GoesStep
    <3>2. main' # "hop" BY <2>6 DEF Goes
    <3> QED BY <2>6, <3>1, <3>2 DEF PacketInv
  <2>7. CASE Exit /\ outcome' = outcome /\ packet' = <<>>
    BY <2>7, ExitStep DEF PacketInv
  <2> QED BY <2>4, <2>5, <2>6, <2>7
<1>4. CASE SpawnCrucible
  <2>1. /\ main = "crucible" /\ main' = "signaler" /\ packet' = packet
        /\ connecting' = connecting /\ outcome' = outcome /\ FlowStands
    BY <1>4 DEF SpawnCrucible, messageVars, linkVars, FlowStands
  <2>2. main \in BeforeLink /\ main' \in BeforeLink /\ main' \in MainPlaces
    BY <2>1 DEF BeforeLink, MainPlaces
  <2>3. outcome = "none" /\ connecting = "none" BY <2>2 DEF LinkInv
  <2> QED BY <2>1, <2>2, <2>3 DEF LinkInv, PacketInv, Alive
<1>5. CASE SignalerStarts
  <2>1. main = "signaler" /\ packet' = packet BY <1>5 DEF SignalerStarts
  <2>2. outcome = "none" /\ connecting = "none" BY <2>1 DEF LinkInv, BeforeLink
  <2>3. CASE Exit /\ outcome' = outcome
    BY <2>1, <2>3, ExitStep DEF PacketInv
  <2>4. CASE ~(Exit /\ outcome' = outcome)
    <3>1. /\ main' \in {"connect", "idle"} /\ connecting' = connecting
          /\ outcome' = outcome /\ FlowStands
      BY <1>5, <2>4 DEF SignalerStarts, crucibleVars, linkVars, FlowStands
    <3>2. main' \in MainPlaces /\ main' # "hop" /\ main' # "handshake" /\ main' # "exited"
      BY <3>1 DEF MainPlaces
    <3>3. Alive' /\ outcome' = "none" /\ connecting' = "none"
      BY <2>2, <3>1, <3>2 DEF Alive
    <3>4. LinkInv' BY <3>2, <3>3 DEF LinkInv
    <3> QED BY <2>1, <3>1, <3>2, <3>4 DEF PacketInv
  <2> QED BY <1>5, <2>3, <2>4 DEF SignalerStarts
<1> QED BY <1>1, <1>2, <1>3, <1>4, <1>5 DEF Startup

LEMMA HandshakeStep ==
  ASSUME LinkInv, PacketInv,
         \/ Connect \/ PeerAnswers \/ ClientFinishes \/ DeadlinePasses \/ Established
         \/ Drop \/ Fallback \/ PeerFinishes \/ PeerCloses \/ PunchEnds
  PROVE  LinkInv' /\ PacketInv' /\ FlowStands
<1>1. CASE Connect
  <2>1. main = "connect" /\ packet' = packet BY <1>1 DEF Connect
  <2>2. outcome = "none" /\ connecting = "none" BY <2>1 DEF LinkInv, BeforeLink
  <2>3. CASE Exit /\ outcome' = "failed"
    BY <2>1, <2>3, ExitStep DEF PacketInv
  <2>4. CASE ~(Exit /\ outcome' = "failed")
    <3>1. /\ main' = "handshake" /\ connecting' = "connecting" /\ outcome' = outcome
          /\ FlowStands
      BY <1>1, <2>4 DEF Connect, crucibleVars, messageVars, FlowStands
    <3>2. main' \in MainPlaces /\ main' \notin BeforeLink
      BY <3>1 DEF MainPlaces, BeforeLink
    <3>3. Alive' /\ main' # "hop" /\ outcome' = "none"
      BY <2>2, <3>1 DEF Alive
    <3>4. LinkInv' BY <3>1, <3>2, <3>3 DEF LinkInv
    <3> QED BY <2>1, <3>1, <3>3, <3>4 DEF PacketInv
  <2> QED BY <1>1, <2>3, <2>4 DEF Connect
<1>2. CASE PeerAnswers \/ DeadlinePasses \/ PeerFinishes \/ PeerCloses
  <2>1. /\ main' = main /\ packet' = packet /\ crucible' = crucible
        /\ messaging' = messaging /\ punching' = punching
        /\ connecting' = connecting /\ outcome' = outcome /\ FlowStands
    BY <1>2 DEF PeerAnswers, DeadlinePasses, PeerFinishes, PeerCloses, tasks,
                crucibleVars, messageVars, FlowStands
  <2> QED BY <2>1 DEF LinkInv, PacketInv, Alive
<1>3. CASE Established
  <2>1. /\ main' = "drop" /\ connecting' = "up" /\ outcome' = "link" /\ packet' = packet
        /\ FlowStands
    BY <1>3 DEF Established, tasks, crucibleVars, messageVars, FlowStands
  <2>2. main' \in MainPlaces /\ main' \notin BeforeLink /\ main' # "exited"
    BY <2>1 DEF MainPlaces, BeforeLink
  <2> QED BY <2>1, <2>2 DEF LinkInv, PacketInv, Alive
<1>4. CASE Drop \/ Fallback
  <2>1. /\ main' = "idle" /\ connecting' = "closed" /\ packet' = packet /\ FlowStands
    BY <1>4 DEF Drop, Fallback, Abandoned, tasks, crucibleVars, messageVars, FlowStands
  <2>2. main' \in MainPlaces /\ main' \notin BeforeLink /\ main' # "exited"
    BY <2>1 DEF MainPlaces, BeforeLink
  <2> QED BY <2>1, <2>2 DEF LinkInv, PacketInv, Alive
<1>5. CASE PunchEnds
  <2>1. /\ main' = main /\ packet' = packet /\ crucible' = crucible
        /\ messaging' = messaging /\ punching' = FALSE
        /\ connecting' = connecting /\ outcome' = outcome /\ FlowStands
    BY <1>5 DEF PunchEnds, tasks, crucibleVars, messageVars, FlowStands
  <2> QED BY <2>1 DEF LinkInv, PacketInv, Alive
<1>6. CASE ClientFinishes
  <2>1. /\ main' = main /\ packet' = packet /\ crucible' = crucible
        /\ messaging' = messaging /\ punching' = punching
        /\ connecting = "connecting" /\ connecting' = "finished" /\ outcome' = outcome
        /\ FlowStands
    BY <1>6 DEF ClientFinishes, tasks, crucibleVars, messageVars, FlowStands
  <2> QED BY <2>1 DEF LinkInv, PacketInv, Alive
<1> QED BY <1>1, <1>2, <1>3, <1>4, <1>5, <1>6

-----------------------------------------------------------------------------

Flows == Give \/ queue_fragment \/ CrucibleTick \/ Transmit \/ StatusChanges

LEMMA OthersLeaveFlow ==
  ASSUME LinkInv, PacketInv, [DaemonNext]_daemonVars, ~Flows
  PROVE  LinkInv' /\ PacketInv' /\ FlowStands
<1>1. CASE UNCHANGED daemonVars
  BY <1>1 DEF daemonVars, crucibleVars, messageVars, linkVars, LinkInv, PacketInv, Alive,
              FlowStands
<1> QED BY <1>1, StartupStep, HandshakeStep DEF DaemonNext, Flows

LEMMA DaemonStep ==
  ASSUME DaemonIInv, [DaemonNext]_daemonVars
  PROVE  DaemonIInv'
<1>1. LinkInv /\ PacketInv /\ FlowTypes /\ FlowInv BY DEF DaemonIInv
<1>2. CASE Flows
  <2>1. /\ main' = main /\ packet' = packet /\ crucible' = crucible
        /\ messaging' = messaging /\ punching' = punching
        /\ connecting' = connecting /\ outcome' = outcome
    BY <1>2 DEF Flows, Give, queue_fragment, CrucibleTick, Transmit, StatusChanges, others,
                crucibleVars, messageVars, linkVars
  <2>2. LinkInv' /\ PacketInv' BY <1>1, <2>1 DEF LinkInv, PacketInv, Alive
  <2>3. CASE StatusChanges
    <3>1. UNCHANGED <<rx_in, buffer, out, given, handled>>
          /\ status' \in {"Active", "Muted"}
      BY <2>3 DEF StatusChanges, crucibleVars
    <3> QED BY <1>1, <2>2, <3>1, FlowKept DEF DaemonIInv
  <2>4. FlowTypes' /\ FlowInv'
    BY <1>1, <1>2, <2>3, GiveStep, QueueStep, TickStep, TransmitStep DEF Flows, DaemonIInv
  <2> QED BY <2>2, <2>4 DEF DaemonIInv
<1>3. CASE ~Flows
  <2>1. LinkInv' /\ PacketInv' /\ FlowStands BY <1>1, <1>3, OthersLeaveFlow
  <2>2. UNCHANGED <<rx_in, buffer, out, given, handled>> /\ status' \in {"Active", "Muted"}
    BY <1>1, <2>1 DEF FlowStands, FlowTypes
  <2> QED BY <1>1, <2>1, <2>2, FlowKept DEF DaemonIInv
<1> QED BY <1>2, <1>3

LEMMA DaemonStarts ==
  ASSUME DaemonInit
  PROVE  DaemonIInv
<1>1. /\ main = "ledger" /\ packet = <<>> /\ rx_in = <<>> /\ buffer = <<>> /\ out = <<>>
      /\ status = "Active" /\ given = 0 /\ handled = <<>>
      /\ connecting = "none" /\ outcome = "none"
  BY DEF DaemonInit
<1>2. LinkInv
  <2>1. main \in MainPlaces /\ main # "handshake" /\ Alive BY <1>1 DEF MainPlaces, Alive
  <2>2. outcome # "fallback" BY <1>1
  <2> QED BY <1>1, <2>1, <2>2 DEF LinkInv
<1>3. PacketInv BY <1>1 DEF PacketInv
<1>4. FlowTypes BY <1>1, EmptySeq, DaemonAssumption DEF FlowTypes
<1>5. Len(<<>>) = 0 BY EmptySeq
<1>6. Ticked = 0
  <2>1. Len(rx_in) = 0 /\ Len(buffer) = 0 /\ given = 0 BY <1>1, <1>5
  <2> QED BY <2>1 DEF Ticked
<1>7. FlowInv BY <1>1, <1>5, <1>6, SMT DEF FlowInv, InChannel
<1> QED BY <1>2, <1>3, <1>4, <1>7 DEF DaemonIInv

\* Every packet a hop of the test is given has the size of the first one, a fallback
\* leaves no attempt behind, and nothing outlives the process.
THEOREM DaemonInvHolds == DaemonSpec => []DaemonInv
<1>1. DaemonInit => DaemonIInv BY DaemonStarts
<1>2. DaemonIInv /\ [DaemonNext]_daemonVars => DaemonIInv' BY DaemonStep
<1>3. DaemonIInv => DaemonInv
  <2> SUFFICES ASSUME DaemonIInv PROVE DaemonInv OBVIOUS
  <2>1. packet # <<>> => Size(packet[1]) = Mtu
    <3>1. ASSUME packet # <<>> PROVE Size(packet[1]) = Mtu
      <4>1. /\ Len(packet[1].header) = CtSize /\ Len(packet[1].payload) = Mtu - CtSize
        BY <3>1 DEF DaemonIInv, PacketInv, Proper
      <4>2. CtSize \in Nat /\ Mtu \in Nat BY SphinxAssumption
      <4> QED BY <4>1, <4>2, SMT DEF Size
    <3> QED BY <3>1
  <2>2. LinkInv /\ FlowTypes BY DEF DaemonIInv
  <2> QED BY <2>1, <2>2 DEF DaemonInv, LinkInv, FlowTypes, MainPlaces
<1> QED BY <1>1, <1>2, <1>3, PTL DEF DaemonSpec

\* The fragments leave the daemon in the order they were given, each once: every step is a
\* fragment given, the next one taken out by the messaging loop, or nothing.
THEOREM FragmentsInOrder == DaemonSpec => ImplementsInOrderFragments
<1>1. DaemonInit => Fragments!Init BY DEF DaemonInit, Fragments!Init
<1>2. DaemonIInv /\ [DaemonNext]_daemonVars => [Fragments!Next]_Fragments!deliveryVars
  <2> SUFFICES ASSUME DaemonIInv, [DaemonNext]_daemonVars
               PROVE  Fragments!Next \/ UNCHANGED <<given, handled>>
    BY DEF Fragments!deliveryVars
  <2>1. LinkInv /\ PacketInv /\ FlowTypes /\ FlowInv BY DEF DaemonIInv
  <2>2. CASE Give
    BY <2>2 DEF Give, Fragments!Next, Fragments!Send
  <2>3. CASE Transmit
    <3>1. /\ given' = given
          /\ \/ handled' = handled
             \/ handled' = Append(handled, Len(handled) + 1) /\ Len(handled) + 1 <= given
      BY <2>1, <2>3, TransmitStep
    <3>2. CASE handled' = handled BY <3>1, <3>2
    <3>3. CASE handled' = Append(handled, Len(handled) + 1) /\ Len(handled) + 1 <= given
      <4> DEFINE m == Len(handled) + 1
                 next == [i \in 1..m |-> IF i <= Len(handled) THEN handled[i] ELSE i]
      <4>1. /\ handled \in Seq(Nat) /\ Len(handled) \in Nat /\ given \in Nat
        BY <2>1, Lengths DEF FlowTypes
      <4>2. m \in Len(handled)..given /\ m \in Nat BY <3>3, <4>1
      <4>3. /\ handled' \in Seq(Nat) /\ Len(handled') = m
            /\ \A i \in 1..Len(handled) : handled'[i] = handled[i]
            /\ handled'[m] = m
        BY <3>3, <4>1, <4>2, AppendProperties
      <4>4. handled' \in [1..m -> Nat] BY <4>3, LenProperties
      <4>5. \A i \in 1..m : handled'[i] = next[i]
        <5>1. \A i \in 1..m : i \in 1..Len(handled) \/ i = m BY <4>1
        <5>2. \A i \in 1..Len(handled) : i <= Len(handled) BY <4>1
        <5>3. ~(m <= Len(handled)) BY <4>1
        <5> QED BY <4>3, <5>1, <5>2, <5>3
      <4>6. handled' = next BY <4>4, <4>5
      <4> QED BY <3>1, <4>2, <4>6 DEF Fragments!Next, Fragments!Deliver
    <3> QED BY <3>1, <3>2, <3>3
  <2>4. CASE queue_fragment \/ CrucibleTick \/ StatusChanges
    BY <2>4 DEF queue_fragment, CrucibleTick, StatusChanges, messageVars
  <2>5. CASE ~Flows BY <2>1, <2>5, OthersLeaveFlow DEF FlowStands
  <2> QED BY <2>2, <2>3, <2>4, <2>5 DEF Flows
<1> QED
  BY DaemonStarts, DaemonStep, <1>1, <1>2, PTL
  DEF DaemonSpec, ImplementsInOrderFragments, Fragments!Spec
=============================================================================
