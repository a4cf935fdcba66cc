---------------------------- MODULE BuddyAllocator ----------------------------
(***************************************************************************)
(* The allocator of the bare-metal kernel (sovereign-alloc): a buddy       *)
(* system over one static pool, used through the GlobalAlloc facade, and   *)
(* the flag that forbids the heap while the metronome runs.                *)
(*                                                                         *)
(* Addresses count smallest blocks from the base of the pool; layouts      *)
(* count bytes. The free lists are the linked lists of the code, newest    *)
(* block first. The kernel has one core and no second thread, so a call    *)
(* is one step.                                                            *)
(***************************************************************************)
EXTENDS Integers, FiniteSets, SequencesExt

CONSTANTS MIN_BLOCK,   \* bytes in a block of order 0
          MaxOrder,    \* the pool is one block of this order (3 in kernel-minimal)
          PoolBase,    \* address of the pool's first byte
          Sizes, Aligns \* sizes and alignments asked for, in bytes

Layouts == [size : Sizes, align : Aligns]

\* 1 << k
Pow2[k \in Nat] == IF k = 0 THEN 1 ELSE 2 * Pow2[k - 1]

\* The alignment of a Layout is a power of two, and the pool is aligned to every one asked
\* for: the code promises 4096 (repr(align) of StaticPool), so none above that is asked.
ASSUME AllocAssumption ==
  /\ MIN_BLOCK \in Nat \ {0} /\ MaxOrder \in Nat
  /\ Sizes \subseteq Nat \ {0}
  /\ Aligns \subseteq Nat /\ \A a \in Aligns : \E k \in 0..a : a = Pow2[k]
  /\ PoolBase \in Nat /\ \A a \in Aligns : PoolBase % a = 0

VARIABLES
  initialised, \* init() has run: BUDDY is Some
  free,        \* order -> list of free blocks
  live,        \* blocks callers hold: [at, order, layout]
  active,      \* METRONOME_THREAD_ACTIVE
  panicked     \* the panic handler spins

heapVars == <<initialised, free, live, active, panicked>>

BuddyOrders == 0..MaxOrder
Block(o) == Pow2[o]                \* in smallest blocks
PoolUnits == Block(MaxOrder)

\* A request of size and alignment, rounded up to a power of two.
Rounded(l) ==
  LET need == Max({l.size, l.align, MIN_BLOCK})
  IN  Min({n \in {Pow2[k] : k \in 0..need} : n >= need})

layout_to_buddy(l) == [size |-> Rounded(l), align |-> MIN_BLOCK]

\* Fault variant: the order one below.
order_for_layout_small(l) ==
  LET bytes == Max({l.size, l.align, MIN_BLOCK})
  IN  {o \in 0..(MaxOrder + 1) : MIN_BLOCK * Block(o + 1) = bytes}

\* The order of a layout, in a singleton set; the empty set is None.
order_for_layout(l) ==
  LET bytes == Max({l.size, l.align, MIN_BLOCK})
  IN  {o \in 0..(MaxOrder + 1) : MIN_BLOCK * Block(o) = bytes}

HeapInit ==
  /\ initialised = FALSE
  /\ free = [o \in BuddyOrders |-> <<>>]
  /\ live = {}
  /\ active = FALSE
  /\ panicked = FALSE

(***************************************************************************)
(* init_static_pool on bare metal: the pool becomes one free block.        *)
(* enter_metronome_thread and leave_metronome_thread store the flag.       *)
(***************************************************************************)

init ==
  /\ ~panicked /\ ~initialised
  /\ initialised' = TRUE
  /\ free' = [o \in BuddyOrders |-> IF o = MaxOrder THEN <<0>> ELSE <<>>]
  /\ UNCHANGED <<live, active, panicked>>

enter_metronome_thread ==
  /\ ~panicked /\ ~active /\ active' = TRUE
  /\ UNCHANGED <<initialised, free, live, panicked>>

leave_metronome_thread ==
  /\ ~panicked /\ active /\ active' = FALSE
  /\ UNCHANGED <<initialised, free, live, panicked>>

\* assert_heap_allowed: any use of the heap while the flag is set is the end.
HeapForbidden ==
  /\ ~panicked /\ active
  /\ panicked' = TRUE
  /\ UNCHANGED <<initialised, free, live, active>>

(***************************************************************************)
(* alloc: the first non-empty list from the wanted order up gives its      *)
(* newest block; the upper halves split off it go to the lists below.      *)
(***************************************************************************)

Split(f, target, found) ==
  [o \in BuddyOrders |->
     IF o = found THEN Tail(f[o])
     ELSE IF target <= o /\ o < found THEN <<Head(f[found]) + Block(o)>> \o f[o]
     ELSE f[o]]

Fits(f, target) == {o \in BuddyOrders : o >= target /\ f[o] # <<>>}

alloc(l) ==
  /\ ~panicked /\ ~active
  /\ initialised
  /\ \E target \in order_for_layout(layout_to_buddy(l)) :
       /\ Fits(free, target) # {}
       /\ LET found == Min(Fits(free, target)) IN
            /\ live' = live \cup {[at |-> Head(free[found]), order |-> target, layout |-> l]}
            /\ free' = Split(free, target, found)
  /\ UNCHANGED <<initialised, active, panicked>>

\* The null pointer: before init(), or when no block is large enough.
AllocFails(l) ==
  /\ ~panicked /\ ~active
  /\ \/ ~initialised
     \/ \A o \in order_for_layout(layout_to_buddy(l)) : Fits(free, o) = {}
  /\ UNCHANGED heapVars

(***************************************************************************)
(* dealloc: as long as the buddy is on the list of its order it is taken   *)
(* off and the two become one block of the next order.                     *)
(***************************************************************************)

\* Fault variant: the neighbour above is taken for the buddy.
buddy_above(at, o) == at + Block(o)

buddy_ptr(at, o) == IF (at \div Block(o)) % 2 = 0 THEN at + Block(o) ELSE at - Block(o)

\* The block that contains at once blocks have been merged up to order o.
Merged(at, o) == at - (at % Block(o))

\* take_buddy at an order: the buddy of what has been merged is on the list.
BuddyFree(f, at, k) == Contains(f[k], buddy_ptr(Merged(at, k), k))

\* The order at which merging ends.
Top(f, at, o) == Min({k \in o..MaxOrder : k = MaxOrder \/ ~BuddyFree(f, at, k)})

\* The list without one of its blocks.
Without(list, block) ==
  RemoveAt(list, CHOOSE i \in DOMAIN list : list[i] = block)

Coalesce(f, at, o) ==
  LET top == Top(f, at, o)
  IN  [k \in BuddyOrders |->
         IF k \in o..(top - 1) THEN Without(f[k], buddy_ptr(Merged(at, k), k))
         ELSE IF k = top THEN <<Merged(at, k)>> \o f[k]
         ELSE f[k]]

dealloc(b) ==
  /\ ~panicked /\ ~active
  /\ b \in live
  /\ live' = live \ {b}
  /\ \E o \in order_for_layout(layout_to_buddy(b.layout)) :
       free' = Coalesce(free, b.at, o)
  /\ UNCHANGED <<initialised, active, panicked>>

HeapNext ==
  \/ init \/ enter_metronome_thread \/ leave_metronome_thread \/ HeapForbidden
  \/ \E l \in Layouts : alloc(l) \/ AllocFails(l)
  \/ \E b \in live : dealloc(b)

HeapSpec == HeapInit /\ [][HeapNext]_heapVars

-----------------------------------------------------------------------------

\* A block is <<order, at>>.
FreeBlocks == {b \in BuddyOrders \X (0..(PoolUnits - 1)) : Contains(free[b[1]], b[2])}
Held == {<<b.order, b.at>> : b \in live}

Units(b) == b[2]..(b[2] + Block(b[1]) - 1)
Covered(blocks) == UNION {Units(b) : b \in blocks}
Apart(blocks) == \A b, c \in blocks : b # c => Units(b) \cap Units(c) = {}

HeapTypeOK ==
  /\ free \in [BuddyOrders -> Seq(0..(PoolUnits - 1))]
  /\ live \subseteq [at : 0..(PoolUnits - 1), order : BuddyOrders, layout : Layouts]
  /\ initialised \in BOOLEAN /\ active \in BOOLEAN /\ panicked \in BOOLEAN

\* Whatever the order of splits and frees, the free lists and the blocks callers hold
\* are a partition of the pool: no byte is in two blocks and none is lost, and no list
\* holds a block twice (which the links inside the blocks would turn into a cycle).
PoolPartition ==
  initialised =>
    /\ \A o \in BuddyOrders : IsInjective(free[o])
    /\ FreeBlocks \cap Held = {}
    /\ \A b, c \in live : b.at = c.at => b = c
    /\ Apart(FreeBlocks \cup Held)
    /\ Covered(FreeBlocks \cup Held) = 0..(PoolUnits - 1)

\* No two buddies are free at once: what can be merged has been, so that after the
\* last free the pool is one block again and fragmentation leaves no trace.
FullyCoalesced ==
  initialised =>
    \A o \in 0..(MaxOrder - 1), at \in 0..PoolUnits :
      Contains(free[o], at) => ~Contains(free[o], buddy_ptr(at, o))

\* No room is lost to fragmentation: a request of an order fails only when a block in
\* use lies at every place a block of that order could have.
Places(o) == {at \in 0..(PoolUnits - 1) : at % Block(o) = 0}
NoRoomLost ==
  initialised =>
    \A o \in BuddyOrders :
      Fits(free, o) = {} => \A at \in Places(o) : Units(<<o, at>>) \cap Covered(Held) # {}

Address(b) == PoolBase + b.at * MIN_BLOCK

\* A pointer is aligned as its layout asks, though the rounded layout the allocator sees
\* has lost the alignment and the pool is aligned to less than its size.
AlignedAsAsked == \A b \in live : Address(b) % b.layout.align = 0

\* What the allocator relies on from call to call, and its callers on every pointer.
HeapInv ==
  HeapTypeOK /\ PoolPartition /\ FullyCoalesced /\ NoRoomLost /\ AlignedAsAsked

\* Seen by its callers the allocator is a heap of disjoint blocks that are as large as
\* was asked for.
CeilUnits(bytes) == (bytes + MIN_BLOCK - 1) \div MIN_BLOCK
Heap == INSTANCE DisjointHeap WITH
          used <- {[at |-> b.at, units |-> Block(b.order),
                    need |-> CeilUnits(b.layout.size)] : b \in live}
ImplementsHeap == Heap!Spec
===============================================================================
