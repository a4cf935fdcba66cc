----------------------------- MODULE DisjointHeap -----------------------------
(***************************************************************************)
(* What a user of the kernel's allocator relies on: a block that is handed *)
(* out is large enough, lies inside the pool and overlaps no other block   *)
(* in use; a block that is given back is gone.                             *)
(***************************************************************************)
EXTENDS Integers, FiniteSets

CONSTANT PoolUnits       \* size of the pool in smallest blocks
VARIABLE used            \* blocks in use: [at, units, need]

Cells(b) == b.at..(b.at + b.units - 1)

Init == used = {}

Alloc ==
  \E at \in 0..(PoolUnits - 1), units \in 1..PoolUnits :
    \E need \in 1..units :
      LET b == [at |-> at, units |-> units, need |-> need] IN
        /\ Cells(b) \subseteq 0..(PoolUnits - 1)
        /\ \A u \in used : Cells(u) \cap Cells(b) = {}
        /\ used' = used \cup {b}

Free == \E b \in used : used' = used \ {b}

Spec == Init /\ [][Alloc \/ Free]_used
===============================================================================
