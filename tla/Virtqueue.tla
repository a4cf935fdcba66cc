------------------------------ MODULE Virtqueue ------------------------------
(***************************************************************************)
(* What the two virtqueues of the kernel's virtio-net driver have in       *)
(* common: a ring of descriptors, a power of two of them, addressed by     *)
(* 16-bit indices that are never reset and wrap.                           *)
(***************************************************************************)
EXTENDS Integers

CONSTANTS
  Depth,      \* tx_depth, rx_depth: QUEUE_DEPTH = 8, or less if the device has less
  IdxMod,     \* the indices are counted modulo this: 2^16
  MaxFrames   \* bound: frames sent or received in a behaviour

ASSUME VirtqueueAssumption ==
  /\ Depth \in Nat \ {0} /\ IdxMod \in Nat \ {0}
  /\ IdxMod % Depth = 0 /\ Depth < IdxMod
  /\ MaxFrames \in Nat

Slots == 0..(Depth - 1)
Nobody == Depth

\* wrapping_add(1) on an index.
Inc(i) == (i + 1) % IdxMod
==============================================================================
