--------------------------- MODULE InOrderDelivery ---------------------------
(***************************************************************************)
(* In-order, exactly-once delivery: what is sent is numbered 1, 2, ... and *)
(* comes out in that order, each number once and none skipped.  The        *)
(* daemon's causal buffer promises it to the layer above it, whatever the  *)
(* network does to the ticks of a peer; the kernel's transmit virtqueue    *)
(* promises it to the metronome.                                           *)
(***************************************************************************)
EXTENDS Integers, Sequences

VARIABLES
  sent,        \* 1..sent have been sent
  delivered    \* what came out, in order

deliveryVars == <<sent, delivered>>

Init == sent = 0 /\ delivered = <<>>

Send == sent' = sent + 1 /\ UNCHANGED delivered

\* What closes a gap releases what waits behind it too.
Deliver ==
  \E m \in Len(delivered)..sent :
    /\ delivered' = [i \in 1..m |-> IF i <= Len(delivered) THEN delivered[i] ELSE i]
    /\ UNCHANGED sent

Next == Send \/ Deliver

Spec == Init /\ [][Next]_deliveryVars
==============================================================================
