------------------------------- MODULE Sphinx -------------------------------
(***************************************************************************)
(* The large onion packet (pq-onion, SphinxPacket) as the bytes it is made *)
(* of: a header that a hop decapsulates, and a payload that starts with    *)
(* the number of hops left.  The payload is not encrypted in this version, *)
(* so that a hop's work is to cut the next header off and to pad.          *)
(*                                                                         *)
(* A byte is a value and the field it was written for; only hop counts,    *)
(* lengths and the last byte of the exit's ciphertext are told apart by    *)
(* value.  Decapsulation accepts any ciphertext of the right length.       *)
(***************************************************************************)
EXTENDS Integers, Sequences

CONSTANTS
  Mtu,     \* SPHINX_MTU
  CtSize,  \* KYBER_CT_SIZE
  Margin   \* what build adds for headers and a proof, 4096 in the code

ASSUME SphinxAssumption ==
  /\ CtSize \in Nat \ {0}
  /\ Margin \in Nat /\ Margin >= 7  \* hop counts and the length field
  /\ Mtu \in Nat /\ Mtu >= 3 * CtSize + 7

Bytes(of, n, val) == [i \in 1..n |-> [of |-> of, val |-> val]]
Noise(n) == Bytes("noise", n, 1)
Hops(n) == Bytes("hops", 1, n)
Ciphertext(hop, last) == Bytes(hop, CtSize - 1, 1) \o Bytes(hop, 1, last)

Size(packet) == Len(packet.header) + Len(packet.payload)

Fits(n) == n + 3 * CtSize + Margin <= Mtu

\* build, for n bytes without a proof and an exit ciphertext that ends in `last`.
Build(n, last) ==
  LET exit   == Hops(0) \o Bytes("length", 4, 0) \o Bytes("data", n, 1)
      middle == Hops(1) \o Ciphertext("exit", last) \o exit
      guard  == Hops(2) \o Ciphertext("middle", 1) \o middle
      short  == Mtu - CtSize - Len(guard)
  IN [header |-> Ciphertext("guard", 1),
      payload |-> guard \o Noise(IF short > 0 THEN short ELSE 0)]

BigEndian(b) == ((b[1].val * 256 + b[2].val) * 256 + b[3].val) * 256 + b[4].val

\* Fault variant: the header taken off is not replaced by noise.
Next_unpadded(hops, inner) ==
  [header  |-> SubSeq(inner, 1, CtSize),
   payload |-> Hops(hops - 1) \o SubSeq(inner, CtSize + 1, Len(inner))]

\* What a relay passes on.
NextPacket(hops, inner) ==
  [header  |-> SubSeq(inner, 1, CtSize),
   payload |-> Hops(hops - 1) \o SubSeq(inner, CtSize + 1, Len(inner)) \o Noise(CtSize)]

Failed == [kind |-> "error"]

\* The proof, if there is one, is cut off; the padding is not.
AtExit(inner) ==
  LET n == BigEndian(inner)
  IN IF Len(inner) < 4 \/ Len(inner) < 4 + n
       THEN Failed
       ELSE [kind |-> "exit", data |-> SubSeq(inner, 5 + n, Len(inner))]

Unwrap(packet) ==
  LET inner == Tail(packet.payload)
      hops  == Head(packet.payload).val
  IN CASE packet.payload = <<>> -> Failed
       [] packet.payload # <<>> /\ hops = 0 -> AtExit(inner)
       [] packet.payload # <<>> /\ hops > 0 /\ Len(inner) < CtSize -> Failed
       [] OTHER -> [kind |-> "relay", next |-> NextPacket(hops, inner)]
=============================================================================
