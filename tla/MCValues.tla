------------------------------ MODULE MCValues ------------------------------
(* A word of eight bits: the sign, two bits of exponent, two bits of QNAN    *)
(* and three that are left for tags and addresses.                           *)
EXTENDS Values, Naturals

EightBits == 0..7
Doubles == {x \in SUBSET EightBits : ~({3, 4, 5, 6} \subseteq x)}
Addresses == SUBSET (0..2)
=============================================================================
