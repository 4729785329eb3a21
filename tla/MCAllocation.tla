---------------------------- MODULE MCAllocation ----------------------------
(* Few objects, all alike: they can be permuted.                             *)
EXTENDS Allocation

Symmetry == Permutations(Obj)
=============================================================================
