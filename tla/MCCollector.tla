---------------------------- MODULE MCCollector ----------------------------
(* The collector on heaps of three objects. *)
EXTENDS Collector, TLC

Symmetry == Permutations(Obj)
=============================================================================
