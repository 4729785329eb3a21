----------------------------- MODULE MCUpvalues -----------------------------
(* Upvalues on small stacks: two closures over two variables. *)
EXTENDS Upvalues, TLC
=============================================================================
