------------------------------ MODULE MCTable ------------------------------
(* Table with three keys whose hashes collide and wrap around the array. *)
EXTENDS Table, TLC

CONSTANTS k1, k2, k3

MCKey == {k1, k2, k3}
MCText == (k1 :> "a") @@ (k2 :> "b") @@ (k3 :> "c")
MCHash == ("a" :> 3) @@ ("b" :> 3) @@ ("c" :> 6)
=============================================================================
