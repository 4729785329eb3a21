----------------------------- MODULE Dictionary -----------------------------
(***************************************************************************)
(* What clox/table.c promises its clients: a finite map from interned      *)
(* strings to values.  The table behind vm->strings is weak: a collection  *)
(* chooses a set of unmarked keys, and those keys, and no others, may be   *)
(* forgotten.                                                              *)
(***************************************************************************)
CONSTANTS Key,    \* ObjString pointers
          Text,   \* Text[k] is the character content of string k
          Value,  \* what a Value word may hold
          Absent  \* "no such key"

VARIABLES dict,      \* the map, a function with a finite domain
          unmarked,  \* keys the last collection left unmarked
          result     \* what the last operation returned

vars == <<dict, unmarked, result>>

Init == /\ dict = [k \in {} |-> Absent]
        /\ unmarked = {}
        /\ result = Absent

Get(k) == /\ result' = IF k \in DOMAIN dict THEN dict[k] ELSE Absent
          /\ UNCHANGED <<dict, unmarked>>

Put(k, v) == /\ dict' = [x \in DOMAIN dict \cup {k} |-> IF x = k THEN v ELSE dict[x]]
             /\ result' = (k \notin DOMAIN dict)
             /\ UNCHANGED unmarked

Without(k) == [x \in DOMAIN dict \ {k} |-> dict[x]]

Remove(k) == /\ dict' = Without(k)
             /\ result' = (k \in DOMAIN dict)
             /\ UNCHANGED unmarked

FindText(t) ==
    LET same == {k \in DOMAIN dict : Text[k] = t}
    IN  /\ result' \in IF same = {} THEN {Absent} ELSE same
        /\ UNCHANGED <<dict, unmarked>>

Collect == /\ unmarked' \in SUBSET Key
           /\ UNCHANGED <<dict, result>>

Forget(k) == /\ k \in unmarked \cap DOMAIN dict
             /\ dict' = Without(k)
             /\ UNCHANGED <<unmarked, result>>

Clear == /\ dict' = [k \in {} |-> Absent]
         /\ UNCHANGED <<unmarked, result>>

Next == \/ \E k \in Key : Get(k) \/ Remove(k) \/ Forget(k)
        \/ \E k \in Key, v \in Value : Put(k, v)
        \/ \E k \in Key : FindText(Text[k])
        \/ Collect \/ Clear

Spec == Init /\ [][Next]_vars
=============================================================================
