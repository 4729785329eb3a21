-------------------------------- MODULE Heap --------------------------------
(***************************************************************************)
(* What the memory manager of clox promises the compiler and the VM: a     *)
(* heap on which a collection, in one step, forgets the objects that no    *)
(* root reaches and nothing else.                                          *)
(***************************************************************************)
CONSTANTS Obj, Component

VARIABLES live,     \* the objects on the heap
          refs,     \* refs[o]: the objects that the fields of o point to
          roots,    \* roots[c]: what the markRoots function of component c marks
          strings   \* keys of the intern table, which does not keep them alive

vars == <<live, refs, roots, strings>>

Roots == UNION {roots[c] : c \in Component}

Closed(S) == \A o \in S : refs[o] \subseteq S

\* The least closed set that holds the roots.
Reachable == {o \in Obj : \A S \in SUBSET Obj : Roots \subseteq S /\ Closed(S) => o \in S}

Init == /\ live = {} /\ strings = {}
        /\ refs = [o \in Obj |-> {}]
        /\ roots = [c \in Component |-> {}]

Allocate(o, c) == /\ o \notin live
                  /\ live' = live \cup {o}
                  /\ refs' = [refs EXCEPT ![o] = {}]
                  /\ roots' = [roots EXCEPT ![c] = @ \cup {o}]
                  /\ UNCHANGED strings

\* The program changes references and roots, among the objects it can get at
\* and the strings that the intern table finds for it.
Mutate ==
    LET reach == Reachable
    IN  /\ UNCHANGED live
        /\ \A o \in Obj : refs'[o] # refs[o] => o \in reach
        /\ \A o \in Obj : refs'[o] \subseteq refs[o] \cup reach
        /\ \A c \in Component : roots'[c] \subseteq reach \cup strings
        /\ strings \subseteq strings' /\ strings' \subseteq strings \cup reach

Collect == /\ UNCHANGED <<refs, roots>>
           /\ live' = Reachable
           /\ strings' = strings \cap live'

Next == \/ \E o \in Obj, c \in Component : Allocate(o, c)
        \/ Mutate
        \/ Collect

Spec == Init /\ [][Next]_vars
=============================================================================
