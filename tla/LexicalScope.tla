---------------------------- MODULE LexicalScope ----------------------------
(***************************************************************************)
(* What the upvalue machinery of clox/vm.c promises the Lox programmer: a  *)
(* closure closes over variables, not values.  A variable is one cell; the *)
(* activation that declared it and every closure that captured it share    *)
(* the cell, and the cell lives until the last of them is gone.            *)
(***************************************************************************)
EXTENDS Naturals, Sequences

CONSTANTS Variable, Value

VARIABLES activations,  \* calls in progress: [closure, locals], locals in scope order
          captures,     \* captures[c]: the variables closure c closed over
          store         \* the value of every variable that can still be reached

vars == <<activations, captures, store>>

-----------------------------------------------------------------------------
Members(s) == {s[i] : i \in DOMAIN s}

Reachable(acts, caps) ==
    (UNION {Members(acts[i].locals) : i \in DOMAIN acts})
        \cup (UNION {Members(caps[c]) : c \in DOMAIN caps})

Running == activations[Len(activations)]

InScope == Members(Running.locals) \cup Members(captures[Running.closure])

\* No reachable variable but those of X changes its value.
Preserved(X) ==
    LET old == store
        new == store'
    IN  /\ DOMAIN new = Reachable(activations', captures')
        /\ \A x \in DOMAIN new \ X : x \in DOMAIN old /\ new[x] = old[x]

-----------------------------------------------------------------------------
Init == /\ activations = <<>>
        /\ captures = [c \in {0} |-> <<>>]
        /\ store = [x \in {} |-> 0]

\* A top-level script starts, as closure 0.
Start == /\ activations = <<>>
         /\ activations' = <<[closure |-> 0, locals |-> <<>>]>>
         /\ UNCHANGED captures
         /\ Preserved({})

\* A local declaration brings one new variable into scope.
Declare(x) ==
    /\ activations # <<>> /\ x \notin Reachable(activations, captures)
    /\ activations' = [activations EXCEPT ![Len(activations)].locals = Append(@, x)]
    /\ Preserved({x})

\* The innermost local goes out of scope.
EndScope ==
    /\ activations # <<>> /\ Running.locals # <<>>
    /\ activations' = [activations EXCEPT ![Len(activations)].locals =
                                              SubSeq(@, 1, Len(@) - 1)]
    /\ UNCHANGED captures
    /\ Preserved({})

Write(x) == /\ activations # <<>>
            /\ UNCHANGED <<activations, captures>>
            /\ x \in InScope /\ store'[x] \in Value
            /\ Preserved({x})

\* A closure captures variables in scope; a function declaration may also
\* capture the variable X that it declares.
Close(X) ==
    \E c \in DOMAIN captures' :
        /\ c \notin DOMAIN captures
        /\ DOMAIN captures' = DOMAIN captures \cup {c}
        /\ \A d \in DOMAIN captures : captures'[d] = captures[d]
        /\ Members(captures'[c]) \subseteq InScope \cup X

MakeClosure == /\ activations # <<>> /\ Close({})
               /\ UNCHANGED activations
               /\ Preserved({})

\* A call binds one new variable to each argument.
Call == /\ activations # <<>> /\ Len(activations') = Len(activations) + 1
        /\ SubSeq(activations', 1, Len(activations)) = activations
        /\ LET new == activations'[Len(activations')]
           IN  /\ new.closure \in DOMAIN captures
               /\ Members(new.locals) \cap Reachable(activations, captures) = {}
               /\ Preserved(Members(new.locals))
        /\ UNCHANGED captures

Return == /\ activations # <<>>
          /\ activations' = SubSeq(activations, 1, Len(activations) - 1)
          /\ UNCHANGED captures
          /\ Preserved({})

\* A runtime error ends every activation; what closures captured survives.
Abort == /\ activations' = <<>>
         /\ UNCHANGED captures
         /\ Preserved({})

\* The process ends.
Exit == /\ activations' = <<>>
        /\ captures' = [c \in {0} |-> <<>>]
        /\ Preserved({})

Next == \/ \E x \in Variable : Write(x) \/ (Declare(x) /\ (UNCHANGED captures \/ Close({x})))
        \/ Start \/ EndScope \/ MakeClosure \/ Call \/ Return \/ Abort \/ Exit

Spec == Init /\ [][Next]_vars
=============================================================================
