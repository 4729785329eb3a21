----------------------------- MODULE Collector -----------------------------
(***************************************************************************)
(* The mark-and-sweep collector of clox/memory.c, step by step, and the    *)
(* program it serves: objects are allocated, rooted in the VM or in the    *)
(* compiler, linked to each other, interned, and dropped.                  *)
(*                                                                         *)
(* The order in which gray objects are blackened is left open (the code    *)
(* pops a stack).  The list of all objects keeps its order, because sweep  *)
(* unlinks objects from it while it walks it.                              *)
(***************************************************************************)
EXTENDS Naturals, SequencesExt

CONSTANTS Obj,        \* addresses of objects
          VM,         \* the component that main registers
          Compiler,   \* the component that compile registers while it runs
          RefBound    \* bound of the model: references out of one object

ASSUME ComponentAssumption == VM # Compiler
ASSUME RefBoundAssumption == RefBound \in Nat

VARIABLES objects,    \* the linked list mm->objects
          isMarked,   \* the objects whose isMarked is set
          refs,       \* refs[o]: what blackenObject(o) marks
          components, \* the linked list mm->memoryComponents
          roots,      \* roots[c]: what the markRoots function of c marks
          strings,    \* keys of vm->strings
          grayStack,  \* the objects on mm->grayStack
          phase,      \* mutate, mark, trace, weak or sweep
          position    \* the component, or the place in the list, to handle next

vars == <<objects, isMarked, refs, components, roots, strings, grayStack, phase, position>>
heap == <<objects, refs, components, roots, strings>>

-----------------------------------------------------------------------------
Component == {VM, Compiler}

Roots == UNION {roots[c] : c \in Component}

Closed(S, f) == \A o \in S : f[o] \subseteq S

\* The least set that holds R and is closed under the references f.
ReachableFrom(R, f) ==
    {o \in Obj : \A S \in SUBSET Obj : R \subseteq S /\ Closed(S, f) => o \in S}

\* What the program can get at.
Reachable == ReachableFrom(Roots, refs)

-----------------------------------------------------------------------------
Init == /\ objects = <<>> /\ isMarked = {} /\ refs = [o \in Obj |-> {}]
        /\ components = <<VM>>
        /\ roots = [c \in Component |-> {}]
        /\ strings = {} /\ grayStack = {}
        /\ phase = "mutate" /\ position = 1

Mutating == phase = "mutate"

\* compile registers the compiler at the head of the list of components ...
BeginCompile == /\ Mutating /\ components = <<VM>>
                /\ components' = <<Compiler, VM>>
                /\ UNCHANGED <<objects, isMarked, refs, roots, strings, grayStack,
                               phase, position>>

\* Mutant: compile clears the list instead of removing its head.
EndCompileClearingList ==
    /\ Mutating /\ Head(components) = Compiler
    /\ components' = <<>>
    /\ roots' = [roots EXCEPT ![Compiler] = {}]
    /\ UNCHANGED <<objects, isMarked, refs, strings, grayStack, phase, position>>

\* ... and removes it again; interpret then pushes the function it compiled.
EndCompile == /\ Mutating /\ Head(components) = Compiler
              /\ components' = Tail(components)
              /\ \E S \in SUBSET roots[Compiler] :
                     roots' = [roots EXCEPT ![Compiler] = {}, ![VM] = @ \cup S]
              /\ UNCHANGED <<objects, isMarked, refs, strings, grayStack, phase, position>>

\* allocateObject, after the collection its reallocate may have run: the object
\* becomes the head of the list, and its caller roots it.
AllocateObject(o, c) ==
    /\ Mutating /\ o \notin Range(objects) /\ c \in Range(components)
    /\ objects' = <<o>> \o objects
    /\ isMarked' = isMarked \ {o}
    /\ refs' = [refs EXCEPT ![o] = {}]
    /\ roots' = [roots EXCEPT ![c] = @ \cup {o}]
    /\ UNCHANGED <<components, strings, grayStack, phase, position>>

\* An instruction stores a reference to P in object O, or clears it.
SetReference(o, p) ==
    /\ Mutating /\ {o, p} \subseteq Reachable
    /\ \/ p \in refs[o] /\ refs' = [refs EXCEPT ![o] = @ \ {p}]
       \/ /\ p \notin refs[o] /\ Cardinality(refs[o]) < RefBound
          /\ refs' = [refs EXCEPT ![o] = @ \cup {p}]
    /\ UNCHANGED <<objects, isMarked, components, roots, strings, grayStack, phase, position>>

\* An object is pushed, made a global or a function under compilation, or no
\* longer is.  tableFindString returns interned strings nothing else reaches.
SetRoot(o, c) ==
    /\ Mutating /\ c \in Range(components)
    /\ \/ o \in roots[c] /\ roots' = [roots EXCEPT ![c] = @ \ {o}]
       \/ /\ o \notin roots[c] /\ o \in Reachable \cup strings
          /\ roots' = [roots EXCEPT ![c] = @ \cup {o}]
    /\ UNCHANGED <<objects, isMarked, refs, components, strings, grayStack, phase, position>>

\* allocateString enters the string into vm->strings.
Intern(o) == /\ Mutating /\ o \in Reachable \ strings
             /\ strings' = strings \cup {o}
             /\ UNCHANGED <<objects, isMarked, refs, components, roots, grayStack,
                            phase, position>>

-----------------------------------------------------------------------------
\* Mutant: an object that is marked already is pushed again.
MarkObjectsAgain(S, gray) == /\ isMarked' = isMarked \cup S
                             /\ grayStack' = gray \cup S

\* markObject on each member of S.
MarkObjects(S, gray) == /\ isMarked' = isMarked \cup S
                        /\ grayStack' = gray \cup (S \ isMarked)

CollectGarbage == /\ Mutating
                  /\ phase' = "mark" /\ position' = 1
                  /\ UNCHANGED <<heap, isMarked, grayStack>>

\* Mutant: only the component at the head of the list marks its roots.
MarkRootsOfHead == /\ phase = "mark"
                   /\ MarkObjects(roots[Head(components)], grayStack)
                   /\ phase' = "trace"
                   /\ UNCHANGED <<heap, position>>

\* currentComponent->markRoots
MarkRoots == /\ phase = "mark"
             /\ \/ /\ position <= Len(components)
                   /\ MarkObjects(roots[components[position]], grayStack)
                   /\ position' = position + 1
                   /\ UNCHANGED phase
                \/ /\ position > Len(components)
                   /\ phase' = "trace"
                   /\ UNCHANGED <<isMarked, grayStack, position>>
             /\ UNCHANGED heap

\* Mutant: what a blackened object refers to is marked but never blackened.
TraceOneLevel == /\ phase = "trace"
                 /\ \E o \in grayStack : /\ isMarked' = isMarked \cup refs[o]
                                         /\ grayStack' = grayStack \ {o}
                 /\ UNCHANGED <<heap, phase, position>>

\* traceReferences blackens one object.
TraceReferences == /\ phase = "trace"
                   /\ \/ /\ \E o \in grayStack : MarkObjects(refs[o], grayStack \ {o})
                         /\ UNCHANGED <<phase, position>>
                      \/ /\ grayStack = {}
                         /\ phase' = "weak" /\ position' = 1
                         /\ UNCHANGED <<isMarked, grayStack>>
                   /\ UNCHANGED heap

\* Mutant: the intern table keeps its unmarked strings.
HandleNothing == /\ phase = "weak"
                 /\ phase' = "sweep" /\ position' = 1
                 /\ UNCHANGED <<heap, isMarked, grayStack>>

\* currentComponent->handleWeakReferences; the compiler's does nothing.
HandleWeakReferences ==
    /\ phase = "weak"
    /\ \/ /\ position <= Len(components)
          /\ strings' = IF components[position] = VM THEN strings \cap isMarked ELSE strings
          /\ position' = position + 1
          /\ UNCHANGED phase
       \/ /\ position > Len(components)
          /\ phase' = "sweep" /\ position' = 1
          /\ UNCHANGED strings
    /\ UNCHANGED <<objects, isMarked, refs, components, roots, grayStack>>

\* Mutant: the marks of the survivors stay set.
SweepKeepingMarks ==
    /\ phase = "sweep"
    /\ objects' = SelectSeq(objects, LAMBDA o : o \in isMarked)
    /\ phase' = "mutate" /\ position' = 1
    /\ UNCHANGED <<isMarked, refs, components, roots, strings, grayStack>>

\* Mutant: the object after a freed one is passed over.
SweepSkipping ==
    /\ phase = "sweep"
    /\ IF position <= Len(objects)
       THEN /\ objects' = IF objects[position] \in isMarked THEN objects
                          ELSE RemoveAt(objects, position)
            /\ isMarked' = isMarked \ {objects[position]}
            /\ position' = position + 1
            /\ UNCHANGED phase
       ELSE /\ phase' = "mutate" /\ position' = 1
            /\ UNCHANGED <<isMarked, objects>>
    /\ UNCHANGED <<refs, components, roots, strings, grayStack>>

\* sweep, for one object of the list: clear its mark, or unlink and free it.
Sweep ==
    /\ phase = "sweep"
    /\ \/ /\ position <= Len(objects) /\ objects[position] \in isMarked
          /\ isMarked' = isMarked \ {objects[position]}
          /\ position' = position + 1
          /\ UNCHANGED <<objects, phase>>
       \/ /\ position <= Len(objects) /\ objects[position] \notin isMarked
          /\ objects' = RemoveAt(objects, position)
          /\ UNCHANGED <<isMarked, position, phase>>
       \/ /\ position > Len(objects)
          /\ phase' = "mutate" /\ position' = 1
          /\ UNCHANGED <<isMarked, objects>>
    /\ UNCHANGED <<refs, components, roots, strings, grayStack>>

Collecting == MarkRoots \/ TraceReferences \/ HandleWeakReferences \/ Sweep

Next == \/ BeginCompile \/ EndCompile \/ CollectGarbage
        \/ \E o \in Obj, c \in Component : AllocateObject(o, c) \/ SetRoot(o, c)
        \/ \E o, p \in Obj : SetReference(o, p)
        \/ \E o \in Obj : Intern(o)
        \/ Collecting

Spec == Init /\ [][Next]_vars

\* collectGarbage is one call of one thread: once begun it goes on.
FairSpec == Spec /\ WF_vars(Collecting)

-----------------------------------------------------------------------------
Phase == {"mutate", "mark", "trace", "weak", "sweep"}

TypeOK == /\ objects \in Seq(Obj) /\ isMarked \subseteq Obj
          /\ \A i, j \in DOMAIN objects : objects[i] = objects[j] => i = j
          /\ refs \in [Obj -> SUBSET Obj] /\ roots \in [Component -> SUBSET Obj]
          /\ components \in {<<VM>>, <<Compiler, VM>>}
          /\ strings \subseteq Obj /\ grayStack \subseteq Obj
          /\ phase \in Phase /\ position \in Nat \ {0}

\* What the program can get at, and what tableFindString can return to it, is
\* on the heap: sweep never frees an object in use, and the weak table is
\* cleaned before the sweep.  Also in the middle of a sweep.
NoDanglingReference ==
    /\ Reachable \subseteq Range(objects)
    /\ phase \in {"mutate", "sweep"} => strings \subseteq Range(objects)

\* A mark that survives a collection would hide its object from the next one,
\* and the objects it refers to would be freed under it.
NoStaleMark == Mutating => isMarked = {} /\ grayStack = {}

\* No black object points to a white one: what was blackened is done.
BlackIsDone == phase \in {"mark", "trace", "weak"} =>
                   \A o \in isMarked \ grayStack : refs[o] \subseteq isMarked

\* When a collection ends, the heap is what the roots reach: nothing leaks.
NothingLeaks == [][phase = "sweep" /\ phase' = "mutate" => Range(objects') = Reachable']_vars

\* Every collection ends.
CollectionEnds == ~Mutating ~> Mutating

\* The abstract collection is over as soon as tracing is: what is unmarked
\* then has left the abstract heap, whether it was swept or not.
Unswept == {objects[i] : i \in {j \in DOMAIN objects : phase # "sweep" \/ j >= position}}
Live == IF phase \in {"weak", "sweep"}
        THEN (Range(objects) \ Unswept) \cup (Unswept \cap isMarked)
        ELSE Range(objects)
Interned == IF phase = "weak" THEN strings \cap isMarked ELSE strings

\* Step by step the collector does what an atomic collection would.
H == INSTANCE Heap WITH live <- Live, strings <- Interned
ImplementsHeap == H!Spec
=============================================================================
