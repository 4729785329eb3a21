-------------------------- MODULE CollectorProofs --------------------------
(***************************************************************************)
(* Theorems about the collector, for every heap: any set of objects, any   *)
(* graph of references, any roots in the VM and the compiler.              *)
(***************************************************************************)
EXTENDS Collector, SequenceTheorems, TLAPS

-----------------------------------------------------------------------------
(* The inductive invariant, in named parts.                                *)

\* Outside a sweep the heap is closed: no object on it, no root and no
\* interned string refers to a freed object.
HeapIsClosed ==
    phase # "sweep" => /\ Roots \subseteq Range(objects)
                       /\ strings \subseteq Range(objects)
                       /\ Closed(Range(objects), refs)

UnregisteredHasNoRoots == components = <<VM>> => roots[Compiler] = {}

\* Nothing but reachable objects is marked, and what is gray is marked.
MarkedIsReachable == /\ grayStack \subseteq isMarked
                     /\ isMarked \subseteq Reachable

\* The components that were asked to mark their roots have done so.
RootsAreMarked ==
    /\ phase = "mark" => \A i \in DOMAIN components :
                             i < position => roots[components[i]] \subseteq isMarked
    /\ phase \in {"trace", "weak"} => Roots \subseteq isMarked

TracedAll == phase \in {"weak", "sweep"} => grayStack = {}

WeakTableIsClean ==
    phase = "weak" => \A i \in DOMAIN components :
                          i < position /\ components[i] = VM => strings \subseteq isMarked

Swept == {objects[i] : i \in {j \in DOMAIN objects : j < position}}

\* During a sweep the reachable objects are those swept past and those still
\* marked ahead.
SweepIsPartial ==
    phase = "sweep" => /\ position <= Len(objects) + 1
                       /\ Swept \cup isMarked = Reachable
                       /\ isMarked \subseteq Unswept
                       /\ strings \subseteq Reachable

IInv == /\ TypeOK
        /\ HeapIsClosed /\ UnregisteredHasNoRoots
        /\ NoStaleMark /\ MarkedIsReachable /\ RootsAreMarked /\ BlackIsDone
        /\ TracedAll /\ WeakTableIsClean /\ SweepIsPartial

-----------------------------------------------------------------------------
(* Reachability: ReachableFrom is the least closed set above the roots.    *)

\* The roots themselves are reachable.
LEMMA RootsAreReachable ==
    ASSUME NEW R \in SUBSET Obj, NEW f
    PROVE  R \subseteq ReachableFrom(R, f)
BY DEF ReachableFrom

\* A reference out of a reachable object leads to a reachable object.
LEMMA ReachableIsClosed ==
    ASSUME NEW R \in SUBSET Obj, NEW f \in [Obj -> SUBSET Obj]
    PROVE  Closed(ReachableFrom(R, f), f)
<1>. SUFFICES ASSUME NEW o \in ReachableFrom(R, f), NEW p \in f[o]
              PROVE  p \in ReachableFrom(R, f)
  BY DEF Closed
<1>1. o \in Obj /\ p \in Obj
  BY DEF ReachableFrom
<1>2. ASSUME NEW S \in SUBSET Obj, R \subseteq S, Closed(S, f)
      PROVE  p \in S
  BY <1>2 DEF ReachableFrom, Closed
<1>. QED
  BY <1>1, <1>2 DEF ReachableFrom

\* Every closed set that holds the roots holds what is reachable.
LEMMA ReachableIsLeast ==
    ASSUME NEW R, NEW f, NEW S \in SUBSET Obj, R \subseteq S, Closed(S, f)
    PROVE  ReachableFrom(R, f) \subseteq S
BY DEF ReachableFrom

-----------------------------------------------------------------------------
(* The list of objects.                                                    *)

\* allocateObject puts the object in front of the list.
LEMMA ListAfterAllocation ==
    ASSUME NEW s \in Seq(Obj), NEW o \in Obj \ Range(s),
           \A i, j \in DOMAIN s : s[i] = s[j] => i = j
    PROVE  /\ <<o>> \o s \in Seq(Obj)
           /\ Range(<<o>> \o s) = Range(s) \cup {o}
           /\ \A i, j \in DOMAIN (<<o>> \o s) :
                  (<<o>> \o s)[i] = (<<o>> \o s)[j] => i = j
<1>. DEFINE t == <<o>> \o s
<1>1. t \in Seq(Obj) /\ Len(t) = Len(s) + 1
  OBVIOUS
<1>2. t[1] = o /\ \A i \in 1..Len(s) : t[i + 1] = s[i]
  OBVIOUS
<1>3. \A i \in 1..Len(t) : i = 1 \/ (i - 1 \in 1..Len(s) /\ t[i] = s[i - 1])
  BY <1>1, <1>2
<1>4. DOMAIN t = 1..Len(t) /\ DOMAIN s = 1..Len(s)
  BY <1>1
<1>. HIDE DEF t
<1>5. Range(t) = Range(s) \cup {o}
  <2>1. ASSUME NEW i \in DOMAIN t PROVE t[i] \in Range(s) \cup {o}
    BY <1>2, <1>3, <1>4 DEF Range
  <2>2. ASSUME NEW i \in 1..Len(s) PROVE s[i] \in Range(t)
    <3>1. i + 1 \in DOMAIN t
      BY <1>1, <1>4
    <3>. QED
      BY <3>1, <1>2 DEF Range
  <2>3. o \in Range(t)
    BY <1>1, <1>2, <1>4 DEF Range
  <2>. QED
    BY <2>1, <2>2, <2>3, <1>4 DEF Range
<1>6. ASSUME NEW i \in DOMAIN t, NEW j \in DOMAIN t, t[i] = t[j]
      PROVE  i = j
  <2>1. \A k \in 1..Len(s) : s[k] # o
    BY <1>4 DEF Range
  <2>2. i \in 1..Len(t) /\ j \in 1..Len(t)
    BY <1>4
  <2>3. CASE i = 1
    BY <2>1, <2>2, <2>3, <1>2, <1>3, <1>6
  <2>4. CASE j = 1
    BY <2>1, <2>2, <2>4, <1>2, <1>3, <1>6
  <2>5. CASE i # 1 /\ j # 1
    <3>1. i - 1 \in DOMAIN s /\ j - 1 \in DOMAIN s /\ s[i - 1] = s[j - 1]
      BY <2>2, <2>5, <1>3, <1>4, <1>6
    <3>2. i - 1 = j - 1
      BY <3>1
    <3>. QED
      BY <3>2, <2>2
  <2>. QED
    BY <2>3, <2>4, <2>5
<1>. QED
  BY <1>1, <1>5, <1>6 DEF t

\* A sequence without its place N is what precedes that place and what follows it.
LEMMA JoinedAround ==
    ASSUME NEW s \in Seq(Obj), NEW n \in 1..Len(s),
           NEW a \in Seq(Obj), Len(a) = n - 1, \A i \in 1..n - 1 : a[i] = s[i],
           NEW b \in Seq(Obj), Len(b) = Len(s) - n, \A i \in 1..Len(s) - n : b[i] = s[n + i]
    PROVE  /\ a \o b \in Seq(Obj)
           /\ Len(a \o b) = Len(s) - 1
           /\ \A i \in 1..Len(s) - 1 : (a \o b)[i] = IF i < n THEN s[i] ELSE s[i + 1]
<1>. n \in Nat /\ Len(s) \in Nat
  OBVIOUS
<1>1. a \o b \in Seq(Obj) /\ Len(a \o b) = Len(s) - 1
  <2>1. a \o b \in Seq(Obj) /\ Len(a \o b) = Len(a) + Len(b)
    BY ConcatProperties
  <2>. QED
    BY <2>1
<1>2. ASSUME NEW i \in 1..Len(s) - 1
      PROVE  (a \o b)[i] = IF i < n THEN s[i] ELSE s[i + 1]
  <2>1. CASE i < n
    BY <2>1
  <2>2. CASE ~(i < n)
    <3>1. (a \o b)[i] = b[i - (n - 1)]
      BY <2>2
    <3>2. i - (n - 1) \in 1..Len(s) - n /\ n + (i - (n - 1)) = i + 1
      BY <2>2
    <3>. QED
      BY <2>2, <3>1, <3>2
  <2>. QED
    BY <2>1, <2>2
<1>. QED
  BY <1>1, <1>2

\* sweep takes the object at place n out of the list and keeps the rest.
LEMMA ListAfterRemoval ==
    ASSUME NEW s \in Seq(Obj), NEW n \in 1..Len(s)
    PROVE  /\ RemoveAt(s, n) \in Seq(Obj)
           /\ Len(RemoveAt(s, n)) = Len(s) - 1
           /\ \A i \in 1..Len(s) - 1 :
                  RemoveAt(s, n)[i] = IF i < n THEN s[i] ELSE s[i + 1]
<1>. DEFINE a == SubSeq(s, 1, n - 1)
            b == SubSeq(s, n + 1, Len(s))
<1>1. a \in Seq(Obj) /\ Len(a) = n - 1 /\ \A i \in 1..n - 1 : a[i] = s[i]
  OBVIOUS
<1>2. b \in Seq(Obj) /\ Len(b) = Len(s) - n /\ \A i \in 1..Len(s) - n : b[i] = s[n + i]
  OBVIOUS
<1>3. RemoveAt(s, n) = a \o b
  BY DEF RemoveAt
<1>. HIDE DEF a, b
<1>4. /\ a \o b \in Seq(Obj)
      /\ Len(a \o b) = Len(s) - 1
      /\ \A i \in 1..Len(s) - 1 : (a \o b)[i] = IF i < n THEN s[i] ELSE s[i + 1]
  BY <1>1, <1>2, JoinedAround, ZenonT(30)
<1>. QED
  BY <1>3, <1>4

\* A list without repetitions has none after a removal.
LEMMA RemovalKeepsDistinct ==
    ASSUME NEW s \in Seq(Obj), NEW n \in 1..Len(s),
           \A i, j \in DOMAIN s : s[i] = s[j] => i = j
    PROVE  \A i, j \in DOMAIN RemoveAt(s, n) :
               RemoveAt(s, n)[i] = RemoveAt(s, n)[j] => i = j
<1>1. PICK t \in Seq(Obj) : /\ t = RemoveAt(s, n) /\ Len(t) = Len(s) - 1
                            /\ \A i \in 1..Len(s) - 1 : t[i] = IF i < n THEN s[i] ELSE s[i + 1]
  BY ListAfterRemoval
<1>2. ASSUME NEW i \in 1..Len(s) - 1, NEW j \in 1..Len(s) - 1, t[i] = t[j]
      PROVE  i = j
  <2>1. \A k \in 1..Len(s) - 1 : k \in DOMAIN s /\ k + 1 \in DOMAIN s
    OBVIOUS
  <2>2. CASE i < n /\ j < n
    BY <2>1, <2>2, <1>1, <1>2
  <2>3. CASE i < n /\ ~(j < n)
    <3>1. s[i] = s[j + 1]
      BY <2>3, <1>1, <1>2
    <3>2. i = j + 1
      BY <2>1, <3>1
    <3>. QED
      BY <2>3, <3>2
  <2>4. CASE ~(i < n) /\ j < n
    <3>1. s[i + 1] = s[j]
      BY <2>4, <1>1, <1>2
    <3>2. i + 1 = j
      BY <2>1, <3>1
    <3>. QED
      BY <2>4, <3>2
  <2>5. CASE ~(i < n) /\ ~(j < n)
    <3>1. i + 1 = j + 1
      BY <2>1, <2>5, <1>1, <1>2
    <3>. QED
      BY <3>1
  <2>. QED
    BY <2>2, <2>3, <2>4, <2>5
<1>3. DOMAIN t = 1..Len(s) - 1
  BY <1>1
<1>. QED
  BY <1>1, <1>2, <1>3

\* The two lists of components there can be.
LEMMA ComponentLists ==
    /\ Len(<<VM>>) = 1 /\ DOMAIN <<VM>> = {1} /\ <<VM>>[1] = VM
    /\ Head(<<VM>>) = VM
    /\ Len(<<Compiler, VM>>) = 2 /\ DOMAIN <<Compiler, VM>> = {1, 2}
    /\ <<Compiler, VM>>[1] = Compiler /\ <<Compiler, VM>>[2] = VM
    /\ Head(<<Compiler, VM>>) = Compiler /\ Tail(<<Compiler, VM>>) = <<VM>>
    /\ <<VM>> # <<Compiler, VM>>
    /\ Range(<<VM>>) = {VM} /\ Range(<<Compiler, VM>>) = Component
<1>1. /\ Len(<<VM>>) = 1 /\ DOMAIN <<VM>> = {1} /\ <<VM>>[1] = VM /\ Head(<<VM>>) = VM
  OBVIOUS
<1>2. /\ Len(<<Compiler, VM>>) = 2 /\ DOMAIN <<Compiler, VM>> = {1, 2}
      /\ <<Compiler, VM>>[1] = Compiler /\ <<Compiler, VM>>[2] = VM
  OBVIOUS
<1>3. Head(<<Compiler, VM>>) = Compiler /\ Tail(<<Compiler, VM>>) = <<VM>>
  OBVIOUS
<1>4. Range(<<VM>>) = {VM} /\ Range(<<Compiler, VM>>) = Component
  BY <1>1, <1>2 DEF Range, Component
<1>5. <<VM>> # <<Compiler, VM>>
  OBVIOUS
<1>. QED
  BY <1>1, <1>2, <1>3, <1>4, <1>5

-----------------------------------------------------------------------------
(* Types.                                                                  *)

\* Every variable keeps its type, and the list of objects never holds an
\* object twice.
THEOREM TypeCorrect == Spec => []TypeOK
<1>1. Init => TypeOK
  BY EmptySeq DEF Init, TypeOK, Component, Phase
<1>2. TypeOK /\ [Next]_vars => TypeOK'
  <2>. SUFFICES ASSUME TypeOK, [Next]_vars PROVE TypeOK'
    OBVIOUS
  <2>. USE DEF TypeOK
  <2>1. CASE UNCHANGED vars
    BY <2>1 DEF vars
  <2>2. CASE BeginCompile
    BY <2>2, ComponentLists DEF BeginCompile
  <2>3. CASE EndCompile
    <3>1. components' = <<VM>>
      BY <2>3, ComponentAssumption, ComponentLists DEF EndCompile
    <3>2. roots' \in [Component -> SUBSET Obj]
      BY <2>3 DEF EndCompile, Component
    <3>. QED
      BY <2>3, <3>1, <3>2 DEF EndCompile
  <2>4. CASE CollectGarbage
    BY <2>4 DEF CollectGarbage, heap, Phase
  <2>5. ASSUME NEW o \in Obj, NEW c \in Component, AllocateObject(o, c)
        PROVE  TypeOK'
    <3>1. o \in Obj \ Range(objects)
      BY <2>5 DEF AllocateObject
    <3>2. /\ objects' \in Seq(Obj)
          /\ \A i, j \in DOMAIN objects' : objects'[i] = objects'[j] => i = j
      BY <2>5, <3>1, ListAfterAllocation DEF AllocateObject
    <3>. QED
      BY <2>5, <3>2 DEF AllocateObject
  <2>6. ASSUME NEW o \in Obj, NEW c \in Component, SetRoot(o, c)
        PROVE  TypeOK'
    BY <2>6 DEF SetRoot
  <2>7. ASSUME NEW o \in Obj, NEW p \in Obj, SetReference(o, p)
        PROVE  TypeOK'
    <3>1. refs' \in [Obj -> SUBSET Obj]
      BY <2>7 DEF SetReference
    <3>. QED
      BY <2>7, <3>1 DEF SetReference
  <2>8. ASSUME NEW o \in Obj, Intern(o)
        PROVE  TypeOK'
    BY <2>8 DEF Intern
  <2>9. CASE MarkRoots
    <3>1. position <= Len(components) => components[position] \in Component
      BY ComponentLists DEF Component
    <3>. QED
      BY <2>9, <3>1 DEF MarkRoots, MarkObjects, heap, Phase
  <2>10. CASE TraceReferences
    BY <2>10 DEF TraceReferences, MarkObjects, heap, Phase
  <2>11. CASE HandleWeakReferences
    BY <2>11 DEF HandleWeakReferences, Phase
  <2>12. CASE Sweep
    <3>1. CASE /\ position <= Len(objects) /\ objects[position] \notin isMarked
               /\ objects' = RemoveAt(objects, position)
               /\ UNCHANGED <<isMarked, position, phase, refs, components, roots,
                              strings, grayStack>>
      <4>1. position \in 1..Len(objects)
        BY <3>1
      <4>2. objects' \in Seq(Obj)
        BY <3>1, <4>1, ListAfterRemoval
      <4>3. \A i, j \in DOMAIN objects' : objects'[i] = objects'[j] => i = j
        BY <3>1, <4>1, RemovalKeepsDistinct
      <4>. QED
        BY <3>1, <4>2, <4>3
    <3>2. CASE ~(/\ position <= Len(objects) /\ objects[position] \notin isMarked)
      BY <2>12, <3>2 DEF Sweep, Phase
    <3>. QED
      BY <2>12, <3>1, <3>2 DEF Sweep
  <2>. QED
    BY <2>1, <2>2, <2>3, <2>4, <2>5, <2>6, <2>7, <2>8, <2>9, <2>10, <2>11, <2>12
       DEF Next, Collecting
<1>. QED
  BY <1>1, <1>2, PTL DEF Spec

-----------------------------------------------------------------------------
(* The inductive invariant.                                                *)

\* Reachability in the current state.
LEMMA ReachableNow ==
    ASSUME TypeOK
    PROVE  /\ Roots \in SUBSET Obj /\ Reachable \in SUBSET Obj
           /\ Roots \subseteq Reachable
           /\ \A c \in Component : roots[c] \subseteq Reachable
           /\ \A o \in Reachable : refs[o] \subseteq Reachable
<1>1. Roots \in SUBSET Obj /\ \A c \in Component : roots[c] \subseteq Roots
  BY DEF TypeOK, Roots
<1>2. Roots \subseteq Reachable
  BY <1>1, RootsAreReachable DEF Reachable
<1>3. Closed(Reachable, refs)
  BY <1>1, ReachableIsClosed DEF Reachable, TypeOK
<1>. QED
  BY <1>1, <1>2, <1>3 DEF Reachable, ReachableFrom, Closed

\* Outside a sweep no reachable object has been freed.
LEMMA ReachableIsOnTheHeap ==
    ASSUME TypeOK, HeapIsClosed, phase # "sweep"
    PROVE  Reachable \subseteq Range(objects)
<1>1. Range(objects) \in SUBSET Obj
  BY DEF TypeOK, Range
<1>. QED
  BY <1>1, ReachableIsLeast DEF HeapIsClosed, Reachable

\* The empty heap satisfies the invariant.
LEMMA InitIInv == Init => IInv
<1>. SUFFICES ASSUME Init PROVE IInv
  OBVIOUS
<1>1. TypeOK
  BY EmptySeq DEF Init, TypeOK, Component, Phase
<1>2. Roots = {} /\ Range(objects) = {}
  BY DEF Init, Roots, Range
<1>. QED
  BY <1>1, <1>2 DEF Init, IInv, HeapIsClosed, Closed, UnregisteredHasNoRoots, NoStaleMark,
     MarkedIsReachable, RootsAreMarked, BlackIsDone, TracedAll, WeakTableIsClean,
     SweepIsPartial, Mutating, Component

\* While the program runs only two parts of the invariant say anything.
LEMMA MutatorKeepsIInv ==
    ASSUME IInv, TypeOK', Mutating, phase' = phase, grayStack' = grayStack,
           isMarked' \subseteq isMarked, HeapIsClosed', UnregisteredHasNoRoots'
    PROVE  IInv'
BY DEF IInv, Mutating, NoStaleMark, MarkedIsReachable, RootsAreMarked, BlackIsDone,
   TracedAll, WeakTableIsClean, SweepIsPartial

\* Each operation of the program keeps the invariant.
LEMMA MutatorSteps ==
    ASSUME IInv, TypeOK',
           \/ BeginCompile \/ EndCompile
           \/ \E o \in Obj, c \in Component : AllocateObject(o, c) \/ SetRoot(o, c)
           \/ \E o, p \in Obj : SetReference(o, p)
           \/ \E o \in Obj : Intern(o)
    PROVE  IInv'
<1>1. /\ Mutating /\ phase' = phase /\ grayStack' = grayStack
      /\ isMarked' \subseteq isMarked
  BY DEF BeginCompile, EndCompile, AllocateObject, SetRoot, SetReference, Intern
<1>2. /\ TypeOK /\ phase # "sweep" /\ phase' # "sweep"
      /\ Roots \subseteq Range(objects) /\ strings \subseteq Range(objects)
      /\ \A o \in Range(objects) : refs[o] \subseteq Range(objects)
  BY <1>1 DEF IInv, HeapIsClosed, Mutating, Closed
<1>3. Reachable \subseteq Range(objects)
  BY <1>1, <1>2, ReachableIsOnTheHeap DEF IInv, Mutating
<1>4. \A c \in Component : roots[c] \subseteq Range(objects)
  BY <1>2 DEF Roots
<1>. SUFFICES HeapIsClosed' /\ UnregisteredHasNoRoots'
  BY <1>1, MutatorKeepsIInv
<1>5. SUFFICES /\ \A c \in Component : roots'[c] \subseteq Range(objects')
               /\ strings' \subseteq Range(objects')
               /\ \A o \in Range(objects') : refs'[o] \subseteq Range(objects')
               /\ components' = <<VM>> => roots'[Compiler] = {}
  BY DEF HeapIsClosed, UnregisteredHasNoRoots, Closed, Roots
<1>6. components = <<VM>> => roots[Compiler] = {}
  BY DEF IInv, UnregisteredHasNoRoots
<1>7. CASE BeginCompile
  BY <1>7, <1>2, <1>4, ComponentLists DEF BeginCompile
<1>8. CASE EndCompile
  <2>1. roots'[Compiler] = {} /\ \A c \in Component : roots'[c] \subseteq Range(objects)
    BY <1>8, <1>4, ComponentAssumption DEF EndCompile, Component, TypeOK
  <2>. QED
    BY <1>8, <2>1, <1>2 DEF EndCompile
<1>9. ASSUME NEW o \in Obj, NEW c \in Component, AllocateObject(o, c)
      PROVE  /\ \A d \in Component : roots'[d] \subseteq Range(objects')
             /\ strings' \subseteq Range(objects')
             /\ \A p \in Range(objects') : refs'[p] \subseteq Range(objects')
             /\ components' = <<VM>> => roots'[Compiler] = {}
  <2>1. Range(objects') = Range(objects) \cup {o}
    BY <1>9, <1>2, ListAfterAllocation DEF AllocateObject, TypeOK
  <2>2. \A d \in Component : roots'[d] \subseteq Range(objects')
    BY <1>9, <1>2, <1>4, <2>1 DEF AllocateObject, TypeOK
  <2>3. \A p \in Range(objects') : refs'[p] \subseteq Range(objects')
    BY <1>9, <1>2, <2>1 DEF AllocateObject, TypeOK
  <2>4. components' = <<VM>> => roots'[Compiler] = {}
    BY <1>9, <1>2, <1>6, ComponentLists, ComponentAssumption
       DEF AllocateObject, TypeOK, Component
  <2>. QED
    BY <1>9, <1>2, <2>1, <2>2, <2>3, <2>4 DEF AllocateObject
<1>10. ASSUME NEW o \in Obj, NEW c \in Component, SetRoot(o, c)
       PROVE  /\ \A d \in Component : roots'[d] \subseteq Range(objects)
              /\ components' = <<VM>> => roots'[Compiler] = {}
  <2>1. \A d \in Component : roots'[d] \subseteq roots[d] \cup Reachable \cup strings
    BY <1>10, <1>2 DEF SetRoot, TypeOK
  <2>2. components' = <<VM>> => roots'[Compiler] = {}
    BY <1>10, <1>2, <1>6, ComponentLists, ComponentAssumption DEF SetRoot, TypeOK, Component
  <2>. QED
    BY <2>1, <2>2, <1>2, <1>3, <1>4
<1>11. ASSUME NEW o \in Obj, NEW p \in Obj, SetReference(o, p)
       PROVE  \A q \in Range(objects) : refs'[q] \subseteq Range(objects)
  <2>1. \A q \in Obj : refs'[q] \subseteq refs[q] \cup Reachable
    BY <1>11, <1>2 DEF SetReference, TypeOK
  <2>2. Range(objects) \subseteq Obj
    BY <1>2 DEF TypeOK, Range
  <2>. QED
    BY <2>1, <2>2, <1>2, <1>3
<1>12. CASE \E o \in Obj, c \in Component : SetRoot(o, c)
  BY <1>12, <1>10, <1>2 DEF SetRoot
<1>13. CASE \E o, p \in Obj : SetReference(o, p)
  BY <1>13, <1>11, <1>2, <1>4, <1>6 DEF SetReference
<1>14. CASE \E o \in Obj : Intern(o)
  BY <1>14, <1>2, <1>3, <1>4, <1>6 DEF Intern
<1>. QED
  BY <1>7, <1>8, <1>9, <1>12, <1>13, <1>14

\* The collector moves neither roots nor references.
LEMMA ReachableUnchanged ==
    ASSUME UNCHANGED <<refs, roots>>
    PROVE  Roots' = Roots /\ Reachable' = Reachable
BY DEF Roots, Reachable, ReachableFrom

\* A collection starts with nothing marked.
LEMMA CollectGarbageStep == IInv /\ TypeOK' /\ CollectGarbage => IInv'
<1>. SUFFICES ASSUME IInv, TypeOK', CollectGarbage PROVE IInv'
  OBVIOUS
<1>1. Roots' = Roots /\ Reachable' = Reachable
  BY ReachableUnchanged DEF CollectGarbage, heap
<1>2. isMarked = {} /\ grayStack = {}
  BY DEF IInv, NoStaleMark, CollectGarbage
<1>3. HeapIsClosed' /\ UnregisteredHasNoRoots'
  BY <1>1 DEF IInv, HeapIsClosed, UnregisteredHasNoRoots, CollectGarbage, Mutating, heap, Closed
<1>4. NoStaleMark' /\ MarkedIsReachable' /\ BlackIsDone'
  BY <1>2 DEF NoStaleMark, MarkedIsReachable, BlackIsDone, CollectGarbage, Mutating, heap
<1>5. RootsAreMarked'
  <2>1. \A i \in DOMAIN components : ~(i < 1)
    BY ComponentLists DEF IInv, TypeOK
  <2>. QED
    BY <2>1 DEF RootsAreMarked, CollectGarbage, heap
<1>6. TracedAll' /\ WeakTableIsClean' /\ SweepIsPartial'
  BY DEF TracedAll, WeakTableIsClean, SweepIsPartial, CollectGarbage
<1>. QED
  BY <1>3, <1>4, <1>5, <1>6 DEF IInv

\* The roots of the next component are marked, or all have been.
LEMMA MarkRootsStep == IInv /\ TypeOK' /\ MarkRoots => IInv'
<1>. SUFFICES ASSUME IInv, TypeOK', MarkRoots PROVE IInv'
  OBVIOUS
<1>1. Roots' = Roots /\ Reachable' = Reachable
  BY ReachableUnchanged DEF MarkRoots, heap
<1>2. /\ phase = "mark" /\ phase' \in {"mark", "trace"}
      /\ UNCHANGED <<objects, refs, components, roots, strings>>
  BY DEF MarkRoots, heap
<1>3. HeapIsClosed' /\ UnregisteredHasNoRoots'
  BY <1>1, <1>2 DEF IInv, HeapIsClosed, UnregisteredHasNoRoots, Closed
<1>4. /\ grayStack \subseteq isMarked /\ isMarked \subseteq Reachable
      /\ \A o \in isMarked \ grayStack : refs[o] \subseteq isMarked
      /\ \A i \in DOMAIN components : i < position => roots[components[i]] \subseteq isMarked
  BY <1>2 DEF IInv, MarkedIsReachable, BlackIsDone, RootsAreMarked
<1>5. NoStaleMark' /\ TracedAll' /\ WeakTableIsClean' /\ SweepIsPartial'
  BY <1>2 DEF NoStaleMark, Mutating, TracedAll, WeakTableIsClean, SweepIsPartial
<1>6. CASE /\ position <= Len(components)
           /\ MarkObjects(roots[components[position]], grayStack)
           /\ position' = position + 1
           /\ UNCHANGED phase
  <2>1. position \in DOMAIN components /\ components[position] \in Component
    <3>1. components \in Seq(Component)
      <4>1. VM \in Component /\ Compiler \in Component
        BY DEF Component
      <4>2. <<VM>> \in Seq(Component) /\ <<Compiler, VM>> \in Seq(Component)
        BY <4>1
      <4>. QED
        BY <4>2 DEF IInv, TypeOK
    <3>2. position \in 1..Len(components)
      BY <1>6, <3>1 DEF IInv, TypeOK
    <3>. QED
      BY <3>1, <3>2
  <2>2. roots[components[position]] \subseteq Reachable
    BY <2>1, ReachableNow DEF IInv
  <2>3. MarkedIsReachable'
    BY <1>1, <1>4, <1>6, <2>2 DEF MarkedIsReachable, MarkObjects
  <2>4. BlackIsDone'
    BY <1>2, <1>4, <1>6 DEF BlackIsDone, MarkObjects
  <2>5. RootsAreMarked'
    <3>1. \A i \in DOMAIN components : i < position + 1 => i < position \/ i = position
      BY ComponentLists DEF IInv, TypeOK
    <3>2. \A i \in DOMAIN components :
              i < position + 1 => roots[components[i]] \subseteq isMarked'
      BY <1>4, <1>6, <3>1 DEF MarkObjects
    <3>. QED
      BY <1>2, <1>6, <3>2 DEF RootsAreMarked
  <2>. QED
    BY <1>3, <1>5, <2>3, <2>4, <2>5 DEF IInv
<1>7. CASE /\ position > Len(components)
           /\ phase' = "trace"
           /\ UNCHANGED <<isMarked, grayStack, position>>
  <2>1. MarkedIsReachable' /\ BlackIsDone'
    BY <1>1, <1>2, <1>4, <1>7 DEF MarkedIsReachable, BlackIsDone
  <2>2. \A i \in DOMAIN components : i < position
    BY <1>7, ComponentLists DEF IInv, TypeOK
  <2>3. roots[VM] \subseteq isMarked /\ roots[Compiler] \subseteq isMarked
    <3>1. CASE components = <<VM>>
      BY <1>4, <2>2, <3>1, ComponentLists DEF IInv, UnregisteredHasNoRoots
    <3>2. CASE components = <<Compiler, VM>>
      BY <1>4, <2>2, <3>2, ComponentLists
    <3>. QED
      BY <3>1, <3>2 DEF IInv, TypeOK
  <2>4. Roots \subseteq isMarked
    BY <2>3 DEF Roots, Component
  <2>5. RootsAreMarked'
    BY <1>1, <1>7, <2>4 DEF RootsAreMarked
  <2>. QED
    BY <1>3, <1>5, <2>1, <2>5 DEF IInv
<1>. QED
  BY <1>6, <1>7 DEF MarkRoots

\* A gray object is blackened, or tracing ends.
LEMMA TraceReferencesStep == IInv /\ TypeOK' /\ TraceReferences => IInv'
<1>. SUFFICES ASSUME IInv, TypeOK', TraceReferences PROVE IInv'
  OBVIOUS
<1>1. Roots' = Roots /\ Reachable' = Reachable
  BY ReachableUnchanged DEF TraceReferences, heap
<1>2. /\ phase = "trace" /\ phase' \in {"trace", "weak"}
      /\ UNCHANGED <<objects, refs, components, roots, strings>>
  BY DEF TraceReferences, heap
<1>3. HeapIsClosed' /\ UnregisteredHasNoRoots'
  BY <1>1, <1>2 DEF IInv, HeapIsClosed, UnregisteredHasNoRoots, Closed
<1>4. /\ grayStack \subseteq isMarked /\ isMarked \subseteq Reachable
      /\ \A o \in isMarked \ grayStack : refs[o] \subseteq isMarked
      /\ Roots \subseteq isMarked
  BY <1>2 DEF IInv, MarkedIsReachable, BlackIsDone, RootsAreMarked
<1>5. NoStaleMark' /\ SweepIsPartial'
  BY <1>2 DEF NoStaleMark, Mutating, SweepIsPartial
<1>6. ASSUME NEW o \in grayStack, MarkObjects(refs[o], grayStack \ {o}),
             UNCHANGED <<phase, position>>
      PROVE  IInv'
  <2>1. refs[o] \subseteq Reachable
    BY <1>4, ReachableNow DEF IInv
  <2>2. MarkedIsReachable'
    BY <1>1, <1>4, <1>6, <2>1 DEF MarkedIsReachable, MarkObjects
  <2>3. BlackIsDone'
    BY <1>2, <1>4, <1>6 DEF BlackIsDone, MarkObjects
  <2>4. RootsAreMarked' /\ TracedAll' /\ WeakTableIsClean'
    BY <1>1, <1>2, <1>4, <1>6 DEF RootsAreMarked, TracedAll, WeakTableIsClean, MarkObjects
  <2>. QED
    BY <1>3, <1>5, <2>2, <2>3, <2>4 DEF IInv
<1>7. CASE /\ grayStack = {}
           /\ phase' = "weak" /\ position' = 1
           /\ UNCHANGED <<isMarked, grayStack>>
  <2>1. MarkedIsReachable' /\ BlackIsDone' /\ RootsAreMarked' /\ TracedAll'
    BY <1>1, <1>2, <1>4, <1>7 DEF MarkedIsReachable, BlackIsDone, RootsAreMarked, TracedAll
  <2>2. \A i \in DOMAIN components : ~(i < 1)
    BY ComponentLists DEF IInv, TypeOK
  <2>3. WeakTableIsClean'
    BY <1>2, <1>7, <2>2 DEF WeakTableIsClean
  <2>. QED
    BY <1>3, <1>5, <2>1, <2>3 DEF IInv
<1>. QED
  BY <1>6, <1>7 DEF TraceReferences

\* When tracing is over, the marked objects are the reachable ones.
LEMMA TracedIsReachable ==
    ASSUME IInv, phase = "weak"
    PROVE  isMarked = Reachable
<1>1. Closed(isMarked, refs) /\ Roots \subseteq isMarked /\ isMarked \subseteq Reachable
  BY DEF IInv, TracedAll, BlackIsDone, RootsAreMarked, MarkedIsReachable, Closed
<1>. QED
  BY <1>1, ReachableIsLeast DEF IInv, TypeOK, Reachable

\* The weak table loses its unmarked strings; the sweep starts where all
\* reachable objects, and no others, are marked.
LEMMA HandleWeakReferencesStep == IInv /\ TypeOK' /\ HandleWeakReferences => IInv'
<1>. SUFFICES ASSUME IInv, TypeOK', HandleWeakReferences PROVE IInv'
  OBVIOUS
<1>1. Roots' = Roots /\ Reachable' = Reachable
  BY ReachableUnchanged DEF HandleWeakReferences
<1>2. /\ phase = "weak"
      /\ UNCHANGED <<objects, isMarked, refs, components, roots, grayStack>>
      /\ strings' \subseteq strings
  BY DEF HandleWeakReferences
<1>3. UnregisteredHasNoRoots' /\ MarkedIsReachable'
  BY <1>1, <1>2 DEF IInv, UnregisteredHasNoRoots, MarkedIsReachable
<1>4. grayStack = {} /\ isMarked = Reachable
  BY <1>2, TracedIsReachable DEF IInv, TracedAll
<1>5. CASE /\ position <= Len(components)
           /\ strings' = IF components[position] = VM THEN strings \cap isMarked ELSE strings
           /\ position' = position + 1
           /\ UNCHANGED phase
  <2>1. HeapIsClosed'
    BY <1>1, <1>2, <1>5 DEF IInv, HeapIsClosed, Closed
  <2>2. NoStaleMark' /\ RootsAreMarked' /\ BlackIsDone' /\ TracedAll' /\ SweepIsPartial'
    BY <1>1, <1>2, <1>5 DEF IInv, NoStaleMark, Mutating, RootsAreMarked, BlackIsDone,
       TracedAll, SweepIsPartial
  <2>3. \A i \in DOMAIN components : i < position + 1 => i < position \/ i = position
    BY ComponentLists DEF IInv, TypeOK
  <2>4. \A i \in DOMAIN components :
            i < position + 1 /\ components[i] = VM => strings' \subseteq isMarked
    BY <1>2, <1>5, <2>3 DEF IInv, WeakTableIsClean
  <2>5. WeakTableIsClean'
    BY <1>2, <1>5, <2>4 DEF WeakTableIsClean
  <2>. QED
    BY <1>3, <2>1, <2>2, <2>5 DEF IInv
<1>6. CASE /\ position > Len(components)
           /\ phase' = "sweep" /\ position' = 1
           /\ UNCHANGED strings
  <2>1. HeapIsClosed' /\ NoStaleMark' /\ RootsAreMarked' /\ BlackIsDone' /\ WeakTableIsClean'
    BY <1>6 DEF HeapIsClosed, NoStaleMark, Mutating, RootsAreMarked, BlackIsDone,
       WeakTableIsClean
  <2>2. TracedAll'
    BY <1>2, <1>4 DEF TracedAll
  <2>3. strings \subseteq isMarked
    <3>1. CASE components = <<VM>>
      BY <1>2, <1>6, <3>1, ComponentLists DEF IInv, WeakTableIsClean
    <3>2. CASE components = <<Compiler, VM>>
      BY <1>2, <1>6, <3>2, ComponentLists DEF IInv, WeakTableIsClean
    <3>. QED
      BY <3>1, <3>2 DEF IInv, TypeOK
  <2>4. Reachable \subseteq Range(objects)
    BY <1>2, ReachableIsOnTheHeap DEF IInv
  <2>5. Len(objects) \in Nat /\ DOMAIN objects = 1..Len(objects)
    BY DEF IInv, TypeOK
  <2>6. Swept' = {} /\ Unswept' = Range(objects)
    BY <1>2, <1>6, <2>5 DEF Swept, Unswept, Range
  <2>7. SweepIsPartial'
    BY <1>1, <1>2, <1>4, <1>6, <2>3, <2>4, <2>5, <2>6 DEF SweepIsPartial
  <2>. QED
    BY <1>3, <2>1, <2>2, <2>7 DEF IInv
<1>. QED
  BY <1>5, <1>6 DEF HandleWeakReferences

\* The sweep passes a marked object, unlinks an unmarked one, or ends.
LEMMA SweepStep == IInv /\ TypeOK' /\ Sweep => IInv'
<1>. SUFFICES ASSUME IInv, TypeOK', Sweep PROVE IInv'
  OBVIOUS
<1>1. Roots' = Roots /\ Reachable' = Reachable
  BY ReachableUnchanged DEF Sweep
<1>2. /\ phase = "sweep" /\ phase' \in {"sweep", "mutate"}
      /\ UNCHANGED <<refs, components, roots, strings, grayStack>>
      /\ grayStack = {} /\ isMarked \subseteq Reachable /\ isMarked' \subseteq isMarked
  BY DEF Sweep, IInv, TracedAll, MarkedIsReachable
<1>3. /\ UnregisteredHasNoRoots' /\ MarkedIsReachable' /\ TracedAll'
      /\ RootsAreMarked' /\ BlackIsDone' /\ WeakTableIsClean'
  BY <1>1, <1>2 DEF IInv, UnregisteredHasNoRoots, MarkedIsReachable, TracedAll,
     RootsAreMarked, BlackIsDone, WeakTableIsClean
<1>4. /\ position <= Len(objects) + 1 /\ Swept \cup isMarked = Reachable
      /\ isMarked \subseteq Unswept /\ strings \subseteq Reachable
  BY <1>2 DEF IInv, SweepIsPartial
<1>5. /\ objects \in Seq(Obj) /\ Len(objects) \in Nat /\ DOMAIN objects = 1..Len(objects)
      /\ position \in Nat \ {0}
      /\ \A i, j \in DOMAIN objects : objects[i] = objects[j] => i = j
  BY DEF IInv, TypeOK
<1>6. CASE /\ position <= Len(objects) /\ objects[position] \in isMarked
           /\ isMarked' = isMarked \ {objects[position]}
           /\ position' = position + 1
           /\ UNCHANGED <<objects, phase>>
  <2>1. Swept' = Swept \cup {objects[position]}
    <3>1. \A j \in DOMAIN objects : j < position + 1 <=> j < position \/ j = position
      BY <1>5
    <3>2. position \in DOMAIN objects
      BY <1>5, <1>6
    <3>. QED
      BY <1>6, <3>1, <3>2 DEF Swept
  <2>2. isMarked' \subseteq Unswept'
    <3>. SUFFICES ASSUME NEW o \in isMarked, o # objects[position] PROVE o \in Unswept'
      BY <1>6
    <3>1. PICK j \in DOMAIN objects : j >= position /\ o = objects[j]
      BY <1>2, <1>4 DEF Unswept
    <3>2. j >= position + 1
      BY <3>1, <1>5
    <3>. QED
      BY <1>6, <3>1, <3>2 DEF Unswept
  <2>3. SweepIsPartial'
    <3>1. position + 1 <= Len(objects) + 1
      BY <1>5, <1>6
    <3>2. Swept' \cup isMarked' = Reachable
      BY <1>4, <1>6, <2>1
    <3>. QED
      BY <1>1, <1>2, <1>4, <1>6, <2>2, <3>1, <3>2 DEF SweepIsPartial
  <2>. QED
    BY <1>2, <1>3, <1>6, <2>3 DEF IInv, HeapIsClosed, NoStaleMark, Mutating
<1>7. CASE /\ position <= Len(objects) /\ objects[position] \notin isMarked
           /\ objects' = RemoveAt(objects, position)
           /\ UNCHANGED <<isMarked, position, phase>>
  <2>1. /\ Len(objects') = Len(objects) - 1
        /\ \A i \in 1..Len(objects) - 1 :
               objects'[i] = IF i < position THEN objects[i] ELSE objects[i + 1]
    <3>1. position \in 1..Len(objects)
      BY <1>5, <1>7
    <3>. QED
      BY <1>5, <1>7, <3>1, ListAfterRemoval
  <2>2. DOMAIN objects' = 1..Len(objects) - 1
    BY <2>1 DEF TypeOK
  <2>3. Swept' = Swept
    <3>1. {i \in DOMAIN objects' : i < position} = {i \in DOMAIN objects : i < position}
      BY <1>5, <1>7, <2>2
    <3>2. \A i \in DOMAIN objects : i < position => objects'[i] = objects[i]
      BY <1>5, <1>7, <2>1
    <3>3. {objects'[i] : i \in {j \in DOMAIN objects' : j < position}}
              = {objects[i] : i \in {j \in DOMAIN objects : j < position}}
      BY <3>1, <3>2
    <3>. QED
      BY <1>7, <3>3 DEF Swept
  <2>4. isMarked \subseteq Unswept'
    <3>. SUFFICES ASSUME NEW o \in isMarked PROVE o \in Unswept'
      OBVIOUS
    <3>1. PICK j \in DOMAIN objects : j >= position /\ o = objects[j]
      BY <1>2, <1>4 DEF Unswept
    <3>2. j # position
      BY <1>7, <3>1
    <3>3. j - 1 \in DOMAIN objects' /\ j - 1 >= position /\ objects'[j - 1] = o
      BY <1>5, <2>1, <2>2, <3>1, <3>2
    <3>. QED
      BY <1>7, <3>3 DEF Unswept
  <2>5. position <= Len(objects')  + 1
    BY <1>5, <1>7, <2>1
  <2>6. SweepIsPartial'
    BY <1>1, <1>2, <1>4, <1>7, <2>3, <2>4, <2>5 DEF SweepIsPartial
  <2>. QED
    BY <1>2, <1>3, <1>7, <2>6 DEF IInv, HeapIsClosed, NoStaleMark, Mutating
<1>8. CASE /\ position > Len(objects)
           /\ phase' = "mutate" /\ position' = 1
           /\ UNCHANGED <<isMarked, objects>>
  <2>1. isMarked = {}
    BY <1>2, <1>4, <1>5, <1>8 DEF Unswept
  <2>2. Range(objects) = Swept
    BY <1>5, <1>8 DEF Range, Swept
  <2>3. Range(objects) = Reachable
    BY <1>4, <2>1, <2>2
  <2>4. HeapIsClosed'
    <3>1. Roots \subseteq Reachable /\ \A o \in Reachable : refs[o] \subseteq Reachable
      BY ReachableNow DEF IInv
    <3>. QED
      BY <1>1, <1>2, <1>4, <1>8, <2>3, <3>1 DEF HeapIsClosed, Closed
  <2>5. NoStaleMark' /\ SweepIsPartial'
    BY <1>2, <1>8, <2>1 DEF NoStaleMark, SweepIsPartial
  <2>. QED
    BY <1>3, <2>4, <2>5 DEF IInv
<1>. QED
  BY <1>6, <1>7, <1>8 DEF Sweep

\* The invariant speaks of the variables only.
LEMMA StutterStep == IInv /\ UNCHANGED vars => IInv'
<1>. SUFFICES ASSUME IInv, UNCHANGED vars PROVE IInv'
  OBVIOUS
<1>1. Roots' = Roots /\ Reachable' = Reachable
  BY ReachableUnchanged DEF vars
<1>. QED
  BY <1>1 DEF vars, IInv, TypeOK, HeapIsClosed, Closed, UnregisteredHasNoRoots, NoStaleMark,
     Mutating, MarkedIsReachable, RootsAreMarked, BlackIsDone, TracedAll, WeakTableIsClean,
     SweepIsPartial, Swept, Unswept

\* The invariant is inductive, and so it always holds.
THEOREM AlwaysIInv == Spec => []IInv
<1>1. IInv /\ TypeOK' /\ [Next]_vars => IInv'
  BY MutatorSteps, CollectGarbageStep, MarkRootsStep, TraceReferencesStep,
     HandleWeakReferencesStep, SweepStep, StutterStep DEF Next, Collecting
<1>. QED
  BY <1>1, InitIInv, TypeCorrect, PTL DEF Spec

-----------------------------------------------------------------------------
(* What the invariant is for.                                              *)

\* sweep never frees an object that the program can still get at, nor a string
\* that the intern table can still return.
THEOREM NothingDangles == Spec => []NoDanglingReference
<1>1. IInv => NoDanglingReference
  <2>. SUFFICES ASSUME IInv PROVE NoDanglingReference
    OBVIOUS
  <2>1. CASE phase = "sweep"
    <3>1. Reachable \subseteq Range(objects)
      BY <2>1 DEF IInv, SweepIsPartial, Swept, Unswept, Range
    <3>. QED
      BY <2>1, <3>1 DEF IInv, SweepIsPartial, NoDanglingReference
  <2>2. CASE phase # "sweep"
    BY <2>2, ReachableIsOnTheHeap DEF IInv, HeapIsClosed, NoDanglingReference
  <2>. QED
    BY <2>1, <2>2
<1>. QED
  BY <1>1, AlwaysIInv, PTL

\* A collection leaves no mark behind that would hide an object from the next.
THEOREM NothingStaysMarked == Spec => []NoStaleMark
<1>1. IInv => NoStaleMark
  BY DEF IInv
<1>. QED
  BY <1>1, AlwaysIInv, PTL

\* A blackened object never refers to one that is not marked.
THEOREM BlackStaysDone == Spec => []BlackIsDone
<1>1. IInv => BlackIsDone
  BY DEF IInv
<1>. QED
  BY <1>1, AlwaysIInv, PTL

\* When the sweep ends, all that is reachable is left, and nothing else.
LEMMA SweepLeavesReachable ==
    ASSUME IInv, Sweep, phase' = "mutate"
    PROVE  Range(objects') = Reachable'
<1>1. phase = "sweep" /\ position > Len(objects) /\ UNCHANGED <<objects, refs, roots>>
  BY DEF Sweep
<1>2. Reachable' = Reachable
  BY <1>1, ReachableUnchanged
<1>3. /\ DOMAIN objects = 1..Len(objects) /\ Len(objects) \in Nat /\ position \in Nat
      /\ Swept \cup isMarked = Reachable /\ isMarked \subseteq Unswept
  BY <1>1 DEF IInv, TypeOK, SweepIsPartial
<1>4. isMarked = {} /\ Range(objects) = Swept
  BY <1>1, <1>3 DEF Unswept, Swept, Range
<1>. QED
  BY <1>1, <1>2, <1>3, <1>4

\* A collection leaves exactly the reachable objects on the heap.
THEOREM GarbageIsFreed == Spec => NothingLeaks
<1>1. IInv /\ [Next]_vars => (phase = "sweep" /\ phase' = "mutate" => Range(objects') = Reachable')
  <2>. SUFFICES ASSUME IInv, [Next]_vars, phase = "sweep", phase' = "mutate"
                PROVE  Range(objects') = Reachable'
    OBVIOUS
  <2>1. Sweep
    BY DEF vars, Next, Collecting, BeginCompile, EndCompile, CollectGarbage, AllocateObject,
       SetRoot, SetReference, Intern, Mutating, MarkRoots, TraceReferences,
       HandleWeakReferences
  <2>. QED
    BY <2>1, SweepLeavesReachable
<1>. QED
  BY <1>1, AlwaysIInv, PTL DEF Spec, NothingLeaks

-----------------------------------------------------------------------------
(* The collector implements the atomic collection of Heap.                 *)

\* Heap speaks of the same reachable objects.
LEMMA SameReachable == H!Reachable = Reachable
BY DEF H!Reachable, H!Roots, H!Closed, Reachable, ReachableFrom, Roots, Closed

\* From the end of tracing on, the live objects are the reachable ones.
LiveIsReachable ==
    /\ Live = IF phase \in {"weak", "sweep"} THEN Reachable ELSE Range(objects)
    /\ Interned = IF phase = "weak" THEN strings \cap Reachable ELSE strings

\* Live is what the refinement takes it for.
LEMMA LiveObjects == IInv => LiveIsReachable
<1>. SUFFICES ASSUME IInv PROVE LiveIsReachable
  OBVIOUS
<1>. USE DEF LiveIsReachable
<1>1. /\ DOMAIN objects = 1..Len(objects) /\ Len(objects) \in Nat /\ position \in Nat
      /\ \A i, j \in DOMAIN objects : objects[i] = objects[j] => i = j
  BY DEF IInv, TypeOK
<1>2. CASE phase = "weak"
  <2>1. isMarked = Reachable /\ Reachable \subseteq Range(objects)
    BY <1>2, TracedIsReachable, ReachableIsOnTheHeap DEF IInv
  <2>2. Unswept = Range(objects)
    BY <1>2, <1>1 DEF Unswept, Range
  <2>. QED
    BY <1>2, <2>1, <2>2 DEF Live, Interned
<1>3. CASE phase = "sweep"
  <2>1. Swept \cup isMarked = Reachable /\ isMarked \subseteq Unswept
    BY <1>3 DEF IInv, SweepIsPartial
  <2>2. Range(objects) \ Unswept = Swept
    <3>1. ASSUME NEW i \in DOMAIN objects PROVE objects[i] \in Unswept <=> i >= position
      BY <1>1, <1>3 DEF Unswept
    <3>2. ASSUME NEW i \in DOMAIN objects PROVE objects[i] \in Swept <=> i < position
      BY <1>1 DEF Swept
    <3>3. \A i \in DOMAIN objects : objects[i] \notin Unswept <=> objects[i] \in Swept
      BY <1>1, <3>1, <3>2
    <3>4. Swept \subseteq Range(objects)
      BY DEF Swept, Range
    <3>. QED
      BY <3>3, <3>4 DEF Range
  <2>. QED
    BY <1>3, <2>1, <2>2 DEF Live, Interned
<1>4. CASE phase \notin {"weak", "sweep"}
  BY <1>4 DEF Live, Interned
<1>. QED
  BY <1>2, <1>3, <1>4

\* What the program does to the heap is allocation or mutation.
LEMMA ProgramRefines ==
    ASSUME IInv, IInv',
           \/ BeginCompile \/ EndCompile
           \/ \E o \in Obj, c \in Component : AllocateObject(o, c) \/ SetRoot(o, c)
           \/ \E o, p \in Obj : SetReference(o, p)
           \/ \E o \in Obj : Intern(o)
    PROVE  [H!Next]_H!vars
<1>1. phase = "mutate" /\ phase' = "mutate"
  BY DEF BeginCompile, EndCompile, AllocateObject, SetRoot, SetReference, Intern, Mutating
<1>2. Live = Range(objects) /\ Interned = strings
  BY <1>1, LiveObjects DEF LiveIsReachable
<1>3. Live' = Range(objects') /\ Interned' = strings'
  BY <1>1, <1>2, LiveObjects DEF Live, Interned
<1>4. /\ TypeOK /\ Reachable \in SUBSET Obj
      /\ \A c \in Component : roots[c] \subseteq Reachable
  BY ReachableNow DEF IInv
<1>5. CASE BeginCompile
  BY <1>2, <1>3, <1>5 DEF BeginCompile, H!vars
<1>6. CASE EndCompile
  <2>1. \A c \in Component : roots'[c] \subseteq Reachable
    BY <1>4, <1>6 DEF EndCompile, TypeOK, Component
  <2>2. H!Mutate
    BY <1>2, <1>3, <1>6, <2>1, SameReachable DEF EndCompile, H!Mutate
  <2>. QED
    BY <2>2 DEF H!Next
<1>7. ASSUME NEW o \in Obj, NEW c \in Component, AllocateObject(o, c)
      PROVE  H!Next
  <2>1. Range(objects') = Range(objects) \cup {o}
    BY <1>4, <1>7, ListAfterAllocation DEF AllocateObject, TypeOK
  <2>2. H!Allocate(o, c)
    BY <1>2, <1>3, <1>7, <2>1 DEF AllocateObject, H!Allocate
  <2>. QED
    BY <2>2 DEF H!Next
<1>8. ASSUME NEW o \in Obj, NEW c \in Component, SetRoot(o, c)
      PROVE  H!Next
  <2>1. \A d \in Component : roots'[d] \subseteq Reachable \cup strings
    BY <1>4, <1>8 DEF SetRoot, TypeOK
  <2>2. H!Mutate
    BY <1>2, <1>3, <1>4, <1>8, <2>1, SameReachable DEF SetRoot, H!Mutate, TypeOK
  <2>. QED
    BY <2>2 DEF H!Next
<1>9. ASSUME NEW o \in Obj, NEW p \in Obj, SetReference(o, p)
      PROVE  H!Next
  <2>1. /\ o \in Reachable /\ p \in Reachable
        /\ \A q \in Obj : q # o => refs'[q] = refs[q]
        /\ refs'[o] \subseteq refs[o] \cup {p}
        /\ UNCHANGED <<objects, roots, strings>>
    BY <1>4, <1>9 DEF SetReference, TypeOK
  <2>2. \A q \in Obj : refs'[q] \subseteq refs[q] \cup Reachable
    BY <2>1
  <2>3. H!Mutate
    BY <1>2, <1>3, <1>4, <2>1, <2>2, SameReachable DEF H!Mutate
  <2>. QED
    BY <2>3 DEF H!Next
<1>10. ASSUME NEW o \in Obj, Intern(o)
       PROVE  H!Next
  <2>1. H!Mutate
    BY <1>2, <1>3, <1>4, <1>10, SameReachable DEF Intern, H!Mutate, TypeOK
  <2>. QED
    BY <2>1 DEF H!Next
<1>. QED
  BY <1>5, <1>6, <1>7, <1>8, <1>9, <1>10

\* The collector's steps are stutters, but for the last step of tracing.
LEMMA CollectionRefines ==
    ASSUME IInv, IInv', CollectGarbage \/ Collecting
    PROVE  [H!Next]_H!vars
<1>1. /\ UNCHANGED <<refs, roots>>
      /\ Reachable' = Reachable
  BY ReachableUnchanged DEF CollectGarbage, Collecting, MarkRoots, TraceReferences,
     HandleWeakReferences, Sweep, heap
<1>2. /\ Live' = IF phase' \in {"weak", "sweep"} THEN Reachable' ELSE Range(objects')
      /\ Interned' = IF phase' = "weak" THEN strings' \cap Reachable' ELSE strings'
  <2>1. LiveIsReachable'
    BY LiveObjects, PTL
  <2>. QED
    BY <2>1 DEF LiveIsReachable
<1>3. /\ Live = IF phase \in {"weak", "sweep"} THEN Reachable ELSE Range(objects)
      /\ Interned = IF phase = "weak" THEN strings \cap Reachable ELSE strings
  BY LiveObjects DEF LiveIsReachable
<1>4. CASE CollectGarbage
  BY <1>1, <1>2, <1>3, <1>4 DEF CollectGarbage, Mutating, heap, H!vars
<1>5. CASE MarkRoots
  BY <1>1, <1>2, <1>3, <1>5 DEF MarkRoots, heap, H!vars
<1>6. CASE TraceReferences
  <2>1. CASE phase' = "trace"
    BY <1>1, <1>2, <1>3, <1>6, <2>1 DEF TraceReferences, heap, H!vars
  <2>2. CASE phase' # "trace"
    <3>1. phase = "trace" /\ phase' = "weak" /\ UNCHANGED strings
      BY <1>6, <2>2 DEF TraceReferences, heap
    <3>2. H!Collect
      BY <1>1, <1>2, <1>3, <3>1, SameReachable DEF H!Collect
    <3>. QED
      BY <3>2 DEF H!Next
  <2>. QED
    BY <2>1, <2>2
<1>7. CASE HandleWeakReferences
  <2>1. phase = "weak" /\ phase' \in {"weak", "sweep"}
    BY <1>7 DEF HandleWeakReferences
  <2>2. isMarked = Reachable
    BY <2>1, TracedIsReachable
  <2>3. CASE phase' = "weak"
    <3>1. strings' \cap Reachable = strings \cap Reachable
      BY <1>7, <2>2, <2>3 DEF HandleWeakReferences
    <3>. QED
      BY <1>1, <1>2, <1>3, <2>1, <2>3, <3>1 DEF H!vars
  <2>4. CASE phase' = "sweep"
    <3>1. strings' = strings /\ strings' \subseteq Reachable'
      BY <1>7, <2>1, <2>4 DEF HandleWeakReferences, IInv, SweepIsPartial
    <3>. QED
      BY <1>1, <1>2, <1>3, <2>1, <2>4, <3>1 DEF H!vars
  <2>. QED
    BY <2>1, <2>3, <2>4
<1>8. CASE Sweep
  <2>1. phase = "sweep" /\ phase' \in {"sweep", "mutate"} /\ UNCHANGED strings
    BY <1>8 DEF Sweep
  <2>2. CASE phase' = "sweep"
    BY <1>1, <1>2, <1>3, <2>1, <2>2 DEF H!vars
  <2>3. CASE phase' = "mutate"
    <3>1. Range(objects') = Reachable'
      BY <1>8, <2>1, <2>3, SweepLeavesReachable
    <3>. QED
      BY <1>1, <1>2, <1>3, <2>1, <2>3, <3>1 DEF H!vars
  <2>. QED
    BY <2>1, <2>2, <2>3
<1>. QED
  BY <1>4, <1>5, <1>6, <1>7, <1>8 DEF Collecting

\* To the compiler and the VM, a collection by marking and sweeping is one step
\* that forgets the unreachable objects, at the end of tracing.
THEOREM ImplementsAtomicCollection == Spec => ImplementsHeap
<1>1. Init => H!Init
  <2>. SUFFICES ASSUME Init PROVE H!Init
    OBVIOUS
  <2>1. Live = {} /\ Interned = {}
    BY DEF Init, Live, Interned, Range
  <2>. QED
    BY <2>1 DEF Init, H!Init
<1>2. IInv /\ IInv' /\ [Next]_vars => [H!Next]_H!vars
  <2>. SUFFICES ASSUME IInv, IInv', [Next]_vars PROVE [H!Next]_H!vars
    OBVIOUS
  <2>1. CASE UNCHANGED vars
    BY <2>1 DEF vars, H!vars, Live, Interned, Unswept
  <2>2. CASE Next
    BY <2>2, ProgramRefines, CollectionRefines DEF Next
  <2>. QED
    BY <2>1, <2>2
<1>. QED
  BY <1>1, <1>2, AlwaysIInv, PTL DEF Spec, ImplementsHeap, H!Spec
=============================================================================
