--------------------------- MODULE UpvaluesProofs ---------------------------
(* Theorems about frames and upvalues, for every program the compiler can    *)
(* emit instructions for and every bound: the list of open upvalues stays    *)
(* sorted and on the stack, and a script that runs once reaches each         *)
(* captured variable through one upvalue, also when it has left the stack.   *)
EXTENDS Upvalues, NaturalFacts, FiniteSetTheorems, SequenceTheorems

-----------------------------------------------------------------------------
(* The inductive invariant, in named parts.                                  *)

Names0 == 0..VariableBound

\* What TypeOK leaves to the shape of the state.
Shape ==
    /\ owner \in Seq(Names0)
    /\ frames \in Seq([closure : Closure, slots : Nat])
    /\ openUpvalues \in Seq(Nat)
    /\ upvalues \in Seq([location : Nat, closed : Value])
    /\ \E n \in Closure : /\ closures \in [0..n -> [upvalues : Seq(Nat), arity : Nat]]
                          /\ captures \in [0..n -> Seq(Variable)]

\* A frame starts above the one that called it.
FramesStacked == \A i, j \in DOMAIN frames : i < j => frames[i].slots < frames[j].slots

\* An open upvalue is on a variable that was captured, of a frame that runs.
OpenOnVariables ==
    \A i \in DOMAIN openUpvalues :
        LET at == Location(openUpvalues[i])
        IN  /\ frames # <<>> /\ frames[1].slots <= at
            /\ owner[at] # Temporary /\ IsCaptured(owner[at])

\* A variable lives in one slot, and was declared; so was what is captured.
VariablesDistinct ==
    /\ \A s, t \in DOMAIN owner : owner[s] = owner[t] /\ owner[s] # Temporary => s = t
    /\ \A s \in DOMAIN owner : owner[s] <= declared
    /\ \A c \in DOMAIN captures : \A i \in DOMAIN captures[c] : captures[c][i] <= declared

CapturesMatch == \A c \in DOMAIN closures : DOMAIN captures[c] = DOMAIN closures[c].upvalues

IInv ==
    /\ TypeOK /\ Shape /\ FramesStacked /\ OpenListSorted /\ OpenOnVariables
    /\ VariablesDistinct /\ CapturesMatch
    /\ ~Interactive => OneLocation
-----------------------------------------------------------------------------
(* The state.                                                                *)

Object == [location : Nat, closed : Value]

LEMMA Stacks ==
    ASSUME TypeOK, Shape
    PROVE  /\ Top \in Nat /\ DOMAIN stack = 1..Top /\ DOMAIN owner = 1..Top /\ Len(owner) = Top
           /\ stack \in Seq(Value) /\ \A s \in 1..Top : stack[s] \in Value /\ owner[s] \in Names0
           /\ Len(frames) \in Nat /\ DOMAIN frames = 1..Len(frames)
           /\ Len(openUpvalues) \in Nat /\ DOMAIN openUpvalues = 1..Len(openUpvalues)
           /\ Len(upvalues) \in Nat /\ DOMAIN upvalues = 1..Len(upvalues)
           /\ \A u \in DOMAIN upvalues : upvalues[u] \in Object /\ Location(u) \in Nat
<1>1. Top \in Nat /\ DOMAIN stack = 1..Top /\ stack \in Seq(Value) /\ \A s \in 1..Top : stack[s] \in Value
  BY DEF TypeOK, Top
<1>2. DOMAIN owner = 1..Top /\ Len(owner) = Top /\ \A s \in 1..Top : owner[s] \in Names0
  BY DEF TypeOK, Shape, Top
<1>3. /\ Len(frames) \in Nat /\ DOMAIN frames = 1..Len(frames)
      /\ Len(openUpvalues) \in Nat /\ DOMAIN openUpvalues = 1..Len(openUpvalues)
      /\ Len(upvalues) \in Nat /\ DOMAIN upvalues = 1..Len(upvalues)
  BY DEF Shape
<1>4. \A u \in DOMAIN upvalues : upvalues[u] \in Object /\ Location(u) \in Nat
  <2>1. upvalues \in Seq(Object)
    BY DEF Shape, Object
  <2>2. \A u \in DOMAIN upvalues : upvalues[u] \in Object
    BY <1>3, <2>1, ElementOfSeq
  <2>. QED
    BY <2>2 DEF Object, Location
<1>. QED
  BY <1>1, <1>2, <1>3, <1>4

LEMMA RunningFrame ==
    ASSUME TypeOK, Shape, FramesStacked, Running
    PROVE  /\ Len(frames) \in DOMAIN frames /\ 1 \in DOMAIN frames /\ Frame = frames[Len(frames)]
           /\ Frame.closure \in DOMAIN closures /\ Frame.slots \in 1..Top
           /\ frames[1].slots \in 1..Frame.slots
<1>1. Len(frames) \in DOMAIN frames /\ 1 \in DOMAIN frames
  BY DEF Shape, Running
<1>2. Frame.closure \in DOMAIN closures /\ Frame.slots \in 1..Top /\ frames[1].slots \in 1..Top
  BY <1>1 DEF TypeOK, Frame
<1>3. frames[1].slots <= Frame.slots
  BY <1>1, <1>2 DEF FramesStacked, Frame
<1>. QED
  BY <1>1, <1>2, <1>3 DEF Frame

\* The slots of open upvalues have names, so what has none can be popped.
LEMMA OpenSlots ==
    ASSUME TypeOK, Shape, OpenListSorted, OpenOnVariables, NEW i \in DOMAIN openUpvalues
    PROVE  /\ openUpvalues[i] \in DOMAIN upvalues
           /\ Location(openUpvalues[i]) \in 1..Top
           /\ owner[Location(openUpvalues[i])] # Temporary
  BY Stacks DEF TypeOK, OpenListSorted, OpenOnVariables

-----------------------------------------------------------------------------
(* closeUpvalues.                                                            *)

\* How many of the list's first upvalues it closes.
Closes(n, last) ==
    /\ n \in 0..Len(openUpvalues)
    /\ \A j \in 1..n : Location(openUpvalues[j]) >= last
    /\ \A j \in n + 1..Len(openUpvalues) : Location(openUpvalues[j]) < last

LEMMA ClosesSome ==
    ASSUME TypeOK, Shape, OpenListSorted, NEW last \in Nat
    PROVE  \E n \in 0..Len(openUpvalues) : /\ \A j \in 1..n : Location(openUpvalues[j]) >= last
                                           /\ n < Len(openUpvalues) => Location(openUpvalues[n + 1]) < last
<1>. DEFINE S == {i \in 0..Len(openUpvalues) :
                    i < Len(openUpvalues) => Location(openUpvalues[i + 1]) < last}
<1>1. Len(openUpvalues) \in S /\ S \in SUBSET Nat
  BY Stacks
<1>2. PICK n \in S : \A m \in S : n <= m
  BY <1>1, LeastNumber
<1>3. ASSUME NEW j \in 1..n
      PROVE  Location(openUpvalues[j]) >= last
  <2>1. j - 1 \in 0..Len(openUpvalues) /\ j - 1 \notin S /\ j \in DOMAIN openUpvalues
    <3>1. n \in 0..Len(openUpvalues) /\ Len(openUpvalues) \in Nat /\ DOMAIN openUpvalues = 1..Len(openUpvalues)
      BY <1>2, Stacks
    <3>2. ~(n <= j - 1)
      BY <1>3, <3>1
    <3>. HIDE DEF S
    <3>. QED
      BY <1>2, <1>3, <3>1, <3>2
  <2>2. ~(Location(openUpvalues[(j - 1) + 1]) < last) /\ (j - 1) + 1 = j
    BY <2>1, Stacks
  <2>3. Location(openUpvalues[j]) \in Nat
    BY <2>1, Stacks DEF TypeOK
  <2>. QED
    BY <2>2, <2>3
<1>. QED
  BY <1>2, <1>3

LEMMA Closing ==
    ASSUME TypeOK, Shape, OpenListSorted, NEW last \in Nat, CloseUpvalues(last)
    PROVE  \E n : /\ Closes(n, last)
                  /\ openUpvalues' = SubSeq(openUpvalues, n + 1, Len(openUpvalues))
                  /\ upvalues' = [u \in DOMAIN upvalues |->
                                     IF \E j \in 1..n : openUpvalues[j] = u
                                     THEN [location |-> 0, closed |-> stack[Location(u)]]
                                     ELSE upvalues[u]]
<1>. DEFINE P(i) == /\ \A j \in 1..i : Location(openUpvalues[j]) >= last
                    /\ i < Len(openUpvalues) => Location(openUpvalues[i + 1]) < last
            n == CHOOSE i \in 0..Len(openUpvalues) : P(i)
            closing == {openUpvalues[j] : j \in 1..n}
<1>1. n \in 0..Len(openUpvalues) /\ P(n)
  <2>1. \E i \in 0..Len(openUpvalues) : P(i)
    BY ClosesSome
  <2>. HIDE DEF P
  <2>. QED
    BY <2>1
<1>2. /\ openUpvalues' = SubSeq(openUpvalues, n + 1, Len(openUpvalues))
      /\ upvalues' = [u \in DOMAIN upvalues |->
                         IF u \in closing THEN [location |-> 0, closed |-> stack[Location(u)]] ELSE upvalues[u]]
  BY Zenon DEF CloseUpvalues
<1>. HIDE DEF n
<1>3. ASSUME NEW j \in n + 1..Len(openUpvalues)
      PROVE  Location(openUpvalues[j]) < last
  <2>1. n + 1 \in DOMAIN openUpvalues /\ j \in DOMAIN openUpvalues /\ Location(openUpvalues[n + 1]) < last
    BY <1>1, <1>3, Stacks
  <2>2. Location(openUpvalues[n + 1]) \in Nat /\ Location(openUpvalues[j]) \in Nat
    BY <2>1, Stacks DEF TypeOK
  <2>3. n + 1 < j => Location(openUpvalues[n + 1]) > Location(openUpvalues[j])
    BY <2>1 DEF OpenListSorted
  <2>4. n + 1 < j \/ n + 1 = j
    BY <1>1, <1>3
  <2>. QED
    BY <2>1, <2>2, <2>3, <2>4
<1>4. Closes(n, last)
  BY <1>1, <1>3 DEF Closes
<1>5. \A u : u \in closing <=> \E j \in 1..n : openUpvalues[j] = u
  OBVIOUS
<1>6. upvalues' = [u \in DOMAIN upvalues |->
                     IF \E j \in 1..n : openUpvalues[j] = u
                     THEN [location |-> 0, closed |-> stack[Location(u)]] ELSE upvalues[u]]
  <2>. HIDE DEF closing
  <2>. QED
    BY <1>2, <1>5
<1>. QED
  BY <1>2, <1>4, <1>6

\* What the closing leaves open, and where every upvalue then is.
Closed(last) ==
    /\ openUpvalues' \in Seq(Nat)
    /\ \A i \in DOMAIN openUpvalues' :
           /\ openUpvalues'[i] \in DOMAIN upvalues' /\ upvalues'[openUpvalues'[i]] = upvalues[openUpvalues'[i]]
           /\ \E j \in DOMAIN openUpvalues : openUpvalues'[i] = openUpvalues[j]
           /\ Location(openUpvalues'[i]) < last
    /\ \A i, j \in DOMAIN openUpvalues' :
           i < j => upvalues'[openUpvalues'[i]].location > upvalues'[openUpvalues'[j]].location
    /\ upvalues' \in Seq(Object) /\ Len(upvalues') = Len(upvalues)
    /\ \A j \in DOMAIN openUpvalues :
           IF Location(openUpvalues[j]) >= last
           THEN upvalues'[openUpvalues[j]].location = 0
           ELSE \E i \in DOMAIN openUpvalues' : openUpvalues'[i] = openUpvalues[j]
    /\ \A u \in DOMAIN upvalues :
           \/ upvalues'[u] = upvalues[u]
           \/ upvalues'[u].location = 0 /\ \E j \in DOMAIN openUpvalues : openUpvalues[j] = u

LEMMA ClosingCloses ==
    ASSUME TypeOK, Shape, OpenListSorted, NEW last \in Nat, CloseUpvalues(last)
    PROVE  Closed(last)
<1>1. PICK n : /\ Closes(n, last)
               /\ openUpvalues' = SubSeq(openUpvalues, n + 1, Len(openUpvalues))
               /\ upvalues' = [u \in DOMAIN upvalues |->
                                  IF \E j \in 1..n : openUpvalues[j] = u
                                  THEN [location |-> 0, closed |-> stack[Location(u)]]
                                  ELSE upvalues[u]]
  BY Closing
<1>. DEFINE m == Len(openUpvalues)
<1>2. n \in 0..m /\ m \in Nat /\ DOMAIN openUpvalues = 1..m
  BY <1>1, Stacks DEF Closes
<1>3. /\ openUpvalues' \in Seq(Nat) /\ Len(openUpvalues') = m - n /\ DOMAIN openUpvalues' = 1..m - n
      /\ \A i \in 1..m - n : openUpvalues'[i] = openUpvalues[n + i]
  <2>1. n + 1 \in Int /\ m \in Int /\ \A i \in n + 1..m : openUpvalues[i] \in Nat
    BY <1>2 DEF Shape
  <2>2. /\ openUpvalues' \in Seq(Nat)
        /\ Len(openUpvalues') = IF n + 1 <= m THEN m - (n + 1) + 1 ELSE 0
        /\ \A i \in 1..m - (n + 1) + 1 : openUpvalues'[i] = openUpvalues[n + 1 + i - 1]
    BY <1>1, <2>1, SubSeqProperties
  <2>3. Len(openUpvalues') = m - n
    <3>1. n + 1 <= m => m - (n + 1) + 1 = m - n
      BY <1>2
    <3>2. n \in Int /\ m \in Int /\ n <= m
      BY <1>2
    <3>3. ~(n + 1 <= m) => n = m
      BY <3>2
    <3>4. ~(n + 1 <= m) => m - n = 0
      BY <3>2, <3>3
    <3>. QED
      BY <2>2, <3>1, <3>4
  <2>4. \A i \in 1..m - n : i \in 1..m - (n + 1) + 1 /\ n + 1 + i - 1 = n + i
    BY <1>2
  <2>. QED
    BY <2>2, <2>3, <2>4
<1>4. \A j \in 1..m : openUpvalues[j] \in DOMAIN upvalues /\ Location(openUpvalues[j]) \in Nat
  BY <1>2, Stacks DEF TypeOK
<1>5. \A j \in 1..n : Location(openUpvalues[j]) >= last
  BY <1>1 DEF Closes
<1>6. \A j \in n + 1..m : Location(openUpvalues[j]) < last
  BY <1>1 DEF Closes
<1>7. /\ DOMAIN upvalues' = DOMAIN upvalues
      /\ \A u \in DOMAIN upvalues :
             IF \E j \in 1..n : openUpvalues[j] = u
             THEN upvalues'[u] = [location |-> 0, closed |-> stack[Location(u)]]
             ELSE upvalues'[u] = upvalues[u]
  BY <1>1
<1>8. \A j \in n + 1..m : upvalues'[openUpvalues[j]] = upvalues[openUpvalues[j]]
  <2>1. SUFFICES ASSUME NEW j \in n + 1..m, NEW k \in 1..n, openUpvalues[k] = openUpvalues[j]
                 PROVE  FALSE
    BY <1>2, <1>4, <1>7
  <2>. QED
    BY <1>2, <1>4, <1>5, <1>6, <2>1
<1>9. \A i \in 1..m - n : n + i \in n + 1..m /\ n + i \in 1..m
  BY <1>2
<1>10. upvalues' \in Seq(Object) /\ Len(upvalues') = Len(upvalues)
  <2>1. \A u \in DOMAIN upvalues : upvalues'[u] \in Object
    <3>1. SUFFICES ASSUME NEW u \in DOMAIN upvalues, NEW j \in 1..n, openUpvalues[j] = u
                   PROVE  stack[Location(u)] \in Value
      BY <1>7, Stacks DEF Object
    <3>2. Location(u) \in DOMAIN stack
      BY <1>2, <3>1 DEF OpenListSorted
    <3>. QED
      BY <3>2, Stacks
  <2>2. upvalues' \in [1..Len(upvalues) -> Object] /\ Len(upvalues) \in Nat
    BY <1>1, <2>1, Stacks
  <2>. QED
    BY <2>2
<1>11. ASSUME NEW i \in DOMAIN openUpvalues'
       PROVE  /\ openUpvalues'[i] \in DOMAIN upvalues' /\ upvalues'[openUpvalues'[i]] = upvalues[openUpvalues'[i]]
              /\ \E j \in DOMAIN openUpvalues : openUpvalues'[i] = openUpvalues[j]
              /\ Location(openUpvalues'[i]) < last
  <2>. DEFINE k == n + i
  <2>1. k \in 1..m /\ k \in n + 1..m /\ openUpvalues'[i] = openUpvalues[k]
    BY <1>3, <1>9
  <2>. HIDE DEF k
  <2>. QED
    BY <1>2, <1>4, <1>6, <1>7, <1>8, <2>1
<1>12. ASSUME NEW i \in DOMAIN openUpvalues', NEW j \in DOMAIN openUpvalues', i < j
       PROVE  upvalues'[openUpvalues'[i]].location > upvalues'[openUpvalues'[j]].location
  <2>1. n + i < n + j /\ n + i \in DOMAIN openUpvalues /\ n + j \in DOMAIN openUpvalues
    BY <1>2, <1>3, <1>9, <1>12
  <2>2. Location(openUpvalues[n + i]) > Location(openUpvalues[n + j])
    BY <2>1 DEF OpenListSorted
  <2>. QED
    BY <1>3, <1>11, <1>12, <2>2 DEF Location
<1>13. ASSUME NEW j \in DOMAIN openUpvalues
       PROVE  IF Location(openUpvalues[j]) >= last
              THEN upvalues'[openUpvalues[j]].location = 0
              ELSE \E i \in DOMAIN openUpvalues' : openUpvalues'[i] = openUpvalues[j]
  <2>1. CASE j \in 1..n
    BY <1>4, <1>5, <1>7, <2>1, <1>2
  <2>2. CASE j \in n + 1..m
    <3>1. j - n \in 1..m - n /\ n + (j - n) = j
      BY <1>2, <2>2
    <3>2. ~(Location(openUpvalues[j]) >= last)
      BY <1>2, <1>4, <1>6, <2>2
    <3>. QED
      BY <1>3, <3>1, <3>2
  <2>. QED
    BY <1>2, <2>1, <2>2
<1>14. ASSUME NEW u \in DOMAIN upvalues
       PROVE  \/ upvalues'[u] = upvalues[u]
              \/ upvalues'[u].location = 0 /\ \E j \in DOMAIN openUpvalues : openUpvalues[j] = u
  BY <1>2, <1>7
<1>. QED
  BY <1>3, <1>10, <1>11, <1>12, <1>13, <1>14 DEF Closed
-----------------------------------------------------------------------------
(* captureUpvalue.                                                           *)

\* A value in the place of another in the list: what comes after moves up.
IsInserted(r, s, x, p) ==
    /\ r \in Seq(Nat) /\ Len(r) = Len(s) + 1
    /\ \A i \in 1..p - 1 : r[i] = s[i]
    /\ r[p] = x
    /\ \A i \in p..Len(s) : r[i + 1] = s[i]

LEMMA Inserted ==
    ASSUME NEW s \in Seq(Nat), NEW x \in Nat, NEW p \in 1..Len(s) + 1
    PROVE  IsInserted(SubSeq(s, 1, p - 1) \o <<x>> \o SubSeq(s, p, Len(s)), s, x, p)
<1>. DEFINE n == Len(s)
            a == SubSeq(s, 1, p - 1)
            b == a \o <<x>>
            c == SubSeq(s, p, n)
            r == b \o c
<1>1. n \in Nat /\ p \in Int /\ 1 <= p /\ p <= n + 1
  OBVIOUS
<1>2. \A i \in 1..n : s[i] \in Nat
  OBVIOUS
<1>. HIDE DEF n
<1>3. a \in Seq(Nat) /\ Len(a) = p - 1 /\ \A i \in 1..p - 1 : a[i] = s[i]
  <2>1. \A i \in 1..p - 1 : s[i] \in Nat
    BY <1>1, <1>2
  <2>2. /\ a \in Seq(Nat) /\ Len(a) = IF 1 <= p - 1 THEN (p - 1) - 1 + 1 ELSE 0
        /\ \A i \in 1..(p - 1) - 1 + 1 : a[i] = s[1 + i - 1]
    BY <1>1, <2>1, SubSeqProperties
  <2>3. ~(1 <= p - 1) => p - 1 = 0
    BY <1>1
  <2>4. (p - 1) - 1 + 1 = p - 1 /\ \A i \in 1..p - 1 : 1 + i - 1 = i
    BY <1>1
  <2>. QED
    BY <2>2, <2>3, <2>4
<1>4. c \in Seq(Nat) /\ Len(c) = n - p + 1 /\ \A i \in 1..n - p + 1 : c[i] = s[p + i - 1]
  <2>1. \A i \in p..n : s[i] \in Nat
    BY <1>1, <1>2
  <2>2. /\ c \in Seq(Nat) /\ Len(c) = IF p <= n THEN n - p + 1 ELSE 0
        /\ \A i \in 1..n - p + 1 : c[i] = s[p + i - 1]
    BY <1>1, <2>1, SubSeqProperties
  <2>3. ~(p <= n) => n - p + 1 = 0
    BY <1>1
  <2>. QED
    BY <2>2, <2>3
<1>. HIDE DEF a, c
<1>5. b \in Seq(Nat) /\ Len(b) = p /\ \A i \in 1..p : b[i] = IF i <= p - 1 THEN a[i] ELSE x
  BY <1>1, <1>3
<1>. HIDE DEF b
<1>6. r = b \o c
  OBVIOUS
<1>. HIDE DEF r
<1>7. /\ r \in Seq(Nat) /\ Len(r) = p + (n - p + 1)
      /\ \A i \in 1..p + (n - p + 1) : r[i] = IF i <= p THEN b[i] ELSE c[i - p]
  <2>1. /\ b \o c \in Seq(Nat) /\ Len(b \o c) = Len(b) + Len(c)
        /\ \A i \in 1..Len(b) + Len(c) : (b \o c)[i] = IF i <= Len(b) THEN b[i] ELSE c[i - Len(b)]
    BY <1>4, <1>5, ConcatProperties
  <2>2. Len(b) = p /\ Len(c) = n - p + 1
    BY <1>4, <1>5
  <2>. QED
    BY <1>6, <2>1, <2>2, Zenon
<1>8. p + (n - p + 1) = n + 1
  BY <1>1
<1>9. \A i \in 1..p - 1 : i \in 1..n + 1 /\ i \in 1..p /\ i <= p /\ i <= p - 1
  BY <1>1
<1>10. p \in 1..n + 1 /\ p \in 1..p /\ p <= p /\ ~(p <= p - 1)
  BY <1>1
<1>11. \A i \in p..n : /\ i + 1 \in 1..n + 1 /\ ~(i + 1 <= p) /\ (i + 1) - p \in 1..n - p + 1
                     /\ p + ((i + 1) - p) - 1 = i
  BY <1>1
<1>12. \A i \in p..n : r[i + 1] = s[i]
  <2>1. SUFFICES ASSUME NEW i \in p..n PROVE r[i + 1] = s[i]
    OBVIOUS
  <2>2. r[i + 1] = c[(i + 1) - p]
    BY <1>7, <1>8, <1>11
  <2>3. c[(i + 1) - p] = s[p + ((i + 1) - p) - 1]
    BY <1>4, <1>11
  <2>. QED
    BY <1>11, <2>2, <2>3
<1>13. \A i \in 1..p - 1 : r[i] = s[i]
  BY <1>3, <1>5, <1>7, <1>8, <1>9, Zenon
<1>14. r[p] = x
  BY <1>5, <1>7, <1>8, <1>10
<1>. QED
  BY <1>7, <1>8, <1>12, <1>13, <1>14 DEF IsInserted, r, a, b, c, n

Capturing == [upvalues : Seq(Object), open : Seq(Nat), captured : Seq(Nat)]

\* The list is sorted, and in the heap.
Sorted(m) ==
    /\ m \in Capturing
    /\ \A i \in DOMAIN m.open : m.open[i] \in DOMAIN m.upvalues
    /\ \A i, j \in DOMAIN m.open :
           i < j => m.upvalues[m.open[i]].location > m.upvalues[m.open[j]].location

IsOpen(m, u) == \E i \in DOMAIN m.open : m.open[i] = u

\* r comes of m when upvalue u is captured: shared or new, u is open and last.
Extends(m, r, u) ==
    /\ Sorted(r)
    /\ Len(m.upvalues) <= Len(r.upvalues)
    /\ \A v \in DOMAIN m.upvalues : r.upvalues[v] = m.upvalues[v]
    /\ \A v \in DOMAIN r.upvalues : v \in DOMAIN m.upvalues \/ v = u
    /\ r.captured = Append(m.captured, u)
    /\ \A v \in Nat : IsOpen(r, v) <=> IsOpen(m, v) \/ v = u

LEMMA SortedList ==
    ASSUME NEW m, Sorted(m)
    PROVE  /\ m.upvalues \in Seq(Object) /\ m.open \in Seq(Nat) /\ m.captured \in Seq(Nat)
           /\ Len(m.open) \in Nat /\ DOMAIN m.open = 1..Len(m.open)
           /\ Len(m.upvalues) \in Nat /\ DOMAIN m.upvalues = 1..Len(m.upvalues)
           /\ \A u \in DOMAIN m.upvalues : m.upvalues[u].location \in Nat
           /\ \A i \in DOMAIN m.open : /\ m.open[i] \in DOMAIN m.upvalues
                                      /\ m.upvalues[m.open[i]].location \in Nat
<1>1. m.upvalues \in Seq(Object) /\ m.open \in Seq(Nat) /\ m.captured \in Seq(Nat)
  BY DEF Sorted, Capturing
<1>2. /\ Len(m.open) \in Nat /\ DOMAIN m.open = 1..Len(m.open)
      /\ Len(m.upvalues) \in Nat /\ DOMAIN m.upvalues = 1..Len(m.upvalues)
  BY <1>1
<1>3. \A u \in DOMAIN m.upvalues : m.upvalues[u] \in Object
  BY <1>1, <1>2, ElementOfSeq
<1>4. \A u \in DOMAIN m.upvalues : m.upvalues[u].location \in Nat
  BY <1>3 DEF Object
<1>5. \A i \in DOMAIN m.open : m.open[i] \in DOMAIN m.upvalues
  BY DEF Sorted
<1>. QED
  BY <1>1, <1>2, <1>4, <1>5

LEMMA CapturePlace ==
    ASSUME NEW m, Sorted(m), NEW local \in Nat
    PROVE  \E p \in 1..Len(m.open) + 1 :
               /\ \A j \in 1..p - 1 : m.upvalues[m.open[j]].location > local
               /\ p <= Len(m.open) => m.upvalues[m.open[p]].location <= local
<1>. DEFINE n == Len(m.open)
            S == {i \in 1..n + 1 : i <= n => m.upvalues[m.open[i]].location <= local}
<1>1. n \in Nat /\ \A i \in 1..n : m.upvalues[m.open[i]].location \in Nat
  BY SortedList
<1>. HIDE DEF n
<1>2. n + 1 \in S /\ S \in SUBSET Nat
  BY <1>1
<1>3. PICK p \in S : \A i \in S : p <= i
  BY <1>2, LeastNumber
<1>4. ASSUME NEW j \in 1..p - 1
      PROVE  m.upvalues[m.open[j]].location > local
  <2>1. p \in 1..n + 1 /\ j \in 1..n /\ ~(p <= j) /\ j \in 1..n + 1
    BY <1>1, <1>3
  <2>2. j \notin S
    <3>. HIDE DEF S
    <3>. QED
      BY <1>3, <2>1
  <2>3. ~(m.upvalues[m.open[j]].location <= local)
    BY <2>1, <2>2
  <2>. QED
    BY <1>1, <2>1, <2>3
<1>. QED
  BY <1>3, <1>4 DEF n

LEMMA CaptureWorks ==
    ASSUME NEW m, Sorted(m), NEW local \in Nat
    PROVE  \E u \in DOMAIN CaptureUpvalue(m, local).upvalues :
               /\ Extends(m, CaptureUpvalue(m, local), u)
               /\ CaptureUpvalue(m, local).upvalues[u].location = local
<1>. DEFINE At(i) == m.upvalues[m.open[i]].location
            P(i) == /\ \A j \in 1..i - 1 : At(j) > local
                    /\ i <= Len(m.open) => At(i) <= local
            p == CHOOSE i \in 1..Len(m.open) + 1 : P(i)
            n == Len(m.open)
            new == Len(m.upvalues) + 1
            r == CaptureUpvalue(m, local)
<1>1. r = IF p <= n /\ At(p) = local
          THEN [m EXCEPT !.captured = Append(@, m.open[p])]
          ELSE [upvalues |-> Append(m.upvalues, [location |-> local, closed |-> NIL_VAL]),
                open |-> SubSeq(m.open, 1, p - 1) \o <<new>> \o SubSeq(m.open, p, n),
                captured |-> Append(m.captured, new)]
  BY Zenon DEF CaptureUpvalue
<1>2. p \in 1..n + 1 /\ P(p)
  <2>1. \E i \in 1..Len(m.open) + 1 : P(i)
    BY CapturePlace
  <2>. HIDE DEF P
  <2>. QED
    BY <2>1
<1>. HIDE DEF p, n
<1>3. /\ m \in Capturing /\ n \in Nat /\ DOMAIN m.open = 1..n /\ Len(m.upvalues) \in Nat
      /\ DOMAIN m.upvalues = 1..Len(m.upvalues) /\ m.open \in Seq(Nat)
  BY SortedList DEF Sorted, n
<1>4. \A i \in 1..n : m.open[i] \in DOMAIN m.upvalues /\ At(i) \in Nat
  BY <1>3, SortedList
<1>5. CASE p <= n /\ At(p) = local
  <2>1. p \in 1..n /\ m.open[p] \in Nat
    BY <1>2, <1>3, <1>4, <1>5
  <2>2. r = [m EXCEPT !.captured = Append(@, m.open[p])]
    <3>. HIDE DEF r
    <3>. QED
      BY <1>1, <1>5
  <2>. HIDE DEF r
  <2>3. r.open = m.open /\ r.upvalues = m.upvalues /\ r.captured = Append(m.captured, m.open[p])
    BY <1>3, <2>2 DEF Capturing
  <2>4. Append(m.captured, m.open[p]) \in Seq(Nat)
    BY <2>1, SortedList
  <2>5. r \in Capturing
    BY <1>3, <2>2, <2>4 DEF Capturing
  <2>6. Sorted(r)
    BY <2>3, <2>5 DEF Sorted
  <2>7. \A v \in Nat : IsOpen(r, v) <=> IsOpen(m, v) \/ v = m.open[p]
    BY <1>3, <2>1, <2>3 DEF IsOpen
  <2>8. Extends(m, r, m.open[p])
    BY <1>3, <2>3, <2>6, <2>7 DEF Extends
  <2>. QED
    BY <1>4, <1>5, <2>1, <2>3, <2>8 DEF r
<1>6. CASE ~(p <= n /\ At(p) = local)
  <2>. DEFINE o == [location |-> local, closed |-> NIL_VAL]
  <2>1. /\ r.upvalues = Append(m.upvalues, o)
        /\ r.open = SubSeq(m.open, 1, p - 1) \o <<new>> \o SubSeq(m.open, p, n)
        /\ r.captured = Append(m.captured, new)
        /\ r = [upvalues |-> r.upvalues, open |-> r.open, captured |-> r.captured]
    <3>. HIDE DEF r
    <3>. QED
      BY <1>1, <1>6
  <2>. HIDE DEF r
  <2>2. o \in Object /\ new \in Nat
    BY <1>3, DataAssumption DEF Object, Value
  <2>. HIDE DEF o
  <2>3. /\ r.upvalues \in Seq(Object) /\ Len(r.upvalues) = Len(m.upvalues) + 1
        /\ DOMAIN r.upvalues = 1..Len(m.upvalues) + 1
        /\ r.upvalues[new] = o /\ \A v \in DOMAIN m.upvalues : r.upvalues[v] = m.upvalues[v]
    BY <1>3, <2>1, <2>2 DEF Capturing
  <2>4. /\ r.open \in Seq(Nat) /\ Len(r.open) = n + 1
        /\ \A i \in 1..p - 1 : r.open[i] = m.open[i]
        /\ r.open[p] = new
        /\ \A i \in p..n : r.open[i + 1] = m.open[i]
    <3>. HIDE DEF new
    <3>1. r.open = SubSeq(m.open, 1, p - 1) \o <<new>> \o SubSeq(m.open, p, Len(m.open))
      BY <2>1 DEF n
    <3>2. p \in 1..Len(m.open) + 1
      BY <1>2 DEF n
    <3>3. m.open \in Seq(Nat) /\ new \in Nat
      BY <1>3, <2>2
    <3>4. IsInserted(SubSeq(m.open, 1, p - 1) \o <<new>> \o SubSeq(m.open, p, Len(m.open)), m.open, new, p)
      BY <3>2, <3>3, Inserted
    <3>5. IsInserted(r.open, m.open, new, p)
      BY <3>1, <3>4
    <3>. QED
      BY <3>5 DEF IsInserted, n
  <2>5. r.captured \in Seq(Nat) /\ r \in Capturing
    <3>1. Append(m.captured, new) \in Seq(Nat)
      BY <2>2, SortedList
    <3>. QED
      BY <2>1, <2>3, <2>4, <3>1 DEF Capturing
  <2>. DEFINE Slot(i) == r.upvalues[r.open[i]].location
  <2>6. DOMAIN r.open = 1..n + 1 /\ p \in 1..n + 1
    BY <1>2, <1>3, <2>4
  <2>7. \A i \in 1..p - 1 : r.open[i] \in DOMAIN m.upvalues /\ Slot(i) = At(i) /\ i \in 1..n
    <3>1. \A i \in 1..p - 1 : i \in 1..n
      BY <1>3, <2>6
    <3>. QED
      BY <1>4, <2>3, <2>4, <3>1
  <2>8. \A i \in p..n : r.open[i + 1] \in DOMAIN m.upvalues /\ Slot(i + 1) = At(i) /\ i \in 1..n
    <3>1. \A i \in p..n : i \in 1..n
      BY <1>3, <2>6
    <3>. QED
      BY <1>4, <2>3, <2>4, <3>1
  <2>9. Slot(p) = local
    BY <2>3, <2>4 DEF o
  <2>10. \A i \in 1..p - 1 : At(i) > local
    BY <1>2
  <2>11. \A i, j \in 1..n : i < j => At(i) > At(j)
    BY <1>3 DEF Sorted
  <2>12. \A i \in p..n : At(i) < local
    <3>1. SUFFICES ASSUME NEW i \in p..n PROVE At(i) < local
      OBVIOUS
    <3>2. p <= n /\ p \in 1..n /\ i \in 1..n /\ (p < i \/ p = i)
      BY <1>3, <2>6
    <3>3. At(p) <= local /\ At(p) # local
      BY <1>2, <1>6, <3>2 DEF n
    <3>4. At(p) \in Nat /\ At(i) \in Nat
      BY <1>4, <3>2
    <3>5. p < i => At(p) > At(i)
      BY <2>11, <3>2
    <3>. HIDE DEF At
    <3>. QED
      BY <3>2, <3>3, <3>4, <3>5
  <2>13. \A i \in 1..n + 1 : i \in 1..p - 1 \/ i = p \/ (i - 1 \in p..n /\ i = (i - 1) + 1)
    BY <1>3, <2>6
  <2>14. \A i \in 1..n + 1 : r.open[i] \in DOMAIN r.upvalues
    <3>1. DOMAIN m.upvalues \subseteq DOMAIN r.upvalues /\ new \in DOMAIN r.upvalues
      BY <1>3, <2>3
    <3>2. SUFFICES ASSUME NEW i \in 1..n + 1 PROVE r.open[i] \in DOMAIN r.upvalues
      OBVIOUS
    <3>3. CASE i - 1 \in p..n /\ i = (i - 1) + 1
      <4>1. r.open[(i - 1) + 1] \in DOMAIN m.upvalues
        BY <2>8, <3>3
      <4>. QED
        BY <3>1, <3>3, <4>1
    <3>. QED
      BY <2>4, <2>7, <2>13, <3>1, <3>2, <3>3
  <2>15. \A i, j \in 1..n + 1 : i < j => Slot(i) > Slot(j)
    <3>1. SUFFICES ASSUME NEW i \in 1..n + 1, NEW j \in 1..n + 1, i < j PROVE Slot(i) > Slot(j)
      OBVIOUS
    <3>2. \A k \in 1..n : At(k) \in Nat
      BY <1>4
    <3>. HIDE DEF Slot, At
    <3>3. CASE i \in 1..p - 1 /\ j \in 1..p - 1
      BY <2>7, <2>11, <3>1, <3>3
    <3>4. CASE i \in 1..p - 1 /\ j = p
      BY <2>7, <2>9, <2>10, <3>4
    <3>5. CASE i \in 1..p - 1 /\ j - 1 \in p..n
      <4>1. Slot(j) = At(j - 1) /\ At(j - 1) < local /\ At(j - 1) \in Nat
        BY <2>8, <2>12, <3>2, <3>5
      <4>2. Slot(i) = At(i) /\ At(i) > local /\ At(i) \in Nat
        BY <2>7, <2>10, <3>2, <3>5
      <4>. QED
        BY <4>1, <4>2
    <3>6. CASE i = p /\ j - 1 \in p..n
      <4>1. Slot(j) = At(j - 1) /\ At(j - 1) < local /\ At(j - 1) \in Nat
        BY <2>8, <2>12, <3>2, <3>6
      <4>. QED
        BY <2>9, <3>6, <4>1
    <3>7. CASE i - 1 \in p..n /\ j - 1 \in p..n
      <4>1. Slot(j) = At(j - 1) /\ Slot(i) = At(i - 1) /\ j - 1 \in 1..n /\ i - 1 \in 1..n /\ i - 1 < j - 1
        BY <2>8, <3>1, <3>7
      <4>. QED
        BY <2>11, <4>1
    <3>. QED
      BY <1>3, <2>6, <2>13, <3>1, <3>3, <3>4, <3>5, <3>6, <3>7
  <2>16. Sorted(r)
    BY <2>5, <2>6, <2>14, <2>15 DEF Sorted
  <2>17. ASSUME NEW v \in Nat
         PROVE  IsOpen(r, v) <=> IsOpen(m, v) \/ v = new
    <3>1. \A i \in 1..n : i \in 1..p - 1 \/ i \in p..n
      BY <1>3, <2>6
    <3>2. \A i \in 1..p - 1 : i \in 1..n + 1
      BY <1>3, <2>6
    <3>3. \A i \in p..n : i + 1 \in 1..n + 1
      BY <1>3, <2>6
    <3>4. IsOpen(m, v) => IsOpen(r, v)
      BY <1>3, <2>4, <2>6, <3>1, <3>2, <3>3 DEF IsOpen
    <3>5. IsOpen(r, v) => IsOpen(m, v) \/ v = new
      <4>1. SUFFICES ASSUME NEW i \in 1..n + 1, r.open[i] = v, v # new PROVE \E k \in 1..n : m.open[k] = v
        BY <1>3, <2>6 DEF IsOpen
      <4>2. CASE i \in 1..p - 1
        BY <2>4, <2>7, <4>1, <4>2
      <4>3. CASE i - 1 \in p..n /\ i = (i - 1) + 1
        BY <2>4, <2>8, <4>1, <4>3
      <4>. QED
        BY <2>4, <2>13, <4>1, <4>2, <4>3
    <3>. QED
      BY <2>4, <2>6, <3>4, <3>5 DEF IsOpen
  <2>18. Extends(m, r, new)
    <3>1. \A v \in 1..Len(m.upvalues) + 1 : v \in 1..Len(m.upvalues) \/ v = new
      BY <1>3
    <3>. QED
      BY <1>3, <2>1, <2>3, <2>16, <2>17, <3>1 DEF Extends
  <2>19. new \in DOMAIN r.upvalues /\ r.upvalues[new].location = local
    BY <1>3, <2>3 DEF o
  <2>. QED
    BY <2>18, <2>19 DEF r
<1>. QED
  BY <1>5, <1>6
-----------------------------------------------------------------------------
(* The loop of OP_CLOSURE.                                                   *)

Start == [upvalues |-> upvalues, open |-> openUpvalues, captured |-> <<>>]

\* One turn.
CaptureOne(m, operand) ==
    IF operand.isLocal
    THEN CaptureUpvalue(m, Frame.slots + operand.index)
    ELSE [m EXCEPT !.captured = Append(@, closures[Frame.closure].upvalues[operand.index])]

Turns(operands, n, after) ==
    after = [i \in 0..n |-> IF i = 0 THEN Start ELSE CaptureOne(after[i - 1], operands[i])]

\* The loop can be run for any number of operands.
LEMMA CaptureAllTurns ==
    ASSUME NEW operands, Len(operands) \in Nat
    PROVE  \E after : Turns(operands, Len(operands), after) /\ CaptureAll(operands) = after[Len(operands)]
<1>. DEFINE n == Len(operands)
            S == {k \in 0..n : \E f : Turns(operands, k, f)}
<1>1. 0 \in S
  <2>1. Turns(operands, 0, [i \in 0..0 |-> Start])
    BY DEF Turns
  <2>. QED
    BY <2>1
<1>2. ASSUME NEW k \in 0..n - 1, k \in S
      PROVE  k + 1 \in S
  <2>1. PICK f : Turns(operands, k, f)
    BY <1>2
  <2>. DEFINE g == [i \in 0..k + 1 |-> IF i = k + 1 THEN CaptureOne(f[k], operands[k + 1]) ELSE f[i]]
  <2>2. k \in Nat /\ n \in Nat /\ k + 1 \in 0..n
    BY <1>2
  <2>3. \A i \in 0..k + 1 : g[i] = IF i = 0 THEN Start ELSE CaptureOne(g[i - 1], operands[i])
    <3>1. SUFFICES ASSUME NEW i \in 0..k + 1
                   PROVE  g[i] = IF i = 0 THEN Start ELSE CaptureOne(g[i - 1], operands[i])
      OBVIOUS
    <3>2. CASE i = 0
      <4>1. 0 \in 0..k /\ 0 \in 0..k + 1 /\ 0 # k + 1
        BY <2>2
      <4>2. g[0] = f[0] /\ f[0] = Start
        BY <2>1, <4>1 DEF Turns
      <4>. QED
        BY <3>2, <4>2
    <3>3. CASE i # 0 /\ i # k + 1
      <4>1. i \in 0..k /\ i - 1 \in 0..k + 1 /\ i - 1 # k + 1
        BY <2>2, <3>3
      <4>2. g[i] = f[i] /\ g[i - 1] = f[i - 1]
        BY <3>3, <4>1
      <4>3. f[i] = CaptureOne(f[i - 1], operands[i])
        <5>. HIDE DEF g
        <5>. QED
          BY <2>1, <3>3, <4>1 DEF Turns
      <4>. HIDE DEF g
      <4>. QED
        BY <3>3, <4>2, <4>3
    <3>4. CASE i = k + 1
      <4>1. k \in 0..k + 1 /\ k # k + 1 /\ (k + 1) - 1 = k /\ k + 1 \in 0..k + 1 /\ k + 1 # 0
        BY <2>2
      <4>2. g[k] = f[k] /\ g[k + 1] = CaptureOne(f[k], operands[k + 1])
        BY <4>1
      <4>. HIDE DEF g
      <4>. QED
        BY <3>4, <4>1, <4>2
    <3>. QED
      BY <3>2, <3>3, <3>4
  <2>4. Turns(operands, k + 1, g)
    <3>1. g = [i \in 0..k + 1 |-> g[i]]
      OBVIOUS
    <3>. HIDE DEF g
    <3>. QED
      BY <2>3, <3>1 DEF Turns
  <2>. QED
    BY <2>2, <2>4
<1>3. n \in S
  <2>1. 0..n \subseteq S
    <3>. HIDE DEF S
    <3>. QED
      BY <1>1, <1>2, TurnByTurn
  <2>. QED
    BY <2>1
<1>4. PICK f : Turns(operands, n, f)
  BY <1>3
<1>. DEFINE T(after) ==
              after = [i \in 0..Len(operands) |->
                         IF i = 0 THEN [upvalues |-> upvalues, open |-> openUpvalues, captured |-> <<>>]
                         ELSE IF operands[i].isLocal
                              THEN CaptureUpvalue(after[i - 1], Frame.slots + operands[i].index)
                              ELSE [after[i - 1] EXCEPT !.captured =
                                        Append(@, closures[Frame.closure].upvalues[operands[i].index])]]
<1>5. CaptureAll(operands) = (CHOOSE after : T(after))[Len(operands)]
  BY DEF CaptureAll
<1>6. \A after : T(after) <=> Turns(operands, n, after)
  BY DEF Turns, CaptureOne, Start
<1>7. T(CHOOSE after : T(after))
  <2>1. \E after : T(after)
    BY <1>4, <1>6
  <2>. HIDE DEF T
  <2>. QED
    BY <2>1
<1>. HIDE DEF T
<1>. QED
  BY <1>5, <1>6, <1>7

\* What i turns have captured, and what they leave of the heap and the list.
HasCaptured(m, operands, i) ==
    /\ Sorted(m) /\ Len(m.captured) = i
    /\ Len(upvalues) <= Len(m.upvalues)
    /\ \A u \in DOMAIN upvalues : m.upvalues[u] = upvalues[u]
    /\ \A u \in DOMAIN m.upvalues :
           u \in DOMAIN upvalues \/ \E k \in 1..i : operands[k].isLocal /\ m.captured[k] = u
    /\ \A k \in 1..i :
           IF operands[k].isLocal
           THEN /\ IsOpen(m, m.captured[k])
                /\ m.upvalues[m.captured[k]].location = Frame.slots + operands[k].index
           ELSE m.captured[k] = closures[Frame.closure].upvalues[operands[k].index]
    /\ \A u \in Nat :
           IsOpen(m, u) <=> \/ \E j \in DOMAIN openUpvalues : openUpvalues[j] = u
                           \/ \E k \in 1..i : operands[k].isLocal /\ m.captured[k] = u

LEMMA CapturesOne ==
    ASSUME Shape, NEW m, NEW operands, NEW i \in Nat, HasCaptured(m, operands, i),
           IF operands[i + 1].isLocal
           THEN Frame.slots + operands[i + 1].index \in Nat
           ELSE closures[Frame.closure].upvalues[operands[i + 1].index] \in Nat
    PROVE  HasCaptured(CaptureOne(m, operands[i + 1]), operands, i + 1)
<1>. DEFINE r == CaptureOne(m, operands[i + 1])
<1>1. Sorted(m) /\ m.captured \in Seq(Nat) /\ Len(m.captured) = i /\ DOMAIN m.captured = 1..i
  BY SortedList DEF HasCaptured
<1>2. /\ Len(upvalues) <= Len(m.upvalues)
      /\ \A u \in DOMAIN upvalues : m.upvalues[u] = upvalues[u]
      /\ \A k \in 1..i :
             IF operands[k].isLocal
             THEN /\ IsOpen(m, m.captured[k])
                  /\ m.upvalues[m.captured[k]].location = Frame.slots + operands[k].index
             ELSE m.captured[k] = closures[Frame.closure].upvalues[operands[k].index]
      /\ \A u \in Nat :
             IsOpen(m, u) <=> \/ \E j \in DOMAIN openUpvalues : openUpvalues[j] = u
                             \/ \E k \in 1..i : operands[k].isLocal /\ m.captured[k] = u
  BY DEF HasCaptured
<1>2b. \A u \in DOMAIN m.upvalues :
          u \in DOMAIN upvalues \/ \E k \in 1..i : operands[k].isLocal /\ m.captured[k] = u
  BY DEF HasCaptured
<1>3. \A k \in 1..i + 1 : k \in 1..i \/ k = i + 1
  OBVIOUS
<1>4. 1..i \subseteq 1..i + 1 /\ i + 1 \in 1..i + 1 /\ i + 1 \notin 1..i
  OBVIOUS
<1>5. ASSUME NEW u \in Nat, r.captured = Append(m.captured, u)
      PROVE  /\ Len(r.captured) = i + 1 /\ \A k \in 1..i : r.captured[k] = m.captured[k]
             /\ r.captured[i + 1] = u
  <2>. HIDE DEF r
  <2>. QED
    BY <1>1, <1>5, AppendProperties
<1>6. CASE operands[i + 1].isLocal
  <2>. DEFINE local == Frame.slots + operands[i + 1].index
  <2>1. local \in Nat /\ r = CaptureUpvalue(m, local)
    BY <1>6 DEF CaptureOne
  <2>. HIDE DEF r, local
  <2>2. PICK u \in DOMAIN r.upvalues : Extends(m, r, u) /\ r.upvalues[u].location = local
    BY <1>1, <2>1, CaptureWorks
  <2>3. Sorted(r) /\ u \in Nat /\ r.captured = Append(m.captured, u)
    <3>1. Sorted(r) /\ r.captured = Append(m.captured, u)
      BY <2>2 DEF Extends
    <3>. QED
      BY <2>2, <3>1, SortedList
  <2>4. /\ Len(r.captured) = i + 1 /\ \A k \in 1..i : r.captured[k] = m.captured[k]
        /\ r.captured[i + 1] = u
    BY <1>5, <2>3 DEF r
  <2>5. /\ Len(m.upvalues) <= Len(r.upvalues) /\ \A v \in DOMAIN m.upvalues : r.upvalues[v] = m.upvalues[v]
        /\ \A v \in Nat : IsOpen(r, v) <=> IsOpen(m, v) \/ v = u
    BY <2>2 DEF Extends
  <2>6. /\ Len(upvalues) <= Len(r.upvalues) /\ \A v \in DOMAIN upvalues : r.upvalues[v] = upvalues[v]
    <3>1. Len(m.upvalues) \in Nat /\ Len(r.upvalues) \in Nat /\ DOMAIN m.upvalues = 1..Len(m.upvalues)
      BY <1>1, <2>3, SortedList
    <3>2. DOMAIN upvalues \subseteq DOMAIN m.upvalues /\ Len(upvalues) \in Nat
      BY <1>2, <3>1 DEF Shape
    <3>. QED
      BY <1>2, <2>5, <3>1, <3>2
  <2>7. ASSUME NEW k \in 1..i + 1
        PROVE  IF operands[k].isLocal
               THEN /\ IsOpen(r, r.captured[k])
                    /\ r.upvalues[r.captured[k]].location = Frame.slots + operands[k].index
               ELSE r.captured[k] = closures[Frame.closure].upvalues[operands[k].index]
    <3>1. CASE k = i + 1
      BY <1>6, <2>2, <2>3, <2>4, <2>5, <3>1 DEF local
    <3>2. CASE k \in 1..i /\ operands[k].isLocal
      <4>1. r.captured[k] = m.captured[k] /\ IsOpen(m, m.captured[k])
            /\ m.upvalues[m.captured[k]].location = Frame.slots + operands[k].index
        BY <1>2, <2>4, <3>2
      <4>2. m.captured[k] \in DOMAIN m.upvalues /\ m.captured[k] \in Nat
        BY <1>1, <3>2, <4>1, SortedList DEF IsOpen
      <4>. QED
        BY <2>5, <3>2, <4>1, <4>2
    <3>3. CASE k \in 1..i /\ ~operands[k].isLocal
      BY <1>2, <2>4, <3>3
    <3>. QED
      BY <1>3, <3>1, <3>2, <3>3
  <2>8. ASSUME NEW v \in Nat
        PROVE  IsOpen(r, v) <=> \/ \E j \in DOMAIN openUpvalues : openUpvalues[j] = v
                               \/ \E k \in 1..i + 1 : operands[k].isLocal /\ r.captured[k] = v
    <3>1. IsOpen(m, v) <=> \/ \E j \in DOMAIN openUpvalues : openUpvalues[j] = v
                          \/ \E k \in 1..i : operands[k].isLocal /\ m.captured[k] = v
      BY <1>2
    <3>2. (\E k \in 1..i + 1 : operands[k].isLocal /\ r.captured[k] = v)
              <=> v = u \/ \E k \in 1..i : operands[k].isLocal /\ m.captured[k] = v
      BY <1>3, <1>4, <1>6, <2>4
    <3>. QED
      BY <2>5, <3>1, <3>2
  <2>9. ASSUME NEW v \in DOMAIN r.upvalues
        PROVE  v \in DOMAIN upvalues \/ \E k \in 1..i + 1 : operands[k].isLocal /\ r.captured[k] = v
    <3>1. v \in DOMAIN m.upvalues \/ v = u
      BY <2>2 DEF Extends
    <3>. QED
      BY <1>4, <1>6, <1>2b, <2>4, <3>1
  <2>. QED
    BY <2>3, <2>4, <2>6, <2>7, <2>8, <2>9 DEF HasCaptured, r
<1>7. CASE ~operands[i + 1].isLocal
  <2>. DEFINE u == closures[Frame.closure].upvalues[operands[i + 1].index]
  <2>1. u \in Nat /\ r = [m EXCEPT !.captured = Append(@, u)]
    BY <1>7 DEF CaptureOne
  <2>. HIDE DEF r, u
  <2>2. Append(m.captured, u) \in Seq(Nat) /\ m \in Capturing
    BY <1>1, <2>1 DEF Sorted
  <2>3. r.upvalues = m.upvalues /\ r.open = m.open /\ r.captured = Append(m.captured, u) /\ r \in Capturing
    BY <2>1, <2>2 DEF Capturing
  <2>4. /\ Len(r.captured) = i + 1 /\ \A k \in 1..i : r.captured[k] = m.captured[k]
        /\ r.captured[i + 1] = u
    BY <1>5, <2>1, <2>3 DEF r
  <2>5. Sorted(r) /\ \A v : IsOpen(r, v) <=> IsOpen(m, v)
    BY <1>1, <2>3 DEF Sorted, IsOpen
  <2>6. ASSUME NEW k \in 1..i + 1
        PROVE  IF operands[k].isLocal
               THEN /\ IsOpen(r, r.captured[k])
                    /\ r.upvalues[r.captured[k]].location = Frame.slots + operands[k].index
               ELSE r.captured[k] = closures[Frame.closure].upvalues[operands[k].index]
    <3>1. CASE k = i + 1
      BY <1>7, <2>4, <3>1 DEF u
    <3>2. CASE k \in 1..i
      BY <1>2, <2>3, <2>4, <2>5, <3>2
    <3>. QED
      BY <1>3, <3>1, <3>2
  <2>7. ASSUME NEW v \in Nat
        PROVE  IsOpen(r, v) <=> \/ \E j \in DOMAIN openUpvalues : openUpvalues[j] = v
                               \/ \E k \in 1..i + 1 : operands[k].isLocal /\ r.captured[k] = v
    <3>1. IsOpen(m, v) <=> \/ \E j \in DOMAIN openUpvalues : openUpvalues[j] = v
                          \/ \E k \in 1..i : operands[k].isLocal /\ m.captured[k] = v
      BY <1>2
    <3>2. (\E k \in 1..i + 1 : operands[k].isLocal /\ r.captured[k] = v)
              <=> \E k \in 1..i : operands[k].isLocal /\ m.captured[k] = v
      BY <1>3, <1>4, <1>7, <2>4
    <3>. QED
      BY <2>5, <3>1, <3>2
  <2>8. Len(upvalues) <= Len(r.upvalues) /\ \A v \in DOMAIN upvalues : r.upvalues[v] = upvalues[v]
    BY <1>2, <2>3
  <2>9. ASSUME NEW v \in DOMAIN r.upvalues
        PROVE  v \in DOMAIN upvalues \/ \E k \in 1..i + 1 : operands[k].isLocal /\ r.captured[k] = v
    BY <1>4, <1>2b, <2>3, <2>4
  <2>. QED
    BY <2>4, <2>5, <2>6, <2>7, <2>8, <2>9 DEF HasCaptured, r
<1>. QED
  BY <1>6, <1>7

LEMMA CapturesAll ==
    ASSUME TypeOK, Shape, OpenListSorted, NEW operands, NEW n \in Nat, Len(operands) = n,
           \A i \in 1..n : IF operands[i].isLocal
                           THEN Frame.slots + operands[i].index \in Nat
                           ELSE closures[Frame.closure].upvalues[operands[i].index] \in Nat
    PROVE  HasCaptured(CaptureAll(operands), operands, n)
<1>1. PICK after : Turns(operands, n, after) /\ CaptureAll(operands) = after[n]
  BY CaptureAllTurns
<1>. DEFINE S == {i \in 0..n : HasCaptured(after[i], operands, i)}
<1>2. 0 \in S
  <2>1. after[0] = Start
    BY <1>1 DEF Turns
  <2>2. Start \in Capturing
    BY DEF Start, Capturing, Shape, Object
  <2>3. Sorted(Start)
    BY <2>2 DEF Sorted, Start, TypeOK, OpenListSorted, Location
  <2>4. HasCaptured(Start, operands, 0)
    BY <2>3, Stacks DEF HasCaptured, Start, IsOpen
  <2>. QED
    BY <2>1, <2>4
<1>3. ASSUME NEW i \in 0..n - 1, i \in S
      PROVE  i + 1 \in S
  <2>1. i \in Nat /\ i + 1 \in 0..n /\ i + 1 \in 1..n /\ i + 1 # 0 /\ (i + 1) - 1 = i
    BY <1>3
  <2>2. after[i + 1] = CaptureOne(after[i], operands[i + 1])
    BY <1>1, <2>1 DEF Turns
  <2>. QED
    BY <1>3, <2>1, <2>2, CapturesOne
<1>4. 0..n \subseteq S
  <2>. HIDE DEF S
  <2>. QED
    BY <1>2, <1>3, TurnByTurn
<1>5. HasCaptured(after[n], operands, n)
  BY <1>4
<1>. QED
  BY <1>1, <1>5
-----------------------------------------------------------------------------
(* Steps that leave every variable where it is.                              *)

StackOK ==
    /\ stack \in Seq(Value) /\ Len(stack) <= StackBound
    /\ owner \in Seq(Names0) /\ Len(owner) = Len(stack) /\ declared \in 0..VariableBound
    /\ \A s, t \in DOMAIN owner : owner[s] = owner[t] /\ owner[s] # Temporary => s = t
    /\ \A s \in DOMAIN owner : owner[s] <= declared

FramesOK ==
    /\ frames \in Seq([closure : Closure, slots : Nat])
    /\ \A i \in DOMAIN frames : frames[i].closure \in DOMAIN closures /\ frames[i].slots \in 1..Top
    /\ FramesStacked

LEMMA StacksAreOK ==
    ASSUME IInv
    PROVE  StackOK /\ FramesOK
  BY DEF IInv, TypeOK, Shape, VariablesDistinct, StackOK, FramesOK, Top

\* The slot of each variable, and the location of each upvalue, stay.
Steady ==
    /\ UNCHANGED <<openUpvalues, closures, captures>>
    /\ upvalues' \in Seq(Object) /\ Len(upvalues') = Len(upvalues)
    /\ \A u \in DOMAIN upvalues : upvalues'[u].location = upvalues[u].location
    /\ openUpvalues # <<>> => frames' # <<>> /\ frames'[1].slots = frames[1].slots
    /\ \A x \in 1..declared, s \in Nat :
           s \in DOMAIN owner' /\ owner'[s] = x <=> s \in DOMAIN owner /\ owner[s] = x
    /\ declared <= declared'
    /\ globals' \in [Global -> Value] /\ ran' \in BOOLEAN

LEMMA SteadyStep ==
    ASSUME IInv, Steady, StackOK', FramesOK'
    PROVE  IInv'
<1>. USE DEF Temporary
<1>1. /\ openUpvalues' = openUpvalues /\ closures' = closures /\ captures' = captures
      /\ upvalues' \in Seq(Object) /\ Len(upvalues') = Len(upvalues)
      /\ \A u \in DOMAIN upvalues : upvalues'[u].location = upvalues[u].location
      /\ globals' \in [Global -> Value] /\ ran' \in BOOLEAN
  BY DEF Steady
<1>2. Shape /\ TypeOK /\ OpenListSorted /\ OpenOnVariables
  BY DEF IInv
<1>3. DOMAIN upvalues' = DOMAIN upvalues /\ DOMAIN upvalues' = 1..Len(upvalues')
  BY <1>1, <1>2, Stacks
<1>4. \A u \in DOMAIN upvalues' : upvalues'[u] \in Object
  BY <1>1, <1>3, ElementOfSeq
<1>5. DOMAIN stack' = DOMAIN owner' /\ Top' = Len(stack') /\ DOMAIN stack' = 1..Len(stack') /\ Len(stack') \in Nat
  BY DEF StackOK, Top
<1>6. ASSUME NEW c \in DOMAIN captures, NEW i \in DOMAIN captures[c]
      PROVE  captures[c][i] \in 1..declared /\ captures[c][i] <= declared'
  <2>1. declared \in Nat /\ declared' \in Nat /\ declared <= declared'
    BY <1>2 DEF TypeOK, StackOK, Steady
  <2>2. captures[c][i] \in Variable
    <3>1. captures[c] \in Seq(Variable)
      BY <1>2 DEF Shape
    <3>. QED
      BY <3>1
  <2>3. captures[c][i] <= declared
    BY DEF IInv, VariablesDistinct
  <2>. QED
    BY <2>1, <2>2, <2>3 DEF Variable
<1>7. \A x \in 1..declared, s \in Nat :
          s \in DOMAIN owner' /\ owner'[s] = x <=> s \in DOMAIN owner /\ owner[s] = x
  BY DEF Steady
<1>8. ASSUME NEW i \in DOMAIN openUpvalues
      PROVE  LET u == openUpvalues[i]
                 at == Location(u)
             IN  /\ u \in DOMAIN upvalues /\ upvalues'[u].location = at
                 /\ at \in DOMAIN owner /\ at \in DOMAIN owner' /\ owner'[at] = owner[at] /\ at \in Nat
                 /\ owner[at] # 0 /\ IsCaptured(owner[at]) /\ frames[1].slots <= at
                 /\ openUpvalues # <<>>
  <2>. DEFINE at == Location(openUpvalues[i])
  <2>1. openUpvalues[i] \in DOMAIN upvalues /\ at \in 1..Top /\ owner[at] # 0
    BY <1>2, OpenSlots
  <2>2. owner[at] \in 1..declared /\ at \in DOMAIN owner /\ at \in Nat
    <3>1. at \in DOMAIN owner /\ owner[at] \in Names0 /\ Top \in Nat
      BY <1>2, <2>1, Stacks
    <3>2. owner[at] <= declared
      BY <3>1 DEF IInv, VariablesDistinct
    <3>3. declared \in 0..VariableBound
      BY <1>2 DEF TypeOK
    <3>. QED
      BY <2>1, <3>1, <3>2, <3>3 DEF Names0
  <2>3. at \in DOMAIN owner' /\ owner'[at] = owner[at]
    BY <1>7, <2>2
  <2>4. IsCaptured(owner[at]) /\ frames[1].slots <= at
    BY <1>2 DEF OpenOnVariables
  <2>5. openUpvalues # <<>>
    BY <1>2, Stacks
  <2>. QED
    BY <1>1, <2>1, <2>2, <2>3, <2>4, <2>5 DEF Location
<1>9. TypeOK'
  <2>1. \A u \in DOMAIN upvalues' : upvalues'[u].location \in 0..StackBound /\ upvalues'[u].closed \in Value
    BY <1>1, <1>2, <1>3, <1>4 DEF TypeOK, Object, Location
  <2>. QED
    BY <1>1, <1>2, <1>3, <1>5, <2>1 DEF TypeOK, StackOK, FramesOK, Location
<1>10. Shape'
  BY <1>1, <1>2 DEF Shape, StackOK, FramesOK, Object
<1>11. FramesStacked'
  BY DEF FramesOK
<1>12. OpenListSorted'
  <2>1. \A i \in DOMAIN openUpvalues' : upvalues'[openUpvalues'[i]].location \in DOMAIN stack'
    BY <1>1, <1>5, <1>8
  <2>2. \A i, j \in DOMAIN openUpvalues' :
            i < j => upvalues'[openUpvalues'[i]].location > upvalues'[openUpvalues'[j]].location
    BY <1>1, <1>2, <1>8 DEF OpenListSorted
  <2>. QED
    BY <2>1, <2>2 DEF OpenListSorted, Location
<1>13. OpenOnVariables'
  <2>1. SUFFICES ASSUME NEW i \in DOMAIN openUpvalues
                 PROVE  LET at == upvalues'[openUpvalues[i]].location
                        IN  /\ frames' # <<>> /\ frames'[1].slots <= at
                            /\ owner'[at] # 0
                            /\ \E c \in DOMAIN captures : \E j \in DOMAIN captures[c] : captures[c][j] = owner'[at]
    BY <1>1 DEF OpenOnVariables, IsCaptured, Location
  <2>2. frames' # <<>> /\ frames'[1].slots = frames[1].slots
    BY <1>8 DEF Steady
  <2>. QED
    BY <1>8, <2>2 DEF IsCaptured
<1>14. VariablesDistinct'
  BY <1>1, <1>6 DEF VariablesDistinct, StackOK
<1>15. CapturesMatch'
  BY <1>1 DEF IInv, CapturesMatch
<1>16. ASSUME ~Interactive
       PROVE  OneLocation'
  <2>1. SUFFICES ASSUME NEW c \in DOMAIN closures, NEW d \in DOMAIN closures,
                        NEW i \in DOMAIN captures[c], NEW j \in DOMAIN captures[d]
                 PROVE  LET u == closures[c].upvalues[i]
                            x == captures[c][i]
                        IN  /\ captures[d][j] = x <=> closures[d].upvalues[j] = u
                            /\ IF \E s \in DOMAIN owner' : owner'[s] = x
                               THEN /\ upvalues'[u].location \in DOMAIN owner' /\ owner'[upvalues'[u].location] = x
                                    /\ \E k \in DOMAIN openUpvalues : openUpvalues[k] = u
                               ELSE upvalues'[u].location = 0
    BY <1>1 DEF OneLocation, Location
  <2>. DEFINE u == closures[c].upvalues[i]
              x == captures[c][i]
  <2>2. /\ captures[d][j] = x <=> closures[d].upvalues[j] = u
        /\ IF \E s \in DOMAIN owner : owner[s] = x
           THEN /\ Location(u) \in DOMAIN owner /\ owner[Location(u)] = x
                /\ \E k \in DOMAIN openUpvalues : openUpvalues[k] = u
           ELSE Location(u) = 0
    BY <1>16 DEF IInv, OneLocation
  <2>3. x \in 1..declared /\ u \in DOMAIN upvalues
    <3>1. c \in DOMAIN captures
      BY <1>2 DEF TypeOK
    <3>2. i \in DOMAIN closures[c].upvalues
      BY DEF IInv, CapturesMatch
    <3>. QED
      BY <1>2, <1>6, <3>1, <3>2 DEF TypeOK
  <2>4. upvalues'[u].location = Location(u)
    BY <1>1, <2>3 DEF Location
  <2>5. DOMAIN owner \subseteq Nat /\ DOMAIN owner' \subseteq Nat
    BY <1>2, <1>5, Stacks
  <2>6. \A s \in Nat : s \in DOMAIN owner' /\ owner'[s] = x <=> s \in DOMAIN owner /\ owner[s] = x
    BY <1>7, <2>3
  <2>. HIDE DEF u, x
  <2>7. IF \E s \in DOMAIN owner' : owner'[s] = x
        THEN /\ upvalues'[u].location \in DOMAIN owner' /\ owner'[upvalues'[u].location] = x
             /\ \E k \in DOMAIN openUpvalues : openUpvalues[k] = u
        ELSE upvalues'[u].location = 0
    BY <2>2, <2>4, <2>5, <2>6
  <2>. QED
    BY <2>2, <2>7 DEF u, x
<1>. QED
  BY <1>9, <1>10, <1>11, <1>12, <1>13, <1>14, <1>15, <1>16 DEF IInv
LEMMA Prefix ==
    ASSUME NEW S, NEW s \in Seq(S), NEW n \in 0..Len(s)
    PROVE  /\ SubSeq(s, 1, n) \in Seq(S) /\ Len(SubSeq(s, 1, n)) = n
           /\ DOMAIN SubSeq(s, 1, n) = 1..n
           /\ \A i \in 1..n : SubSeq(s, 1, n)[i] = s[i]
<1>1. n \in Int /\ 1 \in Int /\ \A i \in 1..n : s[i] \in S
  OBVIOUS
<1>2. /\ SubSeq(s, 1, n) \in Seq(S)
      /\ Len(SubSeq(s, 1, n)) = IF 1 <= n THEN n - 1 + 1 ELSE 0
      /\ \A i \in 1..n - 1 + 1 : SubSeq(s, 1, n)[i] = s[1 + i - 1]
  BY <1>1, SubSeqProperties
<1>3. Len(SubSeq(s, 1, n)) = n
  <2>1. 1 <= n => n - 1 + 1 = n
    OBVIOUS
  <2>2. ~(1 <= n) => n = 0
    OBVIOUS
  <2>. QED
    BY <1>2, <2>1, <2>2
<1>4. \A i \in 1..n : i \in 1..n - 1 + 1 /\ 1 + i - 1 = i
  OBVIOUS
<1>5. \A i \in 1..n : SubSeq(s, 1, n)[i] = s[i]
  BY <1>2, <1>4
<1>. QED
  BY <1>2, <1>3, <1>5

LEMMA FramesKept ==
    ASSUME IInv, frames' = frames, DOMAIN closures \subseteq DOMAIN closures', Len(stack') \in Nat,
           Running => Frame.slots <= Len(stack')
    PROVE  FramesOK'
<1>1. FramesOK /\ TypeOK /\ Shape /\ FramesStacked
  BY StacksAreOK DEF IInv
<1>2. SUFFICES ASSUME NEW i \in DOMAIN frames
               PROVE  frames[i].slots \in 1..Len(stack')
  BY <1>1 DEF FramesOK, FramesStacked, Top
<1>3. Running
  BY <1>1, Stacks DEF Running
<1>4. Len(frames) \in DOMAIN frames /\ Frame = frames[Len(frames)] /\ DOMAIN frames = 1..Len(frames) /\ Top \in Nat
  BY <1>1, <1>3, RunningFrame, Stacks
<1>5. frames[i].slots \in 1..Top /\ Frame.slots \in 1..Top
  BY <1>1, <1>4 DEF FramesOK
<1>6. frames[i].slots <= Frame.slots
  BY <1>1, <1>4, <1>5 DEF FramesStacked
<1>. QED
  BY <1>3, <1>4, <1>5, <1>6

\* A push, of a temporary or of a variable that is declared with it.
Pushed(x) ==
    /\ StackOK'
    /\ Len(stack') = Top + 1 /\ DOMAIN owner' = 1..Top + 1
    /\ owner'[Top + 1] = x /\ \A s \in 1..Top : owner'[s] = owner[s]
    /\ \A y \in 1..declared, s \in Nat :
           s \in DOMAIN owner' /\ owner'[s] = y <=> s \in DOMAIN owner /\ owner[s] = y

LEMMA Pushes ==
    ASSUME IInv, NEW v \in Value, NEW x, Push(v, x),
           \/ x = Temporary /\ declared' = declared
           \/ x = declared + 1 /\ declared < VariableBound /\ declared' = declared + 1
    PROVE  Pushed(x)
<1>. USE DEF Temporary
<1>1. TypeOK /\ Shape /\ FramesStacked /\ StackOK
  BY StacksAreOK DEF IInv
<1>2. /\ stack \in Seq(Value) /\ owner \in Seq(Names0)
      /\ Len(owner) = Top /\ Len(stack) = Top /\ Top \in Nat /\ DOMAIN owner = 1..Top
  BY <1>1, Stacks DEF Top, StackOK
<1>3. /\ x \in Names0 /\ declared \in Nat /\ declared' \in 0..VariableBound /\ x <= declared'
      /\ declared <= declared' /\ (x = 0 \/ x > declared)
  BY <1>1, BoundAssumption DEF Names0, TypeOK
<1>4. /\ stack' \in Seq(Value) /\ Len(stack') = Top + 1
      /\ owner' \in Seq(Names0) /\ Len(owner') = Top + 1 /\ DOMAIN owner' = 1..Top + 1
      /\ owner'[Top + 1] = x /\ \A s \in 1..Top : owner'[s] = owner[s]
  <2>1. stack' = Append(stack, v) /\ owner' = Append(owner, x)
    BY DEF Push
  <2>. QED
    BY <1>2, <1>3, <2>1, AppendProperties
<1>5. \A s : s \in 1..Top + 1 <=> s \in 1..Top \/ s = Top + 1
  BY <1>2
<1>6. \A s \in 1..Top : owner[s] <= declared /\ owner[s] \in Nat
  <2>1. \A s \in 1..Top : owner[s] <= declared
    BY <1>1, <1>2 DEF StackOK
  <2>2. \A s \in 1..Top : owner[s] \in Names0
    BY <1>1, Stacks
  <2>. QED
    BY <2>1, <2>2, BoundAssumption DEF Names0
<1>7. StackOK'
  <2>1. Len(stack') <= StackBound
    BY <1>2, <1>4, BoundAssumption DEF Push
  <2>2. \A s \in 1..Top + 1 : owner'[s] <= declared'
    <3>1. \A s \in 1..Top : owner'[s] <= declared'
      BY <1>3, <1>4, <1>6
    <3>. QED
      BY <1>3, <1>4, <1>5, <3>1
  <2>3. \A s, t \in 1..Top : owner'[s] = owner'[t] /\ owner'[s] # 0 => s = t
    BY <1>1, <1>2, <1>4 DEF StackOK
  <2>4. \A s \in 1..Top : owner'[s] # 0 => owner'[s] # owner'[Top + 1]
    BY <1>3, <1>4, <1>6
  <2>5. \A s, t \in 1..Top + 1 : owner'[s] = owner'[t] /\ owner'[s] # 0 => s = t
    BY <1>5, <2>3, <2>4
  <2>. QED
    BY <1>3, <1>4, <2>1, <2>2, <2>5 DEF StackOK
<1>8. ASSUME NEW y \in 1..declared, NEW s \in Nat
      PROVE  s \in DOMAIN owner' /\ owner'[s] = y <=> s \in DOMAIN owner /\ owner[s] = y
  <2>1. y # x
    BY <1>3
  <2>. QED
    BY <1>2, <1>4, <1>5, <2>1
<1>. QED
  BY <1>4, <1>7, <1>8 DEF Pushed

LEMMA PushStep ==
    ASSUME IInv, Running, NEW v \in Value, Push(v, Temporary),
           UNCHANGED <<frames, openUpvalues, upvalues, closures, globals, ran, captures, declared>>
    PROVE  IInv'
<1>1. TypeOK /\ Shape /\ FramesStacked
  BY DEF IInv
<1>2. Pushed(Temporary)
  BY Pushes
<1>3. FramesOK'
  <2>1. Frame.slots \in 1..Top /\ Top \in Nat
    BY <1>1, RunningFrame, Stacks
  <2>. QED
    BY <1>2, <2>1, FramesKept DEF Pushed
<1>4. Steady
  <2>1. openUpvalues # <<>> => frames' # <<>> /\ frames'[1].slots = frames[1].slots
    BY DEF Running
  <2>2. upvalues \in Seq(Object) /\ globals \in [Global -> Value] /\ ran \in BOOLEAN /\ declared \in Nat
    BY <1>1 DEF Shape, Object, TypeOK
  <2>. QED
    BY <1>2, <2>1, <2>2 DEF Steady, Pushed
<1>. QED
  BY <1>2, <1>3, <1>4, SteadyStep DEF Pushed

LEMMA PopStep ==
    ASSUME IInv, HasTemporary, stack' = PopN(stack, 1), owner' = PopN(owner, 1),
           UNCHANGED <<frames, openUpvalues, upvalues, closures, ran, captures, declared>>,
           globals' \in [Global -> Value]
    PROVE  IInv'
<1>. USE DEF Temporary
<1>1. TypeOK /\ Shape /\ FramesStacked /\ StackOK
  BY StacksAreOK DEF IInv
<1>2. /\ stack \in Seq(Value) /\ owner \in Seq(Names0)
      /\ Len(owner) = Top /\ Len(stack) = Top /\ Top \in Nat /\ DOMAIN owner = 1..Top
  BY <1>1, Stacks DEF Top, StackOK
<1>3. Running /\ Top > Frame.slots /\ owner[Top] = 0 /\ Frame.slots \in 1..Top
  BY <1>1, RunningFrame DEF HasTemporary
<1>4. /\ stack' \in Seq(Value) /\ Len(stack') = Top - 1
      /\ owner' \in Seq(Names0) /\ Len(owner') = Top - 1 /\ DOMAIN owner' = 1..Top - 1
      /\ \A s \in 1..Top - 1 : owner'[s] = owner[s]
  <2>1. stack' = SubSeq(stack, 1, Top - 1) /\ owner' = SubSeq(owner, 1, Top - 1)
    BY <1>2 DEF PopN
  <2>2. Top - 1 \in 0..Top
    BY <1>2, <1>3
  <2>. QED
    BY <1>2, <2>1, <2>2, Prefix
<1>5. \A s : s \in 1..Top <=> s \in 1..Top - 1 \/ s = Top
  BY <1>2, <1>3
<1>6. StackOK'
  <2>1. Len(stack') <= StackBound
    BY <1>1, <1>2, <1>4, BoundAssumption DEF StackOK
  <2>2. \A s \in 1..Top - 1 : owner'[s] <= declared
    BY <1>1, <1>2, <1>4, <1>5 DEF StackOK
  <2>3. \A s, t \in 1..Top - 1 : owner'[s] = owner'[t] /\ owner'[s] # 0 => s = t
    BY <1>1, <1>2, <1>4, <1>5 DEF StackOK
  <2>. QED
    BY <1>1, <1>4, <2>1, <2>2, <2>3 DEF StackOK
<1>7. FramesOK'
  BY <1>2, <1>3, <1>4, FramesKept
<1>8. Steady
  <2>1. \A x \in 1..declared, s \in Nat :
            s \in DOMAIN owner' /\ owner'[s] = x <=> s \in DOMAIN owner /\ owner[s] = x
    BY <1>1, <1>2, <1>3, <1>4, <1>5 DEF StackOK
  <2>2. openUpvalues # <<>> => frames' # <<>> /\ frames'[1].slots = frames[1].slots
    BY <1>3 DEF Running
  <2>3. upvalues \in Seq(Object) /\ ran \in BOOLEAN /\ declared \in Nat
    BY <1>1 DEF Shape, Object, TypeOK
  <2>. QED
    BY <2>1, <2>2, <2>3 DEF Steady
<1>. QED
  BY <1>6, <1>7, <1>8, SteadyStep

\* A write to a global, a slot or a closed upvalue.
LEMMA WriteStep ==
    ASSUME IInv, Running, stack' \in Seq(Value), Len(stack') = Len(stack),
           UNCHANGED <<frames, openUpvalues, closures, ran, owner, captures, declared>>,
           globals' \in [Global -> Value],
           upvalues' \in Seq(Object), Len(upvalues') = Len(upvalues),
           \A u \in DOMAIN upvalues : upvalues'[u].location = upvalues[u].location
    PROVE  IInv'
<1>1. TypeOK /\ Shape /\ FramesStacked /\ StackOK
  BY StacksAreOK DEF IInv
<1>2. StackOK'
  BY <1>1 DEF StackOK
<1>3. FramesOK'
  <2>1. Frame.slots \in 1..Top
    BY <1>1, RunningFrame
  <2>. QED
    BY <1>1, <2>1, Stacks, FramesKept DEF Top
<1>4. Steady
  <2>1. \A x \in 1..declared, s \in Nat :
            s \in DOMAIN owner' /\ owner'[s] = x <=> s \in DOMAIN owner /\ owner[s] = x
    OBVIOUS
  <2>2. openUpvalues # <<>> => frames' # <<>> /\ frames'[1].slots = frames[1].slots
    BY DEF Running
  <2>3. ran \in BOOLEAN /\ declared \in Nat
    BY <1>1 DEF TypeOK
  <2>. QED
    BY <2>1, <2>2, <2>3 DEF Steady
<1>. QED
  BY <1>2, <1>3, <1>4, SteadyStep

-----------------------------------------------------------------------------
(* The instructions that change no frame.                                    *)

LEMMA Contents ==
    ASSUME IInv
    PROVE  /\ \A g \in Global : globals[g] \in Value
           /\ \A v \in Data : v \in Value
           /\ \A u \in DOMAIN upvalues : Deref(u) \subseteq Value
           /\ Running => \A i \in DOMAIN closures[Frame.closure].upvalues :
                             closures[Frame.closure].upvalues[i] \in DOMAIN upvalues
<1>1. TypeOK /\ Shape /\ FramesStacked
  BY DEF IInv
<1>2. \A g \in Global : globals[g] \in Value
  BY <1>1 DEF TypeOK
<1>3. DOMAIN closures \subseteq Value
  BY <1>1, BoundAssumption DEF Shape, Value, Closure
<1>4. ASSUME NEW u \in DOMAIN upvalues
      PROVE  Deref(u) \subseteq Value
  <2>1. upvalues[u].closed \in Value /\ Location(u) \in Nat /\ Top \in Nat
    BY <1>1, Stacks DEF TypeOK
  <2>2. CASE Location(u) = 0
    BY <2>1, <2>2 DEF Deref
  <2>3. CASE Location(u) # 0 /\ Location(u) <= Top
    <3>1. Location(u) \in 1..Top
      BY <2>1, <2>3
    <3>2. stack[Location(u)] \in Value
      BY <1>1, <3>1, Stacks
    <3>. QED
      BY <2>3, <3>2 DEF Deref
  <2>4. CASE Location(u) # 0 /\ ~(Location(u) <= Top)
    BY <1>3, <2>4 DEF Deref, Value
  <2>. QED
    BY <2>2, <2>3, <2>4
<1>5. Running => \A i \in DOMAIN closures[Frame.closure].upvalues :
                     closures[Frame.closure].upvalues[i] \in DOMAIN upvalues
  BY <1>1, RunningFrame DEF TypeOK
<1>. QED
  BY <1>2, <1>4, <1>5 DEF Value

LEMMA ReadStep ==
    ASSUME IInv,
           \/ \E v \in Data : PushValue(v)
           \/ \E g \in Global : GetGlobal(g)
           \/ \E s \in Nat : GetLocal(s)
           \/ \E i \in Nat : GetUpvalue(i)
    PROVE  IInv'
<1>1. \A v \in Data : PushValue(v) => IInv'
  BY Contents, PushStep DEF PushValue
<1>2. \A g \in Global : GetGlobal(g) => IInv'
  BY Contents, PushStep DEF GetGlobal
<1>3. ASSUME NEW s, GetLocal(s)
      PROVE  IInv'
  <2>1. Running /\ s \in LocalSlots /\ TypeOK /\ Shape /\ FramesStacked
    BY <1>3 DEF GetLocal, IInv
  <2>2. s \in 1..Top
    <3>1. s \in Frame.slots..Top /\ Frame.slots \in 1..Top
      BY <2>1, RunningFrame DEF LocalSlots
    <3>. QED
      BY <3>1
  <2>3. stack[s] \in Value
    BY <2>1, <2>2, Stacks
  <2>. QED
    BY <1>3, <2>1, <2>3, PushStep DEF GetLocal
<1>4. ASSUME NEW i, GetUpvalue(i)
      PROVE  IInv'
  <2>1. Running /\ i \in DOMAIN closures[Frame.closure].upvalues
    BY <1>4 DEF GetUpvalue
  <2>2. PICK v \in Deref(closures[Frame.closure].upvalues[i]) : Push(v, Temporary)
    BY <1>4 DEF GetUpvalue
  <2>3. v \in Value
    BY <2>1, Contents
  <2>. QED
    BY <1>4, <2>1, <2>2, <2>3, PushStep DEF GetUpvalue
<1>. QED
  BY <1>1, <1>2, <1>3, <1>4

LEMMA AssignStep ==
    ASSUME IInv,
           \/ PopTemporary
           \/ \E g \in Global : DefineGlobal(g) \/ SetGlobal(g)
           \/ \E s \in Nat : SetLocal(s)
           \/ \E i \in Nat : SetUpvalue(i)
    PROVE  IInv'
<1>. DEFINE v == stack[Top]
<1>1. TypeOK /\ Shape /\ FramesStacked
  BY DEF IInv
<1>2. /\ stack \in Seq(Value) /\ upvalues \in Seq(Object) /\ Top = Len(stack) /\ DOMAIN stack = 1..Top
      /\ Top \in Nat /\ globals \in [Global -> Value] /\ DOMAIN upvalues = 1..Len(upvalues)
  BY <1>1, Stacks DEF Shape, Object, TypeOK, Top
<1>3. ASSUME HasTemporary
      PROVE  Running /\ v \in Value
  <2>1. Running /\ Frame.slots \in 1..Top
    BY <1>1, <1>3, RunningFrame DEF HasTemporary
  <2>. QED
    BY <1>2, <2>1
<1>4. PopTemporary => IInv'
  BY <1>2, PopStep DEF PopTemporary
<1>5. ASSUME NEW g \in Global, DefineGlobal(g)
      PROVE  IInv'
  <2>1. HasTemporary /\ globals' = [globals EXCEPT ![g] = v]
    BY <1>5 DEF DefineGlobal
  <2>2. globals' \in [Global -> Value]
    BY <1>2, <1>3, <2>1
  <2>. QED
    BY <1>5, <2>1, <2>2, PopStep DEF DefineGlobal
<1>6. ASSUME NEW g \in Global, SetGlobal(g)
      PROVE  IInv'
  <2>1. HasTemporary /\ globals' = [globals EXCEPT ![g] = v]
    BY <1>6 DEF SetGlobal
  <2>2. globals' \in [Global -> Value] /\ Running
    BY <1>2, <1>3, <2>1
  <2>3. UNCHANGED <<stack, frames, openUpvalues, upvalues, closures, ran, owner, captures, declared>>
    BY <1>6 DEF SetGlobal
  <2>. QED
    BY <1>2, <2>2, <2>3, WriteStep
<1>7. ASSUME NEW s, SetLocal(s)
      PROVE  IInv'
  <2>1. HasTemporary /\ s \in LocalSlots /\ stack' = [stack EXCEPT ![s] = v]
    BY <1>7 DEF SetLocal
  <2>2. s \in 1..Len(stack)
    <3>1. s \in Frame.slots..Top /\ Frame.slots \in 1..Top
      BY <1>1, <1>3, <2>1, RunningFrame DEF LocalSlots
    <3>. QED
      BY <1>2, <3>1
  <2>3. stack' \in Seq(Value) /\ Len(stack') = Len(stack)
    <3>. HIDE DEF v
    <3>. QED
      BY <1>2, <1>3, <2>1, <2>2, ExceptSeq
  <2>4. UNCHANGED <<frames, openUpvalues, upvalues, closures, globals, ran, owner, captures, declared>>
    BY <1>7 DEF SetLocal
  <2>. QED
    BY <1>2, <1>3, <2>1, <2>3, <2>4, WriteStep
<1>8. ASSUME NEW i, SetUpvalue(i)
      PROVE  IInv'
  <2>. DEFINE u == closures[Frame.closure].upvalues[i]
  <2>1. HasTemporary /\ i \in DOMAIN closures[Frame.closure].upvalues /\ Running /\ v \in Value
    BY <1>3, <1>8 DEF SetUpvalue
  <2>2. u \in DOMAIN upvalues
    BY <2>1, Contents
  <2>3. /\ upvalues' = IF Location(u) = 0 THEN [upvalues EXCEPT ![u].closed = v] ELSE upvalues
        /\ stack' = IF Location(u) \in DOMAIN stack THEN [stack EXCEPT ![Location(u)] = v] ELSE stack
        /\ UNCHANGED <<frames, openUpvalues, closures, globals, ran, owner, captures, declared>>
    BY <1>8 DEF SetUpvalue
  <2>. HIDE DEF u, v
  <2>4. stack' \in Seq(Value) /\ Len(stack') = Len(stack)
    BY <1>2, <2>1, <2>3, ExceptSeq
  <2>5. /\ upvalues' \in Seq(Object) /\ Len(upvalues') = Len(upvalues)
        /\ \A w \in DOMAIN upvalues : upvalues'[w].location = upvalues[w].location
    <3>1. CASE Location(u) = 0
      <4>1. upvalues[u] \in Object
        BY <1>2, <2>2, ElementOfSeq
      <4>2. upvalues' = [upvalues EXCEPT ![u] = [upvalues[u] EXCEPT !.closed = v]]
        BY <2>3, <3>1
      <4>3. /\ [upvalues[u] EXCEPT !.closed = v] \in Object
            /\ [upvalues[u] EXCEPT !.closed = v].location = upvalues[u].location
        BY <2>1, <4>1 DEF Object
      <4>. DEFINE o == [upvalues[u] EXCEPT !.closed = v]
      <4>. HIDE DEF o
      <4>4. /\ upvalues' \in Seq(Object) /\ Len(upvalues') = Len(upvalues)
            /\ \A w \in 1..Len(upvalues) : upvalues'[w] = IF w = u THEN o ELSE upvalues[w]
        BY <1>2, <2>2, <4>2, <4>3, ExceptSeq DEF o
      <4>. QED
        BY <1>2, <4>3, <4>4 DEF o
    <3>2. CASE Location(u) # 0
      BY <1>2, <2>3, <3>2
    <3>. QED
      BY <3>1, <3>2
  <2>. QED
    BY <1>2, <2>1, <2>3, <2>4, <2>5, WriteStep
<1>. QED
  BY <1>4, <1>5, <1>6, <1>7, <1>8

-----------------------------------------------------------------------------
(* The steps that name variables or start a frame.                           *)

LEMMA DeclareLocalStep ==
    ASSUME IInv, DeclareLocal
    PROVE  IInv'
<1>. USE DEF Temporary
<1>1. TypeOK /\ Shape /\ FramesStacked /\ StackOK
  BY StacksAreOK DEF IInv
<1>2. /\ owner \in Seq(Names0) /\ Len(owner) = Top /\ Top \in Nat /\ DOMAIN owner = 1..Top
      /\ Top = Len(stack)
  BY <1>1, Stacks DEF Shape, Top
<1>3. /\ Running /\ owner[Top] = 0 /\ Top \in 1..Top /\ Frame.slots <= Top
      /\ owner' = [owner EXCEPT ![Top] = declared + 1] /\ declared' = declared + 1
      /\ declared < VariableBound /\ UNCHANGED <<machine, ran, captures>>
  <2>1. HasTemporary /\ Running
    BY DEF DeclareLocal, HasTemporary
  <2>2. Frame.slots \in 1..Top
    BY <1>1, <2>1, RunningFrame
  <2>. QED
    BY <1>2, <2>1, <2>2 DEF DeclareLocal, HasTemporary
<1>4. declared \in Nat /\ declared' \in 0..VariableBound /\ declared + 1 \in Names0
  BY <1>1, <1>3, BoundAssumption DEF TypeOK, Names0
<1>5. /\ owner' \in Seq(Names0) /\ Len(owner') = Top /\ DOMAIN owner' = 1..Top
      /\ \A s \in 1..Top : owner'[s] = IF s = Top THEN declared + 1 ELSE owner[s]
  BY <1>2, <1>3, <1>4, ExceptSeq
<1>6. \A s \in 1..Top : owner[s] <= declared /\ owner[s] \in Nat
  <2>1. \A s \in 1..Top : owner[s] <= declared
    BY <1>1, <1>2 DEF StackOK
  <2>2. \A s \in 1..Top : owner[s] \in Names0
    BY <1>1, Stacks
  <2>. QED
    BY <2>1, <2>2, BoundAssumption DEF Names0
<1>7. StackOK'
  <2>1. \A s \in 1..Top : owner'[s] <= declared'
    BY <1>3, <1>4, <1>5, <1>6
  <2>2. \A s \in 1..Top : s # Top => owner'[s] # declared + 1
    BY <1>4, <1>5, <1>6
  <2>3. \A s, t \in 1..Top : owner'[s] = owner'[t] /\ owner'[s] # 0 => s = t
    BY <1>1, <1>2, <1>5, <2>2 DEF StackOK
  <2>. QED
    <3>1. stack' = stack
      BY <1>3 DEF machine
    <3>2. stack \in Seq(Value) /\ Len(stack) <= StackBound
      BY <1>1 DEF StackOK
    <3>. QED
      BY <1>2, <1>4, <1>5, <2>1, <2>3, <3>1, <3>2 DEF StackOK
<1>8. FramesOK'
  BY <1>2, <1>3, FramesKept DEF machine
<1>9. Steady
  <2>1. \A x \in 1..declared, s \in Nat :
            s \in DOMAIN owner' /\ owner'[s] = x <=> s \in DOMAIN owner /\ owner[s] = x
    <3>1. SUFFICES ASSUME NEW x \in 1..declared, NEW s \in 1..Top
                   PROVE  owner'[s] = x <=> owner[s] = x
      BY <1>2, <1>5
    <3>2. declared + 1 # x /\ 0 # x
      BY <1>4
    <3>. QED
      BY <1>3, <1>5, <3>2
  <2>2. openUpvalues # <<>> => frames' # <<>> /\ frames'[1].slots = frames[1].slots
    BY <1>3 DEF Running, machine
  <2>3. upvalues \in Seq(Object) /\ globals \in [Global -> Value] /\ ran \in BOOLEAN
    BY <1>1 DEF Shape, Object, TypeOK
  <2>. QED
    BY <1>3, <1>4, <2>1, <2>2, <2>3 DEF Steady, machine
<1>. QED
  BY <1>7, <1>8, <1>9, SteadyStep

LEMMA InterpretStep ==
    ASSUME IInv, Interpret
    PROVE  IInv'
<1>1. TypeOK /\ Shape /\ OpenOnVariables
  BY DEF IInv
<1>2. frames = <<>> /\ openUpvalues = <<>>
  <2>1. frames = <<>>
    BY DEF Interpret, Running
  <2>2. DOMAIN openUpvalues = {} /\ openUpvalues \in Seq(Nat)
    BY <1>1, <2>1 DEF OpenOnVariables, Shape
  <2>. QED
    BY <2>1, <2>2
<1>3. 0 \in DOMAIN closures /\ 0 \in Closure /\ 0 \in Value
  BY <1>1, BoundAssumption DEF Shape, Closure, Value
<1>4. Pushed(Temporary)
  BY <1>3, Pushes DEF Interpret
<1>5. Top \in Nat /\ Len(stack') = Top + 1
  BY <1>1, <1>4, Stacks DEF Pushed
<1>6. FramesOK'
  <2>1. frames' = <<[closure |-> 0, slots |-> Top + 1]>> /\ UNCHANGED closures
    BY DEF Interpret
  <2>2. /\ frames' \in Seq([closure : Closure, slots : Nat]) /\ DOMAIN frames' = {1}
        /\ frames'[1] = [closure |-> 0, slots |-> Top + 1]
    <3>1. [closure |-> 0, slots |-> Top + 1] \in [closure : Closure, slots : Nat]
      BY <1>3, <1>5
    <3>. QED
      BY <2>1, <3>1
  <2>3. FramesStacked'
    BY <2>2 DEF FramesStacked
  <2>. QED
    BY <1>3, <1>5, <2>1, <2>2, <2>3 DEF FramesOK, Top
<1>7. Steady
  <2>1. upvalues \in Seq(Object) /\ globals \in [Global -> Value] /\ declared \in Nat
    BY <1>1 DEF Shape, Object, TypeOK
  <2>. QED
    BY <1>2, <1>4, <2>1 DEF Steady, Pushed, Interpret
<1>. QED
  BY <1>4, <1>6, <1>7, SteadyStep DEF Pushed

\* The call goes through: arguments become parameters.
Enters(n) ==
    /\ Running /\ Top - n > Frame.slots
    /\ \A s \in Top - n..Top : owner[s] = Temporary
    /\ stack[Top - n] \in DOMAIN closures
    /\ declared + n <= VariableBound
    /\ frames' = Append(frames, [closure |-> stack[Top - n], slots |-> Top - n])
    /\ owner' = [s \in DOMAIN owner |->
                     IF s > Top - n THEN declared + s - (Top - n) ELSE owner[s]]
    /\ declared' = declared + n
    /\ UNCHANGED <<stack, openUpvalues, upvalues, closures, globals, ran, captures>>

LEMMA CallStep ==
    ASSUME IInv, NEW n \in Nat, Enters(n)
    PROVE  IInv'
<1>. USE DEF Temporary
<1>1. TypeOK /\ Shape /\ FramesStacked /\ StackOK /\ FramesOK
  BY StacksAreOK DEF IInv
<1>2. /\ owner \in Seq(Names0) /\ Len(owner) = Top /\ Top \in Nat /\ DOMAIN owner = 1..Top
      /\ Top = Len(stack) /\ declared \in Nat
  BY <1>1, Stacks DEF Shape, Top, TypeOK
<1>. DEFINE base == Top - n
<1>3. /\ Running /\ base > Frame.slots /\ \A s \in base..Top : owner[s] = 0
      /\ stack[base] \in DOMAIN closures /\ declared + n <= VariableBound
      /\ frames' = Append(frames, [closure |-> stack[base], slots |-> base])
      /\ owner' = [s \in 1..Top |-> IF s > base THEN declared + s - base ELSE owner[s]]
      /\ declared' = declared + n
      /\ UNCHANGED <<stack, openUpvalues, upvalues, closures, globals, ran, captures>>
  BY <1>2 DEF Enters
<1>4. Frame.slots \in 1..Top /\ base \in 1..Top /\ base \in Nat /\ base + n = Top
  <2>1. Frame.slots \in 1..Top
    BY <1>1, <1>3, RunningFrame
  <2>. QED
    BY <1>2, <1>3, <2>1
<1>. HIDE DEF base
<1>5. declared' \in 0..VariableBound
  BY <1>2, <1>3, BoundAssumption
<1>6. \A s \in 1..Top : owner[s] <= declared /\ owner[s] \in Nat
  <2>1. \A s \in 1..Top : owner[s] <= declared
    BY <1>1, <1>2 DEF StackOK
  <2>2. \A s \in 1..Top : owner[s] \in Names0
    BY <1>1, Stacks
  <2>. QED
    BY <2>1, <2>2, BoundAssumption DEF Names0
<1>7. ASSUME NEW s \in 1..Top
      PROVE  IF s > base THEN owner[s] = 0 /\ owner'[s] = declared + s - base /\ owner'[s] > declared
                              /\ owner'[s] <= declared'
                         ELSE owner'[s] = owner[s] /\ owner'[s] <= declared
  BY <1>2, <1>3, <1>4, <1>6
<1>8. /\ owner' \in Seq(Names0) /\ Len(owner') = Top /\ DOMAIN owner' = 1..Top
  <2>1. \A s \in 1..Top : owner'[s] \in Names0
    <3>1. SUFFICES ASSUME NEW s \in 1..Top PROVE owner'[s] \in 0..VariableBound
      BY DEF Names0
    <3>2. CASE s > base
      <4>1. declared + s - base \in Nat /\ owner'[s] = declared + s - base
        BY <1>2, <1>4, <1>7, <3>2
      <4>2. declared' \in Nat /\ owner'[s] <= declared' /\ declared' <= VariableBound
        BY <1>5, <1>7, <3>2, BoundAssumption
      <4>. QED
        BY <4>1, <4>2, BoundAssumption
    <3>3. CASE ~(s > base)
      BY <1>1, <1>2, <1>7, <3>3, Stacks DEF Names0
    <3>. QED
      BY <3>2, <3>3
  <2>2. owner' \in [1..Top -> Names0]
    BY <1>3, <2>1
  <2>. QED
    BY <1>2, <2>2
<1>9. \A s, t \in 1..Top : owner'[s] = owner'[t] /\ owner'[s] # 0 => s = t
  <2>1. SUFFICES ASSUME NEW s \in 1..Top, NEW t \in 1..Top, owner'[s] = owner'[t], owner'[s] # 0
                 PROVE  s = t
    OBVIOUS
  <2>2. CASE s > base /\ t > base
    BY <1>2, <1>4, <1>7, <2>1, <2>2
  <2>3. CASE ~(s > base) /\ ~(t > base)
    BY <1>1, <1>2, <1>7, <2>1, <2>3 DEF StackOK
  <2>4. CASE s > base <=> ~(t > base)
    <3>1. owner[s] \in Nat /\ owner[t] \in Nat /\ owner[s] <= declared /\ owner[t] <= declared
      BY <1>6
    <3>. QED
      BY <1>2, <1>7, <2>1, <2>4, <3>1
  <2>. QED
    BY <2>2, <2>3, <2>4
<1>10. StackOK'
  <2>1. \A s \in 1..Top : owner'[s] <= declared'
    <3>1. \A s \in 1..Top : s > base => owner'[s] <= declared'
      BY <1>7
    <3>2. \A s \in 1..Top : ~(s > base) => owner'[s] = owner[s]
      BY <1>7
    <3>3. declared <= declared' /\ declared' \in Nat
      BY <1>2, <1>3
    <3>. QED
      BY <1>2, <1>6, <3>1, <3>2, <3>3
  <2>. QED
    BY <1>1, <1>2, <1>3, <1>5, <1>8, <1>9, <2>1 DEF StackOK
<1>11. FramesOK'
  <2>. DEFINE m == Len(frames)
              f == [closure |-> stack[base], slots |-> base]
  <2>1. frames \in Seq([closure : Closure, slots : Nat]) /\ f \in [closure : Closure, slots : Nat]
    <3>1. DOMAIN closures \subseteq Closure
      BY <1>1, BoundAssumption DEF Shape, Closure
    <3>. QED
      BY <1>1, <1>3, <1>4, <3>1 DEF Shape
  <2>2. m \in Nat /\ m \in DOMAIN frames /\ DOMAIN frames = 1..m /\ Frame = frames[m]
    BY <1>1, <1>3, RunningFrame, Stacks
  <2>. HIDE DEF f, m
  <2>3. /\ frames' \in Seq([closure : Closure, slots : Nat]) /\ DOMAIN frames' = 1..m + 1
        /\ frames'[m + 1] = f /\ \A i \in 1..m : frames'[i] = frames[i]
    <3>1. frames' = Append(frames, f)
      BY <1>3 DEF f
    <3>. QED
      BY <2>1, <3>1, AppendProperties DEF m
  <2>4. \A i : i \in 1..m + 1 <=> i \in 1..m \/ i = m + 1
    BY <2>2
  <2>5. f.closure \in DOMAIN closures /\ f.slots = base
    BY <1>3 DEF f
  <2>6. \A i \in 1..m : frames[i].closure \in DOMAIN closures /\ frames[i].slots \in 1..Top
    BY <1>1, <2>2 DEF FramesOK
  <2>7. \A i \in 1..m : frames[i].slots < base
    <3>1. SUFFICES ASSUME NEW i \in 1..m PROVE frames[i].slots <= Frame.slots
      BY <1>2, <1>3, <1>4, <2>6
    <3>2. CASE i < m
      BY <1>1, <1>4, <2>2, <2>6, <3>2 DEF FramesStacked
    <3>3. CASE i = m
      BY <1>4, <2>2, <3>3
    <3>. QED
      BY <2>2, <3>2, <3>3
  <2>8. FramesStacked'
    <3>1. SUFFICES ASSUME NEW i \in 1..m + 1, NEW j \in 1..m + 1, i < j
                   PROVE  frames'[i].slots < frames'[j].slots
      BY <2>3 DEF FramesStacked
    <3>2. i \in 1..m
      BY <2>2, <3>1
    <3>3. CASE j = m + 1
      BY <2>3, <2>5, <2>7, <3>2, <3>3
    <3>4. CASE j \in 1..m
      BY <1>1, <2>2, <2>3, <3>1, <3>2, <3>4 DEF FramesStacked
    <3>. QED
      BY <2>4, <3>3, <3>4
  <2>9. \A i \in 1..m + 1 : frames'[i].closure \in DOMAIN closures /\ frames'[i].slots \in 1..Top
    BY <1>4, <2>3, <2>4, <2>5, <2>6
  <2>. QED
    BY <1>3, <2>3, <2>8, <2>9 DEF FramesOK, Top
<1>12. Steady
  <2>1. \A x \in 1..declared, s \in Nat :
            s \in DOMAIN owner' /\ owner'[s] = x <=> s \in DOMAIN owner /\ owner[s] = x
    <3>1. SUFFICES ASSUME NEW x \in 1..declared, NEW s \in 1..Top
                   PROVE  owner'[s] = x <=> owner[s] = x
      BY <1>2, <1>8
    <3>. QED
      BY <1>2, <1>7, <3>1
  <2>2. frames' # <<>> /\ frames'[1] = frames[1]
    <3>1. frames \in Seq([closure : Closure, slots : Nat]) /\ 1 \in 1..Len(frames)
      BY <1>1, <1>3, RunningFrame, Stacks DEF Shape
    <3>2. 1 \in DOMAIN frames' /\ DOMAIN <<>> = {}
      BY <1>3, <3>1
    <3>. QED
      BY <1>3, <3>1, <3>2
  <2>3. upvalues \in Seq(Object) /\ globals \in [Global -> Value] /\ ran \in BOOLEAN
    BY <1>1 DEF Shape, Object, TypeOK
  <2>4. declared <= declared'
    BY <1>2, <1>3
  <2>. QED
    BY <1>3, <2>1, <2>2, <2>3, <2>4 DEF Steady
<1>. QED
  BY <1>10, <1>11, <1>12, SteadyStep

-----------------------------------------------------------------------------
(* Steps that end variables: the slots from last on.                         *)

Leaves(last) ==
    /\ UNCHANGED <<closures, captures, declared, globals, ran>>
    /\ Closed(last)
    /\ openUpvalues' # <<>> => frames' # <<>> /\ frames'[1].slots = frames[1].slots
    /\ \A x \in 1..declared, s \in Nat :
           /\ s \in DOMAIN owner' /\ owner'[s] = x => s < last /\ s \in DOMAIN owner /\ owner[s] = x
           /\ frames[1].slots <= s /\ s < last /\ s \in DOMAIN owner /\ owner[s] = x
                  => s \in DOMAIN owner' /\ owner'[s] = x

LEMMA LeavingStep ==
    ASSUME IInv, NEW last \in Nat, Leaves(last), StackOK', FramesOK'
    PROVE  IInv'
<1>. USE DEF Temporary
<1>1. /\ closures' = closures /\ captures' = captures /\ declared' = declared
      /\ globals' = globals /\ ran' = ran /\ Closed(last)
  BY DEF Leaves
<1>2. Shape /\ TypeOK /\ OpenListSorted /\ OpenOnVariables /\ VariablesDistinct
  BY DEF IInv
<1>3. /\ openUpvalues' \in Seq(Nat) /\ upvalues' \in Seq(Object) /\ Len(upvalues') = Len(upvalues)
      /\ DOMAIN upvalues' = DOMAIN upvalues /\ DOMAIN upvalues' = 1..Len(upvalues')
  <2>1. openUpvalues' \in Seq(Nat) /\ upvalues' \in Seq(Object) /\ Len(upvalues') = Len(upvalues)
    BY <1>1 DEF Closed
  <2>. QED
    BY <1>2, <2>1, Stacks
<1>4. \A u \in DOMAIN upvalues' : upvalues'[u] \in Object
  BY <1>3, ElementOfSeq
<1>5. /\ DOMAIN stack' = DOMAIN owner' /\ Top' = Len(stack') /\ DOMAIN stack' = 1..Len(stack')
      /\ Len(stack') \in Nat
  BY DEF StackOK, Top
<1>6. \A s \in DOMAIN owner : s \in Nat /\ (owner[s] # 0 => owner[s] \in 1..declared)
  <2>1. SUFFICES ASSUME NEW s \in DOMAIN owner
                 PROVE  s \in Nat /\ (owner[s] # 0 => owner[s] \in 1..declared)
    OBVIOUS
  <2>2. s \in Nat /\ owner[s] \in Names0 /\ owner[s] <= declared /\ declared \in Nat
    BY <1>2, Stacks DEF VariablesDistinct, TypeOK
  <2>. QED
    BY <2>2, BoundAssumption DEF Names0
<1>7. ASSUME NEW i \in DOMAIN openUpvalues'
      PROVE  LET u == openUpvalues'[i]
                 at == upvalues'[u].location
             IN  /\ u \in DOMAIN upvalues' /\ at \in DOMAIN owner' /\ owner'[at] # 0
                 /\ at \in Nat /\ frames[1].slots <= at
                 /\ openUpvalues' # <<>> /\ IsCaptured(owner'[at])
  <2>1. PICK j \in DOMAIN openUpvalues : openUpvalues'[i] = openUpvalues[j]
    BY <1>1 DEF Closed
  <2>. DEFINE at == Location(openUpvalues[j])
  <2>2. /\ openUpvalues[j] \in DOMAIN upvalues /\ at \in 1..Top /\ owner[at] # 0
        /\ frames[1].slots <= at /\ IsCaptured(owner[at])
    BY <1>2, OpenSlots DEF OpenOnVariables
  <2>3. at < last /\ upvalues'[openUpvalues'[i]].location = at
    BY <1>1, <2>1 DEF Closed, Location
  <2>4. at \in DOMAIN owner /\ at \in Nat /\ owner[at] \in 1..declared
    BY <1>2, <1>6, <2>2, Stacks
  <2>5. at \in DOMAIN owner' /\ owner'[at] = owner[at]
    BY <2>2, <2>3, <2>4 DEF Leaves
  <2>6. openUpvalues' # <<>>
    BY <1>3
  <2>. HIDE DEF at
  <2>. QED
    BY <1>3, <2>1, <2>2, <2>3, <2>4, <2>5, <2>6
<1>8. TypeOK'
  <2>1. \A u \in DOMAIN upvalues' : upvalues'[u].location \in 0..StackBound /\ upvalues'[u].closed \in Value
    <3>1. SUFFICES ASSUME NEW u \in DOMAIN upvalues' PROVE upvalues'[u].location \in 0..StackBound
      BY <1>4 DEF Object
    <3>2. upvalues'[u] = upvalues[u] \/ upvalues'[u].location = 0
      BY <1>1, <1>3 DEF Closed
    <3>. QED
      BY <1>2, <1>3, <3>2, BoundAssumption DEF TypeOK, Location
  <2>. QED
    BY <1>1, <1>2, <1>3, <1>5, <1>7, <2>1 DEF TypeOK, StackOK, FramesOK, Location
<1>9. Shape'
  BY <1>1, <1>2, <1>3 DEF Shape, StackOK, FramesOK, Object
<1>10. FramesStacked'
  BY DEF FramesOK
<1>11. OpenListSorted'
  <2>1. \A i \in DOMAIN openUpvalues' : upvalues'[openUpvalues'[i]].location \in DOMAIN stack'
    BY <1>5, <1>7
  <2>2. \A i, j \in DOMAIN openUpvalues' :
            i < j => upvalues'[openUpvalues'[i]].location > upvalues'[openUpvalues'[j]].location
    BY <1>1 DEF Closed
  <2>. QED
    BY <2>1, <2>2 DEF OpenListSorted, Location
<1>12. OpenOnVariables'
  <2>1. SUFFICES ASSUME NEW i \in DOMAIN openUpvalues'
                 PROVE  LET at == upvalues'[openUpvalues'[i]].location
                        IN  /\ frames' # <<>> /\ frames'[1].slots <= at
                            /\ owner'[at] # 0
                            /\ \E c \in DOMAIN captures : \E j \in DOMAIN captures[c] : captures[c][j] = owner'[at]
    BY <1>1 DEF OpenOnVariables, IsCaptured, Location
  <2>2. frames' # <<>> /\ frames'[1].slots = frames[1].slots
    BY <1>7 DEF Leaves
  <2>. QED
    BY <1>7, <2>2 DEF IsCaptured
<1>13. VariablesDistinct'
  BY <1>1, <1>2 DEF VariablesDistinct, StackOK
<1>14. CapturesMatch'
  BY <1>1 DEF IInv, CapturesMatch
<1>15. ASSUME ~Interactive
       PROVE  OneLocation'
  <2>1. SUFFICES ASSUME NEW c \in DOMAIN closures, NEW d \in DOMAIN closures,
                        NEW i \in DOMAIN captures[c], NEW j \in DOMAIN captures[d]
                 PROVE  LET u == closures[c].upvalues[i]
                            x == captures[c][i]
                        IN  /\ captures[d][j] = x <=> closures[d].upvalues[j] = u
                            /\ IF \E s \in DOMAIN owner' : owner'[s] = x
                               THEN /\ upvalues'[u].location \in DOMAIN owner' /\ owner'[upvalues'[u].location] = x
                                    /\ \E k \in DOMAIN openUpvalues' : openUpvalues'[k] = u
                               ELSE upvalues'[u].location = 0
    BY <1>1 DEF OneLocation, Location
  <2>. DEFINE u == closures[c].upvalues[i]
              x == captures[c][i]
  <2>2. /\ captures[d][j] = x <=> closures[d].upvalues[j] = u
        /\ IF \E s \in DOMAIN owner : owner[s] = x
           THEN /\ Location(u) \in DOMAIN owner /\ owner[Location(u)] = x
                /\ \E k \in DOMAIN openUpvalues : openUpvalues[k] = u
           ELSE Location(u) = 0
    BY <1>15 DEF IInv, OneLocation
  <2>3. x \in 1..declared /\ u \in DOMAIN upvalues
    <3>1. c \in DOMAIN captures /\ i \in DOMAIN closures[c].upvalues
      BY <1>2 DEF IInv, CapturesMatch, TypeOK
    <3>2. x \in Variable
      <4>1. captures[c] \in Seq(Variable)
        BY <1>2, <3>1 DEF Shape
      <4>. QED
        BY <4>1
    <3>3. x <= declared /\ declared \in Nat
      BY <1>2, <3>1 DEF VariablesDistinct, TypeOK
    <3>4. u \in DOMAIN upvalues
      BY <1>2, <3>1 DEF TypeOK
    <3>. QED
      BY <3>2, <3>3, <3>4 DEF Variable
  <2>. HIDE DEF u, x
  <2>4. CASE \E s \in DOMAIN owner' : owner'[s] = x
    <3>1. PICK s \in DOMAIN owner' : owner'[s] = x
      BY <2>4
    <3>2. s < last /\ s \in DOMAIN owner /\ owner[s] = x
      BY <1>5, <2>3, <3>1 DEF Leaves
    <3>3. Location(u) = s
      BY <1>2, <2>2, <2>3, <3>2 DEF VariablesDistinct
    <3>4. PICK k \in DOMAIN openUpvalues : openUpvalues[k] = u
      BY <2>2, <3>2
    <3>5. ~(Location(openUpvalues[k]) >= last)
      BY <1>6, <3>2, <3>3, <3>4
    <3>6. PICK l \in DOMAIN openUpvalues' : openUpvalues'[l] = u
      BY <1>1, <3>4, <3>5 DEF Closed
    <3>7. upvalues'[u] = upvalues[u]
      BY <1>1, <3>6 DEF Closed
    <3>8. upvalues'[u].location = s
      BY <3>3, <3>7 DEF Location
    <3>. QED
      BY <2>2, <3>1, <3>6, <3>8 DEF u, x
  <2>5. CASE ~ \E s \in DOMAIN owner' : owner'[s] = x
    <3>1. upvalues'[u] = upvalues[u] \/ upvalues'[u].location = 0
      BY <1>1, <2>3 DEF Closed
    <3>2. CASE Location(u) = 0
      BY <2>2, <2>5, <3>1, <3>2 DEF Location, u, x
    <3>3. CASE Location(u) # 0
      <4>1. Location(u) \in DOMAIN owner /\ owner[Location(u)] = x
        BY <2>2, <3>3
      <4>2. PICK k \in DOMAIN openUpvalues : openUpvalues[k] = u
        BY <2>2, <3>3
      <4>3. frames[1].slots <= Location(u) /\ Location(u) \in Nat
        BY <1>2, <1>6, <4>1, <4>2 DEF OpenOnVariables
      <4>4. ~(Location(u) < last)
        BY <2>3, <2>5, <4>1, <4>3 DEF Leaves
      <4>5. upvalues'[u].location = 0
        BY <1>1, <4>2, <4>3, <4>4 DEF Closed
      <4>. QED
        BY <2>2, <2>5, <4>5 DEF u, x
    <3>. QED
      BY <3>2, <3>3
  <2>. QED
    BY <2>4, <2>5
<1>. QED
  BY <1>8, <1>9, <1>10, <1>11, <1>12, <1>13, <1>14, <1>15 DEF IInv

\* A variable that was not captured has no open upvalue to close.
LEMMA NothingToClose ==
    ASSUME IInv, Running, Top \in Nat, ~IsCaptured(owner[Top]), UNCHANGED <<upvalues, openUpvalues>>
    PROVE  Closed(Top)
<1>1. Shape /\ TypeOK /\ OpenListSorted /\ OpenOnVariables
  BY DEF IInv
<1>2. openUpvalues \in Seq(Nat) /\ upvalues \in Seq(Object)
  BY <1>1 DEF Shape, Object
<1>3. ASSUME NEW i \in DOMAIN openUpvalues
      PROVE  Location(openUpvalues[i]) < Top /\ openUpvalues[i] \in DOMAIN upvalues
  <2>1. Location(openUpvalues[i]) \in 1..Top /\ openUpvalues[i] \in DOMAIN upvalues
    BY <1>1, OpenSlots
  <2>2. Location(openUpvalues[i]) # Top
    BY <1>1 DEF OpenOnVariables
  <2>. QED
    BY <2>1, <2>2
<1>4. \A i, j \in DOMAIN openUpvalues :
          i < j => upvalues[openUpvalues[i]].location > upvalues[openUpvalues[j]].location
  BY <1>1 DEF OpenListSorted, Location
<1>5. \A i \in DOMAIN openUpvalues : ~(Location(openUpvalues[i]) >= Top)
  <2>1. SUFFICES ASSUME NEW i \in DOMAIN openUpvalues PROVE ~(Location(openUpvalues[i]) >= Top)
    OBVIOUS
  <2>2. Location(openUpvalues[i]) \in 1..Top
    BY <1>1, OpenSlots
  <2>. QED
    BY <1>3, <2>2
<1>. QED
  BY <1>2, <1>3, <1>4, <1>5 DEF Closed

LEMMA EndLocalStep ==
    ASSUME IInv, EndLocal
    PROVE  IInv'
<1>. USE DEF Temporary
<1>1. TypeOK /\ Shape /\ FramesStacked /\ StackOK /\ OpenListSorted
  BY StacksAreOK DEF IInv
<1>2. /\ stack \in Seq(Value) /\ owner \in Seq(Names0)
      /\ Len(owner) = Top /\ Len(stack) = Top /\ Top \in Nat /\ DOMAIN owner = 1..Top
  BY <1>1, Stacks DEF Top, StackOK
<1>3. /\ Running /\ Frame.slots \in 1..Top /\ Top > Frame.slots
      /\ stack' = PopN(stack, 1) /\ owner' = PopN(owner, 1)
      /\ UNCHANGED <<frames, closures, globals, ran, captures, declared>>
  <2>1. Running /\ Top > Frame.slots + closures[Frame.closure].arity
    BY DEF EndLocal
  <2>2. Frame.slots \in 1..Top /\ Frame.closure \in DOMAIN closures
    BY <1>1, <2>1, RunningFrame
  <2>3. closures[Frame.closure].arity \in Nat
    BY <1>1, <2>2 DEF Shape
  <2>. QED
    BY <1>2, <2>1, <2>2, <2>3 DEF EndLocal
<1>4. Closed(Top)
  <2>1. CASE IsCaptured(owner[Top])
    BY <1>1, <1>2, <2>1, ClosingCloses DEF EndLocal
  <2>2. CASE ~IsCaptured(owner[Top])
    BY <1>2, <1>3, <2>2, NothingToClose DEF EndLocal
  <2>. QED
    BY <2>1, <2>2
<1>5. /\ stack' \in Seq(Value) /\ Len(stack') = Top - 1
      /\ owner' \in Seq(Names0) /\ Len(owner') = Top - 1 /\ DOMAIN owner' = 1..Top - 1
      /\ \A s \in 1..Top - 1 : owner'[s] = owner[s]
  <2>1. stack' = SubSeq(stack, 1, Top - 1) /\ owner' = SubSeq(owner, 1, Top - 1)
    BY <1>2, <1>3 DEF PopN
  <2>2. Top - 1 \in 0..Top
    BY <1>2, <1>3
  <2>. QED
    BY <1>2, <2>1, <2>2, Prefix
<1>6. \A s \in Nat : s \in 1..Top - 1 <=> s \in 1..Top /\ s < Top
  BY <1>2
<1>7. \A s \in 1..Top - 1 : s \in 1..Top
  BY <1>2
<1>8. StackOK'
  <2>1. Len(stack') <= StackBound
    BY <1>1, <1>2, <1>5, BoundAssumption DEF StackOK
  <2>2. \A s \in 1..Top - 1 : owner'[s] <= declared
    BY <1>1, <1>2, <1>5, <1>7 DEF StackOK
  <2>3. \A s, t \in 1..Top - 1 : owner'[s] = owner'[t] /\ owner'[s] # 0 => s = t
    BY <1>1, <1>2, <1>5, <1>7 DEF StackOK
  <2>. QED
    BY <1>1, <1>3, <1>5, <2>1, <2>2, <2>3 DEF StackOK
<1>9. FramesOK'
  <2>1. Frame.slots <= Top - 1 /\ Top - 1 \in Nat
    BY <1>2, <1>3
  <2>. QED
    BY <1>3, <1>5, <2>1, FramesKept
<1>10. Leaves(Top)
  <2>1. \A x \in 1..declared, s \in Nat :
           /\ s \in DOMAIN owner' /\ owner'[s] = x => s < Top /\ s \in DOMAIN owner /\ owner[s] = x
           /\ frames[1].slots <= s /\ s < Top /\ s \in DOMAIN owner /\ owner[s] = x
                  => s \in DOMAIN owner' /\ owner'[s] = x
    BY <1>2, <1>5, <1>6
  <2>2. openUpvalues' # <<>> => frames' # <<>> /\ frames'[1].slots = frames[1].slots
    BY <1>3 DEF Running
  <2>. QED
    BY <1>3, <1>4, <2>1, <2>2 DEF Leaves
<1>. QED
  BY <1>2, <1>8, <1>9, <1>10, LeavingStep

LEMMA ReturnStep ==
    ASSUME IInv, Return
    PROVE  IInv'
<1>. USE DEF Temporary
<1>1. TypeOK /\ Shape /\ FramesStacked /\ StackOK /\ FramesOK /\ OpenListSorted /\ OpenOnVariables
  BY StacksAreOK DEF IInv
<1>. DEFINE m == Len(frames)
            base == Frame.slots
<1>2. /\ stack \in Seq(Value) /\ owner \in Seq(Names0) /\ 0 \in Names0
      /\ Len(owner) = Top /\ Len(stack) = Top /\ Top \in Nat /\ DOMAIN owner = 1..Top
      /\ frames \in Seq([closure : Closure, slots : Nat]) /\ DOMAIN frames = 1..m
  BY <1>1, Stacks, BoundAssumption DEF Top, StackOK, Names0, Shape
<1>3. /\ Running /\ base \in 1..Top /\ Top > base /\ m \in Nat /\ m >= 1 /\ frames[m].slots = base
      /\ frames' = SubSeq(frames, 1, m - 1)
      /\ UNCHANGED <<closures, globals, ran, captures, declared>>
  <2>1. HasTemporary
    BY DEF Return
  <2>2. base \in 1..Top /\ m \in 1..m /\ m \in Nat /\ frames[m].slots = base
    BY <1>1, <1>2, <2>1, RunningFrame, Stacks DEF HasTemporary
  <2>. QED
    BY <2>1, <2>2 DEF Return, HasTemporary, PopN
<1>4. Closed(base)
  BY <1>1, <1>3, ClosingCloses DEF Return
<1>. HIDE DEF m, base
<1>5. m - 1 \in 0..m
  BY <1>3
<1>6. /\ frames' \in Seq([closure : Closure, slots : Nat]) /\ Len(frames') = m - 1
      /\ DOMAIN frames' = 1..m - 1 /\ \A i \in 1..m - 1 : frames'[i] = frames[i]
  <2>. DEFINE F == [closure : Closure, slots : Nat]
  <2>1. frames \in Seq(F) /\ m = Len(frames)
    BY <1>2 DEF m
  <2>. HIDE DEF F
  <2>2. m - 1 \in 0..Len(frames)
    BY <1>5, <2>1
  <2>3. /\ SubSeq(frames, 1, m - 1) \in Seq(F) /\ Len(SubSeq(frames, 1, m - 1)) = m - 1
        /\ DOMAIN SubSeq(frames, 1, m - 1) = 1..m - 1
        /\ \A i \in 1..m - 1 : SubSeq(frames, 1, m - 1)[i] = frames[i]
    BY <2>1, <2>2, Prefix
  <2>. QED
    BY <1>3, <2>3 DEF F
<1>7. CASE m = 1
  <2>1. /\ stack' = SubSeq(stack, 1, Top - 2) /\ owner' = [s \in 1..Top - 2 |-> 0]
        /\ Top - 2 \in 0..Top /\ Top - 2 \in Nat
    BY <1>2, <1>3, <1>7 DEF Return, PopN, m
  <2>2. /\ stack' \in Seq(Value) /\ Len(stack') = Top - 2
        /\ owner' \in Seq(Names0) /\ Len(owner') = Top - 2 /\ DOMAIN owner' = 1..Top - 2
        /\ \A s \in 1..Top - 2 : owner'[s] = 0
    <3>1. owner' \in [1..Top - 2 -> Names0]
      BY <1>2, <2>1
    <3>. QED
      BY <1>2, <2>1, <3>1, Prefix
  <2>3. StackOK'
    <3>1. Len(stack') <= StackBound
      BY <1>1, <1>2, <2>2, BoundAssumption DEF StackOK
    <3>2. 0 <= declared
      BY <1>1 DEF StackOK
    <3>. QED
      BY <1>1, <1>3, <2>2, <3>1, <3>2 DEF StackOK
  <2>4. FramesOK'
    <3>1. DOMAIN frames' = {}
      BY <1>6, <1>7
    <3>. QED
      BY <1>6, <3>1 DEF FramesOK, FramesStacked
  <2>5. openUpvalues' = <<>>
    <3>1. ASSUME NEW i \in DOMAIN openUpvalues'
          PROVE  FALSE
      <4>1. PICK j \in DOMAIN openUpvalues : openUpvalues'[i] = openUpvalues[j]
        BY <1>4 DEF Closed
      <4>2. Location(openUpvalues[j]) < base
        BY <1>4, <4>1 DEF Closed
      <4>3. base <= Location(openUpvalues[j]) /\ Location(openUpvalues[j]) \in 1..Top
        BY <1>1, <1>3, <1>7, OpenSlots DEF OpenOnVariables
      <4>. QED
        BY <1>3, <4>2, <4>3
    <3>2. openUpvalues' \in Seq(Nat) /\ DOMAIN openUpvalues' = {}
      BY <1>4, <3>1 DEF Closed
    <3>. QED
      BY <3>2
  <2>6. Leaves(base)
    <3>1. \A x \in 1..declared, s \in Nat :
             /\ s \in DOMAIN owner' /\ owner'[s] = x => s < base /\ s \in DOMAIN owner /\ owner[s] = x
             /\ frames[1].slots <= s /\ s < base /\ s \in DOMAIN owner /\ owner[s] = x
                    => s \in DOMAIN owner' /\ owner'[s] = x
      BY <1>3, <1>7, <2>2
    <3>. QED
      BY <1>3, <1>4, <2>5, <3>1 DEF Leaves
  <2>. QED
    BY <1>3, <2>3, <2>4, <2>6, LeavingStep
<1>8. CASE m # 1
  <2>1. /\ stack' = Append(SubSeq(stack, 1, base - 1), stack[Top])
        /\ owner' = Append(SubSeq(owner, 1, base - 1), 0)
    BY <1>8 DEF Return, base, m
  <2>2. base - 1 \in 0..Top /\ base - 1 \in Nat /\ stack[Top] \in Value
    BY <1>2, <1>3
  <2>3. /\ stack' \in Seq(Value) /\ Len(stack') = base
        /\ owner' \in Seq(Names0) /\ Len(owner') = base /\ DOMAIN owner' = 1..base
        /\ owner'[base] = 0 /\ \A s \in 1..base - 1 : owner'[s] = owner[s]
    <3>1. /\ SubSeq(stack, 1, base - 1) \in Seq(Value) /\ Len(SubSeq(stack, 1, base - 1)) = base - 1
          /\ SubSeq(owner, 1, base - 1) \in Seq(Names0) /\ Len(SubSeq(owner, 1, base - 1)) = base - 1
          /\ \A s \in 1..base - 1 : SubSeq(owner, 1, base - 1)[s] = owner[s]
      BY <1>2, <2>2, Prefix
    <3>2. (base - 1) + 1 = base
      BY <1>3
    <3>. QED
      BY <1>2, <2>1, <2>2, <3>1, <3>2, AppendProperties
  <2>4. \A s : s \in 1..base <=> s \in 1..base - 1 \/ s = base
    BY <1>3
  <2>5. \A s \in 1..base - 1 : s \in 1..Top
    BY <1>2, <1>3
  <2>6. StackOK'
    <3>1. Len(stack') <= StackBound
      BY <1>1, <1>2, <1>3, <2>3, BoundAssumption DEF StackOK
    <3>2. \A s \in 1..base - 1 : owner'[s] <= declared
      BY <1>1, <1>2, <2>3, <2>5 DEF StackOK
    <3>3. 0 <= declared
      BY <1>1 DEF StackOK
    <3>4. \A s \in 1..base : owner'[s] <= declared
      BY <2>3, <2>4, <3>2, <3>3
    <3>5. \A s, t \in 1..base - 1 : owner'[s] = owner'[t] /\ owner'[s] # 0 => s = t
      BY <1>1, <1>2, <2>3, <2>5 DEF StackOK
    <3>6. \A s, t \in 1..base : owner'[s] = owner'[t] /\ owner'[s] # 0 => s = t
      BY <2>3, <2>4, <3>5
    <3>. QED
      BY <1>1, <1>3, <2>3, <3>1, <3>4, <3>6 DEF StackOK
  <2>7. \A i \in 1..m - 1 : i \in 1..m /\ i < m
    BY <1>3
  <2>8. FramesOK'
    <3>1. FramesStacked'
      BY <1>1, <1>2, <1>6, <2>7 DEF FramesStacked
    <3>2. \A i \in 1..m - 1 : frames'[i].closure \in DOMAIN closures /\ frames'[i].slots \in 1..base
      <4>1. SUFFICES ASSUME NEW i \in 1..m - 1
                     PROVE  frames[i].closure \in DOMAIN closures /\ frames[i].slots \in 1..base
        BY <1>6
      <4>2. frames[i].closure \in DOMAIN closures /\ frames[i].slots \in 1..Top
        BY <1>1, <1>2, <2>7 DEF FramesOK
      <4>3. frames[i].slots < base
        <5>1. i \in DOMAIN frames /\ m \in DOMAIN frames /\ i < m
          BY <1>2, <1>3, <2>7
        <5>2. frames[i].slots < frames[m].slots
          BY <1>1, <5>1 DEF FramesStacked
        <5>. QED
          BY <1>3, <5>2
      <4>. QED
        BY <1>3, <4>2, <4>3
    <3>. QED
      BY <1>3, <1>6, <2>3, <3>1, <3>2 DEF FramesOK, Top
  <2>9. Leaves(base)
    <3>1. \A x \in 1..declared, s \in Nat :
             /\ s \in DOMAIN owner' /\ owner'[s] = x => s < base /\ s \in DOMAIN owner /\ owner[s] = x
             /\ s < base /\ s \in DOMAIN owner /\ owner[s] = x => s \in DOMAIN owner' /\ owner'[s] = x
      <4>1. \A s \in Nat : s \in 1..base - 1 <=> s < base /\ s \in 1..Top
        BY <1>2, <1>3
      <4>. QED
        BY <1>2, <2>3, <2>4, <4>1
    <3>2. frames' # <<>> /\ frames'[1] = frames[1]
      <4>1. 1 \in 1..m - 1
        BY <1>3, <1>8
      <4>2. DOMAIN <<>> = {}
        OBVIOUS
      <4>. QED
        BY <1>6, <4>1, <4>2
    <3>. QED
      BY <1>3, <1>4, <3>1, <3>2 DEF Leaves
  <2>. QED
    BY <1>3, <2>6, <2>8, <2>9, LeavingStep
<1>. QED
  BY <1>7, <1>8

LEMMA RuntimeErrorStep ==
    ASSUME IInv, RuntimeError
    PROVE  IInv'
<1>1. TypeOK /\ Shape /\ VariablesDistinct /\ CapturesMatch
  BY DEF IInv
<1>2. /\ stack' = <<>> /\ frames' = <<>> /\ openUpvalues' = <<>> /\ owner' = <<>>
      /\ UNCHANGED <<ran, declared>>
      /\ upvalues' = IF Interactive THEN upvalues ELSE <<>>
      /\ globals' = IF Interactive THEN globals ELSE [g \in Global |-> NIL_VAL]
      /\ closures' = IF Interactive THEN closures ELSE ScriptOnly
      /\ captures' = IF Interactive THEN captures ELSE NoCaptures
  BY DEF RuntimeError, ResetStack
<1>3. /\ DOMAIN <<>> = {} /\ Len(<<>>) = 0 /\ <<>> \in Seq(Nat) /\ <<>> \in Seq(Value) /\ <<>> \in Seq(Names0)
      /\ <<>> \in Seq([closure : Closure, slots : Nat]) /\ <<>> \in Seq(Variable)
      /\ <<>> \in Seq([location : Nat, closed : Value])
  OBVIOUS
<1>4. FramesStacked' /\ OpenListSorted' /\ OpenOnVariables'
  BY <1>2, <1>3 DEF FramesStacked, OpenListSorted, OpenOnVariables
<1>5. NIL_VAL \in Value /\ 0 \in Closure /\ 0 .. 0 = {0}
  BY DataAssumption, BoundAssumption DEF Value, Closure
<1>6. CASE Interactive
  <2>1. /\ upvalues' = upvalues /\ globals' = globals /\ closures' = closures /\ captures' = captures
    BY <1>2, <1>6
  <2>2. TypeOK'
    BY <1>1, <1>2, <1>3, <2>1, BoundAssumption DEF TypeOK, Location, Top
  <2>3. Shape'
    BY <1>1, <1>2, <1>3, <2>1 DEF Shape
  <2>4. VariablesDistinct' /\ CapturesMatch'
    BY <1>1, <1>2, <1>3, <2>1 DEF VariablesDistinct, CapturesMatch
  <2>. QED
    BY <1>4, <1>6, <2>2, <2>3, <2>4 DEF IInv
<1>7. CASE ~Interactive
  <2>1. /\ upvalues' = <<>> /\ globals' = [g \in Global |-> NIL_VAL]
        /\ closures' = ScriptOnly /\ captures' = NoCaptures
    BY <1>2, <1>7
  <2>2. /\ DOMAIN ScriptOnly = {0} /\ ScriptOnly[0].upvalues = <<>> /\ DOMAIN NoCaptures = {0}
        /\ NoCaptures[0] = <<>>
        /\ ScriptOnly \in [{0} -> [upvalues : Seq(Nat), arity : Nat]] /\ NoCaptures \in [{0} -> Seq(Variable)]
    BY <1>3 DEF ScriptOnly, NoCaptures
  <2>3. TypeOK'
    <3>1. globals' \in [Global -> Value]
      BY <1>5, <2>1
    <3>. QED
      BY <1>1, <1>2, <1>3, <2>1, <2>2, <3>1, BoundAssumption DEF TypeOK, Location, Top
  <2>4. Shape'
    BY <1>2, <1>3, <1>5, <2>1, <2>2 DEF Shape
  <2>5. VariablesDistinct' /\ CapturesMatch' /\ OneLocation'
    BY <1>2, <1>3, <2>1, <2>2 DEF VariablesDistinct, CapturesMatch, OneLocation
  <2>. QED
    BY <1>4, <2>3, <2>4, <2>5 DEF IInv
<1>. QED
  BY <1>6, <1>7

-----------------------------------------------------------------------------
(* OP_CLOSURE.                                                               *)

\* What one upvalue of the new closure, u, captures: a variable x in a slot of
\* the frame, or what the running closure holds.
Local(u, x, m) == \E s \in Frame.slots..Top + 1 :
                      /\ x = owner'[s] /\ x # Temporary /\ IsOpen(m, u) /\ m.upvalues[u].location = s
Held(u, x) == \E c \in DOMAIN closures : \E i \in DOMAIN captures[c] :
                  u = closures[c].upvalues[i] /\ x = captures[c][i]

\* The step, for the n-th closure with what it captured.
Makes(n, m, names, k, arity) ==
    /\ n \in Closure /\ DOMAIN closures = 0..n - 1 /\ n \in Nat \ {0} /\ arity \in Nat
    /\ Sorted(m) /\ Len(m.captured) = k /\ k \in Nat
    /\ names \in Seq(Variable) /\ Len(names) = k
    /\ \A i \in 1..k : Local(m.captured[i], names[i], m) \/ Held(m.captured[i], names[i])
    /\ Len(upvalues) <= Len(m.upvalues)
    /\ \A u \in DOMAIN upvalues : m.upvalues[u] = upvalues[u]
    /\ \A u \in DOMAIN m.upvalues :
           u \in DOMAIN upvalues \/ \E i \in 1..k : m.captured[i] = u /\ Local(u, names[i], m)
    /\ \A u \in Nat :
           IsOpen(m, u) <=> \/ \E j \in DOMAIN openUpvalues : openUpvalues[j] = u
                           \/ \E i \in 1..k : m.captured[i] = u /\ Local(u, names[i], m)
    /\ upvalues' = m.upvalues /\ openUpvalues' = m.open
    /\ closures' = [c \in 0..n |-> IF c = n THEN [upvalues |-> m.captured, arity |-> arity] ELSE closures[c]]
    /\ captures' = [c \in 0..n |-> IF c = n THEN names ELSE captures[c]]
    /\ UNCHANGED <<frames, globals, ran>>
    /\ declared' \in {declared, declared + 1}

\* An upvalue, and the variable it stands for, after the step.
ReachedAfter(u, x) ==
    IF \E s \in DOMAIN owner' : owner'[s] = x
    THEN /\ upvalues'[u].location \in DOMAIN owner' /\ owner'[upvalues'[u].location] = x
         /\ \E k \in DOMAIN openUpvalues' : openUpvalues'[k] = u
    ELSE upvalues'[u].location = 0

LEMMA MakesStep ==
    ASSUME IInv, Running, NEW n, NEW m, NEW names, NEW k, NEW arity, NEW x, Pushed(x),
           Makes(n, m, names, k, arity)
    PROVE  IInv'
<1>. USE DEF Temporary
<1>1. TypeOK /\ Shape /\ FramesStacked /\ StackOK /\ OpenListSorted /\ OpenOnVariables /\ VariablesDistinct /\ CapturesMatch
  BY StacksAreOK DEF IInv
<1>2. /\ n \in Closure /\ DOMAIN closures = 0..n - 1 /\ n \in Nat \ {0} /\ arity \in Nat
      /\ Sorted(m) /\ Len(m.captured) = k /\ k \in Nat
      /\ names \in Seq(Variable) /\ Len(names) = k
      /\ \A i \in 1..k : Local(m.captured[i], names[i], m) \/ Held(m.captured[i], names[i])
      /\ Len(upvalues) <= Len(m.upvalues)
      /\ \A u \in DOMAIN upvalues : m.upvalues[u] = upvalues[u]
      /\ upvalues' = m.upvalues /\ openUpvalues' = m.open
      /\ closures' = [c \in 0..n |-> IF c = n THEN [upvalues |-> m.captured, arity |-> arity] ELSE closures[c]]
      /\ captures' = [c \in 0..n |-> IF c = n THEN names ELSE captures[c]]
      /\ UNCHANGED <<frames, globals, ran>>
      /\ declared' \in {declared, declared + 1}
  BY DEF Makes
<1>3. /\ m.upvalues \in Seq(Object) /\ m.open \in Seq(Nat) /\ m.captured \in Seq(Nat)
      /\ DOMAIN m.open = 1..Len(m.open) /\ DOMAIN m.captured = 1..k
      /\ Len(m.upvalues) \in Nat /\ DOMAIN m.upvalues = 1..Len(m.upvalues)
      /\ \A u \in DOMAIN m.upvalues : m.upvalues[u] \in Object
  <2>1. m.upvalues \in Seq(Object) /\ m.open \in Seq(Nat) /\ m.captured \in Seq(Nat)
        /\ DOMAIN m.open = 1..Len(m.open)
        /\ Len(m.upvalues) \in Nat /\ DOMAIN m.upvalues = 1..Len(m.upvalues)
    BY <1>2, SortedList
  <2>. QED
    BY <1>2, <2>1, ElementOfSeq
<1>4. /\ StackOK' /\ Len(stack') = Top + 1 /\ DOMAIN owner' = 1..Top + 1 /\ Top \in Nat
      /\ \A s \in 1..Top : owner'[s] = owner[s]
      /\ DOMAIN stack' = 1..Top + 1 /\ Top' = Top + 1 /\ DOMAIN owner = 1..Top
      /\ Top + 1 <= StackBound
  <2>1. StackOK' /\ Len(stack') = Top + 1 /\ DOMAIN owner' = 1..Top + 1 /\ Top \in Nat
        /\ \A s \in 1..Top : owner'[s] = owner[s]
    BY <1>1, Stacks DEF Pushed
  <2>. QED
    BY <1>1, <2>1, Stacks DEF StackOK, Top
<1>5. Frame.slots \in 1..Top /\ frames[1].slots \in 1..Frame.slots
  BY <1>1, RunningFrame
<1>6. DOMAIN upvalues \subseteq DOMAIN m.upvalues
  BY <1>1, <1>2, <1>3, Stacks
<1>7. /\ DOMAIN closures' = 0..n /\ DOMAIN captures' = 0..n
      /\ closures'[n].upvalues = m.captured /\ captures'[n] = names /\ n \in 0..n
      /\ \A c \in 0..n - 1 : c \in 0..n /\ closures'[c] = closures[c] /\ captures'[c] = captures[c]
      /\ DOMAIN captures = 0..n - 1
      /\ \A c \in 0..n : (c \in 0..n - 1) \/ (c = n)
  <2>1. n \in 0..n /\ \A c \in 0..n - 1 : c \in 0..n /\ c # n
    BY <1>2
  <2>2. \A c \in 0..n : c \in 0..n - 1 \/ c = n
    BY <1>2
  <2>. QED
    BY <1>1, <1>2, <2>1, <2>2 DEF TypeOK
<1>. HIDE DEF Makes
<1>8. declared \in Nat /\ declared' \in Nat /\ declared <= declared'
  <2>1. declared \in Nat
    BY <1>1 DEF TypeOK
  <2>. QED
    BY <1>2, <2>1
\* The upvalues that the closure holds.
<1>9. ASSUME NEW u, NEW y, Local(u, y, m)
      PROVE  /\ u \in DOMAIN m.upvalues /\ m.upvalues[u].location \in Frame.slots..Top + 1
             /\ m.upvalues[u].location \in DOMAIN owner'
             /\ owner'[m.upvalues[u].location] = y /\ y # 0 /\ IsOpen(m, u)
             /\ y \in Variable /\ y <= declared'
  <2>1. PICK s \in Frame.slots..Top + 1 : y = owner'[s] /\ y # 0 /\ IsOpen(m, u) /\ m.upvalues[u].location = s
    BY <1>9 DEF Local
  <2>2. s \in 1..Top + 1
    BY <1>4, <1>5, <2>1
  <2>3. u \in DOMAIN m.upvalues
    BY <1>2, <2>1, SortedList DEF IsOpen
  <2>4. y \in Names0 /\ y <= declared'
    BY <1>4, <2>1, <2>2 DEF StackOK
  <2>5. y \in Variable
    BY <2>1, <2>4, BoundAssumption DEF Names0, Variable
  <2>. QED
    BY <1>4, <2>1, <2>2, <2>3, <2>4, <2>5
<1>10. ASSUME NEW u, NEW y, Held(u, y)
       PROVE  /\ u \in DOMAIN upvalues /\ y \in Variable /\ y \in 1..declared /\ y <= declared'
  <2>0. PICK c \in DOMAIN closures : \E i \in DOMAIN captures[c] : u = closures[c].upvalues[i] /\ y = captures[c][i]
    BY <1>10 DEF Held
  <2>1. PICK i \in DOMAIN captures[c] : u = closures[c].upvalues[i] /\ y = captures[c][i]
    BY <2>0
  <2>2. c \in DOMAIN captures /\ i \in DOMAIN closures[c].upvalues
    BY <1>1 DEF TypeOK, CapturesMatch
  <2>3. u \in DOMAIN upvalues
    BY <1>1, <2>1, <2>2 DEF TypeOK
  <2>4. y \in Variable
    <3>1. captures[c] \in Seq(Variable)
      BY <1>1, <2>2 DEF Shape
    <3>. QED
      BY <2>1, <3>1
  <2>5. y <= declared
    BY <1>1, <2>1, <2>2 DEF VariablesDistinct
  <2>. QED
    BY <1>8, <2>3, <2>4, <2>5 DEF Variable
<1>11. ASSUME NEW u \in Nat
       PROVE  IsOpen(m, u) <=> \/ \E j \in DOMAIN openUpvalues : openUpvalues[j] = u
                              \/ \E i \in 1..k : m.captured[i] = u /\ Local(u, names[i], m)
  BY DEF Makes
\* Open upvalues and their slots.
<1>12. ASSUME NEW i \in DOMAIN m.open
       PROVE  LET u == m.open[i]
                  at == m.upvalues[u].location
              IN  /\ u \in DOMAIN m.upvalues /\ at \in 1..Top + 1 /\ frames[1].slots <= at
                  /\ owner'[at] # 0
                  /\ \E c \in 0..n : \E j \in DOMAIN captures'[c] : captures'[c][j] = owner'[at]
  <2>. DEFINE u == m.open[i]
  <2>1. u \in DOMAIN m.upvalues /\ u \in Nat /\ IsOpen(m, u)
    <3>1. u \in DOMAIN m.upvalues
      BY <1>2 DEF Sorted
    <3>2. IsOpen(m, u)
      BY DEF IsOpen
    <3>. QED
      BY <1>3, <3>1, <3>2
  <2>2. CASE \E j \in DOMAIN openUpvalues : openUpvalues[j] = u
    <3>1. PICK j \in DOMAIN openUpvalues : openUpvalues[j] = u
      BY <2>2
    <3>2. u \in DOMAIN upvalues /\ Location(u) \in 1..Top /\ owner[Location(u)] # 0
          /\ frames[1].slots <= Location(u) /\ IsCaptured(owner[Location(u)])
      BY <1>1, <3>1, OpenSlots DEF OpenOnVariables
    <3>3. m.upvalues[u].location = Location(u)
      BY <1>2, <3>2 DEF Location
    <3>4. Location(u) \in 1..Top + 1 /\ owner'[Location(u)] = owner[Location(u)]
      BY <1>4, <3>2
    <3>5. PICK c \in DOMAIN captures : \E l \in DOMAIN captures[c] : captures[c][l] = owner[Location(u)]
      BY <3>2 DEF IsCaptured
    <3>6. c \in 0..n /\ captures'[c] = captures[c]
      BY <1>7
    <3>. HIDE DEF u
    <3>. QED
      BY <2>1, <3>2, <3>3, <3>4, <3>5, <3>6 DEF u
  <2>3. CASE \E j \in 1..k : m.captured[j] = u /\ Local(u, names[j], m)
    <3>1. PICK j \in 1..k : m.captured[j] = u /\ Local(u, names[j], m)
      BY <2>3
    <3>2. /\ m.upvalues[u].location \in Frame.slots..Top + 1
          /\ owner'[m.upvalues[u].location] = names[j] /\ names[j] # 0
      BY <1>9, <3>1
    <3>3. m.upvalues[u].location \in 1..Top + 1 /\ frames[1].slots <= m.upvalues[u].location
      BY <1>4, <1>5, <3>2
    <3>4. n \in 0..n /\ j \in DOMAIN captures'[n] /\ captures'[n][j] = names[j]
      BY <1>2, <1>7
    <3>. HIDE DEF u
    <3>. QED
      BY <2>1, <3>2, <3>3, <3>4 DEF u
  <2>. HIDE DEF u
  <2>. QED
    BY <1>11, <2>1, <2>2, <2>3 DEF u
<1>13. TypeOK'
  <2>1. \A u \in DOMAIN m.upvalues : m.upvalues[u].location \in 0..StackBound /\ m.upvalues[u].closed \in Value
    <3>1. SUFFICES ASSUME NEW u \in DOMAIN m.upvalues PROVE m.upvalues[u].location \in 0..StackBound
      BY <1>3 DEF Object
    <3>2. CASE u \in DOMAIN upvalues
      BY <1>1, <1>2, <3>2 DEF TypeOK, Location
    <3>3. CASE u \notin DOMAIN upvalues
      <4>1. PICK i \in 1..k : m.captured[i] = u /\ Local(u, names[i], m)
        BY <3>3 DEF Makes
      <4>2. m.upvalues[u].location \in Frame.slots..Top + 1
        BY <1>9, <4>1
      <4>. QED
        BY <1>4, <1>5, <4>2, BoundAssumption
    <3>. QED
      BY <3>2, <3>3
  <2>2. \A c \in 0..n : \A i \in DOMAIN closures'[c].upvalues : closures'[c].upvalues[i] \in DOMAIN m.upvalues
    <3>1. \A i \in 1..k : m.captured[i] \in DOMAIN m.upvalues
      BY <1>2, <1>6, <1>9, <1>10
    <3>2. \A c \in 0..n - 1 : \A i \in DOMAIN closures[c].upvalues : closures[c].upvalues[i] \in DOMAIN upvalues
      BY <1>1, <1>2 DEF TypeOK
    <3>. QED
      BY <1>3, <1>6, <1>7, <3>1, <3>2
  <2>3. \A i \in DOMAIN frames : frames[i].closure \in 0..n /\ frames[i].slots \in 1..Top + 1
    BY <1>1, <1>2, <1>4, <1>7 DEF TypeOK
  <2>4. stack' \in Seq(Value) /\ Len(stack') <= StackBound /\ Len(owner') = Top' /\ declared' \in 0..VariableBound
    BY <1>4 DEF StackOK
  <2>5. globals' \in [Global -> Value] /\ ran' \in BOOLEAN
    BY <1>1, <1>2 DEF TypeOK
  <2>. QED
    BY <1>2, <1>4, <1>7, <1>12, <2>1, <2>2, <2>3, <2>4, <2>5 DEF TypeOK, Location
<1>14. FramesOK'
  <2>1. frames' = frames /\ DOMAIN closures \subseteq DOMAIN closures'
    BY <1>2, <1>7
  <2>. QED
    BY <1>4, <1>5, <2>1, FramesKept
<1>15. Shape'
  <2>1. closures' \in [0..n -> [upvalues : Seq(Nat), arity : Nat]]
    <3>1. \A c \in 0..n - 1 : closures[c] \in [upvalues : Seq(Nat), arity : Nat]
      BY <1>1, <1>2 DEF Shape
    <3>2. [upvalues |-> m.captured, arity |-> arity] \in [upvalues : Seq(Nat), arity : Nat]
      BY <1>2, <1>3
    <3>. QED
      BY <1>2, <1>7, <3>1, <3>2
  <2>2. captures' \in [0..n -> Seq(Variable)]
    <3>1. \A c \in 0..n - 1 : captures[c] \in Seq(Variable)
      BY <1>1, <1>7 DEF Shape
    <3>. QED
      BY <1>2, <1>7, <3>1
  <2>. QED
    BY <1>2, <1>3, <1>4, <1>14, <2>1, <2>2 DEF Shape, StackOK, FramesOK, Object
<1>16. OpenListSorted' /\ OpenOnVariables'
  <2>1. \A i, j \in DOMAIN m.open : i < j => m.upvalues[m.open[i]].location > m.upvalues[m.open[j]].location
    BY <1>2 DEF Sorted
  <2>2. OpenListSorted'
    BY <1>2, <1>4, <1>12, <2>1 DEF OpenListSorted, Location
  <2>3. frames' # <<>> /\ frames'[1] = frames[1]
    BY <1>2 DEF Running
  <2>4. OpenOnVariables'
    <3>0. openUpvalues' = m.open /\ upvalues' = m.upvalues /\ DOMAIN captures' = 0..n
      BY <1>2, <1>7
    <3>1. SUFFICES ASSUME NEW i \in DOMAIN m.open
                   PROVE  LET at == m.upvalues[m.open[i]].location
                          IN  /\ frames' # <<>> /\ frames'[1].slots <= at
                              /\ owner'[at] # 0
                              /\ \E c \in 0..n : \E j \in DOMAIN captures'[c] : captures'[c][j] = owner'[at]
      BY <3>0 DEF OpenOnVariables, IsCaptured, Location
    <3>. QED
      BY <1>12, <2>3
  <2>. QED
    BY <2>2, <2>4
<1>17. VariablesDistinct'
  <2>1. \A i \in 1..k : names[i] <= declared'
    BY <1>2, <1>9, <1>10
  <2>2. \A c \in 0..n - 1 : \A i \in DOMAIN captures[c] : captures[c][i] <= declared'
    <3>1. SUFFICES ASSUME NEW c \in 0..n - 1, NEW i \in DOMAIN captures[c]
                   PROVE  captures[c][i] <= declared'
      OBVIOUS
    <3>2. Held(closures[c].upvalues[i], captures[c][i])
      BY <1>2, <3>1 DEF Held
    <3>. QED
      BY <1>10, <3>2
  <2>3. \A c \in 0..n : \A i \in DOMAIN captures'[c] : captures'[c][i] <= declared'
    BY <1>2, <1>7, <2>1, <2>2
  <2>. QED
    BY <1>4, <1>7, <2>3 DEF VariablesDistinct, StackOK
<1>18. CapturesMatch'
  BY <1>1, <1>2, <1>3, <1>7 DEF CapturesMatch
<1>19. ASSUME ~Interactive
       PROVE  OneLocation'
  <2>1. ASSUME NEW u, NEW y, Held(u, y)
        PROVE  ReachedAfter(u, y)
    <3>0. PICK c \in DOMAIN closures : \E i \in DOMAIN captures[c] : u = closures[c].upvalues[i] /\ y = captures[c][i]
      BY <2>1 DEF Held
    <3>1. PICK i \in DOMAIN captures[c] : u = closures[c].upvalues[i] /\ y = captures[c][i]
      BY <3>0
    <3>2. IF \E s \in DOMAIN owner : owner[s] = y
          THEN /\ Location(u) \in DOMAIN owner /\ owner[Location(u)] = y
               /\ \E j \in DOMAIN openUpvalues : openUpvalues[j] = u
          ELSE Location(u) = 0
      BY <1>19, <3>1 DEF IInv, OneLocation
    <3>3. u \in DOMAIN upvalues /\ y \in 1..declared /\ u \in Nat
      BY <1>1, <1>10, <2>1, Stacks
    <3>4. upvalues'[u].location = Location(u)
      BY <1>2, <3>3 DEF Location
    <3>5. \A s \in Nat : s \in DOMAIN owner' /\ owner'[s] = y <=> s \in DOMAIN owner /\ owner[s] = y
      BY <3>3 DEF Pushed
    <3>6. DOMAIN owner \subseteq Nat /\ DOMAIN owner' \subseteq Nat
      BY <1>4
    <3>7. (\E j \in DOMAIN openUpvalues : openUpvalues[j] = u) => \E j \in DOMAIN openUpvalues' : openUpvalues'[j] = u
      BY <1>2, <1>11, <3>3 DEF IsOpen
    <3>. QED
      BY <3>2, <3>4, <3>5, <3>6, <3>7 DEF ReachedAfter
  <2>2. ASSUME NEW u, NEW y, Local(u, y, m)
        PROVE  ReachedAfter(u, y) /\ \E s \in DOMAIN owner' : owner'[s] = y
    BY <1>2, <1>9, <2>2 DEF ReachedAfter, IsOpen
  <2>3. ASSUME NEW c \in 0..n, NEW i \in DOMAIN captures'[c]
        PROVE  \/ Held(closures'[c].upvalues[i], captures'[c][i])
               \/ Local(closures'[c].upvalues[i], captures'[c][i], m)
    <3>1. CASE c = n
      <4>1. i \in 1..k /\ captures'[c] = names /\ closures'[c].upvalues = m.captured
        BY <1>2, <1>7, <3>1
      <4>. QED
        BY <1>2, <4>1
    <3>2. CASE c \in 0..n - 1
      <4>1. i \in DOMAIN captures[c] /\ captures'[c] = captures[c] /\ closures'[c] = closures[c]
        BY <1>7, <3>2
      <4>2. c \in DOMAIN closures
        BY <1>2, <3>2
      <4>3. Held(closures[c].upvalues[i], captures[c][i])
        BY <4>1, <4>2 DEF Held
      <4>. QED
        BY <4>1, <4>3
    <3>. QED
      BY <1>7, <3>1, <3>2
  <2>4. SUFFICES ASSUME NEW c \in 0..n, NEW d \in 0..n,
                        NEW i \in DOMAIN captures'[c], NEW j \in DOMAIN captures'[d]
                 PROVE  /\ captures'[d][j] = captures'[c][i] <=> closures'[d].upvalues[j] = closures'[c].upvalues[i]
                        /\ ReachedAfter(closures'[c].upvalues[i], captures'[c][i])
    BY <1>7 DEF OneLocation, ReachedAfter, Location
  <2>. DEFINE u == closures'[c].upvalues[i]
              y == captures'[c][i]
              v == closures'[d].upvalues[j]
              z == captures'[d][j]
  <2>5. (Held(u, y) \/ Local(u, y, m)) /\ (Held(v, z) \/ Local(v, z, m))
    BY <2>3
  <2>. HIDE DEF u, y, v, z
  <2>6. ReachedAfter(u, y) /\ ReachedAfter(v, z)
    BY <2>1, <2>2, <2>5
  <2>7. CASE \E s \in DOMAIN owner' : owner'[s] = y
    <3>1. /\ upvalues'[u].location \in DOMAIN owner' /\ owner'[upvalues'[u].location] = y
          /\ \E l \in DOMAIN openUpvalues' : openUpvalues'[l] = u
      BY <2>6, <2>7 DEF ReachedAfter
    <3>2. ASSUME z = y
          PROVE  v = u
      <4>1. /\ upvalues'[v].location \in DOMAIN owner' /\ owner'[upvalues'[v].location] = y
            /\ \E l \in DOMAIN openUpvalues' : openUpvalues'[l] = v
        BY <2>6, <2>7, <3>2 DEF ReachedAfter
      <4>2. y # 0
        BY <1>9, <1>10, <2>5
      <4>3. upvalues'[v].location = upvalues'[u].location
        BY <1>4, <3>1, <4>1, <4>2 DEF StackOK
      <4>4. PICK a, b \in DOMAIN openUpvalues' : openUpvalues'[a] = u /\ openUpvalues'[b] = v
        BY <3>1, <4>1
      <4>5. a \in Nat /\ b \in Nat /\ upvalues'[u].location \in Nat
        <5>1. openUpvalues' = m.open /\ DOMAIN m.open = 1..Len(m.open)
          BY <1>2, <1>3
        <5>2. upvalues'[u].location \in 1..Top + 1
          BY <1>4, <3>1
        <5>. QED
          BY <4>4, <5>1, <5>2
      <4>6. a = b
        <5>1. ~(a < b) /\ ~(b < a)
          BY <1>16, <4>3, <4>4, <4>5 DEF OpenListSorted, Location
        <5>. QED
          BY <4>5, <5>1
      <4>. QED
        BY <4>4, <4>6
    <3>3. ASSUME v = u
          PROVE  z = y
      <4>1. upvalues'[v].location # 0
        BY <1>4, <3>1, <3>3
      <4>2. owner'[upvalues'[v].location] = z
        BY <2>6, <4>1 DEF ReachedAfter
      <4>. QED
        BY <3>1, <3>3, <4>2
    <3>. QED
      BY <2>6, <3>2, <3>3 DEF u, v, y, z
  <2>8. CASE ~ \E s \in DOMAIN owner' : owner'[s] = y
    <3>1. CASE \E s \in DOMAIN owner' : owner'[s] = z
      <4>1. z # y /\ upvalues'[u].location = 0
        BY <2>6, <2>8, <3>1 DEF ReachedAfter
      <4>2. upvalues'[v].location \in DOMAIN owner'
        BY <2>6, <3>1 DEF ReachedAfter
      <4>3. v # u
        BY <1>4, <4>1, <4>2
      <4>. QED
        BY <2>6, <4>1, <4>3 DEF u, v, y, z
    <3>2. CASE ~ \E s \in DOMAIN owner' : owner'[s] = z
      <4>1. Held(u, y) /\ Held(v, z)
        BY <2>2, <2>5, <2>8, <3>2
      <4>2. z = y <=> v = u
        BY <1>19, <4>1 DEF Held, IInv, OneLocation
      <4>. QED
        BY <2>6, <4>2 DEF u, v, y, z
    <3>. QED
      BY <3>1, <3>2
  <2>. QED
    BY <2>7, <2>8
<1>. QED
  BY <1>13, <1>14, <1>15, <1>16, <1>17, <1>18, <1>19 DEF IInv, FramesOK

\* The variables come from the slots of the running frame, with the one that
\* is declared, and from its closure.
Seen(y, asLocal) ==
    \/ \E s \in LocalSlots : y = owner'[s]
    \/ asLocal /\ y = owner'[Top + 1]
    \/ \E j \in DOMAIN captures[Frame.closure] : y = captures[Frame.closure][j]

NamesSeen(names, k, asLocal) == \A i \in 1..k : Seen(names[i], asLocal)

LEMMA ClosureMakes ==
    ASSUME IInv, NEW asLocal \in BOOLEAN, NEW arity \in Nat, MakeClosure(asLocal, arity)
    PROVE  /\ Running /\ Pushed(IF asLocal THEN declared + 1 ELSE Temporary)
           /\ \E n, m, names, k : Makes(n, m, names, k, arity) /\ NamesSeen(names, k, asLocal)
<1>. USE DEF Temporary
<1>. DEFINE n == Cardinality(DOMAIN closures)
            x == IF asLocal THEN declared + 1 ELSE Temporary
            slots == IF asLocal THEN LocalSlots \cup {Top + 1} ELSE LocalSlots
            Name(o) == IF o.isLocal THEN owner'[Frame.slots + o.index] ELSE captures[Frame.closure][o.index]
            held == closures[Frame.closure].upvalues
<1>1. TypeOK /\ Shape /\ FramesStacked /\ OpenListSorted /\ CapturesMatch
  BY DEF IInv
<1>2. /\ Running /\ n <= ClosureBound
      /\ asLocal => declared < VariableBound
      /\ Push(n, x)
      /\ declared' = IF asLocal THEN declared + 1 ELSE declared
      /\ UNCHANGED <<frames, globals, ran>>
  BY DEF MakeClosure
<1>3. PICK operands \in OperandLists(slots) :
          LET m == CaptureAll(operands)
          IN  /\ upvalues' = m.upvalues /\ openUpvalues' = m.open
              /\ closures' = [c \in 0..n |-> IF c = n THEN [upvalues |-> m.captured, arity |-> arity]
                                                      ELSE closures[c]]
              /\ captures' = [c \in 0..n |-> IF c = n THEN [i \in DOMAIN operands |-> Name(operands[i])]
                                                      ELSE captures[c]]
  BY Zenon DEF MakeClosure
<1>. DEFINE m == CaptureAll(operands)
            names == [i \in DOMAIN operands |-> Name(operands[i])]
<1>4. /\ upvalues' = m.upvalues /\ openUpvalues' = m.open
      /\ closures' = [c \in 0..n |-> IF c = n THEN [upvalues |-> m.captured, arity |-> arity] ELSE closures[c]]
      /\ captures' = [c \in 0..n |-> IF c = n THEN names ELSE captures[c]]
  BY Zenon, <1>3
<1>5. PICK k \in 0..CaptureBound : operands \in [1..k -> Operands(slots)]
  BY <1>3 DEF OperandLists
<1>6. k \in Nat /\ Len(operands) = k /\ DOMAIN operands = 1..k
  <2>1. k \in Nat
    BY <1>5, BoundAssumption
  <2>. HIDE DEF slots
  <2>2. operands \in Seq(Operands(slots)) /\ DOMAIN operands = 1..k
    BY <1>5, <2>1
  <2>. QED
    BY <2>1, <2>2
<1>7. DOMAIN closures = 0..n - 1 /\ n \in Nat \ {0} /\ n \in Closure /\ n \in Value
  <2>1. PICK l \in Closure : DOMAIN closures = 0..l
    BY <1>1 DEF Shape
  <2>2. l \in Nat
    BY <2>1, BoundAssumption DEF Closure
  <2>3. Cardinality(0..l) = l + 1
    <3>1. Cardinality(0..l) = IF 0 > l THEN 0 ELSE l - 0 + 1
      BY <2>2, FS_Interval
    <3>2. ~(0 > l) /\ l - 0 + 1 = l + 1
      BY <2>2
    <3>. QED
      BY <3>1, <3>2
  <2>4. n = l + 1
    BY <2>1, <2>3
  <2>. HIDE DEF n
  <2>. QED
    BY <1>2, <2>1, <2>2, <2>4, BoundAssumption DEF Closure, Value
<1>. HIDE DEF n
<1>8. Pushed(x)
  BY <1>2, <1>7, Pushes
<1>9. /\ Frame.slots \in 1..Top /\ Frame.closure \in DOMAIN closures /\ Top \in Nat /\ declared \in Nat
      /\ DOMAIN held = DOMAIN captures[Frame.closure] /\ Frame.closure \in DOMAIN captures
      /\ \A i \in DOMAIN held : held[i] \in DOMAIN upvalues
  <2>1. Frame.slots \in 1..Top /\ Frame.closure \in DOMAIN closures
    BY <1>1, <1>2, RunningFrame
  <2>. QED
    BY <1>1, <2>1, Stacks DEF TypeOK, CapturesMatch
\* What the operands can be.
<1>10. ASSUME NEW s \in slots
       PROVE  s \in Frame.slots..Top + 1 /\ owner'[s] # 0
  <2>1. CASE s \in LocalSlots
    <3>1. s \in Frame.slots..Top /\ owner[s] # 0
      BY <2>1 DEF LocalSlots
    <3>2. s \in 1..Top /\ s \in Frame.slots..Top + 1
      BY <1>9, <3>1
    <3>. QED
      BY <1>8, <3>1, <3>2 DEF Pushed
  <2>2. CASE asLocal /\ s = Top + 1
    <3>1. owner'[s] = declared + 1
      BY <1>8, <2>2 DEF Pushed
    <3>. QED
      BY <1>9, <2>2, <3>1
  <2>. QED
    BY <2>1, <2>2
<1>. HIDE DEF slots
<1>11. ASSUME NEW i \in 1..k
       PROVE  \/ /\ operands[i].isLocal /\ Frame.slots + operands[i].index \in slots
                 /\ Frame.slots + operands[i].index \in Frame.slots..Top + 1
                 /\ owner'[Frame.slots + operands[i].index] # 0
              \/ ~operands[i].isLocal /\ operands[i].index \in DOMAIN held
  <2>1. operands[i] \in Operands(slots)
    BY <1>5
  <2>2. CASE \E s \in slots : operands[i] = [isLocal |-> TRUE, index |-> s - Frame.slots]
    <3>1. PICK s \in slots : operands[i] = [isLocal |-> TRUE, index |-> s - Frame.slots]
      BY <2>2
    <3>2. operands[i].isLocal /\ operands[i].index = s - Frame.slots
      BY <3>1
    <3>3. Frame.slots + operands[i].index = s
      BY <1>9, <1>10, <3>2
    <3>. QED
      BY <1>10, <3>2, <3>3
  <2>3. CASE \E j \in DOMAIN held : operands[i] = [isLocal |-> FALSE, index |-> j]
    <3>1. PICK j \in DOMAIN held : operands[i] = [isLocal |-> FALSE, index |-> j]
      BY <2>3
    <3>2. ~operands[i].isLocal /\ operands[i].index = j
      BY <3>1
    <3>. QED
      BY <3>2
  <2>. QED
    BY <2>1, <2>2, <2>3 DEF Operands
<1>12. HasCaptured(m, operands, k)
  <2>1. \A i \in 1..k : IF operands[i].isLocal THEN Frame.slots + operands[i].index \in Nat
                                               ELSE held[operands[i].index] \in Nat
    <3>1. SUFFICES ASSUME NEW i \in 1..k
                   PROVE  IF operands[i].isLocal THEN Frame.slots + operands[i].index \in Nat
                                                 ELSE held[operands[i].index] \in Nat
      OBVIOUS
    <3>2. operands[i].isLocal => Frame.slots + operands[i].index \in Nat
      <4>. DEFINE s == Frame.slots + operands[i].index
      <4>1. operands[i].isLocal => s \in Frame.slots..Top + 1
        BY <1>11
      <4>. HIDE DEF s
      <4>2. operands[i].isLocal => s \in Nat
        BY <1>9, <4>1
      <4>. QED
        BY <4>2 DEF s
    <3>3. ~operands[i].isLocal => held[operands[i].index] \in Nat
      BY <1>1, <1>9, <1>11, Stacks
    <3>. QED
      BY <3>2, <3>3
  <2>. QED
    BY <1>1, <1>6, <2>1, CapturesAll
<1>. HIDE DEF m
<1>13. ASSUME NEW i \in 1..k
       PROVE  names[i] = Name(operands[i])
  BY <1>6
<1>14. ASSUME NEW i \in 1..k, operands[i].isLocal
       PROVE  Local(m.captured[i], names[i], m)
  <2>. DEFINE s == Frame.slots + operands[i].index
  <2>1. s \in Frame.slots..Top + 1 /\ owner'[s] # 0 /\ names[i] = owner'[s]
    BY <1>11, <1>13, <1>14
  <2>2. IsOpen(m, m.captured[i]) /\ m.upvalues[m.captured[i]].location = s
    BY <1>12, <1>14 DEF HasCaptured
  <2>. HIDE DEF s, names
  <2>. QED
    BY <2>1, <2>2 DEF Local
<1>15. ASSUME NEW i \in 1..k, ~operands[i].isLocal
       PROVE  Held(m.captured[i], names[i])
  <2>1. operands[i].index \in DOMAIN captures[Frame.closure] /\ names[i] = captures[Frame.closure][operands[i].index]
    BY <1>9, <1>11, <1>13, <1>15
  <2>2. m.captured[i] = held[operands[i].index]
    BY <1>12, <1>15 DEF HasCaptured
  <2>. HIDE DEF names
  <2>. QED
    BY <1>9, <2>1, <2>2 DEF Held
<1>16. names \in Seq(Variable) /\ Len(names) = k
  <2>1. \A i \in 1..k : names[i] \in Variable
    <3>1. SUFFICES ASSUME NEW i \in 1..k PROVE names[i] \in Variable
      OBVIOUS
    <3>2. CASE operands[i].isLocal
      <4>1. PICK s \in Frame.slots..Top + 1 : names[i] = owner'[s] /\ names[i] # 0
        BY <1>14, <3>2 DEF Local
      <4>2. s \in DOMAIN owner'
        BY <1>8, <1>9 DEF Pushed
      <4>3. owner'[s] \in Names0
        <5>1. owner' \in Seq(Names0)
          BY <1>8 DEF Pushed, StackOK
        <5>. QED
          BY <4>2, <5>1
      <4>. HIDE DEF names
      <4>. QED
        BY <4>1, <4>3, BoundAssumption DEF Names0, Variable
    <3>3. CASE ~operands[i].isLocal
      <4>1. captures[Frame.closure] \in Seq(Variable)
        BY <1>1, <1>9 DEF Shape
      <4>2. operands[i].index \in DOMAIN captures[Frame.closure] /\ names[i] = captures[Frame.closure][operands[i].index]
        BY <1>9, <1>11, <1>13, <3>3
      <4>. HIDE DEF names
      <4>. QED
        BY <4>1, <4>2
    <3>. QED
      BY <3>2, <3>3
  <2>2. names \in [1..k -> Variable]
    BY <1>6, <2>1
  <2>. HIDE DEF names
  <2>. QED
    BY <1>6, <2>2
<1>17. ASSUME NEW i \in 1..k
       PROVE  Seen(names[i], asLocal)
  <2>1. CASE operands[i].isLocal
    <3>1. \E s \in slots : names[i] = owner'[s]
      BY <1>11, <1>13, <2>1
    <3>2. \A s \in slots : s \in LocalSlots \/ (asLocal /\ s = Top + 1)
      BY DEF slots
    <3>. HIDE DEF names
    <3>. QED
      BY <3>1, <3>2 DEF Seen
  <2>2. CASE ~operands[i].isLocal
    <3>1. operands[i].index \in DOMAIN captures[Frame.closure] /\ names[i] = captures[Frame.closure][operands[i].index]
      BY <1>9, <1>11, <1>13, <2>2
    <3>. HIDE DEF names
    <3>. QED
      BY <3>1 DEF Seen
  <2>. QED
    BY <2>1, <2>2
<1>18. x = IF asLocal THEN declared + 1 ELSE 0
  OBVIOUS
<1>. HIDE DEF names, x, Name
<1>19. NamesSeen(names, k, asLocal)
  BY <1>17 DEF NamesSeen
<1>20. Makes(n, m, names, k, arity)
  <2>1. Sorted(m) /\ Len(m.captured) = k
    BY <1>12 DEF HasCaptured
  <2>2. Len(upvalues) <= Len(m.upvalues) /\ \A u \in DOMAIN upvalues : m.upvalues[u] = upvalues[u]
    BY <1>12 DEF HasCaptured
  <2>3. ASSUME NEW u \in DOMAIN m.upvalues
        PROVE  u \in DOMAIN upvalues \/ \E i \in 1..k : m.captured[i] = u /\ Local(u, names[i], m)
    <3>1. u \in DOMAIN upvalues \/ \E i \in 1..k : operands[i].isLocal /\ m.captured[i] = u
      BY <1>12 DEF HasCaptured
    <3>. QED
      BY <1>14, <3>1
  <2>4. ASSUME NEW u \in Nat
        PROVE  IsOpen(m, u) <=> \/ \E j \in DOMAIN openUpvalues : openUpvalues[j] = u
                               \/ \E i \in 1..k : m.captured[i] = u /\ Local(u, names[i], m)
    <3>1. IsOpen(m, u) <=> \/ \E j \in DOMAIN openUpvalues : openUpvalues[j] = u
                          \/ \E i \in 1..k : operands[i].isLocal /\ m.captured[i] = u
      BY <1>12 DEF HasCaptured
    <3>2. \A i \in 1..k : Local(u, names[i], m) => IsOpen(m, u)
      BY DEF Local
    <3>. QED
      BY <1>14, <3>1, <3>2
  <2>5. declared' \in {declared, declared + 1}
    BY <1>2
  <2>. QED
    BY <1>2, <1>4, <1>6, <1>7, <1>14, <1>15, <1>16, <2>1, <2>2, <2>3, <2>4, <2>5 DEF Makes
<1>. QED
  BY <1>2, <1>8, <1>18, <1>19, <1>20

LEMMA MakeClosureStep ==
    ASSUME IInv, NEW asLocal \in BOOLEAN, NEW arity \in Nat, MakeClosure(asLocal, arity)
    PROVE  IInv'
<1>1. PICK n, m, names, k : Makes(n, m, names, k, arity)
  BY ClosureMakes
<1>2. Running /\ Pushed(IF asLocal THEN declared + 1 ELSE Temporary)
  BY ClosureMakes
<1>. QED
  BY <1>1, <1>2, MakesStep

-----------------------------------------------------------------------------
(* The theorems.                                                             *)

LEMMA Initially == Init => IInv
<1>. SUFFICES ASSUME Init PROVE IInv
  OBVIOUS
<1>. USE DEF Temporary
<1>1. /\ stack = <<>> /\ frames = <<>> /\ openUpvalues = <<>> /\ upvalues = <<>> /\ owner = <<>>
      /\ closures = ScriptOnly /\ captures = NoCaptures /\ declared = 0 /\ ran = FALSE
      /\ globals = [g \in Global |-> NIL_VAL]
  BY DEF Init
<1>2. /\ DOMAIN <<>> = {} /\ Len(<<>>) = 0 /\ <<>> \in Seq(Nat) /\ <<>> \in Seq(Value) /\ <<>> \in Seq(Names0)
      /\ <<>> \in Seq([closure : Closure, slots : Nat]) /\ <<>> \in Seq(Variable)
      /\ <<>> \in Seq([location : Nat, closed : Value])
  OBVIOUS
<1>3. NIL_VAL \in Value /\ 0 \in Closure /\ 0 .. 0 = {0}
  BY DataAssumption, BoundAssumption DEF Value, Closure
<1>4. /\ DOMAIN ScriptOnly = {0} /\ ScriptOnly[0].upvalues = <<>> /\ DOMAIN NoCaptures = {0}
      /\ NoCaptures[0] = <<>>
      /\ ScriptOnly \in [{0} -> [upvalues : Seq(Nat), arity : Nat]] /\ NoCaptures \in [{0} -> Seq(Variable)]
  BY <1>2 DEF ScriptOnly, NoCaptures
<1>5. TypeOK
  <2>1. globals \in [Global -> Value]
    BY <1>1, <1>3
  <2>. QED
    BY <1>1, <1>2, <1>4, <2>1, BoundAssumption DEF TypeOK, Location, Top
<1>6. Shape
  BY <1>1, <1>2, <1>3, <1>4 DEF Shape
<1>7. FramesStacked /\ OpenListSorted /\ OpenOnVariables
  BY <1>1, <1>2 DEF FramesStacked, OpenListSorted, OpenOnVariables
<1>8. VariablesDistinct /\ CapturesMatch /\ OneLocation
  BY <1>1, <1>2, <1>4 DEF VariablesDistinct, CapturesMatch, OneLocation
<1>. QED
  BY <1>5, <1>6, <1>7, <1>8 DEF IInv

LEMMA EveryStep == IInv /\ [Next]_vars => IInv'
<1>. SUFFICES ASSUME IInv, [Next]_vars PROVE IInv'
  OBVIOUS
<1>1. CASE Interpret
  BY <1>1, InterpretStep
<1>2. CASE DeclareLocal
  BY <1>2, DeclareLocalStep
<1>3. CASE EndLocal
  BY <1>3, EndLocalStep
<1>4. CASE Return
  BY <1>4, ReturnStep
<1>5. CASE RuntimeError
  BY <1>5, RuntimeErrorStep
<1>6. CASE \/ \E v \in Data : PushValue(v)
           \/ \E g \in Global : GetGlobal(g)
           \/ \E s \in 1..StackBound : GetLocal(s)
           \/ \E i \in 1..CaptureBound : GetUpvalue(i)
  <2>1. 1..StackBound \subseteq Nat /\ 1..CaptureBound \subseteq Nat
    BY BoundAssumption
  <2>. QED
    BY <1>6, <2>1, ReadStep
<1>7. CASE \/ PopTemporary
           \/ \E g \in Global : DefineGlobal(g) \/ SetGlobal(g)
           \/ \E s \in 1..StackBound : SetLocal(s)
           \/ \E i \in 1..CaptureBound : SetUpvalue(i)
  <2>1. 1..StackBound \subseteq Nat /\ 1..CaptureBound \subseteq Nat
    BY BoundAssumption
  <2>. QED
    BY <1>7, <2>1, AssignStep
<1>8. CASE \E asLocal \in BOOLEAN, arity \in 0..1 : MakeClosure(asLocal, arity)
  <2>1. PICK asLocal \in BOOLEAN, arity \in 0..1 : MakeClosure(asLocal, arity)
    BY <1>8
  <2>2. arity \in Nat
    OBVIOUS
  <2>. QED
    BY <2>1, <2>2, MakeClosureStep
<1>9. ASSUME NEW n \in 0..1, Call(n)
      PROVE  IInv'
  <2>1. n \in Nat
    OBVIOUS
  <2>2. Enters(n) \/ RuntimeError
    BY <1>9 DEF Call, Enters
  <2>. QED
    BY <2>1, <2>2, CallStep, RuntimeErrorStep
<1>10. CASE UNCHANGED vars
  <2>. USE <1>10 DEF vars
  <2>1. TypeOK'
    BY DEF IInv, TypeOK, Location, Top
  <2>2. Shape'
    BY DEF IInv, Shape
  <2>3. FramesStacked' /\ VariablesDistinct' /\ CapturesMatch'
    BY DEF IInv, FramesStacked, VariablesDistinct, CapturesMatch
  <2>4. OpenListSorted'
    BY DEF IInv, OpenListSorted, Location
  <2>5. OpenOnVariables'
    BY DEF IInv, OpenOnVariables, IsCaptured, Location
  <2>6. ~Interactive => OneLocation'
    BY DEF IInv, OneLocation, Location
  <2>. QED
    BY <2>1, <2>2, <2>3, <2>4, <2>5, <2>6 DEF IInv
<1>. QED
  BY <1>1, <1>2, <1>3, <1>4, <1>5, <1>6, <1>7, <1>8, <1>9, <1>10 DEF Next

LEMMA AlwaysIInv == Spec => []IInv
  BY Initially, EveryStep, PTL DEF Spec

\* Every reachable state has the variables' types: slots, upvalues and closures
\* that are pointed to exist.
THEOREM TypeCorrect == Spec => []TypeOK
<1>1. IInv => TypeOK
  BY DEF IInv
<1>. QED
  BY <1>1, AlwaysIInv, PTL

\* The list of open upvalues is always sorted by slot, without repetition, and
\* on slots in use, so that captureUpvalue and closeUpvalues may stop early.
THEOREM OpenListStaysSorted == Spec => []OpenListSorted
<1>1. IInv => OpenListSorted
  BY DEF IInv
<1>. QED
  BY <1>1, AlwaysIInv, PTL

\* In a script that runs once, the closures that captured a variable share one
\* upvalue, open on its slot while there is one and closed afterwards.
THEOREM VariablesShareOneLocation ==
    ASSUME ~Interactive
    PROVE  Spec => []OneLocation
<1>1. IInv => OneLocation
  BY DEF IInv
<1>. QED
  BY <1>1, AlwaysIInv, PTL

\* In a script that runs once, no closure reads or writes a slot that was
\* reused.  In the repl it can: there the run MCUpvaluesRepl finds how.
THEOREM ClosuresReachTheirVariables ==
    ASSUME ~Interactive
    PROVE  Spec => []ClosureReachesItsVariables
<1>1. IInv => ClosureReachesItsVariables
  <2>1. SUFFICES ASSUME IInv, Running, NEW i \in DOMAIN captures[Frame.closure],
                        Location(closures[Frame.closure].upvalues[i]) # 0
                 PROVE  LET at == Location(closures[Frame.closure].upvalues[i])
                        IN  at <= Top /\ owner[at] = captures[Frame.closure][i]
    BY DEF ClosureReachesItsVariables
  <2>2. OneLocation /\ TypeOK /\ Shape /\ FramesStacked
    BY <2>1 DEF IInv
  <2>3. Frame.closure \in DOMAIN closures
    BY <2>1, <2>2, RunningFrame
  <2>4. /\ Location(closures[Frame.closure].upvalues[i]) \in DOMAIN owner
        /\ owner[Location(closures[Frame.closure].upvalues[i])] = captures[Frame.closure][i]
    BY <2>1, <2>2, <2>3 DEF OneLocation
  <2>. QED
    BY <2>2, <2>4, Stacks
<1>. QED
  BY <1>1, AlwaysIInv, PTL
=============================================================================
