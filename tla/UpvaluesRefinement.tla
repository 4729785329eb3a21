------------------------- MODULE UpvaluesRefinement -------------------------
(* A script that runs once implements lexical scope: each step of the stack, *)
(* the frames and the upvalues is a step of variables as shared cells, for   *)
(* every program the compiler can emit instructions for and every bound.     *)
EXTENDS UpvaluesProofs

-----------------------------------------------------------------------------
(* What the mapping needs to know of the stack, beyond IInv.                 *)

\* The n variables of a frame are in the slots right above its first one.
IsBlock(base, last, names, n) ==
    /\ n \in 0..last - base
    /\ \A s \in base..last : names[s] # Temporary <=> s > base /\ s <= base + n

Lasts == [i \in DOMAIN frames |-> LastSlot(i)]
Locals == [i \in DOMAIN frames |-> Names(i)]

Blocks == \A i \in DOMAIN frames : \E n \in Nat : IsBlock(frames[i].slots, Lasts[i], owner, n)

\* Variables live in the slots of frames.
NamedInFrames == \A s \in DOMAIN owner : owner[s] # Temporary => frames # <<>> /\ frames[1].slots <= s

RInv == IInv /\ OneLocation /\ Blocks /\ NamedInFrames

-----------------------------------------------------------------------------
(* Frames and the names in them.                                             *)

PlacesInStack ==
    /\ Top \in Nat /\ DOMAIN owner = 1..Top /\ DOMAIN stack = 1..Top
    /\ Len(frames) \in Nat /\ DOMAIN frames = 1..Len(frames)
    /\ \A s \in 1..Top : owner[s] \in Nat /\ (owner[s] # 0 => owner[s] \in Variable)
    /\ \A i \in 1..Len(frames) :
           /\ frames[i].slots \in Nat /\ Lasts[i] \in Nat /\ frames[i].closure \in DOMAIN captures
           /\ 1 <= frames[i].slots /\ frames[i].slots <= Lasts[i] /\ Lasts[i] <= Top
           /\ i = Len(frames) => Lasts[i] = Top
           /\ i # Len(frames) => /\ i + 1 \in 1..Len(frames) /\ Lasts[i] < Top
                                 /\ Lasts[i] = frames[i + 1].slots - 1

LEMMA Places == IInv => PlacesInStack
<1>. SUFFICES ASSUME IInv PROVE PlacesInStack
  OBVIOUS
<1>1. TypeOK /\ Shape /\ FramesStacked
  BY DEF IInv
<1>2. /\ Len(frames) \in Nat /\ DOMAIN frames = 1..Len(frames) /\ Top \in Nat
      /\ DOMAIN owner = 1..Top /\ DOMAIN stack = 1..Top /\ \A s \in 1..Top : owner[s] \in Names0
  BY <1>1, Stacks
<1>3. \A j \in DOMAIN frames : frames[j].slots \in 1..Top /\ frames[j].closure \in DOMAIN captures
  BY <1>1 DEF TypeOK
<1>4. \A s \in 1..Top : owner[s] \in Nat /\ (owner[s] # 0 => owner[s] \in Variable)
  BY <1>2, BoundAssumption DEF Names0, Variable
<1>5. ASSUME NEW i \in 1..Len(frames)
      PROVE  /\ frames[i].slots \in Nat /\ Lasts[i] \in Nat
             /\ 1 <= frames[i].slots /\ frames[i].slots <= Lasts[i] /\ Lasts[i] <= Top
             /\ i = Len(frames) => Lasts[i] = Top
             /\ i # Len(frames) => /\ i + 1 \in 1..Len(frames) /\ Lasts[i] < Top
                                   /\ Lasts[i] = frames[i + 1].slots - 1
  <2>1. CASE i = Len(frames)
    <3>1. Lasts[i] = Top
      BY <1>2, <2>1 DEF Lasts, LastSlot
    <3>. QED
      BY <1>2, <1>3, <2>1, <3>1
  <2>2. CASE i # Len(frames)
    <3>. DEFINE m == Len(frames)
    <3>0. m \in Nat
      BY <1>2
    <3>1. i \in Nat /\ i + 1 \in 1..m /\ i < i + 1 /\ i \in 1..m
      <4>. HIDE DEF m
      <4>1. i \in 1..m /\ i # m
        BY <2>2 DEF m
      <4>. QED
        BY <3>0, <4>1
    <3>2. frames[i].slots < frames[i + 1].slots
      BY <1>1, <1>2, <3>1 DEF FramesStacked
    <3>3. Lasts[i] = frames[i + 1].slots - 1
      BY <1>2, <2>2 DEF Lasts, LastSlot
    <3>4. frames[i].slots \in 1..Top /\ frames[i + 1].slots \in 1..Top
      BY <1>2, <1>3, <3>1
    <3>5. /\ frames[i].slots \in Nat /\ Lasts[i] \in Nat /\ 1 <= frames[i].slots
          /\ frames[i].slots <= Lasts[i] /\ Lasts[i] < Top /\ Lasts[i] <= Top
      BY <1>2, <3>2, <3>3, <3>4
    <3>. QED
      BY <2>2, <3>1, <3>3, <3>5
  <2>. QED
    BY <2>1, <2>2
<1>. QED
  BY Zenon, <1>2, <1>3, <1>4, <1>5 DEF PlacesInStack

Activation == [closure : Nat, locals : Seq(Nat)]

\* The mapping, a frame and a block at a time.
ActivationsMapped ==
    Activations = [i \in DOMAIN frames |-> [closure |-> frames[i].closure, locals |-> Locals[i]]]

LEMMA ActivationsOfFrames == ActivationsMapped
BY DEF ActivationsMapped, Activations, Locals, Names, LastSlot

BlocksNamed ==
    \A i \in DOMAIN frames : \A n \in Nat :
        IsBlock(frames[i].slots, Lasts[i], owner, n) =>
            /\ Locals[i] = [j \in 1..n |-> owner[frames[i].slots + j]]
            /\ Locals[i] \in Seq(Nat) /\ Len(Locals[i]) = n

LEMMA NamesOfBlock == IInv => BlocksNamed
<1>. SUFFICES ASSUME IInv, NEW i \in DOMAIN frames, NEW n \in Nat,
                     IsBlock(frames[i].slots, Lasts[i], owner, n)
              PROVE  /\ Locals[i] = [j \in 1..n |-> owner[frames[i].slots + j]]
                     /\ Locals[i] \in Seq(Nat) /\ Len(Locals[i]) = n
  BY DEF BlocksNamed
<1>. DEFINE base == frames[i].slots
            last == Lasts[i]
            S == {s \in base..last : owner[s] # Temporary}
<1>1. /\ base \in Nat /\ last \in Nat /\ base <= last /\ 1 <= base /\ last <= Top /\ Top \in Nat
      /\ \A s \in 1..Top : owner[s] \in Nat
  BY Zenon, Places DEF PlacesInStack
<1>2. Locals[i] = [j \in 1..Cardinality(S) |-> owner[base + j]]
  BY DEF Locals, Names, Lasts
<1>3. n <= last - base /\ \A s \in base..last : owner[s] # Temporary <=> s > base /\ s <= base + n
  BY <1>1 DEF IsBlock
<1>. HIDE DEF base, last
<1>4. S = base + 1..base + n
  <2>1. \A s : s \in base + 1..base + n <=> s \in base..last /\ s > base /\ s <= base + n
    BY <1>1, <1>3
  <2>. QED
    BY <1>3, <2>1
<1>5. Cardinality(S) = n
  <2>. DEFINE a == base + 1
              b == base + n
  <2>1. a \in Int /\ b \in Int
    BY <1>1
  <2>. HIDE DEF a, b
  <2>2. Cardinality(a..b) = IF a > b THEN 0 ELSE b - a + 1
    BY <2>1, FS_Interval
  <2>. USE DEF a, b
  <2>3. S = a..b
    BY <1>4
  <2>. HIDE DEF S
  <2>4. CASE n = 0
    <3>1. a > b
      BY <1>1, <2>4
    <3>. QED
      BY <2>2, <2>3, <2>4, <3>1
  <2>5. CASE n # 0
    <3>1. ~(a > b) /\ b - a + 1 = n
      BY <1>1, <2>5
    <3>. QED
      BY <2>2, <2>3, <3>1
  <2>. QED
    BY <2>4, <2>5
<1>. HIDE DEF S
<1>6. Locals[i] = [j \in 1..n |-> owner[base + j]]
  BY <1>2, <1>5
<1>7. \A j \in 1..n : owner[base + j] \in Nat
  BY <1>1, <1>3
<1>. QED
  BY <1>6, <1>7 DEF base

\* The mapping, as a sequence.
ActivationsTyped ==
    /\ Activations \in Seq(Activation)
    /\ Len(Activations) = Len(frames) /\ Len(frames) \in Nat /\ DOMAIN Activations = 1..Len(frames)
    /\ \A i \in 1..Len(frames) : /\ Activations[i].closure = frames[i].closure
                                  /\ Activations[i].locals = Locals[i]
                                  /\ Activations[i] \in Activation

LEMMA ActivationsAreTyped == IInv /\ Blocks => ActivationsTyped
<1>. SUFFICES ASSUME IInv, Blocks PROVE ActivationsTyped
  OBVIOUS
<1>1. Shape /\ Len(frames) \in Nat /\ DOMAIN frames = 1..Len(frames)
  BY Places DEF IInv, PlacesInStack
<1>2. ASSUME NEW i \in 1..Len(frames)
      PROVE  frames[i].closure \in Nat /\ Locals[i] \in Seq(Nat)
  <2>1. frames[i].closure \in Nat
    <3>1. frames[i] \in [closure : Closure, slots : Nat]
      <4>. DEFINE F == [closure : Closure, slots : Nat]
      <4>1. frames \in Seq(F)
        BY <1>1 DEF Shape
      <4>. HIDE DEF F
      <4>2. frames[i] \in F
        BY <1>1, <4>1, ElementOfSeq
      <4>. QED
        BY <4>2 DEF F
    <3>. QED
      BY <3>1, BoundAssumption DEF Closure
  <2>2. PICK n \in Nat : IsBlock(frames[i].slots, Lasts[i], owner, n)
    BY <1>1 DEF Blocks
  <2>. QED
    BY <1>1, <2>1, <2>2, NamesOfBlock DEF BlocksNamed
<1>3. Activations = [i \in 1..Len(frames) |-> [closure |-> frames[i].closure, locals |-> Locals[i]]]
  BY <1>1, ActivationsOfFrames DEF ActivationsMapped
<1>4. \A i \in 1..Len(frames) : [closure |-> frames[i].closure, locals |-> Locals[i]] \in Activation
  BY <1>2 DEF Activation
<1>5. Activations \in [1..Len(frames) -> Activation]
  BY <1>3, <1>4
<1>6. Activations \in Seq(Activation) /\ Len(Activations) = Len(frames)
  BY <1>1, <1>5
<1>. QED
  BY <1>1, <1>3, <1>4, <1>5, <1>6 DEF ActivationsTyped

\* Every slot from the first frame on is in one.
LEMMA FrameOfSlot ==
    ASSUME IInv, frames # <<>>, NEW s \in 1..Top, frames[1].slots <= s
    PROVE  \E i \in 1..Len(frames) : s \in frames[i].slots..Lasts[i]
<1>. DEFINE m == Len(frames)
            S == {d \in 0..m - 1 : frames[m - d].slots <= s}
<1>1. m \in Nat /\ m # 0 /\ Top \in Nat /\ s \in Nat
  <2>1. Len(frames) \in Nat /\ Top \in Nat
    BY Zenon, Places DEF PlacesInStack
  <2>2. Len(frames) # 0
    BY DEF IInv, Shape
  <2>. QED
    BY <2>1, <2>2
<1>2. m - 1 \in S
  <2>1. m - 1 \in 0..m - 1 /\ m - (m - 1) = 1
    BY <1>1
  <2>. QED
    BY <2>1
<1>3. PICK d \in S : \A e \in S : d <= e
  <2>1. S \in SUBSET Nat
    OBVIOUS
  <2>. HIDE DEF S
  <2>. QED
    BY <1>2, <2>1, LeastNumber
<1>. DEFINE i == m - d
<1>4. d \in 0..m - 1 /\ frames[i].slots <= s
  BY <1>3
<1>5. \A e \in 0..m - 1 : frames[m - e].slots <= s => d <= e
  BY <1>3
<1>. HIDE DEF S
<1>6. i \in 1..m
  <2>. HIDE DEF m
  <2>. QED
    BY <1>1, <1>4
<1>7. /\ frames[i].slots \in Nat /\ Lasts[i] \in Nat
      /\ i = m => Lasts[i] = Top
      /\ i # m => /\ i + 1 \in 1..m /\ Lasts[i] = frames[i + 1].slots - 1
                  /\ frames[i + 1].slots \in Nat
  <2>. HIDE DEF i
  <2>. QED
    BY Zenon, <1>6, Places DEF PlacesInStack
<1>. HIDE DEF m
<1>8. s <= Lasts[i]
  <2>1. CASE i = m
    <3>. HIDE DEF i
    <3>. QED
      BY <1>1, <1>7, <2>1
  <2>2. CASE i # m
    <3>1. d - 1 \in 0..m - 1 /\ ~(d <= d - 1) /\ m - (d - 1) = i + 1
      BY <1>1, <1>4, <2>2
    <3>2. ~(frames[i + 1].slots <= s)
      BY <1>5, <3>1
    <3>. HIDE DEF i
    <3>. QED
      BY <1>1, <1>7, <2>2, <3>2
  <2>. QED
    BY <2>1, <2>2
<1>. HIDE DEF i
<1>. QED
  BY <1>1, <1>4, <1>6, <1>7, <1>8 DEF m

\* A slot of a frame has a name when the name is one of its activation.
LEMMA LocalsInSlots ==
    ASSUME IInv, NEW i \in DOMAIN frames, NEW n \in Nat, IsBlock(frames[i].slots, Lasts[i], owner, n)
    PROVE  /\ \A j \in 1..n : LET s == frames[i].slots + j
                             IN  /\ s \in frames[i].slots + 1..Lasts[i] /\ s \in 1..Top
                                 /\ Locals[i][j] = owner[s] /\ owner[s] # Temporary
           /\ \A s \in frames[i].slots..Lasts[i] :
                  owner[s] # Temporary => s - frames[i].slots \in 1..n /\ Locals[i][s - frames[i].slots] = owner[s]
           /\ DOMAIN Locals[i] = 1..n
<1>. DEFINE base == frames[i].slots
            last == Lasts[i]
<1>1. base \in Nat /\ last \in Nat /\ 1 <= base /\ last <= Top /\ Top \in Nat
  BY Zenon, Places DEF PlacesInStack
<1>2. Locals[i] = [j \in 1..n |-> owner[base + j]]
  BY NamesOfBlock DEF BlocksNamed
<1>3. n <= last - base /\ \A s \in base..last : owner[s] # Temporary <=> s > base /\ s <= base + n
  BY <1>1 DEF IsBlock
<1>. HIDE DEF base, last
<1>4. ASSUME NEW j \in 1..n
      PROVE  /\ base + j \in base + 1..last /\ base + j \in 1..Top
             /\ Locals[i][j] = owner[base + j] /\ owner[base + j] # Temporary
  <2>1. base + j \in base + 1..last /\ base + j \in 1..Top /\ base + j \in base..last
    BY <1>1, <1>3
  <2>2. base + j > base /\ base + j <= base + n
    BY <1>1
  <2>. QED
    BY <1>2, <1>3, <2>1, <2>2
<1>5. ASSUME NEW s \in base..last, owner[s] # Temporary
      PROVE  s - base \in 1..n /\ Locals[i][s - base] = owner[s]
  <2>1. s > base /\ s <= base + n
    BY <1>3, <1>5
  <2>2. s - base \in 1..n /\ base + (s - base) = s
    BY <1>1, <2>1
  <2>. QED
    BY <1>2, <2>2
<1>. QED
  BY <1>2, <1>4, <1>5 DEF base, last

\* What the activations and the closures reach is what lives in a slot or was
\* captured.
ReachedIsVisible == Scope!Reachable(Activations, captures) = Visible

LEMMA ReachesVisible == RInv => ReachedIsVisible
<1>. SUFFICES ASSUME RInv PROVE ReachedIsVisible
  OBVIOUS
<1>. USE DEF Temporary
<1>1. IInv /\ Shape /\ Blocks /\ NamedInFrames
  BY DEF RInv, IInv
<1>2. /\ DOMAIN owner = 1..Top /\ Top \in Nat /\ Len(frames) \in Nat /\ DOMAIN frames = 1..Len(frames)
      /\ \A s \in 1..Top : owner[s] # 0 => owner[s] \in Variable
  BY Zenon, <1>1, Places DEF PlacesInStack
<1>3. ASSUME NEW c \in DOMAIN captures
      PROVE  Scope!Members(captures[c]) \subseteq Visible
  <2>1. captures[c] \in Seq(Variable)
    BY <1>1 DEF Shape
  <2>2. \A j \in DOMAIN captures[c] : captures[c][j] \in Variable /\ IsCaptured(captures[c][j])
    BY <2>1 DEF IsCaptured
  <2>. QED
    BY <2>2 DEF Visible, Scope!Members
<1>4. ASSUME NEW i \in 1..Len(frames)
      PROVE  Scope!Members(Locals[i]) \subseteq Visible
  <2>1. PICK n \in Nat : IsBlock(frames[i].slots, Lasts[i], owner, n)
    BY <1>1, <1>2 DEF Blocks
  <2>2. DOMAIN Locals[i] = 1..n
    BY <1>1, <1>2, <2>1, LocalsInSlots
  <2>3. \A j \in 1..n : \E s \in 1..Top : Locals[i][j] = owner[s] /\ owner[s] # 0
    BY <1>1, <1>2, <2>1, LocalsInSlots
  <2>4. \A j \in 1..n : Locals[i][j] \in Visible
    BY <1>2, <2>3 DEF Visible
  <2>. QED
    BY <2>2, <2>4 DEF Scope!Members
<1>5. ASSUME NEW x \in Visible
      PROVE  \/ \E i \in 1..Len(frames) : x \in Scope!Members(Locals[i])
             \/ \E c \in DOMAIN captures : x \in Scope!Members(captures[c])
  <2>1. CASE IsCaptured(x)
    BY <2>1 DEF IsCaptured, Scope!Members
  <2>2. CASE \E s \in DOMAIN owner : owner[s] = x
    <3>1. PICK s \in 1..Top : owner[s] = x
      BY <1>2, <2>2
    <3>2. owner[s] # 0
      BY <3>1 DEF Visible, Variable
    <3>3. frames # <<>> /\ frames[1].slots <= s
      BY <1>1, <1>2, <3>2 DEF NamedInFrames
    <3>4. PICK i \in 1..Len(frames) : s \in frames[i].slots..Lasts[i]
      BY <1>1, <3>3, FrameOfSlot
    <3>5. PICK n \in Nat : IsBlock(frames[i].slots, Lasts[i], owner, n)
      BY <1>1, <1>2 DEF Blocks
    <3>6. Locals[i][s - frames[i].slots] = x /\ s - frames[i].slots \in DOMAIN Locals[i]
      BY <1>1, <1>2, <3>1, <3>2, <3>4, <3>5, LocalsInSlots
    <3>. QED
      BY <3>6 DEF Scope!Members
  <2>. QED
    BY <2>1, <2>2 DEF Visible
<1>6. DOMAIN Activations = 1..Len(frames) /\ \A i \in 1..Len(frames) : Activations[i].locals = Locals[i]
  BY <1>1, ActivationsAreTyped DEF ActivationsTyped
<1>7. \A x : x \in Scope!Reachable(Activations, captures)
                <=> \/ \E i \in DOMAIN Activations : x \in Scope!Members(Activations[i].locals)
                    \/ \E c \in DOMAIN captures : x \in Scope!Members(captures[c])
  BY DEF Scope!Reachable
<1>8. \A x : x \in Scope!Reachable(Activations, captures)
                <=> \/ \E i \in 1..Len(frames) : x \in Scope!Members(Locals[i])
                    \/ \E c \in DOMAIN captures : x \in Scope!Members(captures[c])
  BY <1>6, <1>7
<1>9. \A x : x \in Scope!Reachable(Activations, captures) <=> x \in Visible
  <2>1. \A x : x \in Scope!Reachable(Activations, captures) => x \in Visible
    BY <1>3, <1>4, <1>8
  <2>2. \A x \in Visible : x \in Scope!Reachable(Activations, captures)
    BY <1>5, <1>8
  <2>. QED
    BY <2>1, <2>2
<1>. QED
  BY <1>9 DEF ReachedIsVisible

-----------------------------------------------------------------------------
(* The activations after a step.                                             *)

LEMMA PlacesNext ==
    ASSUME IInv'
    PROVE  PlacesInStack' /\ BlocksNamed'
BY Places, NamesOfBlock, PTL

LEMMA ActivationsNext == ActivationsMapped'
BY ActivationsOfFrames, PTL

LEMMA ActivationsTypedNext ==
    ASSUME IInv', Blocks'
    PROVE  ActivationsTyped'
BY ActivationsAreTyped, PTL

\* The names from base on are the same up to last and, later, up to after.
SameFrom(base, last, names, after, later) ==
    /\ \A s \in base..after : later[s] # Temporary => s <= last /\ later[s] = names[s]
    /\ \A s \in base..last : names[s] # Temporary => s <= after /\ later[s] = names[s]

LEMMA BlockKept ==
    ASSUME NEW base \in Nat, NEW last \in Nat, NEW after \in Nat, base <= after,
           NEW names, NEW later, NEW n \in Nat, IsBlock(base, last, names, n),
           SameFrom(base, last, names, after, later)
    PROVE  IsBlock(base, after, later, n) /\ \A j \in 1..n : later[base + j] = names[base + j]
<1>1. n <= last - base /\ \A s \in base..last : names[s] # Temporary <=> s > base /\ s <= base + n
  BY DEF IsBlock
<1>. USE DEF SameFrom
<1>2. ASSUME NEW j \in 1..n
      PROVE  base + j <= after /\ later[base + j] = names[base + j]
  <2>1. base + j \in base..last /\ base + j > base /\ base + j <= base + n
    BY <1>1
  <2>. QED
    BY <1>1, <2>1
<1>3. n <= after - base
  <2>1. CASE n = 0
    BY <2>1
  <2>2. CASE n # 0
    <3>1. n \in 1..n
      BY <2>2
    <3>2. base + n <= after
      BY <1>2, <3>1
    <3>. QED
      BY <3>2
  <2>. QED
    BY <2>1, <2>2
<1>4. ASSUME NEW s \in base..after
      PROVE  later[s] # Temporary <=> s > base /\ s <= base + n
  <2>1. CASE later[s] # Temporary
    <3>1. s \in base..last /\ names[s] # Temporary
      BY <2>1
    <3>. QED
      BY <1>1, <2>1, <3>1
  <2>2. CASE s > base /\ s <= base + n
    <3>1. s \in base..last
      BY <1>1, <2>2
    <3>. QED
      BY <1>1, <2>2, <3>1
  <2>. QED
    BY <2>1, <2>2
<1>. QED
  BY <1>2, <1>3, <1>4 DEF IsBlock

\* A frame keeps its variables when its named slots stay.
LEMMA LocalsKept ==
    ASSUME IInv, IInv', Blocks, NEW i \in DOMAIN frames, i \in DOMAIN frames',
           frames'[i].slots = frames[i].slots,
           \A s \in frames[i].slots..Lasts'[i] : owner'[s] # Temporary => s <= Lasts[i] /\ owner'[s] = owner[s],
           \A s \in frames[i].slots..Lasts[i] : owner[s] # Temporary => s <= Lasts'[i] /\ owner'[s] = owner[s]
    PROVE  (\E n \in Nat : IsBlock(frames'[i].slots, Lasts'[i], owner', n)) /\ Locals'[i] = Locals[i]
<1>1. /\ frames[i].slots \in Nat /\ Lasts[i] \in Nat
      /\ frames'[i].slots \in Nat /\ Lasts'[i] \in Nat /\ frames'[i].slots <= Lasts'[i]
  BY Zenon, Places, PlacesNext DEF PlacesInStack
<1>2. PICK n \in Nat : IsBlock(frames[i].slots, Lasts[i], owner, n)
  BY DEF Blocks
<1>3. /\ IsBlock(frames'[i].slots, Lasts'[i], owner', n)
      /\ \A j \in 1..n : owner'[frames[i].slots + j] = owner[frames[i].slots + j]
  <2>. DEFINE base == frames[i].slots
              last == Lasts[i]
              after == Lasts'[i]
  <2>1. /\ base \in Nat /\ last \in Nat /\ after \in Nat /\ base <= after
        /\ frames'[i].slots = base /\ IsBlock(base, last, owner, n)
    BY <1>1, <1>2
  <2>2. SameFrom(base, last, owner, after, owner')
    BY DEF SameFrom
  <2>. HIDE DEF base, last, after
  <2>3. IsBlock(base, after, owner', n) /\ \A j \in 1..n : owner'[base + j] = owner[base + j]
    BY <2>1, <2>2, BlockKept
  <2>. QED
    BY <2>1, <2>3 DEF base, after
<1>4. Locals[i] = [j \in 1..n |-> owner[frames[i].slots + j]]
  BY <1>2, NamesOfBlock DEF BlocksNamed
<1>5. Locals'[i] = [j \in 1..n |-> owner'[frames'[i].slots + j]]
  BY <1>3, PlacesNext DEF BlocksNamed
<1>. QED
  BY <1>3, <1>4, <1>5

LEMMA LowerKept ==
    ASSUME IInv, IInv', Blocks, NEW i \in Nat, i + 1 \in DOMAIN frames, i + 1 \in DOMAIN frames', i # 0,
           frames'[i].slots = frames[i].slots, frames'[i + 1].slots = frames[i + 1].slots,
           \A s \in 1..frames[i + 1].slots - 1 : owner'[s] = owner[s]
    PROVE  (\E n \in Nat : IsBlock(frames'[i].slots, Lasts'[i], owner', n)) /\ Locals'[i] = Locals[i]
<1>1. /\ i \in DOMAIN frames /\ i \in DOMAIN frames' /\ i # Len(frames) /\ i # Len(frames')
  <2>1. /\ Len(frames) \in Nat /\ DOMAIN frames = 1..Len(frames)
        /\ Len(frames') \in Nat /\ DOMAIN frames' = 1..Len(frames')
    BY Zenon, Places, PlacesNext DEF PlacesInStack
  <2>2. ASSUME NEW m \in Nat, i + 1 \in 1..m
        PROVE  i \in 1..m /\ i # m
    BY <2>2
  <2>3. i \in 1..Len(frames) /\ i # Len(frames)
    BY Zenon, <2>1, <2>2
  <2>4. i \in 1..Len(frames') /\ i # Len(frames')
    BY Zenon, <2>1, <2>2
  <2>. QED
    BY <2>1, <2>3, <2>4
<1>2. Lasts[i] = frames[i + 1].slots - 1 /\ frames[i].slots \in Nat /\ 1 <= frames[i].slots /\ Lasts[i] \in Nat
  BY Zenon, <1>1, Places DEF PlacesInStack
<1>3. Lasts'[i] = frames'[i + 1].slots - 1
  BY Zenon, <1>1, PlacesNext DEF PlacesInStack
<1>4. Lasts'[i] = Lasts[i]
  BY <1>2, <1>3
<1>5. \A s \in frames[i].slots..Lasts[i] : s \in 1..frames[i + 1].slots - 1 /\ s <= Lasts[i]
  BY <1>2
<1>. QED
  BY <1>1, <1>4, <1>5, LocalsKept

SameNamed ==
    \A s \in Nat : /\ s \in DOMAIN owner' /\ owner'[s] # Temporary => s \in DOMAIN owner /\ owner[s] = owner'[s]
                   /\ s \in DOMAIN owner /\ owner[s] # Temporary => s \in DOMAIN owner' /\ owner'[s] = owner[s]

\* The frames and the named slots stay.
LEMMA SameActivations ==
    ASSUME RInv, IInv', frames' = frames, SameNamed
    PROVE  Blocks' /\ NamedInFrames' /\ Activations' = Activations
<1>1. IInv /\ Blocks /\ NamedInFrames
  BY DEF RInv
<1>2. /\ Len(frames) \in Nat /\ DOMAIN frames = 1..Len(frames) /\ Top \in Nat /\ Top' \in Nat
      /\ DOMAIN owner = 1..Top /\ DOMAIN owner' = 1..Top'
      /\ \A i \in 1..Len(frames) : /\ frames[i].slots \in Nat /\ 1 <= frames[i].slots
                                   /\ Lasts[i] \in Nat /\ Lasts[i] <= Top /\ Lasts'[i] \in Nat /\ Lasts'[i] <= Top'
                                   /\ i = Len(frames) => Lasts[i] = Top /\ Lasts'[i] = Top'
                                   /\ i # Len(frames) => Lasts'[i] = Lasts[i]
  BY Zenon, <1>1, Places, PlacesNext DEF PlacesInStack
<1>2b. /\ Top \in Nat /\ Top' \in Nat /\ DOMAIN owner = 1..Top /\ DOMAIN owner' = 1..Top'
  BY Zenon, <1>2
<1>3. ASSUME NEW i \in 1..Len(frames)
      PROVE  (\E n \in Nat : IsBlock(frames'[i].slots, Lasts'[i], owner', n)) /\ Locals'[i] = Locals[i]
  <2>1. /\ frames[i].slots \in Nat /\ 1 <= frames[i].slots
        /\ Lasts[i] \in Nat /\ Lasts[i] <= Top /\ Lasts'[i] \in Nat /\ Lasts'[i] <= Top'
        /\ i = Len(frames) => Lasts[i] = Top /\ Lasts'[i] = Top'
        /\ i # Len(frames) => Lasts'[i] = Lasts[i]
    BY Zenon, <1>2
  <2>2. ASSUME NEW s \in frames[i].slots..Lasts'[i], owner'[s] # Temporary
        PROVE  s <= Lasts[i] /\ owner'[s] = owner[s]
    <3>0. s \in 1..Top'
      BY <1>2b, <2>1
    <3>1. s \in Nat /\ s \in DOMAIN owner'
      BY <1>2b, <3>0
    <3>2. s \in 1..Top /\ owner'[s] = owner[s]
      BY <1>2b, <2>2, <3>1 DEF SameNamed
    <3>. QED
      BY <2>1, <3>2
  <2>3. ASSUME NEW s \in frames[i].slots..Lasts[i], owner[s] # Temporary
        PROVE  s <= Lasts'[i] /\ owner'[s] = owner[s]
    <3>0. s \in 1..Top
      BY <1>2b, <2>1
    <3>1. s \in Nat /\ s \in DOMAIN owner
      BY <1>2b, <3>0
    <3>2. s \in 1..Top' /\ owner'[s] = owner[s]
      BY <1>2b, <2>3, <3>1 DEF SameNamed
    <3>. QED
      BY <2>1, <3>2
  <2>. QED
    BY Zenon, <1>1, <1>2, <2>2, <2>3, LocalsKept
<1>4. Activations = [i \in 1..Len(frames) |-> [closure |-> frames[i].closure, locals |-> Locals[i]]]
  BY Zenon, <1>2, ActivationsOfFrames DEF ActivationsMapped
<1>5. Activations' = [i \in 1..Len(frames) |-> [closure |-> frames[i].closure, locals |-> Locals'[i]]]
  BY Zenon, <1>2, ActivationsNext DEF ActivationsMapped
<1>6. Activations' = Activations
  BY <1>3, <1>4, <1>5
<1>7. Blocks'
  BY Zenon, <1>2, <1>3 DEF Blocks
<1>8. NamedInFrames'
  <2>1. SUFFICES ASSUME NEW s \in DOMAIN owner', owner'[s] # Temporary
                 PROVE  frames # <<>> /\ frames[1].slots <= s
    BY DEF NamedInFrames
  <2>2. s \in Nat
    BY <1>2b, <2>1
  <2>3. s \in DOMAIN owner /\ owner[s] # Temporary
    BY <2>1, <2>2 DEF SameNamed
  <2>. QED
    BY <1>1, <2>3 DEF NamedInFrames
<1>. QED
  BY <1>6, <1>7, <1>8

LEMMA RunningPlaces ==
    ASSUME IInv, Running
    PROVE  /\ Len(frames) \in Nat /\ Len(frames) # 0 /\ Len(frames) \in 1..Len(frames)
           /\ DOMAIN frames = 1..Len(frames) /\ Frame = frames[Len(frames)]
           /\ Frame.slots \in 1..Top /\ Frame.slots \in Nat /\ Top \in Nat
           /\ Frame.closure \in DOMAIN captures /\ Lasts[Len(frames)] = Top
           /\ frames[1].slots \in Nat /\ frames[1].slots <= Frame.slots /\ 1 <= frames[1].slots
           /\ \A i \in 1..Len(frames) : i # Len(frames) => frames[i + 1].slots <= Frame.slots
<1>. DEFINE m == Len(frames)
<1>1. TypeOK /\ Shape /\ FramesStacked
  BY DEF IInv
<1>2. /\ Len(frames) \in DOMAIN frames /\ 1 \in DOMAIN frames /\ Frame = frames[Len(frames)]
      /\ Frame.slots \in 1..Top /\ frames[1].slots \in 1..Frame.slots
  BY <1>1, RunningFrame
<1>3. m \in Nat /\ DOMAIN frames = 1..m /\ Top \in Nat
  BY Zenon, Places DEF PlacesInStack
<1>4. Frame.closure \in DOMAIN captures /\ Lasts[m] = Top
  BY Zenon, <1>2, <1>3, Places DEF PlacesInStack
<1>5. \A i \in 1..m : frames[i].slots \in Nat
  BY Zenon, Places DEF PlacesInStack
<1>. HIDE DEF m
<1>6. m # 0 /\ m \in 1..m
  BY <1>2, <1>3 DEF m
<1>7. ASSUME NEW i \in 1..m, i # m
      PROVE  frames[i + 1].slots <= Frame.slots
  <2>1. i + 1 \in 1..m
    BY <1>3, <1>7
  <2>2. CASE i + 1 = m
    BY <1>2, <1>5, <1>6, <2>2 DEF m
  <2>3. CASE i + 1 # m
    <3>1. i + 1 < m
      BY <1>3, <2>1, <2>3
    <3>2. frames[i + 1].slots < frames[m].slots
      BY <1>1, <1>3, <1>6, <2>1, <3>1 DEF FramesStacked
    <3>. QED
      BY <1>2, <1>5, <1>6, <2>1, <3>2 DEF m
  <2>. QED
    BY <2>2, <2>3
<1>8. Frame.slots \in Nat /\ frames[1].slots \in Nat /\ frames[1].slots <= Frame.slots /\ 1 <= frames[1].slots
  BY <1>2, <1>3
<1>. QED
  BY Zenon, <1>2, <1>3, <1>4, <1>6, <1>7, <1>8 DEF m

LEMMA NotLast ==
    ASSUME NEW m \in Nat, NEW i \in 1..m, i # m
    PROVE  i \in Nat /\ i # 0 /\ i + 1 \in 1..m /\ i < m
OBVIOUS

\* Another sequence of locals in one activation.
LEMMA LocalsReplaced ==
    ASSUME NEW before \in Seq(Activation), NEW after \in Seq(Activation), Len(after) = Len(before),
           NEW m \in 1..Len(before), NEW L \in Seq(Nat),
           \A i \in 1..Len(before) : i # m => after[i] = before[i],
           after[m].closure = before[m].closure, after[m].locals = L
    PROVE  after = [before EXCEPT ![m].locals = L]
<1>. DEFINE n == Len(before)
<1>1. n \in Nat /\ DOMAIN before = 1..n /\ DOMAIN after = 1..n
  OBVIOUS
<1>2. before[m] \in Activation /\ after[m] \in Activation
  BY <1>1, ElementOfSeq
<1>3. after[m] = [before[m] EXCEPT !.locals = L]
  BY <1>2 DEF Activation
<1>4. \A i \in 1..n : after[i] = IF i = m THEN [before[m] EXCEPT !.locals = L] ELSE before[i]
  BY <1>3
<1>5. after = [i \in 1..n |-> after[i]]
  <2>1. after \in [1..n -> Activation]
    BY <1>1
  <2>. QED
    BY <2>1
<1>6. [before EXCEPT ![m].locals = L] = [i \in 1..n |-> IF i = m THEN [before[m] EXCEPT !.locals = L] ELSE before[i]]
  <2>. HIDE DEF n
  <2>. QED
    BY Zenon, <1>1
<1>. QED
  BY <1>4, <1>5, <1>6

\* The top frame gets other variables, and no other frame changes.
LEMMA TopChanges ==
    ASSUME RInv, IInv', Running, frames' = frames,
           \A s \in 1..Frame.slots - 1 : owner'[s] = owner[s],
           NEW k \in Nat, IsBlock(Frame.slots, Top', owner', k)
    PROVE  /\ Blocks' /\ NamedInFrames'
           /\ Locals'[Len(frames)] = [j \in 1..k |-> owner'[Frame.slots + j]]
           /\ Activations' = [Activations EXCEPT ![Len(Activations)].locals = Locals'[Len(frames)]]
<1>. DEFINE m == Len(frames)
            base == Frame.slots
<1>1. IInv /\ Blocks /\ NamedInFrames
  BY DEF RInv
<1>2. /\ m \in Nat /\ m \in 1..m /\ DOMAIN frames = 1..m /\ Frame = frames[m]
      /\ base \in 1..Top /\ base \in Nat /\ Top \in Nat
      /\ frames[1].slots \in Nat /\ frames[1].slots <= base /\ 1 <= frames[1].slots
      /\ \A i \in 1..m : i # m => frames[i + 1].slots <= base
  BY Zenon, <1>1, RunningPlaces
<1>3. Lasts'[m] = Top' /\ Top' \in Nat /\ DOMAIN owner' = 1..Top' /\ DOMAIN owner = 1..Top
  BY Zenon, <1>1, <1>2, Places, PlacesNext DEF PlacesInStack
<1>3b. /\ base \in Nat /\ Top \in Nat /\ base <= Top /\ Top' \in Nat
       /\ frames[1].slots \in Nat /\ frames[1].slots <= base
  <2>1. base \in 1..Top /\ base \in Nat /\ Top \in Nat /\ frames[1].slots \in Nat /\ frames[1].slots <= base
    BY Zenon, <1>2
  <2>2. Top' \in Nat
    BY <1>3
  <2>. HIDE DEF base
  <2>. QED
    BY <2>1, <2>2
<1>4. IsBlock(frames'[m].slots, Lasts'[m], owner', k)
  BY Zenon, <1>2, <1>3
<1>5. Locals'[m] = [j \in 1..k |-> owner'[base + j]]
  <2>1. BlocksNamed'
    BY PlacesNext
  <2>2. m \in DOMAIN frames'
    BY <1>2
  <2>3. Locals'[m] = [j \in 1..k |-> owner'[frames'[m].slots + j]]
    BY Zenon, <1>4, <2>1, <2>2 DEF BlocksNamed
  <2>. QED
    BY <1>2, <2>3
<1>6. ASSUME NEW i \in 1..m, i # m
      PROVE  (\E n \in Nat : IsBlock(frames'[i].slots, Lasts'[i], owner', n)) /\ Locals'[i] = Locals[i]
  <2>1. i \in Nat /\ i # 0 /\ i + 1 \in 1..m
    <3>1. m \in Nat
      BY Zenon, <1>2
    <3>. HIDE DEF m
    <3>. QED
      BY <1>6, <3>1, NotLast
  <2>2. frames[i + 1].slots <= base /\ frames[i + 1].slots \in Nat
    <3>1. frames[i + 1].slots \in Nat
      BY Zenon, <1>1, <2>1, Places DEF PlacesInStack
    <3>. QED
      BY Zenon, <1>2, <1>6, <3>1
  <2>3. \A s \in 1..frames[i + 1].slots - 1 : owner'[s] = owner[s]
    <3>1. \A s \in 1..frames[i + 1].slots - 1 : s \in 1..base - 1
      <4>1. base \in Nat /\ frames[i + 1].slots \in Nat /\ frames[i + 1].slots <= base
        BY Zenon, <1>2, <2>2
      <4>. HIDE DEF base
      <4>. QED
        BY <4>1
    <3>. QED
      BY <3>1
  <2>. QED
    BY Zenon, <1>1, <1>2, <2>1, <2>3, LowerKept
<1>7. Blocks'
  <2>1. \A i \in 1..m : \E n \in Nat : IsBlock(frames'[i].slots, Lasts'[i], owner', n)
    BY <1>4, <1>6
  <2>. QED
    BY Zenon, <1>2, <2>1 DEF Blocks
<1>8. NamedInFrames'
  <2>1. SUFFICES ASSUME NEW s \in 1..Top', owner'[s] # Temporary
                 PROVE  frames[1].slots <= s
    BY Zenon, <1>2, <1>3 DEF NamedInFrames, Running
  <2>2. CASE s < base
    <3>1. s \in 1..base - 1 /\ s \in 1..Top
      <4>1. base \in Nat /\ Top \in Nat /\ s \in Nat /\ 1 <= s /\ base <= Top
        BY <1>3b
      <4>. HIDE DEF base
      <4>. QED
        BY <2>2, <4>1
    <3>2. owner[s] # Temporary
      BY <2>1, <3>1
    <3>. QED
      BY <1>1, <1>3, <3>1, <3>2 DEF NamedInFrames
  <2>3. CASE ~(s < base)
    <3>1. base \in Nat /\ frames[1].slots \in Nat /\ frames[1].slots <= base /\ s \in Nat
      BY <1>3b
    <3>. HIDE DEF base
    <3>. QED
      BY <2>3, <3>1
  <2>. QED
    BY <2>2, <2>3
<1>9. Activations' = [Activations EXCEPT ![Len(Activations)].locals = Locals'[m]]
  <2>1. ActivationsTyped /\ ActivationsTyped'
    BY <1>1, <1>7, ActivationsAreTyped, ActivationsTypedNext
  <2>2. /\ Activations \in Seq(Activation) /\ Activations' \in Seq(Activation)
        /\ Len(Activations) = m /\ Len(Activations') = m
    BY <2>1 DEF ActivationsTyped
  <2>3. \A i \in 1..m : /\ Activations[i].closure = frames[i].closure /\ Activations'[i].closure = frames[i].closure
                        /\ Activations[i].locals = Locals[i] /\ Activations'[i].locals = Locals'[i]
                        /\ Activations[i] \in Activation /\ Activations'[i] \in Activation
    BY <2>1 DEF ActivationsTyped
  <2>. HIDE DEF m
  <2>4. \A i \in 1..m : i # m => Activations'[i] = Activations[i]
    <3>1. SUFFICES ASSUME NEW i \in 1..m, i # m PROVE Activations'[i] = Activations[i]
      OBVIOUS
    <3>2. Activations'[i].closure = Activations[i].closure /\ Activations'[i].locals = Activations[i].locals
      BY <1>6, <2>3, <3>1
    <3>3. Activations[i] \in Activation /\ Activations'[i] \in Activation
      BY <2>3
    <3>. QED
      BY <3>2, <3>3 DEF Activation
  <2>5. Activations'[m].closure = Activations[m].closure /\ Activations'[m].locals = Locals'[m] /\ m \in 1..m
    BY <1>2, <2>3
  <2>6. Locals'[m] \in Seq(Nat)
    <3>1. Activations'[m] \in Activation
      BY <2>3, <2>5
    <3>2. Activations'[m].locals \in Seq(Nat)
      BY <3>1 DEF Activation
    <3>. QED
      BY <2>5, <3>2
  <2>. DEFINE before == Activations
              after == Activations'
              L == Locals'[m]
  <2>7. /\ before \in Seq(Activation) /\ after \in Seq(Activation) /\ Len(before) = m /\ Len(after) = Len(before)
        /\ m \in 1..Len(before) /\ L \in Seq(Nat)
        /\ \A i \in 1..Len(before) : i # m => after[i] = before[i]
        /\ after[m].closure = before[m].closure /\ after[m].locals = L
    BY <2>2, <2>4, <2>5, <2>6
  <2>8. after = [before EXCEPT ![m].locals = L]
    <3>. HIDE DEF before, after, L
    <3>. QED
      BY SMTT(30), <2>7, LocalsReplaced
  <2>. QED
    BY <2>7, <2>8
<1>. QED
  BY <1>5, <1>7, <1>8, <1>9

LEMMA BlockGrows ==
    ASSUME NEW base \in Nat, NEW top \in Nat, NEW t \in Nat, base < t, t <= top + 1,
           NEW names, NEW later, NEW n \in Nat, IsBlock(base, top, names, n),
           \A s \in base + 1..t - 1 : names[s] # Temporary,
           \A s \in base..top : s >= t => names[s] = Temporary,
           \A s \in base..t - 1 : later[s] = names[s], later[t] # Temporary
    PROVE  n = t - 1 - base /\ IsBlock(base, t, later, n + 1)
<1>1. n <= top - base /\ \A s \in base..top : names[s] # Temporary <=> s > base /\ s <= base + n
  BY DEF IsBlock
<1>2. ~(n > t - 1 - base)
  <2>1. SUFFICES ASSUME n > t - 1 - base PROVE FALSE
    OBVIOUS
  <2>2. t \in base..top /\ t > base /\ t <= base + n
    BY <1>1, <2>1
  <2>. QED
    BY <1>1, <2>2
<1>3. ~(n < t - 1 - base)
  <2>1. SUFFICES ASSUME n < t - 1 - base PROVE FALSE
    OBVIOUS
  <2>2. base + n + 1 \in base + 1..t - 1 /\ base + n + 1 \in base..top /\ ~(base + n + 1 <= base + n)
    BY <2>1
  <2>. QED
    BY <1>1, <2>2
<1>4. n = t - 1 - base
  BY <1>2, <1>3
<1>5. ASSUME NEW s \in base..t
      PROVE  later[s] # Temporary <=> s > base /\ s <= base + (n + 1)
  <2>1. CASE s = t
    BY <1>4, <2>1
  <2>2. CASE s # t
    <3>1. s \in base..t - 1 /\ s \in base..top
      BY <2>2
    <3>2. names[s] # Temporary <=> s > base /\ s <= base + n
      BY <1>1, <3>1
    <3>3. s <= base + n /\ s <= base + (n + 1)
      BY <1>4, <3>1
    <3>. QED
      BY <3>1, <3>2, <3>3
  <2>. QED
    BY <2>1, <2>2
<1>6. n + 1 \in 0..t - base
  BY <1>4
<1>. QED
  BY <1>4, <1>5, <1>6 DEF IsBlock

LEMMA BlockShrinks ==
    ASSUME NEW base \in Nat, NEW top \in Nat, base < top,
           NEW names, NEW later, NEW n \in Nat, IsBlock(base, top, names, n), names[top] # Temporary,
           \A s \in base..top - 1 : later[s] = names[s]
    PROVE  n # 0 /\ n - 1 \in Nat /\ IsBlock(base, top - 1, later, n - 1)
<1>1. n <= top - base /\ \A s \in base..top : names[s] # Temporary <=> s > base /\ s <= base + n
  BY DEF IsBlock
<1>2. top \in base..top
  OBVIOUS
<1>3. n = top - base
  BY <1>1, <1>2
<1>4. ASSUME NEW s \in base..top - 1
      PROVE  later[s] # Temporary <=> s > base /\ s <= base + (n - 1)
  <2>1. s \in base..top
    OBVIOUS
  <2>2. names[s] # Temporary <=> s > base /\ s <= base + n
    BY <1>1, <2>1
  <2>3. s <= base + n /\ s <= base + (n - 1)
    BY <1>3
  <2>. QED
    BY <2>2, <2>3
<1>5. n - 1 \in 0..(top - 1) - base
  BY <1>3
<1>. QED
  BY <1>3, <1>4, <1>5 DEF IsBlock

\* The value on top becomes a variable, or a variable is pushed.
LEMMA TopGrows ==
    ASSUME RInv, IInv', Running, frames' = frames, NEW t \in Nat, Top' = t, t > Frame.slots, t <= Top + 1,
           OnlyLocals(t - 1), \A s \in 1..Top : s >= t => owner[s] = Temporary,
           \A s \in 1..t - 1 : owner'[s] = owner[s], owner'[t] # Temporary
    PROVE  /\ Blocks' /\ NamedInFrames'
           /\ Activations' = [Activations EXCEPT ![Len(Activations)].locals = Append(@, owner'[t])]
<1>. DEFINE m == Len(frames)
            base == Frame.slots
<1>1. IInv /\ Blocks /\ IInv'
  BY DEF RInv
<1>2. m \in 1..m /\ DOMAIN frames = 1..m /\ Frame = frames[m] /\ Lasts[m] = Top
  BY Zenon, <1>1, RunningPlaces
<1>3. base \in Nat /\ Top \in Nat /\ 1 <= base /\ base <= Top
  <2>1. base \in 1..Top /\ base \in Nat /\ Top \in Nat
    BY Zenon, <1>1, RunningPlaces
  <2>. HIDE DEF base
  <2>. QED
    BY <2>1
<1>4. PICK n \in Nat : IsBlock(base, Top, owner, n)
  <2>1. \E n \in Nat : IsBlock(frames[m].slots, Lasts[m], owner, n)
    BY <1>1, <1>2 DEF Blocks
  <2>. QED
    BY <1>2, <2>1
<1>5. n = t - 1 - base /\ IsBlock(base, t, owner', n + 1)
  <2>1. \A s \in base + 1..t - 1 : owner[s] # Temporary
    BY DEF OnlyLocals
  <2>. HIDE DEF base
  <2>2. \A s \in base..Top : s >= t => owner[s] = Temporary
    BY <1>3
  <2>3. \A s \in base..t - 1 : owner'[s] = owner[s]
    BY <1>3
  <2>4. base < t
    BY <1>3 DEF base
  <2>. QED
    BY <1>3, <1>4, <2>1, <2>2, <2>3, <2>4, BlockGrows
<1>6. n + 1 \in Nat
  OBVIOUS
<1>7. \A s \in 1..base - 1 : owner'[s] = owner[s]
  <2>1. base < t
    OBVIOUS
  <2>. HIDE DEF base
  <2>2. \A s \in 1..base - 1 : s \in 1..t - 1
    BY <1>3, <2>1
  <2>. QED
    BY <2>2
<1>8. /\ Blocks' /\ NamedInFrames'
      /\ Locals'[m] = [j \in 1..n + 1 |-> owner'[base + j]]
      /\ Activations' = [Activations EXCEPT ![Len(Activations)].locals = Locals'[m]]
  BY <1>5, <1>6, <1>7, TopChanges
<1>9. Locals[m] = [j \in 1..n |-> owner[base + j]] /\ Locals[m] \in Seq(Nat) /\ Len(Locals[m]) = n
  <2>1. IsBlock(frames[m].slots, Lasts[m], owner, n)
    BY <1>2, <1>4
  <2>. QED
    BY <1>1, <1>2, <2>1, NamesOfBlock DEF BlocksNamed
<1>10. Locals'[m] = Append(Locals[m], owner'[t])
  <2>1. \A j \in 1..n : base + j \in 1..t - 1
    <3>. HIDE DEF base
    <3>. QED
      BY <1>3, <1>5
  <2>2. base + (n + 1) = t
    <3>. HIDE DEF base
    <3>. QED
      BY <1>3, <1>5
  <2>3. \A j \in 1..n : owner'[base + j] = owner[base + j]
    BY <2>1
  <2>4. Append(Locals[m], owner'[t]) = [j \in 1..n + 1 |-> IF j = n + 1 THEN owner'[t] ELSE Locals[m][j]]
    <3>. HIDE DEF m
    <3>. QED
      BY <1>9
  <2>5. \A j \in 1..n + 1 : owner'[base + j] = IF j = n + 1 THEN owner'[t] ELSE Locals[m][j]
    <3>1. SUFFICES ASSUME NEW j \in 1..n + 1
                   PROVE  owner'[base + j] = IF j = n + 1 THEN owner'[t] ELSE Locals[m][j]
      OBVIOUS
    <3>2. CASE j = n + 1
      BY <2>2, <3>2
    <3>3. CASE j # n + 1
      <4>1. j \in 1..n
        BY <3>3
      <4>. QED
        BY <1>9, <2>3, <3>3, <4>1
    <3>. QED
      BY <3>2, <3>3
  <2>. QED
    BY <1>8, <2>4, <2>5
<1>11. Activations \in Seq(Activation) /\ Len(Activations) = m /\ Activations[m].locals = Locals[m]
  BY <1>1, <1>2, ActivationsAreTyped DEF ActivationsTyped
<1>. HIDE DEF m
<1>12. [Activations EXCEPT ![m].locals = Append(@, owner'[t])]
           = [Activations EXCEPT ![m].locals = Append(Locals[m], owner'[t])]
  BY <1>11
<1>. QED
  BY Zenon, <1>8, <1>10, <1>11, <1>12

\* The innermost variable goes.
LEMMA TopShrinks ==
    ASSUME RInv, IInv', Running, frames' = frames, Top' = Top - 1, Top > Frame.slots, owner[Top] # Temporary,
           \A s \in 1..Top - 1 : owner'[s] = owner[s]
    PROVE  /\ Blocks' /\ NamedInFrames' /\ Scope!Running.locals # <<>>
           /\ Activations' = [Activations EXCEPT ![Len(Activations)].locals = SubSeq(@, 1, Len(@) - 1)]
<1>. DEFINE m == Len(frames)
            base == Frame.slots
<1>1. IInv /\ Blocks /\ IInv'
  BY DEF RInv
<1>2. m \in 1..m /\ DOMAIN frames = 1..m /\ Frame = frames[m] /\ Lasts[m] = Top
  BY Zenon, <1>1, RunningPlaces
<1>3. base \in Nat /\ Top \in Nat /\ 1 <= base /\ base < Top
  <2>1. base \in 1..Top /\ base \in Nat /\ Top \in Nat /\ Top > base
    BY Zenon, <1>1, RunningPlaces
  <2>. HIDE DEF base
  <2>. QED
    BY <2>1
<1>4. PICK n \in Nat : IsBlock(base, Top, owner, n)
  <2>1. \E n \in Nat : IsBlock(frames[m].slots, Lasts[m], owner, n)
    BY <1>1, <1>2 DEF Blocks
  <2>. QED
    BY <1>2, <2>1
<1>5. n # 0 /\ n - 1 \in Nat /\ IsBlock(base, Top - 1, owner', n - 1)
  <2>. HIDE DEF base
  <2>1. \A s \in base..Top - 1 : owner'[s] = owner[s]
    BY <1>3
  <2>. QED
    BY <1>3, <1>4, <2>1, BlockShrinks
<1>6. \A s \in 1..base - 1 : owner'[s] = owner[s]
  <2>. HIDE DEF base
  <2>1. \A s \in 1..base - 1 : s \in 1..Top - 1
    BY <1>3
  <2>. QED
    BY <2>1
<1>7. /\ Blocks' /\ NamedInFrames'
      /\ Locals'[m] = [j \in 1..n - 1 |-> owner'[base + j]]
      /\ Activations' = [Activations EXCEPT ![Len(Activations)].locals = Locals'[m]]
  BY <1>5, <1>6, TopChanges
<1>8. Locals[m] = [j \in 1..n |-> owner[base + j]] /\ Locals[m] \in Seq(Nat) /\ Len(Locals[m]) = n
  <2>1. IsBlock(frames[m].slots, Lasts[m], owner, n)
    BY <1>2, <1>4
  <2>. QED
    BY <1>1, <1>2, <2>1, NamesOfBlock DEF BlocksNamed
<1>9. Locals'[m] = SubSeq(Locals[m], 1, n - 1)
  <2>0. n <= Top - base
    <3>. HIDE DEF base
    <3>. QED
      BY <1>3, <1>4 DEF IsBlock
  <2>1. \A j \in 1..n - 1 : base + j \in 1..Top - 1 /\ j \in 1..n
    <3>. HIDE DEF base
    <3>. QED
      BY <1>3, <1>5, <2>0
  <2>2. \A j \in 1..n - 1 : owner'[base + j] = Locals[m][j]
    BY <1>8, <2>1
  <2>3. n - 1 \in 0..Len(Locals[m])
    BY <1>5, <1>8
  <2>. DEFINE r == SubSeq(Locals[m], 1, n - 1)
  <2>4. r \in Seq(Nat) /\ DOMAIN r = 1..n - 1 /\ \A j \in 1..n - 1 : r[j] = Locals[m][j]
    BY <1>8, <2>3, Prefix
  <2>5. r = [j \in 1..n - 1 |-> r[j]]
    <3>. HIDE DEF r
    <3>. QED
      BY <2>4
  <2>. HIDE DEF r
  <2>6. r = [j \in 1..n - 1 |-> owner'[base + j]]
    BY <2>2, <2>4, <2>5
  <2>. QED
    BY <1>7, <2>6 DEF r
<1>10. Activations \in Seq(Activation) /\ Len(Activations) = m /\ Activations[m].locals = Locals[m]
  BY <1>1, <1>2, ActivationsAreTyped DEF ActivationsTyped
<1>. HIDE DEF m
<1>11. [Activations EXCEPT ![m].locals = SubSeq(@, 1, Len(@) - 1)]
           = [Activations EXCEPT ![m].locals = SubSeq(Locals[m], 1, n - 1)]
  BY <1>8, <1>10
<1>12. Scope!Running.locals # <<>>
  <2>1. Scope!Running.locals = Locals[m]
    BY <1>10 DEF Scope!Running
  <2>2. Len(Locals[m]) # 0
    BY <1>5, <1>8
  <2>. QED
    BY <2>1, <2>2
<1>. QED
  BY Zenon, <1>7, <1>9, <1>10, <1>11, <1>12

LEMMA Appended ==
    ASSUME NEW S, NEW s \in Seq(S), NEW x \in S
    PROVE  Append(s, x) = [i \in 1..Len(s) + 1 |-> IF i = Len(s) + 1 THEN x ELSE s[i]]
<1>. DEFINE r == Append(s, x)
            n == Len(s)
<1>0. n \in Nat
  OBVIOUS
<1>1. /\ r \in Seq(S) /\ Len(r) = n + 1 /\ r[n + 1] = x /\ \A i \in 1..n : r[i] = s[i]
  BY AppendProperties
<1>. HIDE DEF r, n
<1>2. r \in [1..n + 1 -> S]
  BY <1>1
<1>3. r = [i \in 1..n + 1 |-> r[i]]
  BY <1>2
<1>4. \A i \in 1..n + 1 : i \in 1..n \/ i = n + 1
  BY <1>0
<1>5. \A i \in 1..n + 1 : r[i] = IF i = n + 1 THEN x ELSE s[i]
  BY <1>1, <1>4
<1>6. r = [i \in 1..n + 1 |-> IF i = n + 1 THEN x ELSE s[i]]
  BY <1>3, <1>5
<1>. QED
  BY <1>6 DEF r, n

\* A new frame above the others, for closure f, with its arguments as variables.
LEMMA FramePushed ==
    ASSUME RInv, IInv', NEW f, NEW base \in Nat, 1 <= base, base <= Top',
           frames' = Append(frames, [closure |-> f, slots |-> base]),
           \A s \in 1..base - 1 : s \in DOMAIN owner /\ owner'[s] = owner[s],
           \A s \in DOMAIN owner : s >= base => owner[s] = Temporary,
           NEW k \in Nat, IsBlock(base, Top', owner', k)
    PROVE  /\ Blocks' /\ NamedInFrames'
           /\ Activations' = Append(Activations, [closure |-> f, locals |-> [j \in 1..k |-> owner'[base + j]]])
<1>. DEFINE m == Len(frames)
<1>1. IInv /\ Blocks /\ NamedInFrames
  BY DEF RInv
<1>2. /\ m \in Nat /\ DOMAIN frames = 1..m /\ Top \in Nat /\ DOMAIN owner = 1..Top
      /\ Top' \in Nat /\ DOMAIN owner' = 1..Top'
  BY Zenon, <1>1, Places, PlacesNext DEF PlacesInStack
<1>3. /\ Len(frames') = m + 1 /\ DOMAIN frames' = 1..m + 1 /\ frames'[m + 1] = [closure |-> f, slots |-> base]
      /\ \A i \in 1..m : frames'[i] = frames[i]
  <2>. DEFINE F == [closure : Closure, slots : Nat]
              new == [closure |-> f, slots |-> base]
  <2>1. frames \in Seq(F)
    BY <1>1 DEF IInv, Shape
  <2>. HIDE DEF F, new
  <2>2. \E S : frames \in Seq(S) /\ new \in S
    <3>1. frames \in Seq(F \cup {new}) /\ new \in F \cup {new}
      BY <2>1
    <3>. QED
      BY <3>1
  <2>3. PICK S : frames \in Seq(S) /\ new \in S
    BY <2>2
  <2>4. frames' = Append(frames, new)
    BY DEF new
  <2>5. /\ Len(frames') = m + 1 /\ DOMAIN frames' = 1..m + 1 /\ frames'[m + 1] = new
        /\ \A i \in 1..m : frames'[i] = frames[i]
    BY <2>3, <2>4, AppendProperties
  <2>. QED
    BY <2>5 DEF new
<1>4. frames'[m + 1].closure = f /\ frames'[m + 1].slots = base
  BY <1>3
<1>5. Lasts'[m + 1] = Top'
  BY <1>3, PlacesNext DEF PlacesInStack
<1>6. m + 1 \in 1..m + 1
  <2>1. m \in Nat
    BY <1>2
  <2>. HIDE DEF m
  <2>. QED
    BY <2>1
<1>7. IsBlock(frames'[m + 1].slots, Lasts'[m + 1], owner', k)
  BY <1>4, <1>5
<1>8. Locals'[m + 1] = [j \in 1..k |-> owner'[base + j]]
  <2>1. m + 1 \in DOMAIN frames'
    BY <1>3, <1>6
  <2>. QED
    BY <1>4, <1>7, <2>1, PlacesNext DEF BlocksNamed
<1>9. ASSUME NEW i \in 1..m
      PROVE  (\E n \in Nat : IsBlock(frames'[i].slots, Lasts'[i], owner', n)) /\ Locals'[i] = Locals[i]
  <2>1. i \in DOMAIN frames /\ i \in DOMAIN frames' /\ i # m + 1 /\ frames'[i].slots = frames[i].slots
    <3>1. i \in 1..m + 1 /\ i # m + 1
      <4>1. m \in Nat
        BY <1>2
      <4>. HIDE DEF m
      <4>. QED
        BY <4>1
    <3>. QED
      BY <1>2, <1>3, <3>1
  <2>2. /\ frames[i].slots \in Nat /\ Lasts[i] \in Nat /\ 1 <= frames[i].slots /\ Lasts[i] <= Top
        /\ i = m => Lasts[i] = Top
        /\ i # m => i + 1 \in 1..m /\ Lasts[i] = frames[i + 1].slots - 1
    BY Zenon, <1>1, Places DEF PlacesInStack
  <2>3. Lasts'[i] = frames'[i + 1].slots - 1 /\ Lasts'[i] \in Nat /\ frames'[i + 1].slots \in Nat
    BY <1>3, <2>1, PlacesNext DEF PlacesInStack
  <2>4. CASE i = m
    <3>1. Lasts'[i] = base - 1 /\ Lasts[i] = Top
      BY <1>4, <2>2, <2>3, <2>4
    <3>2. base - 1 \in Nat /\ base - 1 <= Top
      <4>1. base - 1 = 0 \/ base - 1 \in 1..base - 1
        OBVIOUS
      <4>2. base - 1 \in 1..Top \/ base - 1 = 0
        BY <1>2, <4>1
      <4>. QED
        BY <1>2, <4>2
    <3>3. ASSUME NEW s \in frames[i].slots..Lasts'[i], owner'[s] # Temporary
          PROVE  s <= Lasts[i] /\ owner'[s] = owner[s]
      <4>1. s \in 1..base - 1
        BY <2>2, <3>1
      <4>2. s <= Top
        BY <1>2, <3>2, <4>1
      <4>. QED
        BY <3>1, <4>1, <4>2
    <3>4. ASSUME NEW s \in frames[i].slots..Lasts[i], owner[s] # Temporary
          PROVE  s <= Lasts'[i] /\ owner'[s] = owner[s]
      <4>1. s \in 1..Top
        <5>1. /\ frames[i].slots \in Nat /\ 1 <= frames[i].slots /\ Lasts[i] = Top /\ Top \in Nat
              /\ s \in frames[i].slots..Lasts[i]
          BY <1>2, <2>2, <3>1
        <5>. QED
          BY ONLY <5>1
      <4>2. ~(s >= base)
        BY <1>2, <3>4, <4>1
      <4>3. s \in 1..base - 1
        BY <4>1, <4>2
      <4>. QED
        BY <3>1, <4>3
    <3>. QED
      BY <1>1, <2>1, <3>3, <3>4, LocalsKept
  <2>5. CASE i # m
    <3>1. i + 1 \in 1..m /\ i \in Nat /\ i # 0
      BY <2>2, <2>5
    <3>2. frames'[i + 1].slots = frames[i + 1].slots /\ i + 1 \in DOMAIN frames /\ i + 1 \in DOMAIN frames'
      <4>1. i + 1 \in 1..m + 1
        <5>1. m \in Nat
          BY <1>2
        <5>. HIDE DEF m
        <5>. QED
          BY <3>1, <5>1
      <4>. QED
        BY <1>2, <1>3, <3>1, <4>1
    <3>3. frames[i + 1].slots <= base
      <4>1. i + 1 < m + 1 /\ i + 1 \in DOMAIN frames' /\ m + 1 \in DOMAIN frames'
        <5>1. m \in Nat
          BY <1>2
        <5>2. i + 1 < m + 1
          <6>. HIDE DEF m
          <6>. QED
            BY <3>1, <5>1
        <5>. QED
          BY <1>3, <1>6, <3>2, <5>2
      <4>2. frames'[i + 1].slots < frames'[m + 1].slots
        BY <4>1 DEF IInv, FramesStacked
      <4>. QED
        BY <1>4, <2>3, <3>2, <4>2
    <3>4. \A s \in 1..frames[i + 1].slots - 1 : owner'[s] = owner[s]
      <4>1. frames[i + 1].slots \in Nat
        BY <2>3, <3>2
      <4>2. \A s \in 1..frames[i + 1].slots - 1 : s \in 1..base - 1
        BY <3>3, <4>1
      <4>. QED
        BY <4>2
    <3>. QED
      BY <1>1, <2>1, <3>1, <3>2, <3>4, LowerKept
  <2>. QED
    BY <2>4, <2>5
<1>10. \A i \in 1..m + 1 : i \in 1..m \/ i = m + 1
  <2>1. m \in Nat
    BY <1>2
  <2>. HIDE DEF m
  <2>. QED
    BY <2>1
<1>11. Blocks'
  <2>1. \A i \in 1..m + 1 : \E n \in Nat : IsBlock(frames'[i].slots, Lasts'[i], owner', n)
    BY <1>7, <1>9, <1>10
  <2>. QED
    BY <1>3, <2>1 DEF Blocks
<1>12. NamedInFrames'
  <2>1. frames' # <<>> /\ 1 \in 1..m + 1
    <3>1. 1 \in 1..m + 1
      <4>1. m \in Nat
        BY <1>2
      <4>. HIDE DEF m
      <4>. QED
        BY <4>1
    <3>. QED
      BY <1>3, <3>1
  <2>2. SUFFICES ASSUME NEW s \in 1..Top', owner'[s] # Temporary
                 PROVE  frames'[1].slots <= s
    BY <1>2, <2>1 DEF NamedInFrames
  <2>3. CASE m = 0
    <3>1. frames'[1].slots = base
      <4>1. m + 1 = 1
        <5>. HIDE DEF m
        <5>. QED
          BY <2>3
      <4>. QED
        BY <1>4, <4>1
    <3>2. CASE s < base
      <4>1. s \in 1..base - 1
        BY <1>2, <3>2
      <4>2. owner[s] # Temporary /\ s \in DOMAIN owner
        BY <2>2, <4>1
      <4>. QED
        BY <1>1, <1>2, <2>3, <4>2 DEF NamedInFrames
    <3>. QED
      BY <1>2, <3>1, <3>2
  <2>4. CASE m # 0
    <3>1. 1 \in 1..m /\ frames'[1].slots = frames[1].slots /\ frames # <<>>
      <4>1. m \in Nat /\ m # 0
        BY <1>2, <2>4
      <4>2. 1 \in 1..m
        <5>. HIDE DEF m
        <5>. QED
          BY <4>1
      <4>. QED
        BY <1>3, <2>4, <4>2
    <3>2. CASE s < base
      <4>1. s \in 1..base - 1
        BY <1>2, <3>2
      <4>2. owner[s] # Temporary /\ s \in DOMAIN owner
        BY <2>2, <4>1
      <4>. QED
        BY <1>1, <3>1, <4>2 DEF NamedInFrames
    <3>3. CASE ~(s < base)
      <4>1. 1 \in DOMAIN frames' /\ m + 1 \in DOMAIN frames' /\ 1 < m + 1
        <5>1. m \in Nat /\ m # 0
          BY <1>2, <2>4
        <5>2. 1 < m + 1
          <6>. HIDE DEF m
          <6>. QED
            BY <5>1
        <5>. QED
          BY <1>3, <1>6, <2>1, <5>2
      <4>2. frames'[1].slots < frames'[m + 1].slots
        BY <4>1 DEF IInv, FramesStacked
      <4>3. frames'[1].slots \in Nat
        BY <1>3, <4>1, PlacesNext DEF PlacesInStack
      <4>. QED
        BY <1>2, <1>4, <3>3, <4>2, <4>3
    <3>. QED
      BY <3>2, <3>3
  <2>. QED
    BY <2>3, <2>4
<1>13. Activations' = Append(Activations, [closure |-> f, locals |-> [j \in 1..k |-> owner'[base + j]]])
  <2>. DEFINE new == [closure |-> f, locals |-> [j \in 1..k |-> owner'[base + j]]]
  <2>1. Activations \in Seq(Activation) /\ Len(Activations) = m
        /\ \A i \in 1..m : Activations[i] = [closure |-> frames[i].closure, locals |-> Locals[i]]
    <3>1. Activations \in Seq(Activation) /\ Len(Activations) = m
      BY <1>1, ActivationsAreTyped DEF ActivationsTyped
    <3>2. Activations = [i \in 1..m |-> [closure |-> frames[i].closure, locals |-> Locals[i]]]
      BY <1>2, ActivationsOfFrames DEF ActivationsMapped
    <3>. QED
      BY <3>1, <3>2
  <2>2. Activations' = [i \in 1..m + 1 |-> [closure |-> frames'[i].closure, locals |-> Locals'[i]]]
    BY <1>3, ActivationsNext DEF ActivationsMapped
  <2>3. \A i \in 1..m + 1 : [closure |-> frames'[i].closure, locals |-> Locals'[i]]
                               = IF i = m + 1 THEN new ELSE Activations[i]
    <3>1. SUFFICES ASSUME NEW i \in 1..m + 1
                   PROVE  [closure |-> frames'[i].closure, locals |-> Locals'[i]]
                               = IF i = m + 1 THEN new ELSE Activations[i]
      OBVIOUS
    <3>2. CASE i = m + 1
      BY <1>4, <1>8, <3>2
    <3>3. CASE i # m + 1
      <4>1. i \in 1..m
        BY <1>10, <3>3
      <4>2. frames'[i] = frames[i] /\ Locals'[i] = Locals[i]
        BY <1>3, <1>9, <4>1
      <4>. QED
        BY <2>1, <3>3, <4>1, <4>2
    <3>. QED
      BY <3>2, <3>3
  <2>. HIDE DEF new, m
  <2>4. Append(Activations, new) = [i \in 1..m + 1 |-> IF i = m + 1 THEN new ELSE Activations[i]]
    <3>1. Activations \in Seq(Activation) /\ Len(Activations) = m
      BY <2>1
    <3>2. Activations \in Seq(Activation \cup {new}) /\ new \in Activation \cup {new}
      BY <3>1
    <3>. QED
      BY <3>1, <3>2, Appended
  <2>5. Activations' = [i \in 1..m + 1 |-> IF i = m + 1 THEN new ELSE Activations[i]]
    BY <2>2, <2>3
  <2>. QED
    BY <2>4, <2>5 DEF new
<1>. QED
  BY <1>11, <1>12, <1>13

\* No frame is left.
LEMMA NoFrames ==
    ASSUME frames' = <<>>, \A s \in DOMAIN owner' : owner'[s] = Temporary
    PROVE  Blocks' /\ NamedInFrames' /\ Activations' = <<>>
<1>1. DOMAIN frames' = {}
  OBVIOUS
<1>2. Blocks' /\ NamedInFrames'
  BY <1>1 DEF Blocks, NamedInFrames
<1>3. Activations' = [i \in {} |-> [closure |-> frames'[i].closure, locals |-> Locals'[i]]]
  BY <1>1, ActivationsNext DEF ActivationsMapped
<1>. QED
  BY <1>2, <1>3

\* The top frame goes, with its variables.
LEMMA FramePopped ==
    ASSUME RInv, IInv', Running, frames' = SubSeq(frames, 1, Len(frames) - 1), Len(frames) # 1,
           \A s \in DOMAIN owner' : owner'[s] # Temporary => s < Frame.slots /\ owner'[s] = owner[s],
           \A s \in 1..Frame.slots - 1 : s \in DOMAIN owner' /\ owner'[s] = owner[s]
    PROVE  /\ Blocks' /\ NamedInFrames'
           /\ Activations' = SubSeq(Activations, 1, Len(Activations) - 1)
<1>. DEFINE m == Len(frames)
            base == Frame.slots
<1>1. IInv /\ Blocks /\ NamedInFrames
  BY DEF RInv
<1>2. /\ m \in Nat /\ m # 0 /\ DOMAIN frames = 1..m /\ Frame = frames[m] /\ Top \in Nat
      /\ DOMAIN owner = 1..Top /\ Top' \in Nat /\ DOMAIN owner' = 1..Top' /\ base \in Nat /\ 1 <= base
      /\ base <= Top
  <2>1. /\ m \in Nat /\ m # 0 /\ DOMAIN frames = 1..m /\ Frame = frames[m] /\ Top \in Nat /\ base \in 1..Top
    BY Zenon, <1>1, RunningPlaces
  <2>2. DOMAIN owner = 1..Top /\ Top' \in Nat /\ DOMAIN owner' = 1..Top'
    BY Zenon, <1>1, Places, PlacesNext DEF PlacesInStack
  <2>3. base \in Nat /\ 1 <= base /\ base <= Top
    <3>. HIDE DEF base
    <3>. QED
      BY <2>1
  <2>. QED
    BY <2>1, <2>2, <2>3
<1>3. m \in Nat /\ m # 0 /\ m # 1
  BY <1>2
<1>4. m - 1 \in Nat /\ m - 1 \in 0..m /\ m - 1 # 0 /\ m \in 1..m /\ 1 \in 1..m - 1
  <2>. HIDE DEF m
  <2>. QED
    BY <1>3
<1>5. /\ Len(frames') = m - 1 /\ DOMAIN frames' = 1..m - 1
      /\ \A i \in 1..m - 1 : frames'[i] = frames[i]
  <2>. DEFINE F == [closure : Closure, slots : Nat]
  <2>1. frames \in Seq(F)
    BY <1>1 DEF IInv, Shape
  <2>. HIDE DEF F
  <2>. QED
    BY <1>4, <2>1, Prefix
<1>6. ASSUME NEW i \in 1..m - 1
      PROVE  (\E n \in Nat : IsBlock(frames'[i].slots, Lasts'[i], owner', n)) /\ Locals'[i] = Locals[i]
  <2>1. i \in 1..m /\ i # m /\ i \in Nat /\ i # 0 /\ i + 1 \in 1..m
    <3>. HIDE DEF m
    <3>. QED
      BY <1>3
  <2>2. i \in DOMAIN frames /\ i \in DOMAIN frames' /\ frames'[i].slots = frames[i].slots
    BY <1>2, <1>5, <2>1
  <2>3. /\ frames[i].slots \in Nat /\ 1 <= frames[i].slots /\ Lasts[i] \in Nat
        /\ Lasts[i] = frames[i + 1].slots - 1
    BY Zenon, <1>1, <2>1, Places DEF PlacesInStack
  <2>4. CASE i = m - 1
    <3>1. i + 1 = m /\ i = Len(frames')
      <4>1. i + 1 = m
        <5>. HIDE DEF m
        <5>. QED
          BY <1>3, <2>4
      <4>. QED
        BY <1>5, <2>4, <4>1
    <3>2. Lasts[i] = base - 1
      BY Zenon, <1>2, <2>3, <3>1
    <3>3. Lasts'[i] = Top'
      BY <2>2, <3>1, PlacesNext DEF PlacesInStack
    <3>4. ASSUME NEW s \in frames[i].slots..Lasts'[i], owner'[s] # Temporary
          PROVE  s <= Lasts[i] /\ owner'[s] = owner[s]
      <4>1. s \in 1..Top' /\ s \in DOMAIN owner'
        BY <1>2, <2>3, <3>3
      <4>2. s < base /\ owner'[s] = owner[s]
        BY <3>4, <4>1
      <4>3. base \in Nat /\ s \in Nat
        BY <1>2, <4>1
      <4>. HIDE DEF base
      <4>. QED
        BY <3>2, <4>2, <4>3
    <3>5. ASSUME NEW s \in frames[i].slots..Lasts[i], owner[s] # Temporary
          PROVE  s <= Lasts'[i] /\ owner'[s] = owner[s]
      <4>1. s \in 1..base - 1
        <5>1. base \in Nat /\ frames[i].slots \in Nat /\ 1 <= frames[i].slots
          BY <1>2, <2>3
        <5>. HIDE DEF base
        <5>. QED
          BY <3>2, <5>1
      <4>2. s \in 1..Top' /\ owner'[s] = owner[s]
        BY <1>2, <4>1
      <4>. QED
        BY <1>2, <3>3, <4>2
    <3>. QED
      BY <1>1, <2>2, <3>4, <3>5, LocalsKept
  <2>5. CASE i # m - 1
    <3>1. i + 1 \in 1..m - 1
      <4>. HIDE DEF m
      <4>. QED
        BY <1>3, <2>5
    <3>2. frames'[i + 1].slots = frames[i + 1].slots /\ i + 1 \in DOMAIN frames /\ i + 1 \in DOMAIN frames'
      BY Zenon, <1>2, <1>5, <2>1, <3>1
    <3>3. frames[i + 1].slots <= base
      <4>1. \A j \in 1..m : j # m => frames[j + 1].slots <= base
        BY Zenon, <1>1, RunningPlaces
      <4>. QED
        BY <2>1, <4>1
    <3>4. \A s \in 1..frames[i + 1].slots - 1 : owner'[s] = owner[s]
      <4>1. frames[i + 1].slots \in Nat /\ base \in Nat
        <5>1. frames[i + 1].slots \in Nat
          BY Zenon, <1>1, <2>1, Places DEF PlacesInStack
        <5>. QED
          BY <1>2, <5>1
      <4>2. \A s \in 1..frames[i + 1].slots - 1 : s \in 1..base - 1
        <5>. HIDE DEF base
        <5>. QED
          BY <3>3, <4>1
      <4>. QED
        BY <4>2
    <3>. QED
      BY <1>1, <2>1, <2>2, <3>2, <3>4, LowerKept
  <2>. QED
    BY <2>4, <2>5
<1>7. Blocks'
  BY <1>5, <1>6 DEF Blocks
<1>8. NamedInFrames'
  <2>1. frames' # <<>> /\ frames'[1].slots = frames[1].slots
    BY <1>4, <1>5
  <2>2. SUFFICES ASSUME NEW s \in DOMAIN owner', owner'[s] # Temporary
                 PROVE  frames[1].slots <= s
    BY <2>1 DEF NamedInFrames
  <2>3. s < base /\ owner'[s] = owner[s] /\ s \in 1..Top'
    BY <1>2, <2>2
  <2>4. s \in 1..Top
    <3>1. base \in Nat /\ base <= Top /\ Top \in Nat /\ Top' \in Nat
      BY <1>2
    <3>. HIDE DEF base
    <3>. QED
      BY <2>3, <3>1
  <2>. QED
    BY <1>1, <1>2, <2>2, <2>3, <2>4 DEF NamedInFrames
<1>9. Activations' = SubSeq(Activations, 1, Len(Activations) - 1)
  <2>1. Activations \in Seq(Activation) /\ Len(Activations) = m
    BY <1>1, ActivationsAreTyped DEF ActivationsTyped
  <2>2. \A i \in 1..m : Activations[i] = [closure |-> frames[i].closure, locals |-> Locals[i]]
    BY <1>2, ActivationsOfFrames DEF ActivationsMapped
  <2>3. Activations' = [i \in 1..m - 1 |-> [closure |-> frames'[i].closure, locals |-> Locals'[i]]]
    BY <1>5, ActivationsNext DEF ActivationsMapped
  <2>4. \A i \in 1..m - 1 : [closure |-> frames'[i].closure, locals |-> Locals'[i]] = Activations[i]
    <3>1. \A i \in 1..m - 1 : i \in 1..m
      <4>. HIDE DEF m
      <4>. QED
        BY <1>3
    <3>. QED
      BY <1>5, <1>6, <2>2, <3>1
  <2>. HIDE DEF m
  <2>. DEFINE r == SubSeq(Activations, 1, m - 1)
  <2>5. r \in Seq(Activation) /\ Len(r) = m - 1 /\ \A i \in 1..m - 1 : r[i] = Activations[i]
    <3>1. m - 1 \in 0..Len(Activations)
      BY <1>4, <2>1
    <3>. QED
      BY <2>1, <3>1, Prefix
  <2>. HIDE DEF r
  <2>6. r = [i \in 1..m - 1 |-> r[i]]
    BY <2>5
  <2>7. r = [i \in 1..m - 1 |-> Activations[i]]
    BY <2>5, <2>6
  <2>8. Activations' = [i \in 1..m - 1 |-> Activations[i]]
    BY <2>3, <2>4
  <2>. QED
    BY <2>1, <2>7, <2>8 DEF r
<1>. QED
  BY <1>7, <1>8, <1>9

-----------------------------------------------------------------------------
(* The cells.                                                                *)

\* A variable's value is in its slot or, when it has left, in its upvalue.
StoreHolds ==
    /\ DOMAIN Store = Visible
    /\ \A s \in DOMAIN owner : owner[s] # Temporary => owner[s] \in Visible /\ Store[owner[s]] = stack[s]
    /\ \A c \in DOMAIN captures : \A i \in DOMAIN captures[c] :
           /\ captures[c][i] \in Visible
           /\ Location(closures[c].upvalues[i]) = 0
                  => Store[captures[c][i]] = upvalues[closures[c].upvalues[i]].closed

LEMMA StoreIsHeld == RInv => StoreHolds
<1>. SUFFICES ASSUME RInv PROVE StoreHolds
  OBVIOUS
<1>. USE DEF Temporary
<1>1. IInv /\ OneLocation /\ Shape /\ VariablesDistinct /\ CapturesMatch /\ TypeOK
  BY DEF RInv, IInv
<1>2. /\ DOMAIN owner = 1..Top /\ Top \in Nat
      /\ \A s \in 1..Top : owner[s] # 0 => owner[s] \in Variable
  BY <1>1, Places DEF PlacesInStack
<1>3. DOMAIN Store = Visible /\ \A x \in Visible : Store[x] = ValueOf(x)
  BY Zenon DEF Store, ValueOf
<1>4. ASSUME NEW s \in 1..Top, owner[s] # 0
      PROVE  owner[s] \in Visible /\ Store[owner[s]] = stack[s]
  <2>. DEFINE x == owner[s]
  <2>1. x \in Visible
    BY <1>2, <1>4 DEF Visible
  <2>2. \A t \in 1..Top : owner[t] = x => t = s
    BY <1>1, <1>2, <1>4 DEF VariablesDistinct
  <2>3. (CHOOSE t \in 1..Top : owner[t] = x) = s
    <3>. HIDE DEF x
    <3>1. owner[s] = x
      BY DEF x
    <3>. QED
      BY <2>2, <3>1
  <2>4. ValueOf(x) = stack[s]
    <3>1. \E t \in DOMAIN owner : owner[t] = x
      BY <1>2
    <3>. QED
      BY Zenon, <1>2, <2>3, <3>1 DEF ValueOf
  <2>. QED
    BY <1>3, <2>1, <2>4
<1>5. ASSUME NEW c \in DOMAIN captures, NEW i \in DOMAIN captures[c]
      PROVE  captures[c][i] \in Visible
  <2>1. captures[c] \in Seq(Variable)
    BY <1>1 DEF Shape
  <2>2. captures[c][i] \in Variable
    BY <2>1
  <2>. QED
    BY <2>2 DEF Visible, IsCaptured
<1>6. ASSUME NEW c \in DOMAIN captures, NEW i \in DOMAIN captures[c], Location(closures[c].upvalues[i]) = 0
      PROVE  Store[captures[c][i]] = upvalues[closures[c].upvalues[i]].closed
  <2>. DEFINE x == captures[c][i]
              u == closures[c].upvalues[i]
              Has(d) == \E j \in DOMAIN captures[d] : captures[d][j] = x
              e == CHOOSE d \in DOMAIN captures : Has(d)
              k == CHOOSE j \in DOMAIN captures[e] : captures[e][j] = x
  <2>1. DOMAIN captures = DOMAIN closures
    BY <1>1 DEF TypeOK
  <2>2. ~(\E s \in DOMAIN owner : owner[s] = x)
    <3>1. SUFFICES ASSUME \E s \in DOMAIN owner : owner[s] = x PROVE FALSE
      OBVIOUS
    <3>2. Location(u) \in DOMAIN owner
      BY <1>1, <2>1, <3>1 DEF OneLocation
    <3>. QED
      BY <1>2, <1>6, <3>2
  <2>3. e \in DOMAIN captures /\ Has(e)
    <3>1. Has(c)
      OBVIOUS
    <3>. HIDE DEF Has
    <3>. QED
      BY <3>1
  <2>. HIDE DEF e
  <2>4. k \in DOMAIN captures[e] /\ captures[e][k] = x
    BY <2>3
  <2>. HIDE DEF k
  <2>5. closures[e].upvalues[k] = u
    BY <1>1, <2>1, <2>3, <2>4 DEF OneLocation
  <2>6. ValueOf(x) = upvalues[closures[e].upvalues[k]].closed
    BY Zenon, <2>2 DEF ValueOf, e, k
  <2>. QED
    BY <1>3, <1>5, <2>5, <2>6
<1>. QED
  BY <1>2, <1>3, <1>4, <1>5, <1>6 DEF StoreHolds

LEMMA StoreNext ==
    ASSUME RInv'
    PROVE  StoreHolds' /\ ReachedIsVisible'
BY StoreIsHeld, ReachesVisible, PTL

LEMMA PartsNext ==
    ASSUME RInv'
    PROVE  IInv' /\ OneLocation' /\ PlacesInStack'
BY Places, PTL DEF RInv

\* The variables but those of X keep their values: in their slots, or in an
\* upvalue that takes the value of the slot.
Kept(X) ==
    /\ \A s \in DOMAIN owner' : owner'[s] # Temporary /\ owner'[s] \notin X =>
           s \in DOMAIN owner /\ owner[s] = owner'[s] /\ stack'[s] = stack[s]
    /\ \A c \in DOMAIN captures :
           c \in DOMAIN captures' /\ captures'[c] = captures[c] /\ closures'[c] = closures[c]
    /\ \A c \in DOMAIN captures' : \A i \in DOMAIN captures'[c] :
           \/ captures'[c][i] \in X
           \/ \E s \in DOMAIN owner' : owner'[s] = captures'[c][i]
           \/ \E d \in DOMAIN captures : \E j \in DOMAIN captures[d] : captures[d][j] = captures'[c][i]
    /\ \A c \in DOMAIN captures : \A i \in DOMAIN captures[c] :
           LET u == closures[c].upvalues[i]
           IN  \/ captures[c][i] \in X
               \/ upvalues'[u] = upvalues[u]
               \/ Location(u) \in DOMAIN stack /\ upvalues'[u].closed = stack[Location(u)]

LEMMA CellsKept ==
    ASSUME RInv, RInv', NEW X, Kept(X)
    PROVE  Scope!Preserved(X)
<1>. USE DEF Temporary
<1>1. StoreHolds /\ StoreHolds' /\ ReachedIsVisible'
  BY StoreIsHeld, StoreNext
<1>2. IInv /\ OneLocation /\ OneLocation' /\ TypeOK /\ TypeOK'
  BY PartsNext DEF RInv, IInv
<1>3. /\ DOMAIN owner = 1..Top /\ DOMAIN stack = 1..Top /\ Top \in Nat
      /\ DOMAIN owner' = 1..Top' /\ Top' \in Nat
  BY Zenon, <1>2, Places, PartsNext DEF PlacesInStack
<1>4. DOMAIN captures = DOMAIN closures /\ DOMAIN captures' = DOMAIN closures'
  BY <1>2 DEF TypeOK
<1>5. ASSUME NEW x \in Visible' \ X
      PROVE  x \in Visible /\ Store'[x] = Store[x]
  <2>1. x \in Variable /\ x # 0
    <3>1. x \in Variable
      BY DEF Visible
    <3>. QED
      BY <3>1 DEF Variable
  <2>2. CASE \E s \in DOMAIN owner' : owner'[s] = x
    <3>1. PICK s \in DOMAIN owner' : owner'[s] = x
      BY <2>2
    <3>2. s \in DOMAIN owner /\ owner[s] = x /\ stack'[s] = stack[s]
      BY <1>5, <2>1, <3>1 DEF Kept
    <3>3. Store'[x] = stack'[s]
      BY <1>1, <2>1, <3>1 DEF StoreHolds
    <3>4. x \in Visible /\ Store[x] = stack[s]
      BY <1>1, <2>1, <3>2 DEF StoreHolds
    <3>. QED
      BY <3>2, <3>3, <3>4
  <2>3. CASE ~(\E s \in DOMAIN owner' : owner'[s] = x)
    <3>1. \E c \in DOMAIN captures' : \E i \in DOMAIN captures'[c] : captures'[c][i] = x
      BY <2>3 DEF Visible, IsCaptured
    <3>2. \E d \in DOMAIN captures : \E j \in DOMAIN captures[d] : captures[d][j] = x
      BY <1>5, <2>3, <3>1 DEF Kept
    <3>3. PICK d \in DOMAIN captures : \E j \in DOMAIN captures[d] : captures[d][j] = x
      BY <3>2
    <3>4. PICK j \in DOMAIN captures[d] : captures[d][j] = x
      BY <3>3
    <3>. DEFINE u == closures[d].upvalues[j]
    <3>5. d \in DOMAIN captures' /\ captures'[d] = captures[d] /\ closures'[d] = closures[d]
      BY DEF Kept
    <3>6. j \in DOMAIN captures'[d] /\ captures'[d][j] = x /\ closures'[d].upvalues[j] = u
      BY <3>4, <3>5
    <3>7. upvalues'[u].location = 0
      <4>1. Location(u)' = 0
        BY <1>2, <1>4, <2>3, <3>5, <3>6 DEF OneLocation
      <4>. QED
        BY <4>1, <3>6, <3>5 DEF Location
    <3>8. Store'[x] = upvalues'[u].closed
      BY <1>1, <3>5, <3>6, <3>7 DEF StoreHolds, Location
    <3>9. x \in Visible
      BY <1>1, <3>4 DEF StoreHolds
    <3>10. CASE upvalues'[u] = upvalues[u]
      <4>1. Location(u) = 0
        BY <3>7, <3>10 DEF Location
      <4>2. Store[x] = upvalues[u].closed
        BY <1>1, <3>4, <4>1 DEF StoreHolds
      <4>. QED
        BY <3>8, <3>9, <3>10, <4>2
    <3>11. CASE Location(u) \in DOMAIN stack /\ upvalues'[u].closed = stack[Location(u)]
      <4>1. Location(u) # 0
        BY <1>3, <3>11
      <4>2. Location(u) \in DOMAIN owner /\ owner[Location(u)] = x
        BY <1>2, <1>4, <3>4, <4>1 DEF OneLocation
      <4>3. Store[x] = stack[Location(u)]
        BY <1>1, <2>1, <4>2 DEF StoreHolds
      <4>. QED
        BY <3>8, <3>9, <3>11, <4>3
    <3>12. upvalues'[u] = upvalues[u] \/ (Location(u) \in DOMAIN stack /\ upvalues'[u].closed = stack[Location(u)])
      BY <1>5, <3>4 DEF Kept
    <3>. QED
      BY <3>10, <3>11, <3>12
  <2>. QED
    BY <2>2, <2>3
<1>6. /\ DOMAIN Store = Visible /\ DOMAIN Store' = Visible'
      /\ Scope!Reachable(Activations', captures') = Visible'
  BY <1>1 DEF StoreHolds, ReachedIsVisible
<1>. QED
  BY <1>5, <1>6 DEF Scope!Preserved

StoreTyped == \A x \in Visible : Store[x] \in Value

LEMMA StoreIsTyped == RInv => StoreTyped
<1>. SUFFICES ASSUME RInv, NEW x \in Visible PROVE Store[x] \in Value
  BY DEF StoreTyped
<1>. USE DEF Temporary
<1>1. IInv /\ OneLocation /\ TypeOK /\ Shape /\ CapturesMatch /\ StoreHolds
  BY StoreIsHeld DEF RInv, IInv
<1>2. DOMAIN owner = 1..Top /\ \A s \in 1..Top : stack[s] \in Value
  BY <1>1, Stacks
<1>3. x # 0
  BY DEF Visible, Variable
<1>4. CASE \E s \in DOMAIN owner : owner[s] = x
  BY <1>1, <1>2, <1>3, <1>4 DEF StoreHolds
<1>5. CASE ~\E s \in DOMAIN owner : owner[s] = x
  <2>1. PICK c \in DOMAIN captures : \E i \in DOMAIN captures[c] : captures[c][i] = x
    BY <1>5 DEF Visible, IsCaptured
  <2>2. PICK i \in DOMAIN captures[c] : captures[c][i] = x
    BY <2>1
  <2>. DEFINE u == closures[c].upvalues[i]
  <2>3. c \in DOMAIN closures /\ i \in DOMAIN closures[c].upvalues
    BY <1>1 DEF TypeOK, CapturesMatch
  <2>4. Location(u) = 0
    BY <1>1, <1>5, <2>2, <2>3 DEF OneLocation
  <2>5. Store[x] = upvalues[u].closed
    BY <1>1, <2>2, <2>4 DEF StoreHolds
  <2>6. u \in DOMAIN upvalues
    BY <1>1, <2>3 DEF TypeOK
  <2>7. upvalues[u].closed \in Value
    <3>. HIDE DEF u
    <3>. QED
      BY <1>1, <2>6 DEF TypeOK
  <2>. QED
    BY <2>5, <2>7
<1>. QED
  BY <1>4, <1>5

LEMMA StoreTypedNext ==
    ASSUME RInv'
    PROVE  StoreTyped'
BY StoreIsTyped, PTL

StoreIsFunction == Store = [x \in Visible |-> Store[x]]

LEMMA StoreFunction == StoreIsFunction
<1>1. Store = [x \in Visible |-> ValueOf(x)]
  BY DEF Store
<1>2. [x \in Visible |-> ValueOf(x)] = [x \in Visible |-> [y \in Visible |-> ValueOf(y)][x]]
  OBVIOUS
<1>. QED
  BY <1>1, <1>2 DEF StoreIsFunction

LEMMA StoreFunctionNext == StoreIsFunction'
BY StoreFunction, PTL

LEMMA RInvNext ==
    ASSUME ~Interactive, IInv', Blocks', NamedInFrames'
    PROVE  RInv'
BY DEF RInv, IInv

-----------------------------------------------------------------------------
(* Steps that change no variable.                                            *)

LEMMA Stutters ==
    ASSUME ~Interactive, RInv, IInv', SameNamed, UNCHANGED <<frames, upvalues, closures, captures>>,
           \A s \in DOMAIN owner' : owner'[s] # Temporary => stack'[s] = stack[s]
    PROVE  RInv' /\ UNCHANGED Scope!vars
<1>1. Activations' = Activations /\ RInv'
  BY SameActivations, RInvNext
<1>2. DOMAIN owner' = 1..Top' /\ Top' \in Nat
  BY Zenon, PlacesNext DEF PlacesInStack
<1>3. Kept({})
  <2>1. \A s \in DOMAIN owner' : owner'[s] # Temporary => s \in DOMAIN owner /\ owner[s] = owner'[s]
    BY <1>2 DEF SameNamed
  <2>. QED
    BY <2>1 DEF Kept
<1>4. Scope!Preserved({})
  BY <1>1, <1>3, CellsKept
<1>5. Visible' = Visible
  <2>1. ReachedIsVisible /\ ReachedIsVisible'
    BY <1>1, ReachesVisible, StoreNext
  <2>. QED
    BY <1>1, <2>1 DEF ReachedIsVisible
<1>6. \A x \in Visible : Store'[x] = Store[x]
  <2>1. StoreHolds'
    BY <1>1, StoreNext
  <2>. QED
    BY <1>4, <1>5, <2>1 DEF Scope!Preserved, StoreHolds
<1>7. Store' = Store
  BY <1>5, <1>6, StoreFunction, StoreFunctionNext DEF StoreIsFunction
<1>. QED
  BY <1>1, <1>7 DEF Scope!vars

\* Any push of a temporary.
LEMMA PushStutters ==
    ASSUME ~Interactive, RInv, IInv', NEW v, Push(v, Temporary),
           UNCHANGED <<frames, upvalues, closures, captures>>
    PROVE  RInv' /\ UNCHANGED Scope!vars
<1>. USE DEF Temporary
<1>1. IInv /\ TypeOK /\ Shape
  BY DEF RInv, IInv
<1>2. /\ stack \in Seq(Value) /\ owner \in Seq(Names0) /\ Len(owner) = Top /\ Len(stack) = Top /\ Top \in Nat
      /\ DOMAIN owner = 1..Top
  BY <1>1, Stacks DEF Shape, Top
<1>3. stack' = Append(stack, v) /\ owner' = Append(owner, 0)
  BY DEF Push
<1>4. /\ \A s \in 1..Top : stack'[s] = stack[s]
      /\ DOMAIN owner' = 1..Top + 1 /\ owner'[Top + 1] = 0 /\ \A s \in 1..Top : owner'[s] = owner[s]
  <2>1. stack \in Seq(Value \cup {v}) /\ v \in Value \cup {v} /\ owner \in Seq(Names0) /\ 0 \in Names0
    BY <1>2, BoundAssumption DEF Names0
  <2>2. \A s \in 1..Len(stack) : Append(stack, v)[s] = stack[s]
    BY <2>1, AppendProperties
  <2>3. /\ Len(Append(owner, 0)) = Len(owner) + 1 /\ Append(owner, 0)[Len(owner) + 1] = 0
        /\ Append(owner, 0) \in Seq(Names0)
        /\ \A s \in 1..Len(owner) : Append(owner, 0)[s] = owner[s]
    BY <2>1, AppendProperties
  <2>. QED
    BY <1>2, <1>3, <2>2, <2>3
<1>5. \A s \in 1..Top + 1 : s \in 1..Top \/ s = Top + 1
  BY <1>2
<1>6. SameNamed
  <2>1. \A s \in 1..Top : s \in 1..Top + 1
    BY <1>2
  <2>. QED
    BY <1>2, <1>4, <1>5, <2>1 DEF SameNamed
<1>7. \A s \in DOMAIN owner' : owner'[s] # 0 => stack'[s] = stack[s]
  BY <1>4, <1>5
<1>. QED
  BY <1>6, <1>7, Stutters

LEMMA ReadMaps ==
    ASSUME ~Interactive, RInv, IInv',
           \/ \E v \in Data : PushValue(v)
           \/ \E g \in Global : GetGlobal(g)
           \/ \E s \in Nat : GetLocal(s)
           \/ \E i \in Nat : GetUpvalue(i)
    PROVE  RInv' /\ UNCHANGED Scope!vars
<1>1. \E v : Push(v, Temporary) /\ UNCHANGED <<frames, upvalues, closures, captures>>
  BY DEF PushValue, GetGlobal, GetLocal, GetUpvalue
<1>. QED
  BY <1>1, PushStutters

\* A pop of a temporary, or a write to a global.
LEMMA PopMaps ==
    ASSUME ~Interactive, RInv, IInv', HasTemporary,
           \/ stack' = PopN(stack, 1) /\ owner' = PopN(owner, 1)
           \/ UNCHANGED <<stack, owner>>,
           UNCHANGED <<frames, upvalues, closures, captures>>
    PROVE  RInv' /\ UNCHANGED Scope!vars
<1>. USE DEF Temporary
<1>1. IInv /\ TypeOK /\ Shape /\ FramesStacked
  BY DEF RInv, IInv
<1>2. /\ stack \in Seq(Value) /\ owner \in Seq(Names0) /\ Len(owner) = Top /\ Len(stack) = Top /\ Top \in Nat
      /\ DOMAIN owner = 1..Top
  BY <1>1, Stacks DEF Shape, Top
<1>3. Top > Frame.slots /\ owner[Top] = 0 /\ Frame.slots \in 1..Top
  BY <1>1, RunningFrame DEF HasTemporary
<1>4. CASE stack' = PopN(stack, 1) /\ owner' = PopN(owner, 1)
  <2>1. stack' = SubSeq(stack, 1, Top - 1) /\ owner' = SubSeq(owner, 1, Top - 1)
    BY <1>2, <1>4 DEF PopN
  <2>2. Top - 1 \in 0..Top
    BY <1>2, <1>3
  <2>3. /\ \A s \in 1..Top - 1 : stack'[s] = stack[s] /\ owner'[s] = owner[s]
        /\ DOMAIN owner' = 1..Top - 1
    BY <1>2, <2>1, <2>2, Prefix
  <2>4. \A s : s \in 1..Top <=> s \in 1..Top - 1 \/ s = Top
    BY <1>2, <1>3
  <2>5. SameNamed
    BY <1>2, <1>3, <2>3, <2>4 DEF SameNamed
  <2>6. \A s \in DOMAIN owner' : owner'[s] # 0 => stack'[s] = stack[s]
    BY <2>3
  <2>. QED
    BY <2>5, <2>6, Stutters
<1>5. CASE UNCHANGED <<stack, owner>>
  <2>1. SameNamed
    BY <1>5 DEF SameNamed
  <2>. QED
    BY <1>5, <2>1, Stutters
<1>. QED
  BY <1>4, <1>5

-----------------------------------------------------------------------------
(* Writes.                                                                   *)

\* What the running activation sees: its locals and what its closure captured.
LEMMA RunningScope ==
    ASSUME RInv, Running
    PROVE  /\ Activations # <<>> /\ Scope!Running.closure = Frame.closure
           /\ \A s \in LocalSlots : s \in 1..Top /\ owner[s] # Temporary /\ owner[s] \in Scope!Members(Scope!Running.locals)
           /\ Frame.closure \in DOMAIN captures
           /\ \A i \in DOMAIN captures[Frame.closure] : captures[Frame.closure][i] \in Scope!InScope
           /\ \A s \in LocalSlots : owner[s] \in Scope!InScope
<1>. DEFINE m == Len(frames)
<1>1. IInv /\ Blocks
  BY DEF RInv
<1>2. /\ m \in 1..m /\ m # 0 /\ DOMAIN frames = 1..m /\ Frame = frames[m] /\ Lasts[m] = Top
      /\ Frame.slots \in 1..Top /\ Top \in Nat /\ Frame.closure \in DOMAIN captures
  BY Zenon, <1>1, RunningPlaces
<1>3. /\ Len(Activations) = m /\ Activations \in Seq(Activation)
      /\ Activations[m].closure = Frame.closure /\ Activations[m].locals = Locals[m]
  BY <1>1, <1>2, ActivationsAreTyped DEF ActivationsTyped
<1>4. Scope!Running.closure = Frame.closure /\ Scope!Running.locals = Locals[m]
  BY <1>3 DEF Scope!Running
<1>5. ASSUME NEW s \in LocalSlots
      PROVE  s \in 1..Top /\ owner[s] # Temporary /\ owner[s] \in Scope!Members(Locals[m])
  <2>1. s \in Frame.slots..Top /\ owner[s] # Temporary
    BY DEF LocalSlots
  <2>2. PICK n \in Nat : IsBlock(frames[m].slots, Lasts[m], owner, n)
    BY <1>1, <1>2 DEF Blocks
  <2>3. /\ s - frames[m].slots \in 1..n /\ Locals[m][s - frames[m].slots] = owner[s]
        /\ DOMAIN Locals[m] = 1..n
    BY <1>1, <1>2, <2>1, <2>2, LocalsInSlots
  <2>4. s \in 1..Top
    BY <1>2, <2>1
  <2>. QED
    BY <2>1, <2>3, <2>4 DEF Scope!Members
<1>6. Activations # <<>>
  BY <1>2, <1>3
<1>. QED
  BY <1>2, <1>4, <1>5, <1>6 DEF Scope!InScope, Scope!Members

\* What is common to the writes of a variable x that is in scope.
LEMMA Writes ==
    ASSUME ~Interactive, RInv, IInv', Running, UNCHANGED <<frames, closures, owner, captures>>,
           NEW x \in Variable, x \in Scope!InScope, Kept({x})
    PROVE  RInv' /\ Scope!Write(x)
<1>1. SameNamed
  BY DEF SameNamed
<1>2. Activations' = Activations /\ RInv'
  BY <1>1, SameActivations, RInvNext
<1>3. Scope!Preserved({x})
  BY <1>2, CellsKept
<1>4. Visible' = Visible
  <2>1. ReachedIsVisible /\ ReachedIsVisible'
    BY <1>2, ReachesVisible, StoreNext
  <2>. QED
    BY <1>2, <2>1 DEF ReachedIsVisible
<1>5. x \in Visible
  <2>1. ReachedIsVisible
    BY ReachesVisible
  <2>2. x \in Scope!Reachable(Activations, captures)
    <3>1. Activations # <<>> /\ Frame.closure \in DOMAIN captures /\ Scope!Running.closure = Frame.closure
      BY RunningScope
    <3>2. Activations \in Seq(Activation) /\ Len(Activations) \in Nat
      BY ActivationsAreTyped DEF RInv, ActivationsTyped
    <3>3. Len(Activations) \in DOMAIN Activations
      BY <3>1, <3>2
    <3>. QED
      BY <3>1, <3>3 DEF Scope!Reachable, Scope!InScope, Scope!Running
  <2>. QED
    BY <2>1, <2>2 DEF ReachedIsVisible
<1>6. Store'[x] \in Value
  BY <1>2, <1>4, <1>5, StoreTypedNext DEF StoreTyped
<1>. QED
  BY <1>2, <1>3, <1>6, RunningScope DEF Scope!Write

LEMMA SetLocalMaps ==
    ASSUME ~Interactive, RInv, IInv', NEW s, SetLocal(s)
    PROVE  RInv' /\ \E x \in Variable : Scope!Write(x)
<1>. USE DEF Temporary
<1>1. IInv /\ TypeOK /\ Shape
  BY DEF RInv, IInv
<1>2. /\ DOMAIN owner = 1..Top /\ DOMAIN stack = 1..Top /\ \A t \in 1..Top : owner[t] # 0 => owner[t] \in Variable
  BY Zenon, <1>1, Places DEF PlacesInStack
<1>3. Running /\ s \in LocalSlots /\ stack' = [stack EXCEPT ![s] = stack[Top]]
      /\ UNCHANGED <<frames, openUpvalues, upvalues, closures, globals, ran, owner, captures, declared>>
  BY DEF SetLocal, HasTemporary
<1>4. s \in 1..Top /\ owner[s] # 0 /\ owner[s] \in Scope!InScope
  BY <1>3, RunningScope
<1>5. Kept({owner[s]})
  <2>1. \A t \in 1..Top : owner[t] # owner[s] => stack'[t] = stack[t]
    BY <1>2, <1>3
  <2>. QED
    BY <1>2, <1>3, <2>1 DEF Kept
<1>. QED
  BY <1>2, <1>3, <1>4, <1>5, Writes

LEMMA SetUpvalueMaps ==
    ASSUME ~Interactive, RInv, IInv', NEW i, SetUpvalue(i)
    PROVE  RInv' /\ \E x \in Variable : Scope!Write(x)
<1>. USE DEF Temporary
<1>. DEFINE u == closures[Frame.closure].upvalues[i]
            x == captures[Frame.closure][i]
            v == stack[Top]
<1>1. IInv /\ TypeOK /\ Shape /\ CapturesMatch /\ OneLocation /\ VariablesDistinct
  BY DEF RInv, IInv
<1>2. DOMAIN owner = 1..Top /\ DOMAIN stack = 1..Top /\ Top \in Nat
  BY <1>1, Places DEF PlacesInStack
<1>3. /\ Running /\ i \in DOMAIN closures[Frame.closure].upvalues
      /\ upvalues' = IF Location(u) = 0 THEN [upvalues EXCEPT ![u].closed = v] ELSE upvalues
      /\ stack' = IF Location(u) \in DOMAIN stack THEN [stack EXCEPT ![Location(u)] = v] ELSE stack
      /\ UNCHANGED <<frames, closures, owner, captures>>
  BY DEF SetUpvalue, HasTemporary
<1>4. Frame.closure \in DOMAIN captures /\ DOMAIN captures = DOMAIN closures
  BY <1>1, <1>3, RunningScope DEF TypeOK
<1>5. i \in DOMAIN captures[Frame.closure]
  BY <1>1, <1>3, <1>4 DEF CapturesMatch
<1>6. x \in Variable /\ x \in Scope!InScope
  <2>1. captures[Frame.closure] \in Seq(Variable)
    BY <1>1, <1>4 DEF Shape
  <2>2. x \in Variable
    BY <1>5, <2>1
  <2>. QED
    BY <1>3, <1>5, <2>2, RunningScope
<1>7. \A s \in 1..Top : owner[s] # 0 /\ owner[s] # x => stack'[s] = stack[s]
  <2>1. Location(u) \in 1..Top => owner[Location(u)] = x
    <3>1. Location(u) \in 1..Top => Location(u) # 0
      BY <1>2
    <3>. QED
      BY <1>1, <1>2, <1>4, <1>5, <3>1 DEF OneLocation
  <2>. HIDE DEF u, x
  <2>. QED
    BY <1>2, <1>3, <2>1
<1>8. ASSUME NEW c \in DOMAIN captures, NEW j \in DOMAIN captures[c], captures[c][j] # x
      PROVE  upvalues'[closures[c].upvalues[j]] = upvalues[closures[c].upvalues[j]]
  <2>1. closures[c].upvalues[j] # u
    BY <1>1, <1>4, <1>5, <1>8 DEF OneLocation
  <2>. DEFINE w == closures[c].upvalues[j]
  <2>2. w \in DOMAIN upvalues
    BY <1>1, <1>4 DEF TypeOK, CapturesMatch
  <2>. HIDE DEF u, w
  <2>3. w # u
    BY <2>1 DEF w
  <2>. QED
    BY <1>3, <2>2, <2>3 DEF w
<1>. HIDE DEF x
<1>9. Kept({x})
  BY <1>2, <1>3, <1>7, <1>8 DEF Kept
<1>. QED
  BY <1>3, <1>6, <1>9, Writes

-----------------------------------------------------------------------------
(* The scopes of variables.                                                  *)

\* A variable that is declared next is not reachable yet.
LEMMA FreshVariable ==
    ASSUME RInv
    PROVE  \A x \in Nat : x > declared => x \notin Scope!Reachable(Activations, captures)
<1>1. IInv /\ VariablesDistinct /\ ReachedIsVisible /\ TypeOK
  BY ReachesVisible DEF RInv, IInv
<1>2. SUFFICES ASSUME NEW x \in Visible PROVE ~(x > declared)
  BY <1>1 DEF ReachedIsVisible
<1>3. declared \in Nat /\ x \in Nat
  BY <1>1, BoundAssumption DEF TypeOK, Visible, Variable
<1>4. CASE \E s \in DOMAIN owner : owner[s] = x
  BY <1>1, <1>3, <1>4 DEF VariablesDistinct
<1>5. CASE IsCaptured(x)
  BY <1>1, <1>3, <1>5 DEF VariablesDistinct, IsCaptured
<1>. QED
  BY <1>4, <1>5 DEF Visible

LEMMA DeclareLocalMaps ==
    ASSUME ~Interactive, RInv, IInv', DeclareLocal
    PROVE  RInv' /\ \E x \in Variable : Scope!Declare(x) /\ UNCHANGED captures
<1>. USE DEF Temporary
<1>. DEFINE x == declared + 1
<1>1. IInv /\ TypeOK /\ Shape /\ FramesStacked
  BY DEF RInv, IInv
<1>2. /\ owner \in Seq(Names0) /\ Len(owner) = Top /\ Top \in Nat /\ DOMAIN owner = 1..Top
  BY <1>1, Stacks DEF Shape
<1>3. /\ Running /\ owner[Top] = 0 /\ Top > Frame.slots /\ OnlyLocals(Top - 1) /\ declared < VariableBound
      /\ owner' = [owner EXCEPT ![Top] = x]
      /\ UNCHANGED <<stack, frames, upvalues, closures, captures>>
  BY DEF DeclareLocal, HasTemporary, machine
<1>4. Frame.slots \in 1..Top /\ Top \in 1..Top
  <2>1. Frame.slots \in 1..Top
    BY <1>1, <1>3, RunningFrame
  <2>. QED
    BY <1>2, <2>1
<1>5. declared \in Nat /\ x \in Nat /\ x # 0 /\ x > declared /\ x \in Variable
  <2>1. declared \in Nat
    BY <1>1, BoundAssumption DEF TypeOK
  <2>. QED
    BY <1>3, <2>1, BoundAssumption DEF Variable
<1>. HIDE DEF x
<1>6. owner'[Top] = x /\ \A s \in 1..Top - 1 : owner'[s] = owner[s] /\ s \in 1..Top /\ s # Top
  BY <1>2, <1>3, <1>4
<1>7. Top' = Top
  BY <1>3 DEF Top
<1>8. /\ Blocks' /\ NamedInFrames'
      /\ Activations' = [Activations EXCEPT ![Len(Activations)].locals = Append(@, x)]
  <2>. DEFINE t == Top
  <2>1. t \in Nat /\ Top' = t /\ t > Frame.slots /\ t <= Top + 1 /\ OnlyLocals(t - 1)
    BY <1>2, <1>3, <1>7
  <2>2. \A s \in 1..Top : s >= t => owner[s] = 0
    BY <1>2, <1>3
  <2>3. \A s \in 1..t - 1 : owner'[s] = owner[s]
    BY <1>6
  <2>4. owner'[t] = x /\ owner'[t] # 0
    BY <1>5, <1>6
  <2>. HIDE DEF t
  <2>. QED
    BY <1>3, <2>1, <2>2, <2>3, <2>4, TopGrows
<1>9. RInv'
  BY <1>8, RInvNext
<1>10. Kept({x})
  <2>1. DOMAIN owner' = 1..Top /\ \A s \in 1..Top : owner'[s] # x => owner'[s] = owner[s]
    BY <1>2, <1>3, <1>6
  <2>. QED
    BY <1>2, <1>3, <2>1 DEF Kept
<1>11. Scope!Preserved({x})
  BY <1>9, <1>10, CellsKept
<1>12. Activations # <<>> /\ x \notin Scope!Reachable(Activations, captures)
  BY <1>3, <1>5, FreshVariable, RunningScope
<1>. QED
  BY <1>3, <1>5, <1>8, <1>9, <1>11, <1>12 DEF Scope!Declare

\* Every upvalue that closes takes the value of its slot.
LEMMA ClosingMoves ==
    ASSUME TypeOK, Shape, OpenListSorted, NEW last \in Nat, CloseUpvalues(last)
    PROVE  \A u \in DOMAIN upvalues : \/ upvalues'[u] = upvalues[u]
                                      \/ Location(u) \in DOMAIN stack /\ upvalues'[u].closed = stack[Location(u)]
<1>1. PICK n : /\ Closes(n, last)
               /\ upvalues' = [u \in DOMAIN upvalues |->
                                  IF \E j \in 1..n : openUpvalues[j] = u
                                  THEN [location |-> 0, closed |-> stack[Location(u)]]
                                  ELSE upvalues[u]]
  BY Closing
<1>2. SUFFICES ASSUME NEW u \in DOMAIN upvalues, NEW j \in 1..n, openUpvalues[j] = u
               PROVE  Location(u) \in DOMAIN stack /\ upvalues'[u].closed = stack[Location(u)]
  BY <1>1
<1>3. j \in DOMAIN openUpvalues
  BY <1>1, Stacks DEF Closes
<1>4. Location(u) \in DOMAIN stack
  BY <1>2, <1>3 DEF OpenListSorted
<1>5. upvalues'[u] = [location |-> 0, closed |-> stack[Location(u)]]
  BY <1>1, <1>2
<1>. QED
  BY <1>4, <1>5

\* Variables only leave, and their upvalues take their values.
LEMMA KeptWhenLeaving ==
    ASSUME RInv, UNCHANGED <<closures, captures>>,
           \A s \in DOMAIN owner' : owner'[s] # Temporary => s \in DOMAIN owner /\ owner[s] = owner'[s] /\ stack'[s] = stack[s],
           \A u \in DOMAIN upvalues : \/ upvalues'[u] = upvalues[u]
                                      \/ Location(u) \in DOMAIN stack /\ upvalues'[u].closed = stack[Location(u)]
    PROVE  Kept({})
<1>1. TypeOK /\ CapturesMatch
  BY DEF RInv, IInv
<1>2. ASSUME NEW c \in DOMAIN captures, NEW i \in DOMAIN captures[c]
      PROVE  closures[c].upvalues[i] \in DOMAIN upvalues
  BY <1>1 DEF TypeOK, CapturesMatch
<1>. QED
  BY <1>2 DEF Kept

LEMMA EndLocalMaps ==
    ASSUME ~Interactive, RInv, IInv', EndLocal
    PROVE  RInv' /\ Scope!EndScope
<1>. USE DEF Temporary
<1>1. IInv /\ TypeOK /\ Shape /\ FramesStacked /\ OpenListSorted
  BY DEF RInv, IInv
<1>2. /\ stack \in Seq(Value) /\ owner \in Seq(Names0) /\ Len(owner) = Top /\ Len(stack) = Top /\ Top \in Nat
      /\ DOMAIN owner = 1..Top
  BY <1>1, Stacks DEF Shape, Top
<1>3. /\ Running /\ Top \in LocalSlots /\ stack' = PopN(stack, 1) /\ owner' = PopN(owner, 1)
      /\ UNCHANGED <<frames, closures, captures>>
      /\ CloseUpvalues(Top) \/ UNCHANGED <<upvalues, openUpvalues>>
      /\ Top > Frame.slots + closures[Frame.closure].arity
  BY DEF EndLocal
<1>4. Frame.slots \in 1..Top /\ Top > Frame.slots /\ owner[Top] # 0
  <2>1. Frame.slots \in 1..Top /\ Frame.closure \in DOMAIN closures
    BY <1>1, <1>3, RunningFrame
  <2>2. closures[Frame.closure].arity \in Nat
    BY <1>1, <2>1 DEF Shape
  <2>. QED
    BY <1>2, <1>3, <2>1, <2>2 DEF LocalSlots
<1>5. /\ \A s \in 1..Top - 1 : stack'[s] = stack[s] /\ owner'[s] = owner[s] /\ s \in 1..Top
      /\ DOMAIN owner' = 1..Top - 1 /\ Len(stack') = Top - 1
  <2>1. stack' = SubSeq(stack, 1, Top - 1) /\ owner' = SubSeq(owner, 1, Top - 1)
    BY <1>2, <1>3 DEF PopN
  <2>2. Top - 1 \in 0..Top
    BY <1>2, <1>4
  <2>3. \A s \in 1..Top - 1 : s \in 1..Top
    BY <1>2
  <2>. QED
    BY <1>2, <2>1, <2>2, <2>3, Prefix
<1>6. /\ Blocks' /\ NamedInFrames' /\ Scope!Running.locals # <<>>
      /\ Activations' = [Activations EXCEPT ![Len(Activations)].locals = SubSeq(@, 1, Len(@) - 1)]
  <2>1. Top' = Top - 1
    BY <1>5 DEF Top
  <2>2. \A s \in 1..Top - 1 : owner'[s] = owner[s]
    BY <1>5
  <2>. QED
    BY <1>3, <1>4, <2>1, <2>2, TopShrinks
<1>7. RInv'
  BY <1>6, RInvNext
<1>8. \A u \in DOMAIN upvalues : \/ upvalues'[u] = upvalues[u]
                                 \/ Location(u) \in DOMAIN stack /\ upvalues'[u].closed = stack[Location(u)]
  BY <1>1, <1>2, <1>3, ClosingMoves
<1>9. Kept({})
  BY <1>2, <1>3, <1>5, <1>8, KeptWhenLeaving
<1>10. Scope!Preserved({})
  BY <1>7, <1>9, CellsKept
<1>. QED
  BY <1>3, <1>6, <1>7, <1>10, RunningScope DEF Scope!EndScope

-----------------------------------------------------------------------------
(* Calls, and their ends.                                                    *)

LEMMA ReturnMaps ==
    ASSUME ~Interactive, RInv, IInv', Return
    PROVE  RInv' /\ Scope!Return
<1>. USE DEF Temporary
<1>. DEFINE m == Len(frames)
            base == Frame.slots
<1>1. IInv /\ TypeOK /\ Shape /\ FramesStacked /\ OpenListSorted
  BY DEF RInv, IInv
<1>2. /\ stack \in Seq(Value) /\ owner \in Seq(Names0) /\ Len(owner) = Top /\ Len(stack) = Top /\ Top \in Nat
      /\ DOMAIN owner = 1..Top
  BY <1>1, Stacks DEF Shape, Top
<1>3. /\ Running /\ owner[Top] = 0 /\ Top > base
      /\ CloseUpvalues(base) /\ frames' = PopN(frames, 1) /\ UNCHANGED <<closures, captures>>
  BY DEF Return, HasTemporary
<1>4. base \in 1..Top /\ base \in Nat /\ m \in Nat /\ m # 0
  <2>1. /\ m \in Nat /\ m # 0 /\ base \in 1..Top /\ base \in Nat
    BY Zenon, <1>1, <1>3, RunningPlaces
  <2>. QED
    BY <2>1
<1>5. frames' = SubSeq(frames, 1, m - 1)
  BY <1>3 DEF PopN
<1>6. Activations \in Seq(Activation) /\ Len(Activations) = m
  BY <1>1, ActivationsAreTyped DEF RInv, ActivationsTyped
<1>7. /\ Blocks' /\ NamedInFrames' /\ Activations' = SubSeq(Activations, 1, Len(Activations) - 1)
      /\ \A s \in DOMAIN owner' : owner'[s] # 0 => s \in DOMAIN owner /\ owner[s] = owner'[s] /\ stack'[s] = stack[s]
  <2>1. CASE m = 1
    <3>1. owner' = [s \in 1..Top - 2 |-> 0]
      BY <2>1 DEF Return
    <3>2. frames' = <<>>
      <4>1. frames' = SubSeq(frames, 1, 0)
        <5>1. m - 1 = 0
          <6>. HIDE DEF m
          <6>. QED
            BY <2>1
        <5>. QED
          BY <1>5, <5>1
      <4>. QED
        BY <4>1
    <3>3. \A s \in DOMAIN owner' : owner'[s] = 0
      BY <3>1
    <3>4. Blocks' /\ NamedInFrames' /\ Activations' = <<>>
      BY <3>2, <3>3, NoFrames
    <3>5. SubSeq(Activations, 1, Len(Activations) - 1) = <<>>
      <4>1. Len(Activations) - 1 = 0
        BY <1>6, <2>1
      <4>2. SubSeq(Activations, 1, 0) = <<>>
        OBVIOUS
      <4>. QED
        BY <4>1, <4>2
    <3>. QED
      BY <3>3, <3>4, <3>5
  <2>2. CASE m # 1
    <3>1. stack' = Append(SubSeq(stack, 1, base - 1), stack[Top]) /\ owner' = Append(SubSeq(owner, 1, base - 1), 0)
      BY <2>2 DEF Return
    <3>2. base - 1 \in 0..Top
      <4>. HIDE DEF base
      <4>. QED
        BY <1>2, <1>4
    <3>. DEFINE a == SubSeq(stack, 1, base - 1)
                b == SubSeq(owner, 1, base - 1)
    <3>3. a \in Seq(Value) /\ Len(a) = base - 1 /\ \A s \in 1..base - 1 : a[s] = stack[s]
      BY <1>2, <3>2, Prefix
    <3>4. b \in Seq(Names0) /\ Len(b) = base - 1 /\ \A s \in 1..base - 1 : b[s] = owner[s]
      BY <1>2, <3>2, Prefix
    <3>5. stack[Top] \in Value /\ 0 \in Names0
      <4>1. Top \in 1..Top
        <5>. HIDE DEF base
        <5>. QED
          BY <1>2, <1>4
      <4>. QED
        BY <1>2, <4>1, BoundAssumption DEF Names0
    <3>. HIDE DEF a, b
    <3>6. stack' = Append(a, stack[Top]) /\ owner' = Append(b, 0)
      BY <3>1 DEF a, b
    <3>7. \A s \in 1..base - 1 : stack'[s] = stack[s]
      BY <3>3, <3>5, <3>6, AppendProperties
    <3>8. /\ owner' \in Seq(Names0) /\ Len(owner') = (base - 1) + 1 /\ owner'[(base - 1) + 1] = 0
          /\ \A s \in 1..base - 1 : owner'[s] = owner[s]
      BY <3>4, <3>5, <3>6, AppendProperties
    <3>. HIDE DEF base
    <3>9. DOMAIN owner' = 1..base /\ owner'[base] = 0
      <4>1. (base - 1) + 1 = base
        BY <1>4
      <4>. QED
        BY <3>8, <4>1
    <3>10. ASSUME NEW s \in 1..base, owner'[s] # 0
           PROVE  s < base /\ s \in 1..base - 1 /\ owner'[s] = owner[s] /\ s \in 1..Top /\ stack'[s] = stack[s]
      <4>1. s # base
        BY <3>9, <3>10
      <4>2. s < base /\ s \in 1..base - 1
        BY <1>4, <4>1
      <4>3. s \in 1..Top
        BY <1>2, <1>4, <4>2
      <4>. QED
        BY <3>7, <3>8, <4>2, <4>3
    <3>11. \A s \in DOMAIN owner' : owner'[s] # 0 => s < Frame.slots /\ owner'[s] = owner[s]
      BY <3>9, <3>10 DEF base
    <3>12. \A s \in 1..Frame.slots - 1 : s \in DOMAIN owner' /\ owner'[s] = owner[s]
      <4>1. \A s \in 1..base - 1 : s \in 1..base
        BY <1>4
      <4>. QED
        BY <3>8, <3>9, <4>1 DEF base
    <3>13. Blocks' /\ NamedInFrames' /\ Activations' = SubSeq(Activations, 1, Len(Activations) - 1)
      BY <1>3, <1>5, <2>2, <3>11, <3>12, FramePopped
    <3>. QED
      BY <1>2, <3>9, <3>10, <3>13
  <2>. QED
    BY <2>1, <2>2
<1>8. RInv'
  BY <1>7, RInvNext
<1>9. \A u \in DOMAIN upvalues : \/ upvalues'[u] = upvalues[u]
                                 \/ Location(u) \in DOMAIN stack /\ upvalues'[u].closed = stack[Location(u)]
  BY <1>1, <1>3, <1>4, ClosingMoves
<1>10. Kept({})
  BY <1>3, <1>7, <1>9, KeptWhenLeaving
<1>11. Scope!Preserved({})
  BY <1>8, <1>10, CellsKept
<1>. QED
  BY <1>3, <1>7, <1>8, <1>11, RunningScope DEF Scope!Return

\* The process ends, and the heap with it.
LEMMA RuntimeErrorMaps ==
    ASSUME ~Interactive, RInv, IInv', RuntimeError
    PROVE  RInv' /\ Scope!Exit
<1>1. frames' = <<>> /\ owner' = <<>> /\ captures' = NoCaptures
  BY DEF RuntimeError, ResetStack
<1>2. Blocks' /\ NamedInFrames' /\ Activations' = <<>>
  BY <1>1, NoFrames
<1>3. RInv'
  BY <1>2, RInvNext
<1>4. Visible' = {}
  BY <1>1 DEF Visible, IsCaptured, NoCaptures
<1>5. DOMAIN Store' = Visible' /\ Scope!Reachable(Activations', captures') = Visible'
  BY <1>3, StoreNext DEF StoreHolds, ReachedIsVisible
<1>6. Scope!Preserved({})
  BY <1>4, <1>5 DEF Scope!Preserved
<1>. QED
  BY <1>1, <1>2, <1>3, <1>6 DEF Scope!Exit, NoCaptures

\* The script's frame is the first.
LEMMA InterpretMaps ==
    ASSUME ~Interactive, RInv, IInv', Interpret
    PROVE  RInv' /\ Scope!Start
<1>. USE DEF Temporary
<1>. DEFINE base == Top + 1
<1>1. IInv /\ TypeOK /\ Shape /\ NamedInFrames
  BY DEF RInv, IInv
<1>2. /\ stack \in Seq(Value) /\ owner \in Seq(Names0) /\ Len(owner) = Top /\ Len(stack) = Top /\ Top \in Nat
      /\ DOMAIN owner = 1..Top
  BY <1>1, Stacks DEF Shape, Top
<1>3. /\ frames = <<>> /\ stack' = Append(stack, 0) /\ owner' = Append(owner, 0)
      /\ frames' = <<[closure |-> 0, slots |-> base]>>
      /\ UNCHANGED <<upvalues, closures, captures>>
  BY DEF Interpret, Running, Push
<1>4. \A s \in DOMAIN owner : owner[s] = 0
  BY <1>1, <1>3 DEF NamedInFrames
<1>5. /\ Len(owner') = base /\ DOMAIN owner' = 1..base /\ owner'[base] = 0
      /\ \A s \in 1..Top : owner'[s] = owner[s]
  <2>1. 0 \in Names0
    BY BoundAssumption DEF Names0
  <2>. QED
    BY <1>2, <1>3, <2>1, AppendProperties
<1>6. base \in Nat /\ 1 <= base /\ base - 1 = Top /\ \A s \in 1..base : s \in 1..Top \/ s = base
  BY <1>2
<1>. HIDE DEF base
<1>7. \A s \in DOMAIN owner' : owner'[s] = 0
  BY <1>2, <1>4, <1>5, <1>6
<1>8. Top' = base
  <2>1. Len(owner') = Top'
    BY DEF IInv, TypeOK
  <2>. QED
    BY <1>5, <2>1
<1>9. IsBlock(base, Top', owner', 0)
  <2>1. 0 \in 0..base - base /\ base..base = {base}
    BY <1>6
  <2>2. \A s \in base..base : ~(s > base)
    BY <1>6
  <2>. QED
    BY <1>5, <1>8, <2>1, <2>2 DEF IsBlock
<1>10. /\ Blocks' /\ NamedInFrames'
       /\ Activations' = Append(Activations, [closure |-> 0, locals |-> [j \in 1..0 |-> owner'[base + j]]])
  <2>1. frames' = Append(frames, [closure |-> 0, slots |-> base])
    BY <1>3
  <2>2. \A s \in 1..base - 1 : s \in DOMAIN owner /\ owner'[s] = owner[s]
    BY <1>2, <1>5, <1>6
  <2>3. \A s \in DOMAIN owner : s >= base => owner[s] = 0
    BY <1>4
  <2>4. 0 \in Nat /\ base <= Top'
    BY <1>6, <1>8
  <2>. QED
    BY <1>6, <1>9, <2>1, <2>2, <2>3, <2>4, FramePushed
<1>11. Activations = <<>>
  <2>1. Activations = [i \in DOMAIN frames |-> [closure |-> frames[i].closure, locals |-> Locals[i]]]
    BY ActivationsOfFrames DEF ActivationsMapped
  <2>2. DOMAIN frames = {}
    BY <1>3
  <2>. QED
    BY <2>1, <2>2
<1>12. Activations' = <<[closure |-> 0, locals |-> <<>>]>>
  <2>1. [j \in 1..0 |-> owner'[base + j]] = <<>>
    OBVIOUS
  <2>. QED
    BY <1>10, <1>11, <2>1
<1>13. RInv'
  BY <1>10, RInvNext
<1>14. Kept({})
  BY <1>3, <1>7 DEF Kept
<1>15. Scope!Preserved({})
  BY <1>13, <1>14, CellsKept
<1>. QED
  BY <1>3, <1>11, <1>12, <1>13, <1>15 DEF Scope!Start

LEMMA AppendedAndCut ==
    ASSUME NEW S, NEW s \in Seq(S), NEW x
    PROVE  /\ Len(Append(s, x)) = Len(s) + 1 /\ Append(s, x)[Len(s) + 1] = x
           /\ SubSeq(Append(s, x), 1, Len(s)) = s
<1>. DEFINE T == S \cup {x}
            r == Append(s, x)
            n == Len(s)
            c == SubSeq(r, 1, n)
<1>1. s \in Seq(T) /\ x \in T /\ n \in Nat
  OBVIOUS
<1>. HIDE DEF T
<1>2. r \in Seq(T) /\ Len(r) = n + 1 /\ r[n + 1] = x /\ \A i \in 1..n : r[i] = s[i]
  BY <1>1, AppendProperties
<1>3. n \in 0..Len(r)
  <2>. HIDE DEF n, r
  <2>. QED
    BY <1>1, <1>2
<1>4. c \in Seq(T) /\ Len(c) = n /\ \A i \in 1..n : c[i] = r[i]
  <2>. HIDE DEF n, r
  <2>. QED
    BY <1>2, <1>3, Prefix
<1>. HIDE DEF c, r
<1>5. c = s
  <2>1. c = [i \in 1..n |-> c[i]] /\ s = [i \in 1..n |-> s[i]]
    BY <1>1, <1>4
  <2>2. \A i \in 1..n : c[i] = s[i]
    BY <1>2, <1>4
  <2>. QED
    BY <2>1, <2>2
<1>. QED
  BY <1>2, <1>5 DEF r, c

LEMMA EntersMaps ==
    ASSUME ~Interactive, RInv, IInv', NEW n \in Nat, Enters(n)
    PROVE  RInv' /\ Scope!Call
<1>. USE DEF Temporary
<1>. DEFINE base == Top - n
            f == stack[base]
            names == [j \in 1..n |-> owner'[base + j]]
            X == Scope!Members(names)
<1>1. IInv /\ TypeOK /\ Shape /\ FramesStacked
  BY DEF RInv, IInv
<1>2. Len(owner) = Top /\ Top \in Nat /\ DOMAIN owner = 1..Top /\ declared \in Nat
  BY <1>1, Stacks, BoundAssumption DEF TypeOK
<1>3. /\ Running /\ base > Frame.slots /\ f \in DOMAIN closures
      /\ \A s \in base..Top : owner[s] = 0
      /\ frames' = Append(frames, [closure |-> f, slots |-> base])
      /\ owner' = [s \in DOMAIN owner |-> IF s > base THEN declared + s - base ELSE owner[s]]
      /\ UNCHANGED <<stack, upvalues, closures, captures>>
  BY DEF Enters
<1>4. base \in Nat /\ 1 <= base /\ base <= Top /\ base + n = Top
  <2>1. Frame.slots \in 1..Top
    BY <1>1, <1>3, RunningFrame
  <2>. QED
    BY <1>2, <1>3, <2>1
<1>. HIDE DEF base, f
<1>5. /\ DOMAIN owner' = 1..Top /\ \A s \in 1..Top : s > base => owner'[s] = declared + s - base
      /\ \A s \in 1..Top : ~(s > base) => owner'[s] = owner[s]
  BY <1>2, <1>3
<1>6. Top' = Top
  BY <1>3 DEF Top
<1>7. \A j \in 1..n : /\ base + j \in 1..Top /\ owner'[base + j] = declared + j
                      /\ owner'[base + j] \in Nat /\ owner'[base + j] > declared
  <2>1. SUFFICES ASSUME NEW j \in 1..n
                 PROVE  /\ base + j \in 1..Top /\ owner'[base + j] = declared + j
                        /\ owner'[base + j] \in Nat /\ owner'[base + j] > declared
    OBVIOUS
  <2>2. base + j \in 1..Top /\ base + j > base /\ declared + (base + j) - base = declared + j
    BY <1>2, <1>4
  <2>3. owner'[base + j] = declared + j
    BY <1>5, <2>2
  <2>. QED
    BY <1>2, <2>2, <2>3
<1>8. IsBlock(base, Top', owner', n)
  <2>1. ASSUME NEW s \in base..Top
        PROVE  owner'[s] # 0 <=> s > base /\ s <= base + n
    <3>1. s \in 1..Top /\ s <= base + n
      BY <1>2, <1>4
    <3>2. CASE s > base
      <4>1. owner'[s] = declared + s - base
        BY <1>5, <3>1, <3>2
      <4>2. owner'[s] # 0
        BY <1>2, <1>4, <3>2, <4>1
      <4>. QED
        BY <3>1, <3>2, <4>2
    <3>3. CASE ~(s > base)
      BY <1>3, <1>5, <3>1, <3>3
    <3>. QED
      BY <3>2, <3>3
  <2>2. n \in 0..Top - base
    BY <1>2, <1>4
  <2>. QED
    BY <1>6, <2>1, <2>2 DEF IsBlock
<1>9. /\ Blocks' /\ NamedInFrames'
      /\ Activations' = Append(Activations, [closure |-> f, locals |-> names])
  <2>1. \A s \in 1..base - 1 : s \in DOMAIN owner /\ owner'[s] = owner[s]
    <3>1. \A s \in 1..base - 1 : s \in 1..Top /\ ~(s > base)
      BY <1>2, <1>4
    <3>. QED
      BY <1>2, <1>5, <3>1
  <2>2. \A s \in DOMAIN owner : s >= base => owner[s] = 0
    <3>1. \A s \in 1..Top : s >= base => s \in base..Top
      BY <1>2, <1>4
    <3>. QED
      BY <1>2, <1>3, <3>1
  <2>3. base <= Top'
    BY <1>4, <1>6
  <2>. HIDE DEF names
  <2>4. names = [j \in 1..n |-> owner'[base + j]]
    BY DEF names
  <2>5. /\ Blocks' /\ NamedInFrames'
        /\ Activations' = Append(Activations, [closure |-> f, locals |-> [j \in 1..n |-> owner'[base + j]]])
    BY <1>3, <1>4, <1>8, <2>1, <2>2, <2>3, FramePushed
  <2>. QED
    BY <2>4, <2>5
<1>10. RInv'
  BY <1>9, RInvNext
<1>11. X = {owner'[base + j] : j \in 1..n}
  BY DEF Scope!Members
<1>12. X \cap Scope!Reachable(Activations, captures) = {}
  BY <1>7, <1>11, FreshVariable
<1>13. Kept(X)
  <2>1. ASSUME NEW s \in DOMAIN owner', owner'[s] # 0, owner'[s] \notin X
        PROVE  s \in DOMAIN owner /\ owner[s] = owner'[s]
    <3>1. s \in 1..Top
      BY <1>5
    <3>2. CASE s > base
      <4>1. s - base \in 1..n /\ base + (s - base) = s
        BY <1>2, <1>4, <3>1, <3>2
      <4>2. owner'[s] \in X
        BY <1>11, <4>1
      <4>. QED
        BY <2>1, <4>2
    <3>3. CASE ~(s > base)
      BY <1>2, <1>5, <3>1, <3>3
    <3>. QED
      BY <3>2, <3>3
  <2>. HIDE DEF X
  <2>. QED
    BY <1>3, <2>1 DEF Kept
<1>14. Scope!Preserved(X)
  <2>. HIDE DEF X
  <2>. QED
    BY <1>10, <1>13, CellsKept
<1>. HIDE DEF names
<1>15. Activations \in Seq(Activation)
  BY <1>1, ActivationsAreTyped DEF RInv, ActivationsTyped
<1>. DEFINE new == [closure |-> f, locals |-> names]
<1>16. /\ Len(Activations') = Len(Activations) + 1 /\ Activations'[Len(Activations) + 1] = new
       /\ SubSeq(Activations', 1, Len(Activations)) = Activations
  <2>. HIDE DEF new
  <2>1. Activations' = Append(Activations, new)
    BY <1>9 DEF new
  <2>. QED
    BY <1>15, <2>1, AppendedAndCut
<1>17. Activations'[Len(Activations')] = new /\ new.closure = f /\ new.locals = names
  BY <1>16
<1>18. f \in DOMAIN captures /\ Activations # <<>>
  BY <1>1, <1>3, RunningScope DEF TypeOK
<1>. QED
  BY <1>3, <1>10, <1>12, <1>14, <1>16, <1>17, <1>18 DEF Scope!Call

-----------------------------------------------------------------------------
(* Closures.                                                                 *)

\* The stack after OP_CLOSURE.
ClosureOnTop(x) ==
    /\ Running /\ frames' = frames
    /\ DOMAIN owner' = 1..Top + 1 /\ owner'[Top + 1] = x
    /\ \A s \in 1..Top : owner'[s] = owner[s] /\ stack'[s] = stack[s]

LEMMA ClosurePushed ==
    ASSUME RInv, NEW asLocal \in BOOLEAN, NEW arity \in Nat, MakeClosure(asLocal, arity)
    PROVE  ClosureOnTop(IF asLocal THEN declared + 1 ELSE Temporary)
<1>. DEFINE x == IF asLocal THEN declared + 1 ELSE Temporary
            v == Cardinality(DOMAIN closures)
<1>1. IInv /\ Len(stack) = Top
  BY DEF RInv, Top
<1>2. stack \in Seq(Value)
  BY <1>1 DEF IInv, TypeOK
<1>3. Running /\ Pushed(x)
  BY <1>1, ClosureMakes
<1>4. stack' = Append(stack, v) /\ frames' = frames
  BY DEF MakeClosure, Push
<1>. HIDE DEF v, x
<1>5. \A s \in 1..Top : stack'[s] = stack[s]
  <2>1. stack \in Seq(Value \cup {v}) /\ v \in Value \cup {v}
    BY <1>2
  <2>2. \A s \in 1..Len(stack) : Append(stack, v)[s] = stack[s]
    BY <2>1, AppendProperties
  <2>. QED
    BY <1>1, <1>4, <2>2
<1>6. ClosureOnTop(x)
  BY <1>3, <1>4, <1>5 DEF Pushed, ClosureOnTop
<1>. QED
  BY <1>6 DEF x

\* The new closure captures what is in scope, and the rest stays.
LEMMA ClosureCloses ==
    ASSUME RInv, NEW asLocal \in BOOLEAN, NEW arity \in Nat, MakeClosure(asLocal, arity),
           NEW X, asLocal => declared + 1 \in X
    PROVE  Scope!Close(X) /\ Kept(X)
<1>. USE DEF Temporary
<1>1. IInv /\ TypeOK /\ CapturesMatch
  BY DEF RInv, IInv
<1>2. ClosureOnTop(IF asLocal THEN declared + 1 ELSE 0)
  BY ClosurePushed
<1>3. PICK n, m, names, k : Makes(n, m, names, k, arity) /\ NamesSeen(names, k, asLocal)
  BY <1>1, ClosureMakes
<1>4. /\ Running /\ DOMAIN closures = 0..n - 1 /\ DOMAIN captures = 0..n - 1 /\ n \in Nat
      /\ DOMAIN names = 1..k
      /\ \A u \in DOMAIN upvalues : upvalues'[u] = upvalues[u]
  BY <1>1, <1>2, <1>3 DEF Makes, TypeOK, ClosureOnTop
<1>5. /\ DOMAIN captures' = 0..n /\ captures'[n] = names
      /\ \A c \in 0..n - 1 : c \in 0..n /\ captures'[c] = captures[c] /\ closures'[c] = closures[c]
      /\ 0..n = (0..n - 1) \cup {n} /\ n \notin 0..n - 1
  <2>1. /\ closures' = [c \in 0..n |-> IF c = n THEN [upvalues |-> m.captured, arity |-> arity] ELSE closures[c]]
        /\ captures' = [c \in 0..n |-> IF c = n THEN names ELSE captures[c]]
    BY <1>3 DEF Makes
  <2>2. 0..n = (0..n - 1) \cup {n} /\ n \notin 0..n - 1 /\ n \in 0..n
    BY <1>4
  <2>. QED
    BY <2>1, <2>2
<1>6. /\ Frame.closure \in DOMAIN captures
      /\ \A s \in LocalSlots : s \in 1..Top /\ owner[s] \in Scope!InScope
      /\ \A i \in DOMAIN captures[Frame.closure] : captures[Frame.closure][i] \in Scope!InScope
  BY <1>4, RunningScope
<1>7. ASSUME NEW i \in 1..k
      PROVE  /\ names[i] \in Scope!InScope \cup X
             /\ \/ names[i] \in X
                \/ \E s \in DOMAIN owner' : owner'[s] = names[i]
                \/ \E d \in DOMAIN captures : \E j \in DOMAIN captures[d] : captures[d][j] = names[i]
  <2>1. Seen(names[i], asLocal)
    BY <1>3 DEF NamesSeen
  <2>2. CASE \E s \in LocalSlots : names[i] = owner'[s]
    <3>1. PICK s \in LocalSlots : names[i] = owner'[s]
      BY <2>2
    <3>2. s \in 1..Top /\ owner[s] \in Scope!InScope /\ owner'[s] = owner[s]
      BY <1>2, <1>6 DEF ClosureOnTop
    <3>3. s \in DOMAIN owner'
      <4>1. Top \in Nat
        BY Zenon, <1>1, Places DEF PlacesInStack
      <4>2. s \in 1..Top + 1
        BY <3>2, <4>1
      <4>. QED
        BY <1>2, <4>2 DEF ClosureOnTop
    <3>. QED
      BY <3>1, <3>2, <3>3
  <2>3. CASE asLocal /\ names[i] = owner'[Top + 1]
    BY <1>2, <2>3 DEF ClosureOnTop
  <2>4. CASE \E j \in DOMAIN captures[Frame.closure] : names[i] = captures[Frame.closure][j]
    BY <1>6, <2>4
  <2>. QED
    BY <2>1, <2>2, <2>3, <2>4 DEF Seen
<1>8. Scope!Close(X)
  <2>1. Scope!Members(captures'[n]) \subseteq Scope!InScope \cup X
    BY <1>4, <1>5, <1>7 DEF Scope!Members
  <2>2. /\ n \in DOMAIN captures' /\ n \notin DOMAIN captures
        /\ DOMAIN captures' = DOMAIN captures \cup {n}
        /\ \A d \in DOMAIN captures : captures'[d] = captures[d]
    BY <1>4, <1>5
  <2>. QED
    BY <2>1, <2>2 DEF Scope!Close
<1>9. Kept(X)
  <2>1. ASSUME NEW s \in DOMAIN owner', owner'[s] # 0, owner'[s] \notin X
        PROVE  s \in DOMAIN owner /\ owner[s] = owner'[s] /\ stack'[s] = stack[s]
    <3>1. s # Top + 1
      BY <1>2, <2>1 DEF ClosureOnTop
    <3>2. Top \in Nat /\ DOMAIN owner = 1..Top
      BY <1>1, Places DEF PlacesInStack
    <3>3. s \in 1..Top
      <4>1. s \in 1..Top + 1
        BY <1>2, <2>1 DEF ClosureOnTop
      <4>. QED
        BY <3>1, <3>2, <4>1
    <3>. QED
      BY <1>2, <3>2, <3>3 DEF ClosureOnTop
  <2>2. ASSUME NEW c \in DOMAIN captures', NEW i \in DOMAIN captures'[c]
        PROVE  \/ captures'[c][i] \in X
               \/ \E s \in DOMAIN owner' : owner'[s] = captures'[c][i]
               \/ \E d \in DOMAIN captures : \E j \in DOMAIN captures[d] : captures[d][j] = captures'[c][i]
    <3>1. CASE c = n
      <4>1. captures'[c] = names /\ i \in 1..k
        BY <1>4, <1>5, <2>2, <3>1
      <4>. QED
        BY <1>7, <4>1
    <3>2. CASE c # n
      <4>1. c \in DOMAIN captures /\ captures'[c] = captures[c]
        BY <1>4, <1>5, <3>2
      <4>. QED
        BY <2>2, <4>1
    <3>. QED
      BY <3>1, <3>2
  <2>3. ASSUME NEW c \in DOMAIN captures, NEW i \in DOMAIN captures[c]
        PROVE  upvalues'[closures[c].upvalues[i]] = upvalues[closures[c].upvalues[i]]
    <3>1. closures[c].upvalues[i] \in DOMAIN upvalues
      BY <1>1 DEF TypeOK, CapturesMatch
    <3>. QED
      BY <1>4, <3>1
  <2>4. \A c \in DOMAIN captures : c \in DOMAIN captures' /\ captures'[c] = captures[c] /\ closures'[c] = closures[c]
    BY <1>4, <1>5
  <2>. QED
    BY <2>1, <2>2, <2>3, <2>4 DEF Kept
<1>. QED
  BY <1>8, <1>9

LEMMA MakeClosureMaps ==
    ASSUME ~Interactive, RInv, IInv', NEW asLocal \in BOOLEAN, NEW arity \in Nat, MakeClosure(asLocal, arity)
    PROVE  /\ RInv'
           /\ \/ Scope!MakeClosure
              \/ \E x \in Variable : Scope!Declare(x) /\ Scope!Close({x})
<1>. USE DEF Temporary
<1>. DEFINE x == declared + 1
<1>1. IInv /\ TypeOK
  BY DEF RInv, IInv
<1>2. Top \in Nat /\ Top' \in Nat /\ DOMAIN owner = 1..Top /\ DOMAIN owner' = 1..Top'
  BY Zenon, <1>1, Places, PlacesNext DEF PlacesInStack
<1>3. CASE ~asLocal
  <2>1. ClosureOnTop(0)
    BY <1>3, ClosurePushed
  <2>2. Scope!Close({}) /\ Kept({})
    BY <1>3, ClosureCloses
  <2>3. SameNamed
    <3>1. \A s \in 1..Top + 1 : s \in 1..Top \/ s = Top + 1
      BY <1>2
    <3>2. \A s \in 1..Top : s \in 1..Top + 1
      BY <1>2
    <3>. QED
      BY <1>2, <2>1, <3>1, <3>2 DEF SameNamed, ClosureOnTop
  <2>4. Activations' = Activations /\ RInv'
    BY <2>1, <2>3, SameActivations, RInvNext DEF ClosureOnTop
  <2>5. Scope!Preserved({})
    BY <2>2, <2>4, CellsKept
  <2>6. Activations # <<>>
    BY <2>1, RunningScope DEF ClosureOnTop
  <2>. QED
    BY <2>2, <2>4, <2>5, <2>6 DEF Scope!MakeClosure
<1>4. CASE asLocal
  <2>1. ClosureOnTop(x) /\ OnlyLocals(Top) /\ declared < VariableBound
    BY <1>4, ClosurePushed DEF MakeClosure
  <2>2. declared \in Nat /\ x \in Nat /\ x # 0 /\ x > declared /\ x \in Variable
    <3>1. declared \in Nat
      BY <1>1, BoundAssumption DEF TypeOK
    <3>. QED
      BY <2>1, <3>1, BoundAssumption DEF Variable
  <2>. HIDE DEF x
  <2>3. Scope!Close({x}) /\ Kept({x})
    BY <1>4, ClosureCloses DEF x
  <2>4. /\ Blocks' /\ NamedInFrames'
        /\ Activations' = [Activations EXCEPT ![Len(Activations)].locals = Append(@, x)]
    <3>. DEFINE t == Top + 1
    <3>1. t \in Nat /\ t <= Top + 1 /\ t - 1 = Top
      BY <1>2
    <3>2. Top' = t
      <4>1. 1..Top' = 1..Top + 1
        BY <1>2, <2>1 DEF ClosureOnTop
      <4>. QED
        BY <1>2, <4>1
    <3>3. t > Frame.slots
      <4>1. Frame.slots \in 1..Top
        BY Zenon, <1>1, <2>1, RunningPlaces DEF ClosureOnTop
      <4>. QED
        BY <1>2, <4>1
    <3>4. \A s \in 1..Top : s >= t => owner[s] = 0
      BY <1>2
    <3>5. \A s \in 1..t - 1 : owner'[s] = owner[s]
      BY <2>1, <3>1 DEF ClosureOnTop
    <3>6. owner'[t] = x /\ owner'[t] # 0
      BY <2>1, <2>2 DEF ClosureOnTop
    <3>7. Running /\ frames' = frames /\ OnlyLocals(t - 1)
      BY <2>1, <3>1 DEF ClosureOnTop
    <3>. HIDE DEF t
    <3>. QED
      BY <3>1, <3>2, <3>3, <3>4, <3>5, <3>6, <3>7, TopGrows
  <2>5. RInv'
    BY <2>4, RInvNext
  <2>6. Scope!Preserved({x})
    BY <2>3, <2>5, CellsKept
  <2>7. Activations # <<>> /\ x \notin Scope!Reachable(Activations, captures)
    BY <2>1, <2>2, FreshVariable, RunningScope DEF ClosureOnTop
  <2>. QED
    BY <2>2, <2>3, <2>4, <2>5, <2>6, <2>7 DEF Scope!Declare
<1>. QED
  BY Zenon, <1>3, <1>4

-----------------------------------------------------------------------------
(* The theorem.                                                              *)

LEMMA InitialMaps == Init => RInv /\ Scope!Init
<1>. SUFFICES ASSUME Init PROVE RInv /\ Scope!Init
  OBVIOUS
<1>1. frames = <<>> /\ owner = <<>> /\ captures = NoCaptures
  BY DEF Init
<1>2. DOMAIN frames = {} /\ DOMAIN owner = {} /\ DOMAIN captures = {0} /\ captures[0] = <<>> /\ DOMAIN <<>> = {}
  BY <1>1 DEF NoCaptures
<1>3. DOMAIN closures = {0}
  BY DEF Init, ScriptOnly
<1>4. Blocks /\ NamedInFrames /\ OneLocation
  BY <1>2, <1>3 DEF Blocks, NamedInFrames, OneLocation
<1>5. RInv
  BY <1>4, Initially DEF RInv
<1>6. Activations = <<>>
  <2>1. Activations = [i \in DOMAIN frames |-> [closure |-> frames[i].closure, locals |-> Locals[i]]]
    BY ActivationsOfFrames DEF ActivationsMapped
  <2>. QED
    BY <1>2, <2>1
<1>7. Visible = {}
  BY <1>2 DEF Visible, IsCaptured
<1>8. Store = [y \in {} |-> 0]
  <2>1. Store = [y \in Visible |-> Store[y]]
    BY StoreFunction DEF StoreIsFunction
  <2>. QED
    BY <1>7, <2>1
<1>. QED
  BY <1>1, <1>5, <1>6, <1>8 DEF Scope!Init, NoCaptures

LEMMA StepsMap ==
    ASSUME ~Interactive, RInv, [Next]_vars
    PROVE  RInv' /\ [Scope!Next]_(Scope!vars)
<1>1. IInv'
  BY EveryStep DEF RInv
<1>2. CASE Interpret
  BY <1>1, <1>2, InterpretMaps DEF Scope!Next
<1>3. CASE DeclareLocal
  BY <1>1, <1>3, DeclareLocalMaps DEF Scope!Next
<1>4. CASE EndLocal
  BY <1>1, <1>4, EndLocalMaps DEF Scope!Next
<1>5. CASE Return
  BY <1>1, <1>5, ReturnMaps DEF Scope!Next
<1>6. CASE RuntimeError
  BY <1>1, <1>6, RuntimeErrorMaps DEF Scope!Next
<1>7. CASE \/ \E v \in Data : PushValue(v)
           \/ \E g \in Global : GetGlobal(g)
           \/ \E s \in 1..StackBound : GetLocal(s)
           \/ \E i \in 1..CaptureBound : GetUpvalue(i)
  <2>1. 1..StackBound \subseteq Nat /\ 1..CaptureBound \subseteq Nat
    BY BoundAssumption
  <2>. QED
    BY <1>1, <1>7, <2>1, ReadMaps
<1>8. CASE PopTemporary \/ \E g \in Global : DefineGlobal(g) \/ SetGlobal(g)
  <2>1. /\ HasTemporary
        /\ (stack' = PopN(stack, 1) /\ owner' = PopN(owner, 1)) \/ UNCHANGED <<stack, owner>>
        /\ UNCHANGED <<frames, upvalues, closures, captures>>
    BY <1>8 DEF PopTemporary, DefineGlobal, SetGlobal
  <2>. QED
    BY <1>1, <2>1, PopMaps
<1>9. CASE \E s \in 1..StackBound : SetLocal(s)
  BY <1>1, <1>9, SetLocalMaps DEF Scope!Next
<1>10. CASE \E i \in 1..CaptureBound : SetUpvalue(i)
  BY <1>1, <1>10, SetUpvalueMaps DEF Scope!Next
<1>11. CASE \E asLocal \in BOOLEAN, arity \in 0..1 : MakeClosure(asLocal, arity)
  <2>1. PICK asLocal \in BOOLEAN, arity \in 0..1 : MakeClosure(asLocal, arity)
    BY <1>11
  <2>2. arity \in Nat
    OBVIOUS
  <2>3. RInv' /\ (Scope!MakeClosure \/ \E x \in Variable : Scope!Declare(x) /\ Scope!Close({x}))
    BY <1>1, <2>1, <2>2, MakeClosureMaps
  <2>. QED
    BY <2>3 DEF Scope!Next
<1>12. CASE \E n \in 0..1 : Call(n)
  <2>1. PICK n \in 0..1 : Call(n)
    BY <1>12
  <2>2. n \in Nat
    OBVIOUS
  <2>3. Enters(n) \/ RuntimeError
    BY <2>1 DEF Call, Enters
  <2>4. RInv' /\ (Scope!Call \/ Scope!Exit)
    BY <1>1, <2>2, <2>3, EntersMaps, RuntimeErrorMaps
  <2>. QED
    BY <2>4 DEF Scope!Next
<1>13. CASE UNCHANGED vars
  <2>1. UNCHANGED <<stack, frames, upvalues, closures, owner, captures>>
    BY <1>13 DEF vars
  <2>2. SameNamed
    BY <2>1 DEF SameNamed
  <2>. QED
    BY <1>1, <2>1, <2>2, Stutters
<1>. QED
  BY <1>2, <1>3, <1>4, <1>5, <1>6, <1>7, <1>8, <1>9, <1>10, <1>11, <1>12, <1>13 DEF Next

\* A script that runs once implements lexical scope: whatever it calls, returns
\* from and leaves, every variable is one cell, which the activation that
\* declared it and all the closures that captured it read and write, until the
\* last of them is gone.
THEOREM UpvaluesImplementLexicalScope ==
    ASSUME ~Interactive
    PROVE  Spec => ImplementsLexicalScope
<1>1. RInv /\ [Next]_vars => RInv' /\ [Scope!Next]_(Scope!vars)
  BY StepsMap
<1>. QED
  BY <1>1, InitialMaps, PTL DEF Spec, ImplementsLexicalScope, Scope!Spec
=============================================================================
