-------------------------- MODULE AllocationProofs --------------------------
(* Theorems about the allocations of clox, for every number of objects and   *)
(* contents and every bound: a collection at any allocation spares whatever  *)
(* the routine in progress still holds, and, but for two cases, what the     *)
(* program gets at through open upvalues; no two strings of the intern table *)
(* ever have the same contents, and the bytes counted are those of blocks    *)
(* that something still owns.                                                *)
EXTENDS Allocation, NaturalFacts, FiniteSetTheorems

-----------------------------------------------------------------------------
(* The inductive invariant, in named parts.                                  *)

Kind == {"free", "string", "function", "closure", "upvalue", "class", "instance", "bound", "native"}
Record == [kind : Kind, refs : SUBSET Obj, content : Content \cup {NULL}, array : Nat, code : Nat]
Step == Sites \cup {"idle", "copy", "take", "add", "emit", "capture", "exit"}
Routine == [at : Step,
            then : {"idle", "lookup", "name", "push", "constant", "native", "interpret"},
            content : Content \cup {NULL}, made : Obj \cup {NULL}, held : SUBSET Obj, n : Nat]

TypeOK ==
  /\ object \in [Obj -> Record]
  /\ strings \subseteq Obj /\ kept \subseteq Obj
  /\ stack \in Seq(Obj) /\ contexts \in Seq(Obj)
  /\ capacity \in [strings : Nat, names : Nat]
  /\ local \in Routine

\* What the routine in progress is at, and what it has on the stack by then.
Emptied == {"idle", "copy", "chars", "result", "string", "take", "function", "code", "lines", "emit",
            "capture", "upvalue", "class", "instance", "bound", "table", "exit"}
InPlace ==
  /\ local.at \in {"add", "constants", "code", "lines", "emit"} => Compiling
  /\ local.then \in {"name", "constant", "lookup"} => Compiling
  /\ local.at \in Emptied => stack = <<>>
  /\ local.at \in {"strings", "add", "constants"} => local.made # NULL /\ stack = <<local.made>>
  /\ local.at \in {"add", "constants"} => local.held \subseteq {local.made}
  /\ local.at = "native" => local.held \subseteq Range(stack)
  /\ local.at \in {"idle", "exit"} => local.held = {} /\ local.made = NULL
  /\ local.at = "capture" \/ local.at = "upvalue" \/ local.at = "table" => local.made # NULL
  /\ local.at = "exit" => kept = {} /\ contexts = <<>> /\ strings = {}

\* What the collector starts from, and what only the C routine knows.
Roots == kept \cup Range(stack) \cup Range(contexts)

\* The roots are there, and so is whatever an object that is there refers to.
Present ==
  /\ Roots \subseteq Live
  /\ \A o \in Live : object[o].refs \subseteq Live

\* A collection would spare what the routine holds.
Protected == Locals \subseteq From(Roots)

\* The intern table, and the string on its way into it.
Distinct ==
  /\ InternedOnce
  /\ local.at \in {"chars", "string", "strings"} => Interned = {}
  /\ local.at = "strings" => object[local.made].content = local.content

\* What the collector does not look at.
UnmarkedOK ==
  /\ location \in [Obj -> SUBSET (Obj \cup {NULL})]
  /\ count \in Nat
  /\ uncounted \subseteq Obj \cup {NULL}

\* Only upvalues are open, and the slot of one in the list of the VM is there.
Slots ==
  /\ \A o \in Obj : object[o].kind # "upvalue" => location[o] = {}
  /\ \A u \in kept : location[u] \ {NULL} \subseteq Values

\* What may become the name of a global is no upvalue.
Named ==
  /\ strings \subseteq OfKind("string")
  /\ local.at = "strings" => local.made \in OfKind("string")
  /\ local.at = "native" => local.held \subseteq OfKind("string")

IInv == TypeOK /\ InPlace /\ Present /\ Protected /\ Distinct /\ UnmarkedOK /\ Slots /\ Named

-----------------------------------------------------------------------------
(* Sequences and sets.                                                       *)

LEMMA Appended ==
  ASSUME NEW s \in Seq(Obj), NEW o \in Obj
  PROVE  Append(s, o) \in Seq(Obj) /\ Append(s, o) # <<>> /\ Range(Append(s, o)) = Range(s) \cup {o}
<1>1. Append(s, o) \in Seq(Obj)
  OBVIOUS
<1>2. Len(Append(s, o)) = Len(s) + 1 /\ DOMAIN s = 1..Len(s) /\ DOMAIN Append(s, o) = 1..Len(s) + 1
  OBVIOUS
<1>3. \A i \in 1..Len(s) : Append(s, o)[i] = s[i]
  OBVIOUS
<1>4. Append(s, o)[Len(s) + 1] = o
  OBVIOUS
<1>5. \A i \in 1..Len(s) + 1 : i \in 1..Len(s) \/ i = Len(s) + 1
  OBVIOUS
<1>6. Len(s) + 1 \in 1..Len(s) + 1 /\ 1..Len(s) \subseteq 1..Len(s) + 1
  OBVIOUS
<1>7. Append(s, o) # <<>>
  BY <1>2
<1>. QED
  BY <1>1, <1>2, <1>3, <1>4, <1>5, <1>6, <1>7, Zenon DEF Range

LEMMA Fronted ==
  ASSUME NEW s \in Seq(Obj), s # <<>>
  PROVE  /\ Front(s) \in Seq(Obj) /\ Range(Front(s)) \subseteq Range(s)
         /\ Last(s) \in Obj /\ Last(s) \in Range(s)
         /\ Len(s) > 1 => Front(s) # <<>>
<1>1. Front(s) \in Seq(Obj) /\ Len(Front(s)) = Len(s) - 1 /\ \A i \in 1..Len(s) - 1 : Front(s)[i] = s[i]
  BY DEF Front
<1>2. Range(Front(s)) \subseteq Range(s)
  BY <1>1 DEF Range
<1>3. Last(s) \in Obj /\ Last(s) \in Range(s)
  BY DEF Last, Range
<1>. QED
  BY <1>1, <1>2, <1>3

LEMMA Short ==
  ASSUME NEW o \in Obj
  PROVE  /\ Range(<<>>) = {} /\ Range(<<o>>) = {o} /\ <<>> \in Seq(Obj) /\ <<o>> \in Seq(Obj)
         /\ Append(<<>>, o) = <<o>> /\ Front(<<o>>) = <<>> /\ Last(<<o>>) = o
  BY DEF Front, Last, Range

\* The capacities that a table or an array may come to.
LEMMA Capacities ==
  ASSUME NEW cap \in Nat
  PROVE  Grown(cap) \subseteq Nat /\ Room(cap) \subseteq Nat
<1>1. Grown(cap) \subseteq Nat
  BY DEF Grown
<1>. QED
  BY <1>1 DEF Room

-----------------------------------------------------------------------------
(* Types.                                                                    *)

LEMMA Edited ==
  ASSUME NEW r \in Record, NEW S \in SUBSET Obj, NEW n \in Nat
  PROVE  /\ [r EXCEPT !.refs = S] \in Record /\ [r EXCEPT !.array = n] \in Record
         /\ [r EXCEPT !.code = n] \in Record
  BY DEF Record

LEMMA Referring ==
  ASSUME TypeOK, NEW o \in Obj, NEW S \in SUBSET Obj
  PROVE  [object EXCEPT ![o].refs = @ \cup S] \in [Obj -> Record]
<1>1. object[o] \in Record
  BY DEF TypeOK
<1>2. object[o].refs \cup S \in SUBSET Obj
  BY <1>1 DEF Record
<1>3. [object[o] EXCEPT !.refs = @ \cup S] \in Record
  BY <1>1, <1>2, Edited
<1>. QED
  BY <1>3 DEF TypeOK

LEMMA Resizing ==
  ASSUME TypeOK, NEW o \in Obj, NEW n \in Nat
  PROVE  /\ [object EXCEPT ![o].array = n] \in [Obj -> Record] /\ [object EXCEPT ![o].code = n] \in [Obj -> Record]
         /\ object[o].array \in Nat /\ object[o].code \in Nat
<1>1. object[o] \in Record
  BY DEF TypeOK
<1>2. [object[o] EXCEPT !.array = n] \in Record /\ [object[o] EXCEPT !.code = n] \in Record
  BY <1>1, {} \in SUBSET Obj, Edited
<1>. QED
  BY <1>1, <1>2 DEF TypeOK, Record

LEMMA TypeOfDelivery ==
  ASSUME TypeOK, InPlace, NEW s \in Obj, NEW below \in Seq(Obj), Deliver(s, below)
  PROVE  object' \in [Obj -> Record] /\ kept' \subseteq Obj /\ stack' \in Seq(Obj) /\ local' \in Routine
<1>1. Idle \in Routine
  BY DEF Idle, Routine, Step
<1>2. Append(below, s) \in Seq(Obj)
  BY Appended
<1>3. CASE local.then = "name"
  <2>1. Function \in Obj
    BY <1>3, Fronted DEF TypeOK, InPlace, Compiling, Function
  <2>2. [object EXCEPT ![Function].refs = @ \cup {s}] \in [Obj -> Record]
    BY <2>1, Referring
  <2>3. object' = [object EXCEPT ![Function].refs = @ \cup {s}] /\ local' = Idle /\ stack' = below /\ kept' = kept
    BY <1>3 DEF Deliver
  <2>. QED
    BY <1>1, <2>1, <2>2, <2>3 DEF TypeOK
<1>4. CASE local.then # "name"
  <2>1. [Idle EXCEPT !.at = "add", !.made = s] \in Routine
    BY <1>1 DEF Routine, Step
  <2>2. [Idle EXCEPT !.at = "native", !.held = {s}] \in Routine
    BY <1>1 DEF Routine, Step, Sites
  <2>. QED
    BY <1>1, <1>2, <1>4, <2>1, <2>2 DEF Deliver, TypeOK
<1>. QED
  BY <1>3, <1>4

LEMMA TypeOfAllocation ==
  ASSUME TypeOK, NEW o \in Obj, NEW m, NEW made \in Record, allocateObject(m, o, made)
  PROVE  object' \in [Obj -> Record]
  BY DEF TypeOK, allocateObject
LEMMA TypeOfRoutine ==
  ASSUME NEW r \in Routine, NEW at \in Step, NEW o \in Obj \cup {NULL}, NEW S \in SUBSET Obj, NEW n \in Nat
  PROVE  /\ [r EXCEPT !.at = at] \in Routine
         /\ [r EXCEPT !.at = at, !.n = n] \in Routine
         /\ [r EXCEPT !.at = at, !.made = o] \in Routine
         /\ [r EXCEPT !.at = at, !.held = S] \in Routine
         /\ [r EXCEPT !.at = at, !.made = o, !.held = S] \in Routine
         /\ [r EXCEPT !.at = at, !.made = o, !.n = n] \in Routine
  BY Zenon DEF Routine

LEMMA TypeOfObject ==
  ASSUME NEW kind \in Kind, NEW refs \in SUBSET Obj, NEW content \in Content \cup {NULL}, NEW array \in Nat
  PROVE  Object(kind, refs, content, array) \in Record
  BY DEF Object, Record

LEMMA TypeOfIdle == Idle \in Routine /\ Nothing \in Record
  BY DEF Idle, Routine, Step, Nothing, Object, Record, Kind

\* A string is going to be copied.
LEMMA Copying ==
  ASSUME NEW content \in Content, NEW then, CopyString(content, then),
         then \in {"idle", "push", "name", "constant", "lookup", "native"}
  PROVE  local' \in Routine
  BY TypeOfIdle DEF CopyString, Routine, Step

LEMMA TypeOfResume == ASSUME TypeOK PROVE Resume \in Routine
<1>1. local.held \in SUBSET Obj
  BY DEF TypeOK, Routine
<1>2. (IF local.held = {} THEN "idle" ELSE "emit") \in Step
  BY DEF Step
<1>. QED
  BY Zenon, <1>1, <1>2, TypeOfIdle, TypeOfRoutine DEF Resume

\* What allocateString and addConstant push is what they have just made.
LEMMA Pushed ==
  ASSUME TypeOK, InPlace, local.at \in {"strings", "add", "constants"}
  PROVE  local.made \in Obj /\ stack = <<local.made>> /\ Front(stack) = <<>> /\ Range(stack) = {local.made}
<1>1. local.made \in Obj /\ stack = <<local.made>>
  BY DEF TypeOK, InPlace, Routine
<1>. QED
  BY <1>1, Short

\* The function under compilation.
LEMMA UnderCompilation ==
  ASSUME TypeOK, Compiling
  PROVE  /\ Function \in Obj /\ Function \in Range(contexts)
         /\ Front(contexts) \in Seq(Obj) /\ Range(Front(contexts)) \subseteq Range(contexts)
  BY Fronted DEF TypeOK, Compiling, Function

LEMMA TypeOfStrings ==
  ASSUME TypeOK, InPlace, Strings
  PROVE  TypeOK'
<1>. USE DEF TypeOK
<1>1. CASE copyString
  <2>1. CASE \E s \in Interned : Deliver(s, stack)
    BY <1>1, <2>1, TypeOfDelivery DEF copyString, Interned
  <2>2. CASE local' = [local EXCEPT !.at = "chars"] /\ UNCHANGED <<object, kept, stack>>
    <3>1. local' \in Routine
      BY Zenon, <2>2, TypeOfRoutine DEF Step, Sites
    <3>. QED
      BY <1>1, <2>2, <3>1 DEF copyString
  <2>. QED
    BY <1>1, <2>1, <2>2 DEF copyString
<1>2. CASE AllocateChars
  <2>1. local' \in Routine
    BY Zenon, <1>2, TypeOfRoutine DEF AllocateChars, Step, Sites
  <2>. QED
    BY <1>2, <2>1 DEF AllocateChars
<1>3. CASE takeString
  <2>1. CASE \E s \in Interned : Deliver(s, stack)
    BY <1>3, <2>1, TypeOfDelivery DEF takeString, Interned
  <2>2. CASE local' = [local EXCEPT !.at = "string"] /\ UNCHANGED <<object, memory, kept, stack>>
    <3>1. local' \in Routine
      BY Zenon, <2>2, TypeOfRoutine DEF Step, Sites
    <3>. QED
      BY <1>3, <2>2, <3>1 DEF takeString
  <2>. QED
    BY <1>3, <2>1, <2>2 DEF takeString
<1>4. CASE allocateString
  <2>1. PICK o \in Obj :
            /\ allocateObject(Handed(Memory, o), o, Object("string", {}, local.content, Length + 1))
            /\ local' = [local EXCEPT !.at = "strings", !.made = o]
            /\ stack' = Append(stack, o)
    BY Zenon, <1>4 DEF allocateString, pushStackVM
  <2>2. Object("string", {}, local.content, Length + 1) \in Record
    BY TypeOfObject DEF Kind, Length, Routine
  <2>3. object' \in [Obj -> Record]
    BY <2>1, <2>2, TypeOfAllocation
  <2>4. local' \in Routine
    BY Zenon, <2>1, TypeOfRoutine DEF Step, Sites
  <2>. QED
    BY <1>4, <2>1, <2>3, <2>4, Appended DEF allocateString
<1>5. CASE InternString
  <2>1. local.made \in Obj /\ Front(stack) \in Seq(Obj)
    BY <1>5, Pushed, Short DEF InternString, At
  <2>2. capacity' \in [strings : Nat, names : Nat]
    BY <1>5, Capacities DEF InternString
  <2>3. /\ object' \in [Obj -> Record] /\ kept' \subseteq Obj
        /\ stack' \in Seq(Obj) /\ local' \in Routine
    BY <1>5, <2>1, TypeOfDelivery DEF InternString
  <2>. QED
    BY <1>5, <2>1, <2>2, <2>3 DEF InternString
<1>. QED
  BY <1>1, <1>2, <1>3, <1>4, <1>5 DEF Strings

\* A global more is marked, or, when the byte wraps, perhaps many less.
LEMMA Counted ==
  ASSUME NEW name, NEW value, CountGlobal(name, value)
  PROVE  /\ kept' \subseteq kept \cup {name} \cup ({value} \ {NULL}) /\ name \in kept'
         /\ kept \cap Captured \subseteq kept'
  BY Zenon DEF CountGlobal

LEMMA TypeOfCompile ==
  ASSUME TypeOK, InPlace, Compile
  PROVE  TypeOK'
<1>. USE DEF TypeOK
<1>. /\ "constants" \in Step /\ "code" \in Step /\ "names" \in Step
  BY DEF Step, Sites
<1>1. CASE NewContext
  BY Zenon, <1>1, TypeOfIdle, TypeOfRoutine DEF NewContext, Step, Sites
<1>2. CASE newFunction
  <2>1. PICK o \in Obj : allocateObject(Memory, o, Object("function", {}, NULL, 0)) /\ contexts' = Append(contexts, o)
    BY <1>2 DEF newFunction
  <2>2. object' \in [Obj -> Record]
    BY <2>1, TypeOfObject, TypeOfAllocation DEF Kind
  <2>3. local' \in Routine
    BY <1>2, TypeOfIdle, Copying DEF newFunction
  <2>. QED
    BY <1>2, <2>1, <2>2, <2>3, Appended DEF newFunction
<1>3. CASE CompileName
  <2>1. local' \in Routine
    BY <1>3, Copying DEF CompileName
  <2>. QED
    BY <1>3, <2>1 DEF CompileName
<1>4. CASE addConstant
  <2>1. local.made \in Obj /\ Front(stack) \in Seq(Obj) /\ Function \in Obj
    BY <1>4, Pushed, Short, UnderCompilation DEF addConstant, At, InPlace
  <2>2. CASE /\ object' = [object EXCEPT ![Function].refs = @ \cup {local.made}]
             /\ popStackVM /\ local' = Resume
    <3>1. object' \in [Obj -> Record]
      <4>1. {local.made} \in SUBSET Obj
        BY <2>1
      <4>. QED
        BY Zenon, <2>1, <2>2, <4>1, Referring
    <3>. QED
      BY <1>4, <2>1, <2>2, <3>1, TypeOfResume DEF addConstant, popStackVM
  <2>3. ASSUME NEW cap \in Grown(object[Function].array),
               object' = [object EXCEPT ![Function].array = cap],
               local' = [local EXCEPT !.at = "constants", !.n = object[Function].array],
               UNCHANGED stack
        PROVE  TypeOK'
    <3>1. object[Function].array \in Nat
      BY <2>1, Resizing
    <3>2. cap \in Nat
      BY <3>1, Capacities
    <3>3. object' \in [Obj -> Record]
      BY <2>1, <2>3, <3>2, Resizing
    <3>4. local' \in Routine
      BY Zenon, <2>3, <3>1, "constants" \in Step, TypeOfRoutine
    <3>. QED
      BY <1>4, <2>3, <3>3, <3>4 DEF addConstant
  <2>. QED
    BY <1>4, <2>2, <2>3 DEF addConstant
<1>5. CASE GrowConstants
  <2>1. local.made \in Obj /\ Front(stack) \in Seq(Obj) /\ Function \in Obj
    BY <1>5, Pushed, Short, UnderCompilation DEF GrowConstants, At, InPlace
  <2>2. object' \in [Obj -> Record]
    <3>1. {local.made} \in SUBSET Obj
      BY <2>1
    <3>2. object' = [object EXCEPT ![Function].refs = @ \cup {local.made}]
      BY <1>5 DEF GrowConstants
    <3>. QED
      BY Zenon, <2>1, <3>1, <3>2, Referring
  <2>. QED
    BY <1>5, <2>1, <2>2, TypeOfResume DEF GrowConstants, popStackVM
<1>6. CASE writeChunk
  <2>1. Function \in Obj
    BY <1>6, UnderCompilation DEF writeChunk
  <2>2. PICK cap \in Grown(object[Function].code) :
            /\ object' = [object EXCEPT ![Function].code = cap]
            /\ local' = [local EXCEPT !.at = "code", !.n = object[Function].code]
    BY <1>6 DEF writeChunk
  <2>3. object[Function].code \in Nat
    BY <2>1, Resizing
  <2>4. cap \in Nat
    BY <2>3, Capacities
  <2>5. object' \in [Obj -> Record]
    BY <2>1, <2>2, <2>4, Resizing
  <2>6. local' \in Routine
    BY ZenonT(30), <2>2, <2>3, "code" \in Step, TypeOfRoutine
  <2>. QED
    BY <1>6, <2>5, <2>6 DEF writeChunk
<1>7. CASE GrowCode
  BY Zenon, <1>7, TypeOfRoutine DEF GrowCode, Step, Sites
<1>8. CASE GrowLines
  BY <1>8, TypeOfResume DEF GrowLines
<1>9. CASE computeGlobalSlot
  <2>1. PICK name \in Obj : CountGlobal(name, NULL) /\ local' = [Idle EXCEPT !.at = "names", !.held = {name}]
    BY Zenon, <1>9 DEF computeGlobalSlot, OfKind
  <2>2. {name} \in SUBSET Obj
    OBVIOUS
  <2>3. local' \in Routine
    BY Zenon, <2>1, <2>2, "names" \in Step, TypeOfIdle, TypeOfRoutine
  <2>4. kept' \subseteq kept \cup {name}
    BY <2>1, Counted
  <2>. QED
    BY <1>9, <2>1, <2>3, <2>4 DEF computeGlobalSlot
<1>10. CASE SetGlobalName
  <2>1. capacity' \in [strings : Nat, names : Nat]
    BY <1>10, Capacities DEF SetGlobalName
  <2>. QED
    BY <1>10, <2>1, TypeOfIdle DEF SetGlobalName
<1>11. CASE EndFunction
  <2>1. Function \in Obj /\ Front(contexts) \in Seq(Obj)
    BY <1>11, UnderCompilation DEF EndFunction, Compiling
  <2>2. local' \in Routine
    <3>1. {Function} \in SUBSET Obj /\ Function \in Obj \cup {NULL} /\ "add" \in Step
      BY <2>1 DEF Step
    <3>2. local' = [Idle EXCEPT !.at = "add", !.made = Function, !.held = {Function}]
      BY <1>11 DEF EndFunction
    <3>. QED
      BY Zenon, <3>1, <3>2, TypeOfIdle, TypeOfRoutine
  <2>. QED
    BY <1>11, <2>1, <2>2, Appended DEF EndFunction, pushStackVM
<1>12. CASE EmitUpvalues
  BY <1>12, TypeOfIdle DEF EmitUpvalues
<1>13. CASE interpret
  <2>1. Function \in Obj
    <3>1. Len(contexts) = 1
      BY <1>13 DEF interpret
    <3>. QED
      BY <3>1, UnderCompilation DEF Compiling
  <2>2. [Idle EXCEPT !.at = "upvalues", !.then = "interpret", !.held = {Function}] \in Routine
    <3>1. {Function} \in SUBSET Obj /\ "upvalues" \in Step
      BY <2>1 DEF Step, Sites
    <3>. QED
      BY <3>1, TypeOfIdle DEF Routine
  <2>3. local' \in Routine
    BY <1>13, <2>2, TypeOfIdle DEF interpret
  <2>4. stack' \in Seq(Obj) /\ contexts' \in Seq(Obj)
    BY <1>13, <2>1, Appended DEF interpret
  <2>. QED
    BY <1>13, <2>3, <2>4 DEF interpret
<1>. QED
  BY <1>1, <1>2, <1>3, <1>4, <1>5, <1>6, <1>7, <1>8, <1>9, <1>10, <1>11, <1>12, <1>13 DEF Compile
LEMMA TypeOfRun ==
  ASSUME TypeOK, InPlace, UnmarkedOK, Run
  PROVE  TypeOK'
<1>. USE DEF TypeOK
<1>. Sites \subseteq Step /\ "capture" \in Step /\ "exit" \in Step /\ {} \in SUBSET Obj
  BY DEF Step
<1>. NULL \in Obj \cup {NULL} /\ \A x \in Obj : {x} \in SUBSET Obj
  OBVIOUS
<1>. \A S : From(S) \subseteq Obj
  BY DEF From
<1>. \A kind : OfKind(kind) \subseteq Obj
  BY DEF OfKind
<1>1. CASE Keep
  BY <1>1 DEF Keep, Live
<1>2. CASE Drop
  BY <1>2 DEF Drop
<1>22. ASSUME NEW u \in Obj, NEW S \in SUBSET Obj, object' = [object EXCEPT ![u].refs = S]
       PROVE  object' \in [Obj -> Record]
  <2>1. [object[u] EXCEPT !.refs = S] \in Record
    BY 0 \in Nat, Edited
  <2>. QED
    BY <1>22, <2>1
<1>23. CASE closeUpvalues
  <2>1. PICK u \in kept : object' = [object EXCEPT ![u].refs = location[u] \ {NULL}] /\ kept' = kept \ {u}
    BY <1>23 DEF closeUpvalues, openUpvalues
  <2>2. location[u] \ {NULL} \in SUBSET Obj
    BY DEF UnmarkedOK
  <2>. QED
    BY <1>22, <1>23, <2>1, <2>2 DEF closeUpvalues
<1>3. CASE SetUpvalue
  <2>1. CASE UNCHANGED object
    BY <1>3, <2>1 DEF SetUpvalue
  <2>2. ASSUME NEW u \in Obj, NEW v \in kept \cup {NULL}, object' = [object EXCEPT ![u].refs = {v} \ {NULL}]
        PROVE  TypeOK'
    <3>1. {v} \ {NULL} \in SUBSET Obj
      OBVIOUS
    <3>. QED
      BY <1>3, <1>22, <2>2, <3>1 DEF SetUpvalue
  <2>. QED
    BY <1>3, <2>1, <2>2 DEF SetUpvalue, Values
<1>24. CASE SetGlobal \/ runtimeError \/ ReuseSlot
  BY <1>24 DEF SetGlobal, runtimeError, ReuseSlot, Values
<1>4. CASE concatenate
  <2>1. PICK a \in Obj, b \in Obj, t \in Content :
            local' = [Idle EXCEPT !.at = "result", !.then = "push", !.content = t, !.held = {a, b}]
    BY Zenon, <1>4 DEF concatenate
  <2>2. local' \in Routine
    BY Zenon, <2>1, TypeOfIdle DEF Routine, Sites
  <2>. QED
    BY <1>4, <2>2 DEF concatenate
<1>5. ASSUME NEW at \in Sites, NEW made \in Obj \cup {NULL}, NEW held \in SUBSET Obj, Call(at, made, held)
      PROVE  TypeOK'
  <2>1. local' \in Routine
    BY Zenon, <1>5, TypeOfIdle, TypeOfRoutine DEF Call
  <2>. QED
    BY <1>5, <2>1 DEF Call
<1>6. CASE Closure
  <2>1. PICK f \in Obj : Call("upvalues", NULL, {f})
    BY <1>6 DEF Closure
  <2>. QED
    BY <1>5, <2>1 DEF Sites
<1>7. CASE AllocateUpvalues
  <2>1. PICK upvalueCount \in 0..1 : local' = [local EXCEPT !.at = "closure", !.n = upvalueCount]
    BY Zenon, <1>7 DEF AllocateUpvalues
  <2>2. 0..1 \subseteq Nat
    OBVIOUS
  <2>3. local' \in Routine
    BY Zenon, <2>1, <2>2, TypeOfRoutine DEF Sites
  <2>. QED
    BY <1>7, <2>3 DEF AllocateUpvalues
<1>8. CASE newClosure
  <2>1. PICK o \in Obj :
            /\ allocateObject(Handed(Memory, o), o, Object("closure", local.held, NULL, local.n))
            /\ kept' = kept \cup {o}
            /\ local' = IF local.then # "interpret" /\ local.n > 0
                        THEN [Idle EXCEPT !.at = "capture", !.made = o, !.n = local.n] ELSE Idle
    BY Zenon, <1>8 DEF newClosure
  <2>2. Object("closure", local.held, NULL, local.n) \in Record /\ local.n \in Nat
    BY TypeOfObject DEF Kind, Routine
  <2>3. object' \in [Obj -> Record]
    BY <2>1, <2>2, TypeOfAllocation
  <2>4. local' \in Routine
    BY Zenon, <2>1, <2>2, TypeOfIdle, TypeOfRoutine
  <2>5. stack' \in Seq(Obj)
    BY <1>8 DEF newClosure
  <2>. QED
    BY <1>8, <2>1, <2>3, <2>4, <2>5 DEF newClosure
<1>9. CASE captureUpvalue
  <2>1. CASE local' = [local EXCEPT !.at = "upvalue"] /\ UNCHANGED object
    <3>1. local' \in Routine
      BY Zenon, <2>1, TypeOfRoutine DEF Sites
    <3>. QED
      BY <1>9, <2>1, <3>1 DEF captureUpvalue
  <2>2. ASSUME NEW u \in Obj, object' = [object EXCEPT ![local.made].refs = @ \cup {u}], local' = Idle
        PROVE  TypeOK'
    <3>1. local.made \in Obj
      BY <1>9 DEF captureUpvalue, At, InPlace, Routine
    <3>2. {u} \in SUBSET Obj
      OBVIOUS
    <3>3. object' \in [Obj -> Record]
      BY <2>2, <3>1, <3>2, Referring
    <3>. QED
      BY <1>9, <2>2, <3>3, TypeOfIdle DEF captureUpvalue
  <2>. QED
    BY Zenon, <1>9, <2>1, <2>2 DEF captureUpvalue
<1>10. CASE newUpvalue
  <2>1. PICK o \in Obj :
            /\ object' = [object EXCEPT ![o] = Object("upvalue", {}, NULL, 0), ![local.made].refs = @ \cup {o}]
            /\ kept' = kept \cup {o}
    BY <1>10 DEF newUpvalue
  <2>2. local.made \in Obj
    BY <1>10 DEF newUpvalue, At, InPlace, Routine
  <2>3. Object("upvalue", {}, NULL, 0) \in Record
    BY TypeOfObject DEF Kind
  <2>4. [object EXCEPT ![o] = Object("upvalue", {}, NULL, 0)] \in [Obj -> Record]
    BY <2>3
  <2>5. \A r \in Record : [r EXCEPT !.refs = @ \cup {o}] \in Record
    BY DEF Record
  <2>6. object' \in [Obj -> Record]
    BY <2>1, <2>2, <2>4, <2>5
  <2>. QED
    BY <1>10, <2>1, <2>6, TypeOfIdle DEF newUpvalue
<1>11. CASE Class
  <2>1. PICK name \in Obj : Call("class", NULL, {name})
    BY <1>11 DEF Class
  <2>. QED
    BY <1>5, <2>1 DEF Sites
<1>12. CASE Instance
  <2>1. PICK class \in Obj : Call("instance", class, {class})
    BY <1>12 DEF Instance
  <2>. QED
    BY <1>5, <2>1 DEF Sites
<1>13. CASE bindMethod
  <2>1. PICK receiver \in Obj, method \in Obj : Call("bound", receiver, {receiver, method})
    BY <1>13 DEF bindMethod
  <2>. QED
    BY <1>5, <2>1 DEF Sites
<1>14. CASE NewObject
  <2>1. PICK o \in Obj :
            /\ allocateObject(Memory, o, Object(local.at, local.held, NULL, 0))
            /\ kept' = (kept \ ({local.made} \ Captured)) \cup {o}
    BY <1>14 DEF NewObject
  <2>2. local.at \in Kind /\ local.held \in SUBSET Obj
    BY <1>14 DEF NewObject, Kind, Routine
  <2>3. Object(local.at, local.held, NULL, 0) \in Record
    BY <2>2, TypeOfObject
  <2>4. object' \in [Obj -> Record]
    BY <2>1, <2>3, TypeOfAllocation
  <2>. QED
    BY <1>14, <2>1, <2>4, TypeOfIdle DEF NewObject
<1>15. CASE SetEntry
  <2>1. PICK owner \in Obj, name \in Obj, value \in Obj : Call("table", owner, {owner, name, value})
    BY <1>15 DEF SetEntry
  <2>. QED
    BY <1>5, <2>1 DEF Sites
<1>16. CASE tableSet
  <2>1. local.made \in Obj /\ local.held \in SUBSET Obj
    BY <1>16 DEF tableSet, At, InPlace, Routine
  <2>2. PICK cap \in Room(object[local.made].array) :
            object' = [object EXCEPT ![local.made].array = cap, ![local.made].refs = @ \cup local.held]
    BY <1>16 DEF tableSet
  <2>3. cap \in Nat
    BY <2>1, Resizing, 0 \in Nat, Capacities
  <2>4. [object EXCEPT ![local.made].array = cap] \in [Obj -> Record]
    BY <2>1, <2>3, Resizing
  <2>5. \A r \in Record : [r EXCEPT !.refs = @ \cup local.held] \in Record
    BY <2>1 DEF Record
  <2>6. object' \in [Obj -> Record]
    BY <2>1, <2>2, <2>4, <2>5
  <2>. QED
    BY <1>16, <2>6, TypeOfIdle DEF tableSet
<1>17. CASE defineNative
  <2>1. local' \in Routine
    BY <1>17, Copying DEF defineNative
  <2>. QED
    BY <1>17, <2>1 DEF defineNative
<1>18. CASE internBuiltinStrings
  <2>1. local' \in Routine
    BY <1>18, Copying DEF internBuiltinStrings
  <2>. QED
    BY <1>18, <2>1 DEF internBuiltinStrings
<1>19. CASE newNative
  <2>1. PICK o \in Obj :
            /\ allocateObject(Memory, o, Object("native", {}, NULL, 0))
            /\ stack' = Append(stack, o)
            /\ \E name \in local.held : CountGlobal(name, o)
            /\ local' = [Idle EXCEPT !.at = "names", !.held = local.held \cup {o}]
    BY Zenon, <1>19 DEF newNative
  <2>2. local.held \cup {o} \in SUBSET Obj
    BY DEF Routine
  <2>3. object' \in [Obj -> Record]
    BY <2>1, TypeOfObject, TypeOfAllocation DEF Kind
  <2>4. local' \in Routine
    BY ZenonT(30), <2>1, <2>2, TypeOfIdle, TypeOfRoutine DEF Sites
  <2>5. kept' \subseteq kept \cup local.held \cup {o}
    BY <2>1, Counted
  <2>. QED
    BY <1>19, <2>1, <2>2, <2>3, <2>4, <2>5, Appended DEF newNative
<1>20. CASE freeVM
  <2>1. local' \in Routine
    BY Zenon, <1>20, TypeOfIdle, TypeOfRoutine DEF freeVM
  <2>. QED
    BY <1>20, <2>1 DEF freeVM
<1>21. CASE freeMemoryManager
  BY <1>21, TypeOfIdle DEF freeMemoryManager
<1>. QED
  BY <1>1, <1>2, <1>3, <1>4, <1>6, <1>7, <1>8, <1>9, <1>10, <1>11, <1>12, <1>13, <1>14, <1>15, <1>16, <1>17,
     <1>18, <1>19, <1>20, <1>21, <1>23, <1>24 DEF Run

LEMMA TypeOfCollection ==
  ASSUME TypeOK, collectGarbage
  PROVE  TypeOK'
  BY TypeOfIdle DEF TypeOK, collectGarbage, handleWeakVMReferences
-----------------------------------------------------------------------------
(* What a routine is at, and its stack.                                      *)

LEMMA InPlaceDelivered ==
  ASSUME TypeOK, InPlace, NEW s \in Obj, Deliver(s, <<>>), UNCHANGED contexts
  PROVE  InPlace'
<1>1. stack' = <<>> \/ stack' = <<s>>
  BY Short DEF Deliver
<1>2. CASE local' = Idle /\ stack' = <<>>
  BY <1>2 DEF InPlace, Idle
<1>3. CASE local' = [Idle EXCEPT !.at = "add", !.made = s] /\ stack' = <<s>> /\ Compiling
  BY <1>3, NullAssumption DEF InPlace, Idle, Compiling, Emptied
<1>4. CASE local' = [Idle EXCEPT !.at = "native", !.held = {s}] /\ stack' = <<s>>
  BY <1>4, Short DEF InPlace, Idle, Emptied
<1>5. local.then = "constant" => Compiling
  BY DEF InPlace
<1>. QED
  BY <1>1, <1>2, <1>3, <1>4, <1>5, Short DEF Deliver

LEMMA InPlaceStrings ==
  ASSUME TypeOK, InPlace, Strings
  PROVE  InPlace'
<1>. USE DEF At
<1>1. CASE copyString
  <2>1. stack = <<>> /\ contexts' = contexts /\ strings \subseteq Obj
    BY <1>1 DEF copyString, InPlace, Emptied, TypeOK
  <2>2. CASE \E s \in Interned : Deliver(s, stack)
    BY <2>1, <2>2, InPlaceDelivered DEF Interned
  <2>3. CASE local' = [local EXCEPT !.at = "chars"] /\ UNCHANGED <<object, kept, stack>>
    BY <2>1, <2>3 DEF InPlace, Compiling, TypeOK, Routine, Emptied
  <2>. QED
    BY <1>1, <2>2, <2>3 DEF copyString
<1>2. CASE AllocateChars
  BY <1>2 DEF AllocateChars, InPlace, Compiling, TypeOK, Routine, Emptied
<1>3. CASE takeString
  <2>1. stack = <<>> /\ contexts' = contexts /\ strings \subseteq Obj
    BY <1>3 DEF takeString, InPlace, Emptied, TypeOK
  <2>2. CASE \E s \in Interned : Deliver(s, stack)
    BY <2>1, <2>2, InPlaceDelivered DEF Interned
  <2>3. CASE local' = [local EXCEPT !.at = "string"] /\ UNCHANGED <<object, memory, kept, stack>>
    BY <2>1, <2>3 DEF InPlace, Compiling, TypeOK, Routine, Emptied
  <2>. QED
    BY <1>3, <2>2, <2>3 DEF takeString
<1>4. CASE allocateString
  <2>1. PICK o \in Obj : local' = [local EXCEPT !.at = "strings", !.made = o] /\ stack' = Append(stack, o)
    BY Zenon, <1>4 DEF allocateString, pushStackVM
  <2>2. stack' = <<o>>
    BY <1>4, <2>1, Short DEF allocateString, InPlace, Emptied
  <2>. QED
    BY <1>4, <2>1, <2>2, NullAssumption DEF allocateString, InPlace, Compiling, TypeOK, Routine, Emptied
<1>5. CASE InternString
  BY <1>5, Pushed, InPlaceDelivered DEF InternString
<1>. QED
  BY <1>1, <1>2, <1>3, <1>4, <1>5 DEF Strings

LEMMA InPlaceCompile ==
  ASSUME TypeOK, InPlace, Compile
  PROVE  InPlace'
<1>. USE DEF At, InPlace, Compiling, Emptied
<1>1. CASE NewContext
  BY <1>1 DEF NewContext, Idle
<1>2. CASE newFunction
  <2>1. contexts' # <<>> /\ stack' = <<>>
    BY <1>2, Appended DEF newFunction, TypeOK
  <2>2. CASE \E c \in Content : local' = [Idle EXCEPT !.at = "copy", !.then = "name", !.content = c]
    BY <2>1, <2>2 DEF Idle
  <2>3. CASE local' = Idle
    BY <2>1, <2>3 DEF Idle
  <2>. QED
    BY Zenon, <1>2, <2>2, <2>3 DEF newFunction, CopyString
<1>3. CASE CompileName
  BY <1>3 DEF CompileName, CopyString, Idle
<1>4. CASE addConstant
  <2>1. CASE popStackVM /\ local' = Resume
    <3>1. stack' = <<>>
      BY <1>4, <2>1, Pushed DEF addConstant, popStackVM
    <3>. QED
      BY Zenon, <1>4, <2>1, <3>1 DEF addConstant, Resume, Idle
  <2>2. CASE /\ local' = [local EXCEPT !.at = "constants", !.n = object[Function].array]
             /\ UNCHANGED stack
    BY <1>4, <2>2 DEF addConstant, TypeOK, Routine
  <2>. QED
    BY <1>4, <2>1, <2>2 DEF addConstant
<1>5. CASE GrowConstants
  <2>1. stack' = <<>>
    BY <1>5, Pushed DEF GrowConstants, popStackVM
  <2>. QED
    BY <1>5, <2>1 DEF GrowConstants, Resume, Idle
<1>6. CASE writeChunk
  BY <1>6 DEF writeChunk, TypeOK, Routine
<1>7. CASE GrowCode
  BY <1>7 DEF GrowCode, TypeOK, Routine
<1>8. CASE GrowLines
  BY <1>8 DEF GrowLines, Resume, Idle
<1>9. CASE computeGlobalSlot
  BY <1>9 DEF computeGlobalSlot, Idle
<1>10. CASE SetGlobalName
  BY <1>10 DEF SetGlobalName, Idle
<1>11. CASE EndFunction
  <2>1. Len(contexts) > 1 /\ contexts # <<>>
    BY <1>11 DEF EndFunction, TypeOK
  <2>2. Front(contexts) # <<>> /\ Function \in Obj
    BY <2>1, Fronted DEF TypeOK, Function
  <2>3. stack' = <<Function>>
    BY <1>11, <2>2, Short DEF EndFunction, pushStackVM
  <2>4. local' = [Idle EXCEPT !.at = "add", !.made = Function, !.held = {Function}] /\ contexts' # <<>>
    BY <1>11, <2>2 DEF EndFunction
  <2>. QED
    BY <2>2, <2>3, <2>4, NullAssumption DEF Idle
<1>12. CASE EmitUpvalues
  BY <1>12 DEF EmitUpvalues, Idle
<1>13. CASE interpret
  <2>1. CASE local' = Idle /\ UNCHANGED stack
    BY <1>13, <2>1 DEF interpret, Idle
  <2>2. CASE local' = [Idle EXCEPT !.at = "upvalues", !.then = "interpret", !.held = {Function}]
    BY <2>2 DEF Idle
  <2>. QED
    BY <1>13, <2>1, <2>2 DEF interpret
<1>. QED
  BY <1>1, <1>2, <1>3, <1>4, <1>5, <1>6, <1>7, <1>8, <1>9, <1>10, <1>11, <1>12, <1>13 DEF Compile

LEMMA InPlaceRun ==
  ASSUME TypeOK, InPlace, Run
  PROVE  InPlace'
<1>. USE DEF At, InPlace, Compiling, Emptied, Running
<1>1. CASE Keep
  BY <1>1 DEF Keep
<1>2. CASE Drop
  BY <1>2 DEF Drop
<1>3. CASE closeUpvalues \/ SetUpvalue
  BY <1>3 DEF closeUpvalues, SetUpvalue
<1>21. CASE SetGlobal \/ runtimeError \/ ReuseSlot
  BY <1>21 DEF SetGlobal, runtimeError, ReuseSlot
<1>4. CASE concatenate
  BY <1>4 DEF concatenate, Idle
<1>5. CASE Closure
  BY <1>5 DEF Closure, Call, Idle
<1>6. CASE AllocateUpvalues
  BY <1>6 DEF AllocateUpvalues, TypeOK, Routine
<1>7. CASE newClosure
  BY <1>7, NullAssumption DEF newClosure, Idle
<1>8. CASE captureUpvalue
  BY <1>8 DEF captureUpvalue, Idle, TypeOK, Routine
<1>9. CASE newUpvalue
  BY <1>9 DEF newUpvalue, Idle
<1>10. CASE Class
  BY <1>10 DEF Class, Call, Idle
<1>11. CASE Instance
  BY <1>11 DEF Instance, Call, Idle
<1>12. CASE bindMethod
  BY <1>12 DEF bindMethod, Call, Idle
<1>13. CASE NewObject
  BY <1>13 DEF NewObject, Idle
<1>14. CASE SetEntry
  BY <1>14, NullAssumption DEF SetEntry, Call, Idle, TypeOK
<1>15. CASE tableSet
  BY <1>15 DEF tableSet, Idle
<1>16. CASE defineNative
  BY <1>16 DEF defineNative, CopyString, Idle
<1>17. CASE newNative
  BY <1>17 DEF newNative, Idle
<1>18. CASE internBuiltinStrings
  BY <1>18 DEF internBuiltinStrings, CopyString, Idle
<1>19. CASE freeVM
  BY <1>19 DEF freeVM, Idle
<1>20. CASE freeMemoryManager
  BY <1>20 DEF freeMemoryManager, Idle
<1>. QED
  BY <1>1, <1>2, <1>3, <1>4, <1>5, <1>6, <1>7, <1>8, <1>9, <1>10, <1>11, <1>12, <1>13, <1>14, <1>15, <1>16, <1>17,
     <1>18, <1>19, <1>20, <1>21 DEF Run

LEMMA InPlaceStep ==
  ASSUME TypeOK, InPlace, UnmarkedOK, [Next]_vars
  PROVE  TypeOK' /\ InPlace'
<1>1. CASE collectGarbage
  BY <1>1, TypeOfCollection DEF collectGarbage, handleWeakVMReferences, InPlace, Compiling
<1>2. CASE UNCHANGED vars
  BY <1>2 DEF vars, TypeOK, InPlace, Compiling
<1>. QED
  BY <1>1, <1>2, TypeOfStrings, TypeOfCompile, TypeOfRun, InPlaceStrings, InPlaceCompile, InPlaceRun DEF Next
-----------------------------------------------------------------------------
(* What can be reached.                                                      *)

LEMMA ReachIsClosed ==
  ASSUME TypeOK, NEW S \in SUBSET Obj
  PROVE  /\ S \subseteq From(S) /\ From(S) \in SUBSET Obj
         /\ \A p \in From(S) : object[p].refs \subseteq From(S)
<1>1. S \subseteq From(S) /\ From(S) \in SUBSET Obj
  BY DEF From
<1>2. \A p \in From(S) : object[p].refs \subseteq Obj
  BY <1>1 DEF TypeOK, Record
<1>3. ASSUME NEW p \in From(S), NEW q \in object[p].refs
      PROVE  q \in From(S)
  <2>1. \A T \in SUBSET Obj : S \subseteq T /\ (\A r \in T : object[r].refs \subseteq T) => p \in T
    BY DEF From
  <2>2. \A T \in SUBSET Obj : S \subseteq T /\ (\A r \in T : object[r].refs \subseteq T) => q \in T
    BY <1>3, <2>1
  <2>. QED
    BY <1>2, <1>3, <2>2 DEF From
<1>. QED
  BY <1>1, <1>3

ReachClosed ==
  \A S \in SUBSET Obj : S \subseteq From(S) /\ \A p \in From(S) : object[p].refs \subseteq From(S)

LEMMA ReachIsAlwaysClosed == TypeOK => ReachClosed
  BY ReachIsClosed DEF ReachClosed

LEMMA ReachIsClosedNext ==
  ASSUME TypeOK'
  PROVE  /\ Roots' \subseteq From(Roots)'
         /\ \A p \in From(Roots)' : object'[p].refs \subseteq From(Roots)'
<1>1. ReachClosed'
  BY ReachIsAlwaysClosed, PTL
<1>2. Roots' \in SUBSET Obj
  BY DEF TypeOK, Roots, Range
<1>. QED
  BY <1>1, <1>2 DEF ReachClosed

LEMMA ReachIsLeast ==
  ASSUME NEW S, NEW T \in SUBSET Obj, S \subseteq T, \A p \in T : object[p].refs \subseteq T
  PROVE  From(S) \subseteq T
  BY DEF From

LEMMA ReachIsPresent ==
  ASSUME TypeOK, Present
  PROVE  /\ Live \in SUBSET Obj /\ Roots \subseteq Live
         /\ Roots \subseteq From(Roots) /\ From(Roots) \subseteq Live
         /\ \A S \in SUBSET Live : S \subseteq From(S) /\ From(S) \subseteq Live
<1>1. Live \in SUBSET Obj /\ Roots \subseteq Live
  BY DEF Present, Live
<1>2. \A S \in SUBSET Live : From(S) \subseteq Live
  BY <1>1, ReachIsLeast DEF Present
<1>3. \A S \in SUBSET Live : S \subseteq From(S)
  BY <1>1, ReachIsClosed
<1>. QED
  BY <1>1, <1>2, <1>3

\* Nothing that is there goes, and no reference is lost.
Grows == \A p \in Live : /\ object'[p].kind # "free" /\ object'[p].content = object[p].content
                        /\ object[p].refs \subseteq object'[p].refs

\* Nothing that is there goes, or changes its contents.
Lasting == \A p \in Live : object'[p].kind # "free" /\ object'[p].content = object[p].content

Closed == \A o \in Live : object[o].refs \subseteq Live

\* With more roots and more references, more can be reached.
LEMMA ReachGrows ==
  ASSUME TypeOK, TypeOK', Present, Grows, Roots \subseteq Roots'
  PROVE  From(Roots) \subseteq From(Roots)'
<1>. DEFINE T == From(Roots)' \cap Live
<1>4. Roots' \subseteq From(Roots)' /\ \A p \in From(Roots)' : object'[p].refs \subseteq From(Roots)'
  BY ReachIsClosedNext
<1>5. T \in SUBSET Obj /\ Roots \subseteq T
  BY <1>4 DEF Present, Live
<1>6. \A p \in T : object[p].refs \subseteq T
  BY <1>4 DEF Present, Grows
<1>. QED
  BY <1>5, <1>6, ReachIsLeast

\* The steps of the heap: a reference is added to an object, and one is made.
LEMMA Referred ==
  ASSUME TypeOK, Present, NEW o \in Live, NEW S \in SUBSET Live,
         object' = [object EXCEPT ![o].refs = @ \cup S]
  PROVE  Grows /\ Closed' /\ Live' = Live /\ object'[o].refs = object[o].refs \cup S
<1>1. o \in Obj /\ object[o] \in Record /\ DOMAIN object = Obj
  BY DEF TypeOK, Live
<1>2. object'[o].kind = object[o].kind /\ object'[o].content = object[o].content
      /\ object'[o].refs = object[o].refs \cup S
  BY <1>1 DEF Record
<1>3. \A p \in Obj : p # o => object'[p] = object[p]
  BY <1>1
<1>4. Live' = Live
  BY <1>1, <1>2, <1>3 DEF Live
<1>. QED
  BY <1>1, <1>2, <1>3, <1>4 DEF Grows, Closed, Present, Live

LEMMA Resized ==
  ASSUME TypeOK, Present, NEW o \in Obj, NEW n \in Nat,
         \/ object' = [object EXCEPT ![o].array = n]
         \/ object' = [object EXCEPT ![o].code = n]
  PROVE  Grows /\ Closed' /\ Live' = Live
<1>1. object[o] \in Record /\ DOMAIN object = Obj
  BY DEF TypeOK, Live
<1>2. object'[o].kind = object[o].kind /\ object'[o].content = object[o].content
      /\ object'[o].refs = object[o].refs
  BY <1>1 DEF Record
<1>3. \A p \in Obj : p # o => object'[p] = object[p]
  BY <1>1
<1>4. Live' = Live
  BY <1>1, <1>2, <1>3 DEF Live
<1>. QED
  BY <1>1, <1>2, <1>3, <1>4 DEF Grows, Closed, Present, Live

LEMMA Allocated ==
  ASSUME TypeOK, Present, NEW o \in Obj, NEW m, NEW kind, kind # "free", NEW refs \in SUBSET Live,
         NEW content, NEW array, allocateObject(m, o, Object(kind, refs, content, array))
  PROVE  Grows /\ Closed' /\ Live' = Live \cup {o} /\ object'[o].content = content
<1>1. object'[o].kind = kind /\ object'[o].content = content /\ object'[o].refs = refs /\ o \notin Live
  BY DEF allocateObject, Object, TypeOK, Live
<1>2. \A p \in Obj : p # o => object'[p] = object[p]
  BY DEF allocateObject, TypeOK
<1>3. Live' = Live \cup {o}
  BY <1>1, <1>2 DEF Live
<1>. QED
  BY <1>1, <1>2, <1>3 DEF Grows, Closed, Present, Live

LEMMA Untouched ==
  ASSUME Present, object' = object
  PROVE  Grows /\ Closed' /\ Live' = Live
  BY DEF Grows, Closed, Present, Live

\* What the steps come to: the routine keeps what it could reach, or what has
\* become a root.
LEMMA StillProtected ==
  ASSUME TypeOK, TypeOK', Present, Grows, Closed', Roots \subseteq Roots', Roots' \subseteq Live',
         Locals' \subseteq From(Roots) \cup Roots'
  PROVE  Present' /\ Protected' /\ Lasting
  BY ReachIsClosedNext, ReachGrows DEF Present, Closed, Protected, Lasting, Grows

LEMMA HeldByRoots ==
  ASSUME TypeOK', Grows, Closed', Roots' \subseteq Live', Locals' \subseteq Roots'
  PROVE  Present' /\ Protected' /\ Lasting
  BY ReachIsClosedNext DEF Present, Closed, Protected, Lasting, Grows

LEMMA SafeDelivery ==
  ASSUME TypeOK, TypeOK', InPlace, Present, NEW s \in Live, Deliver(s, <<>>), UNCHANGED contexts
  PROVE  Present' /\ Protected' /\ Lasting
<1>1. s \in Obj /\ Range(<<>>) = {} /\ Append(<<>>, s) = <<s>> /\ Range(<<s>>) = {s}
  BY Short DEF Live
<1>2. kept \subseteq Live /\ Range(contexts) \subseteq Live
  BY DEF Present, Roots
<1>3. CASE local.then = "name"
  <2>1. Function \in Live
    BY <1>2, <1>3, UnderCompilation DEF InPlace
  <2>2. object' = [object EXCEPT ![Function].refs = @ \cup {s}] /\ local' = Idle /\ stack' = <<>> /\ kept' = kept
    BY <1>3 DEF Deliver
  <2>3. {s} \in SUBSET Live
    OBVIOUS
  <2>4. Grows /\ Closed' /\ Live' = Live
    BY <2>1, <2>2, <2>3, Referred
  <2>5. Roots' \subseteq Live' /\ Locals' = {}
    BY <1>1, <1>2, <2>2, <2>4 DEF Roots, Locals, Idle
  <2>. QED
    BY <2>4, <2>5, HeldByRoots
<1>4. CASE local.then # "name"
  <2>1. Grows /\ Closed' /\ Live' = Live
    BY <1>4, Untouched DEF Deliver
  <2>2. Roots' \subseteq Live'
    BY <1>1, <1>2, <1>4, <2>1 DEF Roots, Deliver
  <2>3. Locals' \subseteq Roots'
    <3>1. CASE local' = Idle
      BY <3>1 DEF Locals, Idle
    <3>2. CASE local' = [Idle EXCEPT !.at = "add", !.made = s] /\ stack' = Append(<<>>, s)
      BY <1>1, <3>2 DEF Roots, Locals, Idle
    <3>3. CASE local' = [Idle EXCEPT !.at = "native", !.held = {s}] /\ stack' = Append(<<>>, s)
      BY <1>1, <3>3 DEF Roots, Locals, Idle
    <3>. QED
      BY <1>4, <3>1, <3>2, <3>3 DEF Deliver
  <2>. QED
    BY <2>1, <2>2, <2>3, HeldByRoots
<1>. QED
  BY <1>3, <1>4

\* A step of a routine between two of its allocations.
LEMMA SafeMove ==
  ASSUME TypeOK, TypeOK', Present, Protected, object' = object, Roots' = Roots, Locals' \subseteq Locals \cup From(Roots)
  PROVE  Present' /\ Protected' /\ Lasting
  BY Untouched, StillProtected DEF Protected, Present

LEMMA SafeStrings ==
  ASSUME TypeOK, TypeOK', InPlace, Present, Protected, Distinct, Strings
  PROVE  Present' /\ Protected' /\ Lasting
<1>. USE DEF At
<1>1. Interned \subseteq Live
  BY DEF Interned, Distinct, InternedOnce
<1>2. CASE copyString
  <2>1. stack = <<>> /\ contexts' = contexts
    BY <1>2 DEF copyString, InPlace, Emptied
  <2>2. CASE \E s \in Interned : Deliver(s, stack)
    BY <1>1, <2>1, <2>2, SafeDelivery
  <2>3. CASE local' = [local EXCEPT !.at = "chars"] /\ UNCHANGED <<object, kept, stack>>
    <3>1. Roots' = Roots /\ Locals' = Locals
      BY <2>1, <2>3 DEF Roots, Locals, TypeOK, Routine
    <3>. QED
      BY <2>3, <3>1, SafeMove
  <2>. QED
    BY <1>2, <2>2, <2>3 DEF copyString
<1>3. CASE AllocateChars
  <2>1. object' = object /\ Roots' = Roots /\ Locals' = Locals
    BY <1>3 DEF AllocateChars, Roots, Locals, TypeOK, Routine
  <2>. QED
    BY <2>1, SafeMove
<1>4. CASE takeString
  <2>1. stack = <<>> /\ contexts' = contexts
    BY <1>4 DEF takeString, InPlace, Emptied
  <2>2. CASE \E s \in Interned : Deliver(s, stack)
    BY <1>1, <2>1, <2>2, SafeDelivery
  <2>3. CASE local' = [local EXCEPT !.at = "string"] /\ UNCHANGED <<object, memory, kept, stack>>
    <3>1. Roots' = Roots /\ Locals' = Locals
      BY <2>1, <2>3 DEF Roots, Locals, TypeOK, Routine
    <3>. QED
      BY <2>3, <3>1, SafeMove
  <2>. QED
    BY <1>4, <2>2, <2>3 DEF takeString
<1>5. CASE allocateString
  <2>1. PICK o \in Obj :
            /\ allocateObject(Handed(Memory, o), o, Object("string", {}, local.content, Length + 1))
            /\ local' = [local EXCEPT !.at = "strings", !.made = o]
            /\ stack' = Append(stack, o)
    BY Zenon, <1>5 DEF allocateString, pushStackVM
  <2>2. Grows /\ Closed' /\ Live' = Live \cup {o}
    BY <2>1, {} \in SUBSET Live, "string" # "free", Allocated
  <2>3. Roots' = Roots \cup {o}
    BY <1>5, <2>1, Appended DEF allocateString, Roots, TypeOK
  <2>4. Locals' \subseteq Locals \cup {o}
    BY <2>1 DEF Locals, TypeOK, Routine
  <2>. QED
    BY <2>2, <2>3, <2>4, StillProtected DEF Protected, Present
<1>6. CASE InternString
  <2>1. Front(stack) = <<>> /\ local.made \in Range(stack)
    BY <1>6, Pushed DEF InternString
  <2>2. local.made \in Live
    BY <2>1 DEF Present, Roots
  <2>. QED
    BY <1>6, <2>1, <2>2, SafeDelivery DEF InternString
<1>. QED
  BY <1>2, <1>3, <1>4, <1>5, <1>6 DEF Strings

LEMMA SafeCompile ==
  ASSUME TypeOK, TypeOK', InPlace, Present, Protected, Compile
  PROVE  Present' /\ Protected' /\ Lasting
<1>. USE DEF At
<1>. Range(<<>>) = {} /\ Locals \subseteq Live /\ Roots \subseteq Live /\ From(Roots) \subseteq Live
  BY ReachIsPresent DEF Protected, Range
<1>1. CASE NewContext
  <2>1. object' = object /\ Roots' = Roots /\ Locals' = {}
    BY <1>1 DEF NewContext, Idle, Roots, Locals
  <2>. QED
    BY <2>1, SafeMove
<1>2. CASE newFunction
  <2>1. PICK o \in Obj : allocateObject(Memory, o, Object("function", {}, NULL, 0)) /\ contexts' = Append(contexts, o)
    BY <1>2 DEF newFunction
  <2>2. Grows /\ Closed' /\ Live' = Live \cup {o}
    BY <2>1, {} \in SUBSET Live, "function" # "free", Allocated
  <2>3. Roots' = Roots \cup {o}
    BY <1>2, <2>1, Appended DEF newFunction, Roots, TypeOK
  <2>4. Locals' = {}
    <3>1. CASE \E c \in Content : local' = [Idle EXCEPT !.at = "copy", !.then = "name", !.content = c]
      BY <3>1 DEF Locals, Idle
    <3>2. CASE local' = Idle
      BY <3>2 DEF Locals, Idle
    <3>. QED
      BY Zenon, <1>2, <3>1, <3>2 DEF newFunction, CopyString
  <2>. QED
    BY <2>2, <2>3, <2>4, HeldByRoots
<1>3. CASE CompileName
  <2>1. object' = object /\ Roots' = Roots /\ Locals' = {}
    BY <1>3 DEF CompileName, CopyString, Idle, Roots, Locals
  <2>. QED
    BY <2>1, SafeMove
<1>4. ASSUME local.at \in {"add", "constants"}, contexts' = contexts, kept' = kept,
             object' = [object EXCEPT ![Function].refs = @ \cup {local.made}], popStackVM, local' = Resume
      PROVE  Present' /\ Protected' /\ Lasting
  <2>1. local.made \in Obj /\ stack' = <<>> /\ local.made \in Range(stack)
    BY <1>4, Pushed DEF popStackVM
  <2>2. Function \in Live /\ Function \in Range(contexts)
    BY <1>4, UnderCompilation DEF InPlace, Roots
  <2>3. {local.made} \in SUBSET Live
    BY <2>1 DEF Roots
  <2>4. Grows /\ Closed' /\ Live' = Live /\ local.made \in object'[Function].refs
    <3>1. object' = [object EXCEPT ![Function].refs = @ \cup {local.made}]
      BY <1>4
    <3>2. Grows /\ Closed' /\ Live' = Live /\ object'[Function].refs = object[Function].refs \cup {local.made}
      BY <2>2, <2>3, <3>1, Referred
    <3>. QED
      BY <3>2
  <2>5. Roots' \subseteq Live' /\ Function \in Roots'
    BY <1>4, <2>1, <2>2, <2>4 DEF Roots
  <2>6. Locals' \subseteq {local.made}
    BY <1>4, NullAssumption DEF InPlace, Locals, Resume, Idle
  <2>7. local.made \in From(Roots)'
    BY <2>4, <2>5, ReachIsClosedNext
  <2>. QED
    BY <2>4, <2>5, <2>6, <2>7 DEF Present, Closed, Protected, Lasting, Grows
<1>5. CASE addConstant
  <2>1. CASE /\ object' = [object EXCEPT ![Function].refs = @ \cup {local.made}]
             /\ popStackVM /\ local' = Resume
    BY <1>4, <1>5, <2>1 DEF addConstant
  <2>2. ASSUME NEW cap \in Grown(object[Function].array),
               object' = [object EXCEPT ![Function].array = cap],
               local' = [local EXCEPT !.at = "constants", !.n = object[Function].array],
               UNCHANGED stack
        PROVE  Present' /\ Protected' /\ Lasting
    <3>1. Function \in Obj
      BY <1>5, UnderCompilation DEF addConstant, InPlace
    <3>2. cap \in Nat
      BY <3>1, Resizing, 0 \in Nat, Capacities
    <3>3. Grows /\ Closed' /\ Live' = Live
      BY <2>2, <3>1, <3>2, Resized
    <3>4. Roots' = Roots /\ Locals' = Locals
      BY <1>5, <2>2 DEF addConstant, Roots, Locals, TypeOK, Routine
    <3>. QED
      BY <3>3, <3>4, StillProtected DEF Protected
  <2>. QED
    BY <1>5, <2>1, <2>2 DEF addConstant
<1>6. CASE GrowConstants
  BY <1>4, <1>6 DEF GrowConstants
<1>7. CASE writeChunk
  <2>1. Function \in Obj
    BY <1>7, UnderCompilation DEF writeChunk
  <2>2. PICK cap \in Grown(object[Function].code) :
            /\ object' = [object EXCEPT ![Function].code = cap]
            /\ local' = [local EXCEPT !.at = "code", !.n = object[Function].code]
    BY <1>7 DEF writeChunk
  <2>3. cap \in Nat
    BY <2>1, Resizing, 0 \in Nat, Capacities
  <2>4. Grows /\ Closed' /\ Live' = Live
    BY <2>1, <2>2, <2>3, Resized
  <2>5. Roots' = Roots /\ Locals' = Locals
    BY <1>7, <2>2 DEF writeChunk, Roots, Locals, TypeOK, Routine
  <2>. QED
    BY <2>4, <2>5, StillProtected DEF Protected
<1>8. CASE GrowCode
  <2>1. object' = object /\ Roots' = Roots /\ Locals' = Locals
    BY <1>8 DEF GrowCode, Roots, Locals, TypeOK, Routine
  <2>. QED
    BY <2>1, SafeMove
<1>9. CASE GrowLines
  <2>1. object' = object /\ Roots' = Roots /\ Locals' \subseteq Locals
    BY Zenon, <1>9 DEF GrowLines, Resume, Idle, Roots, Locals, TypeOK, Routine
  <2>. QED
    BY <2>1, SafeMove
<1>10. CASE computeGlobalSlot
  <2>1. PICK name \in object[Function].refs :
            CountGlobal(name, NULL) /\ local' = [Idle EXCEPT !.at = "names", !.held = {name}]
    BY Zenon, <1>10 DEF computeGlobalSlot
  <2>2. name \in Live
    BY <1>10, <2>1, UnderCompilation DEF computeGlobalSlot, Present, Roots
  <2>3. kept' \subseteq kept \cup {name} /\ name \in kept'
    BY <2>1, Counted
  <2>4. object' = object /\ Roots' \subseteq Roots \cup {name} /\ Locals' \subseteq Roots'
    BY <1>10, <2>1, <2>3 DEF computeGlobalSlot, Roots, Locals, Idle
  <2>. QED
    BY <2>2, <2>4, Untouched, HeldByRoots
<1>11. CASE SetGlobalName
  <2>1. object' = object /\ Roots' \subseteq Roots /\ Locals' = {}
    BY <1>11 DEF SetGlobalName, Roots, Locals, Idle
  <2>. QED
    BY <2>1, Untouched, HeldByRoots
<1>12. CASE EndFunction
  <2>1. Function \in Obj /\ Function \in Range(contexts) /\ Range(Front(contexts)) \subseteq Range(contexts)
    BY <1>12, UnderCompilation DEF EndFunction, Compiling
  <2>2. Range(stack') = Range(stack) \cup {Function}
    BY <1>12, <2>1, Appended DEF EndFunction, pushStackVM, TypeOK
  <2>3. object' = object /\ Roots' \subseteq Roots /\ Locals' \subseteq Roots'
    BY <1>12, <2>1, <2>2 DEF EndFunction, Roots, Locals, Idle
  <2>. QED
    BY <2>3, Untouched, HeldByRoots
<1>13. CASE EmitUpvalues
  <2>1. object' = object /\ Roots' = Roots /\ Locals' = {}
    BY <1>13 DEF EmitUpvalues, Roots, Locals, Idle
  <2>. QED
    BY <2>1, SafeMove
<1>14. CASE interpret
  <2>1. contexts # <<>>
    <3>1. Len(contexts) = 1
      BY <1>14 DEF interpret
    <3>. QED
      BY <3>1
  <2>2. Function \in Obj /\ Function \in Range(contexts)
    BY <2>1, UnderCompilation DEF Compiling
  <2>3. Range(Append(stack, Function)) = Range(stack) \cup {Function}
    BY <2>2, Appended DEF TypeOK
  <2>4. object' = object /\ Roots' \subseteq Roots /\ Locals' \subseteq Roots'
    <3>1. CASE local' = Idle /\ UNCHANGED stack
      BY <1>14, <3>1 DEF interpret, Roots, Locals, Idle
    <3>2. CASE /\ stack' = Append(stack, Function)
               /\ local' = [Idle EXCEPT !.at = "upvalues", !.then = "interpret", !.held = {Function}]
      BY <1>14, <2>2, <2>3, <3>2 DEF interpret, Roots, Locals, Idle
    <3>. QED
      BY <1>14, <3>1, <3>2 DEF interpret
  <2>. QED
    BY <2>4, Untouched, HeldByRoots
<1>. QED
  BY <1>1, <1>2, <1>3, <1>5, <1>6, <1>7, <1>8, <1>9, <1>10, <1>11, <1>12, <1>13, <1>14 DEF Compile
\* The instructions of a program: what they hold they have from a root.
LEMMA SafeRun ==
  ASSUME TypeOK, TypeOK', InPlace, Present, Protected, Slots, Run, ~freeMemoryManager
  PROVE  Present' /\ Protected' /\ Lasting
<1>. USE DEF At
<1>. /\ Range(<<>>) = {} /\ Locals \subseteq From(Roots) /\ Roots \subseteq Live /\ Roots \subseteq From(Roots)
     /\ From(Roots) \subseteq Live /\ kept \subseteq Roots /\ kept \subseteq Live
  BY ReachIsPresent DEF Protected, Range, Roots
<1>. From(kept) \subseteq From(Roots)
  BY DEF From, Roots
<1>. {} \in SUBSET Live /\ Idle.held = {} /\ Idle.made = NULL
  BY DEF Idle
<1>1. ASSUME object' = object, Roots' \subseteq Live, Locals' = {}
      PROVE  Present' /\ Protected' /\ Lasting
  BY <1>1, Untouched, HeldByRoots
<1>2. ASSUME NEW at, NEW made \in From(Roots) \cup {NULL}, NEW held \in SUBSET From(Roots), Call(at, made, held)
      PROVE  Present' /\ Protected' /\ Lasting
  <2>1. object' = object /\ Roots' = Roots
    BY <1>2 DEF Call, Roots
  <2>2. local'.held = held /\ local'.made = made
    BY <1>2 DEF Call, Idle
  <2>3. Locals' \subseteq From(Roots)
    BY <2>2 DEF Locals
  <2>. QED
    BY <2>1, <2>3, SafeMove
<1>3. CASE Keep
  <2>1. Locals = {} /\ Locals' = Locals
    BY <1>3 DEF Keep, Running, InPlace, Locals
  <2>2. object' = object /\ Roots' \subseteq Roots \cup Live
    BY <1>3 DEF Keep, Roots
  <2>. QED
    BY <1>1, <2>1, <2>2
<1>4. CASE Drop
  <2>1. Locals = {} /\ Locals' = Locals
    BY <1>4 DEF Drop, Running, InPlace, Locals
  <2>2. object' = object /\ Roots' \subseteq Roots
    BY <1>4 DEF Drop, Roots
  <2>. QED
    BY <1>1, <2>1, <2>2
<1>22. ASSUME NEW u \in Live, NEW S \in SUBSET Live, object' = [object EXCEPT ![u].refs = S],
              Roots' \subseteq Roots, Locals' = {}
       PROVE  Present' /\ Protected' /\ Lasting
  <2>2. u \in Obj /\ object[u] \in Record /\ DOMAIN object = Obj
    BY DEF TypeOK, Live
  <2>3. object'[u].kind = object[u].kind /\ object'[u].content = object[u].content /\ object'[u].refs = S
    BY <1>22, <2>2 DEF Record
  <2>4. \A p \in Obj : p # u => object'[p] = object[p]
    BY <1>22, <2>2
  <2>5. Live' = Live /\ Closed' /\ Lasting
    BY <2>2, <2>3, <2>4 DEF Live, Closed, Present, Lasting
  <2>. QED
    BY <1>22, <2>5 DEF Present, Closed, Protected
<1>23. CASE closeUpvalues
  <2>1. PICK u \in kept : object' = [object EXCEPT ![u].refs = location[u] \ {NULL}] /\ kept' = kept \ {u}
    BY <1>23 DEF closeUpvalues, openUpvalues
  <2>2. u \in Live /\ location[u] \ {NULL} \in SUBSET Live
    BY DEF Slots, Values
  <2>3. Locals' = {} /\ Roots' \subseteq Roots
    BY <1>23, <2>1 DEF closeUpvalues, Running, InPlace, Locals, Roots
  <2>. QED
    BY <1>22, <2>1, <2>2, <2>3
<1>5. CASE SetUpvalue
  <2>1. Locals' = {} /\ Roots' = Roots
    BY <1>5 DEF SetUpvalue, Running, InPlace, Locals, Roots
  <2>2. CASE UNCHANGED object
    BY <1>1, <2>1, <2>2
  <2>3. ASSUME NEW u \in Live, NEW v \in kept \cup {NULL}, object' = [object EXCEPT ![u].refs = {v} \ {NULL}]
        PROVE  Present' /\ Protected' /\ Lasting
    <3>1. {v} \ {NULL} \in SUBSET Live
      OBVIOUS
    <3>. QED
      BY <1>22, <2>1, <2>3, <3>1
  <2>. QED
    BY <1>5, <2>2, <2>3 DEF SetUpvalue, Values
<1>24. CASE SetGlobal \/ runtimeError \/ ReuseSlot
  <2>1. Locals = {} /\ Locals' = Locals
    BY <1>24 DEF SetGlobal, runtimeError, ReuseSlot, Running, InPlace, Locals
  <2>2. object' = object /\ Roots' \subseteq Roots
    BY <1>24 DEF SetGlobal, runtimeError, ReuseSlot, Values, Roots
  <2>. QED
    BY <1>1, <2>1, <2>2
<1>6. CASE concatenate
  <2>1. PICK a \in kept, b \in kept, t \in Content :
            local' = [Idle EXCEPT !.at = "result", !.then = "push", !.content = t, !.held = {a, b}]
    BY Zenon, <1>6 DEF concatenate
  <2>2. object' = object /\ Roots' = Roots
    BY <1>6 DEF concatenate, Roots
  <2>3. Locals' \subseteq From(Roots)
    BY <2>1 DEF Locals, Idle
  <2>. QED
    BY <2>2, <2>3, SafeMove
<1>7. CASE Closure
  <2>1. PICK f \in From(Roots) : Call("upvalues", NULL, {f})
    BY <1>7 DEF Closure
  <2>. QED
    BY <1>2, <2>1, {f} \in SUBSET From(Roots), NULL \in From(Roots) \cup {NULL}
<1>8. CASE AllocateUpvalues
  <2>1. object' = object /\ Roots' = Roots /\ Locals' = Locals
    BY <1>8 DEF AllocateUpvalues, Roots, Locals, TypeOK, Routine
  <2>. QED
    BY <2>1, SafeMove
<1>9. CASE newClosure
  <2>1. PICK o \in Obj :
            /\ allocateObject(Handed(Memory, o), o, Object("closure", local.held, NULL, local.n))
            /\ kept' = kept \cup {o}
            /\ local' = IF local.then # "interpret" /\ local.n > 0
                        THEN [Idle EXCEPT !.at = "capture", !.made = o, !.n = local.n] ELSE Idle
    BY Zenon, <1>9 DEF newClosure
  <2>2. local.held \in SUBSET Live
    BY DEF Locals
  <2>3. Grows /\ Closed' /\ Live' = Live \cup {o}
    BY <2>1, <2>2, "closure" # "free", Allocated
  <2>4. Roots' \subseteq Roots \cup {o} /\ o \in Roots'
    BY <1>9, <2>1 DEF newClosure, Roots
  <2>5. Locals' \subseteq {o}
    BY <2>1 DEF Locals, Idle
  <2>. QED
    BY <2>3, <2>4, <2>5, HeldByRoots
<1>10. CASE captureUpvalue
  <2>1. local.made \in Live /\ Roots' = Roots
    BY <1>10, NullAssumption DEF captureUpvalue, InPlace, Locals, Roots
  <2>2. CASE local' = [local EXCEPT !.at = "upvalue"] /\ UNCHANGED object
    <3>1. Locals' = Locals
      BY <2>2 DEF Locals, TypeOK, Routine
    <3>. QED
      BY <2>1, <2>2, <3>1, SafeMove
  <2>3. ASSUME NEW u \in From(kept), object' = [object EXCEPT ![local.made].refs = @ \cup {u}], local' = Idle
        PROVE  Present' /\ Protected' /\ Lasting
    <3>1. {u} \in SUBSET Live
      OBVIOUS
    <3>2. Grows /\ Closed' /\ Live' = Live
      BY <2>1, <2>3, <3>1, Referred
    <3>3. Locals' = {}
      BY <2>3 DEF Locals
    <3>. QED
      BY <2>1, <3>2, <3>3, HeldByRoots
  <2>. QED
    BY <1>10, <2>2, <2>3 DEF captureUpvalue
<1>11. CASE newUpvalue
  <2>1. PICK o \in Obj :
            /\ object[o].kind = "free"
            /\ object' = [object EXCEPT ![o] = Object("upvalue", {}, NULL, 0), ![local.made].refs = @ \cup {o}]
            /\ kept' = kept \cup {o}
    BY <1>11 DEF newUpvalue
  <2>2. local.made \in Live
    BY <1>11 DEF newUpvalue, InPlace, Locals
  <2>3. local.made # o /\ local.made \in Obj /\ object[local.made] \in Record /\ DOMAIN object = Obj
    BY <2>1, <2>2 DEF Live, TypeOK
  <2>4. /\ object'[o] = Object("upvalue", {}, NULL, 0)
        /\ object'[local.made] = [object[local.made] EXCEPT !.refs = @ \cup {o}]
        /\ \A p \in Obj : p # o /\ p # local.made => object'[p] = object[p]
    BY <2>1, <2>3
  <2>5. /\ object'[o].kind = "upvalue" /\ object'[o].refs = {}
        /\ object'[local.made].kind = object[local.made].kind
        /\ object'[local.made].content = object[local.made].content
        /\ object'[local.made].refs = object[local.made].refs \cup {o}
    BY <2>3, <2>4 DEF Object, Record
  <2>6. Live' = Live \cup {o} /\ o \notin Live
    BY <2>1, <2>3, <2>4, <2>5 DEF Live
  <2>7. Grows /\ Closed'
    BY <2>1, <2>2, <2>4, <2>5, <2>6 DEF Grows, Closed, Present, Live
  <2>8. Roots' = Roots \cup {o} /\ Locals' = {}
    BY <1>11, <2>1 DEF newUpvalue, Roots, Locals
  <2>. QED
    BY <2>6, <2>7, <2>8, HeldByRoots
<1>12. CASE Class
  <2>1. PICK name \in From(Roots) : Call("class", NULL, {name})
    BY <1>12 DEF Class
  <2>. QED
    BY <1>2, <2>1, {name} \in SUBSET From(Roots), NULL \in From(Roots) \cup {NULL}
<1>13. CASE Instance
  <2>1. PICK class \in From(Roots) : Call("instance", class, {class})
    BY <1>13 DEF Instance
  <2>. QED
    BY <1>2, <2>1, {class} \in SUBSET From(Roots)
<1>14. CASE bindMethod
  <2>1. PICK receiver \in From(Roots), method \in From(Roots) : Call("bound", receiver, {receiver, method})
    BY <1>14 DEF bindMethod
  <2>. QED
    BY <1>2, <2>1, {receiver, method} \in SUBSET From(Roots)
<1>15. CASE NewObject
  <2>1. PICK o \in Obj :
            /\ allocateObject(Memory, o, Object(local.at, local.held, NULL, 0))
            /\ kept' = (kept \ ({local.made} \ Captured)) \cup {o}
    BY <1>15 DEF NewObject
  <2>2. local.held \in SUBSET Live /\ local.at # "free"
    BY <1>15 DEF Locals, NewObject
  <2>3. Grows /\ Closed' /\ Live' = Live \cup {o}
    BY <2>1, <2>2, Allocated
  <2>4. Roots' \subseteq Roots \cup {o} /\ Locals' = {}
    BY <1>15, <2>1 DEF NewObject, Roots, Locals
  <2>. QED
    BY <2>3, <2>4, HeldByRoots
<1>16. CASE SetEntry
  <2>1. PICK owner \in From(Roots), name \in From(Roots), value \in From(Roots) :
            Call("table", owner, {owner, name, value})
    BY <1>16 DEF SetEntry
  <2>. QED
    BY <1>2, <2>1, {owner, name, value} \in SUBSET From(Roots)
<1>17. CASE tableSet
  <2>1. local.made \in Live /\ local.held \in SUBSET Live
    BY <1>17 DEF tableSet, InPlace, Locals
  <2>2. PICK cap : object' = [object EXCEPT ![local.made].array = cap, ![local.made].refs = @ \cup local.held]
    BY <1>17 DEF tableSet
  <2>3. local.made \in Obj /\ object[local.made] \in Record /\ DOMAIN object = Obj
    BY <2>1 DEF Live, TypeOK
  <2>4. /\ object'[local.made].kind = object[local.made].kind
        /\ object'[local.made].content = object[local.made].content
        /\ object'[local.made].refs = object[local.made].refs \cup local.held
        /\ \A p \in Obj : p # local.made => object'[p] = object[p]
    BY <2>2, <2>3 DEF Record
  <2>5. Live' = Live
    BY <2>3, <2>4 DEF Live
  <2>6. Grows /\ Closed'
    BY <2>1, <2>4, <2>5 DEF Grows, Closed, Present, Live
  <2>7. Roots' = Roots /\ Locals' = {}
    BY <1>17 DEF tableSet, Roots, Locals
  <2>. QED
    BY <2>5, <2>6, <2>7, HeldByRoots
<1>18. CASE defineNative
  <2>1. object' = object /\ Roots' = Roots /\ Locals' = {}
    BY <1>18 DEF defineNative, CopyString, Roots, Locals, Idle
  <2>. QED
    BY <1>1, <2>1
<1>19. CASE internBuiltinStrings
  <2>1. object' = object /\ Roots' = Roots /\ Locals' = {}
    BY <1>19 DEF internBuiltinStrings, CopyString, Roots, Locals, Idle
  <2>. QED
    BY <1>1, <2>1
<1>20. CASE newNative
  <2>1. PICK o \in Obj :
            /\ allocateObject(Memory, o, Object("native", {}, NULL, 0))
            /\ stack' = Append(stack, o)
            /\ \E name \in local.held : CountGlobal(name, o)
            /\ local' = [Idle EXCEPT !.at = "names", !.held = local.held \cup {o}]
    BY Zenon, <1>20 DEF newNative
  <2>2. Grows /\ Closed' /\ Live' = Live \cup {o}
    BY <2>1, "native" # "free", Allocated
  <2>3. Range(stack') = Range(stack) \cup {o}
    BY <2>1, Appended DEF TypeOK
  <2>4. local.held \subseteq Range(stack) /\ kept' \subseteq kept \cup local.held \cup {o}
    BY <1>20, <2>1, Counted DEF newNative, InPlace
  <2>5. Roots' \subseteq Roots \cup {o} /\ local.held \cup {o} \subseteq Roots'
    BY <1>20, <2>3, <2>4 DEF newNative, Roots
  <2>6. Locals' = local.held \cup {o}
    BY <2>1 DEF Locals, Idle
  <2>. QED
    BY <2>2, <2>5, <2>6, HeldByRoots
<1>21. CASE freeVM
  <2>1. object' = object /\ Roots' \subseteq Roots /\ Locals' = {}
    BY <1>21 DEF freeVM, Roots, Locals, Idle
  <2>. QED
    BY <1>1, <2>1
<1>. QED
  BY <1>3, <1>4, <1>5, <1>6, <1>7, <1>8, <1>9, <1>10, <1>11, <1>12, <1>13, <1>14, <1>15, <1>16, <1>17, <1>18,
     <1>19, <1>20, <1>21, <1>23, <1>24 DEF Run

\* The collector spares what can be reached, which what the routine holds can.
LEMMA SafeCollection ==
  ASSUME TypeOK, TypeOK', Present, Protected, collectGarbage
  PROVE  Present' /\ Protected'
<1>. DEFINE live == From(Roots)
<1>1. object' = [o \in Obj |-> IF o \in live THEN object[o] ELSE Nothing]
  BY DEF collectGarbage, Roots
<1>2. Roots' = Roots /\ Locals' = Locals
  BY DEF collectGarbage, Roots, Locals
<1>3. Roots \subseteq live /\ live \subseteq Live /\ live \in SUBSET Obj
  BY ReachIsPresent
<1>4. \A p \in live : object[p].refs \subseteq live
  <2>1. Roots \in SUBSET Obj
    BY <1>3
  <2>. QED
    BY <2>1, ReachIsClosed
<1>5. Live' = live
  BY <1>1, <1>3 DEF Live, Nothing, Object
<1>6. Closed'
  BY <1>1, <1>3, <1>4, <1>5 DEF Closed
<1>7. live \subseteq From(Roots)'
  <2>1. \A T \in SUBSET Obj : Roots \subseteq T /\ (\A p \in T : object'[p].refs \subseteq T) => live \subseteq T
    <3>1. SUFFICES ASSUME NEW T \in SUBSET Obj, Roots \subseteq T, \A p \in T : object'[p].refs \subseteq T
                   PROVE  live \subseteq T \cap live
      OBVIOUS
    <3>2. \A p \in T \cap live : object[p].refs \subseteq T \cap live
      BY <1>1, <1>3, <1>4, <3>1
    <3>. QED
      BY <1>3, <3>1, <3>2, ReachIsLeast
  <2>. QED
    BY <1>2, <1>3, <2>1 DEF From
<1>. QED
  BY <1>2, <1>3, <1>5, <1>6, <1>7 DEF Present, Closed, Protected

LEMMA SafeEnd ==
  ASSUME TypeOK, InPlace, freeMemoryManager
  PROVE  Present' /\ Protected'
<1>1. kept = {} /\ contexts = <<>> /\ stack = <<>>
  BY DEF freeMemoryManager, At, InPlace, Emptied
<1>2. Roots' = {} /\ Live' = {} /\ Locals' = {}
  BY <1>1 DEF freeMemoryManager, Roots, Live, Nothing, Object, Locals, Idle, Range
<1>. QED
  BY <1>2 DEF Present, Protected
-----------------------------------------------------------------------------
(* The intern table.                                                         *)

\* Only the routines of strings search the table and insert in it.
LEMMA NotInterning ==
  ASSUME TypeOK, Compile \/ Run
  PROVE  strings' \subseteq strings /\ local'.at \notin {"chars", "string", "strings", "native"}
<1>. USE DEF At, Running, Idle
<1>1. CASE NewContext \/ CompileName \/ SetGlobalName \/ EndFunction \/ EmitUpvalues
  <2>1. CASE NewContext \/ CompileName
    BY Zenon, <2>1 DEF NewContext, CompileName, CopyString
  <2>2. CASE SetGlobalName \/ EmitUpvalues
    BY <2>2 DEF SetGlobalName, EmitUpvalues
  <2>3. CASE EndFunction
    BY <2>3 DEF EndFunction
  <2>. QED
    BY <1>1, <2>1, <2>2, <2>3
<1>2. CASE interpret
  <2>1. CASE local' = Idle
    BY <1>2, <2>1 DEF interpret
  <2>2. CASE local' = [Idle EXCEPT !.at = "upvalues", !.then = "interpret", !.held = {Function}]
    BY <1>2, <2>2 DEF interpret
  <2>. QED
    BY <1>2, <2>1, <2>2 DEF interpret
<1>3. CASE newFunction
  <2>1. CASE \E c \in Content : local' = [Idle EXCEPT !.at = "copy", !.then = "name", !.content = c]
    BY <1>3, <2>1 DEF newFunction
  <2>2. CASE local' = Idle
    BY <1>3, <2>2 DEF newFunction
  <2>. QED
    BY Zenon, <1>3, <2>1, <2>2 DEF newFunction, CopyString
<1>4. CASE addConstant \/ GrowConstants \/ GrowLines
  BY <1>4 DEF addConstant, GrowConstants, GrowLines, Resume, TypeOK, Routine
<1>5. CASE writeChunk \/ GrowCode
  BY <1>5 DEF writeChunk, GrowCode, TypeOK, Routine
<1>6. CASE computeGlobalSlot
  BY <1>6 DEF computeGlobalSlot
<1>7. CASE Keep \/ Drop \/ closeUpvalues \/ SetUpvalue \/ SetGlobal \/ runtimeError \/ ReuseSlot \/ concatenate
  BY Zenon, <1>7 DEF Keep, Drop, closeUpvalues, SetUpvalue, SetGlobal, runtimeError, ReuseSlot, concatenate
<1>8. CASE Closure \/ Class \/ Instance \/ bindMethod \/ SetEntry
  BY Zenon, <1>8 DEF Closure, Class, Instance, bindMethod, SetEntry, Call
<1>9. CASE AllocateUpvalues \/ captureUpvalue
  <2>1. strings' = strings
    BY <1>9 DEF AllocateUpvalues, captureUpvalue
  <2>2. CASE \E upvalueCount \in 0..1 : local' = [local EXCEPT !.at = "closure", !.n = upvalueCount]
    BY <2>1, <2>2 DEF TypeOK, Routine
  <2>3. CASE local' = [local EXCEPT !.at = "upvalue"] \/ local' = Idle
    BY <2>1, <2>3 DEF TypeOK, Routine
  <2>. QED
    BY <1>9, <2>2, <2>3 DEF AllocateUpvalues, captureUpvalue
<1>10. CASE newClosure
  BY <1>10 DEF newClosure
<1>11. CASE newUpvalue \/ NewObject \/ tableSet
  BY <1>11 DEF newUpvalue, NewObject, tableSet
<1>12. CASE defineNative \/ internBuiltinStrings
  BY Zenon, <1>12 DEF defineNative, internBuiltinStrings, CopyString
<1>13. CASE newNative
  BY <1>13 DEF newNative
<1>14. CASE freeVM \/ freeMemoryManager
  BY <1>14 DEF freeVM, freeMemoryManager
<1>. QED
  BY <1>1, <1>2, <1>3, <1>4, <1>5, <1>6, <1>7, <1>8, <1>9, <1>10, <1>11, <1>12, <1>13, <1>14 DEF Compile, Run

LEMMA DistinctLasts ==
  ASSUME TypeOK, Distinct, Lasting, strings' \subseteq strings
  PROVE  /\ InternedOnce' /\ \A s \in strings' : object'[s].content = object[s].content
         /\ Interned = {} /\ local'.content = local.content => Interned' = {}
<1>1. strings \subseteq Live /\ strings \subseteq Obj
  BY DEF Distinct, InternedOnce, TypeOK
<1>2. \A s \in strings' : object'[s].content = object[s].content /\ s \in Live' /\ s \in strings
  BY <1>1 DEF Lasting, Live
<1>3. InternedOnce'
  BY <1>2 DEF Distinct, InternedOnce
<1>. QED
  BY <1>2, <1>3 DEF Interned

LEMMA DistinctStrings ==
  ASSUME TypeOK, TypeOK', InPlace, Present, Distinct, Lasting, Strings
  PROVE  Distinct'
<1>. USE DEF At
<1>1. ASSUME NEW s, NEW below, Deliver(s, below)
      PROVE  local'.at \notin {"chars", "string", "strings"}
  <2>1. \/ local' = Idle \/ local' = [Idle EXCEPT !.at = "add", !.made = s]
        \/ local' = [Idle EXCEPT !.at = "native", !.held = {s}]
    BY <1>1 DEF Deliver
  <2>3. CASE local' = Idle
    BY <2>3 DEF Idle
  <2>4. CASE local' = [Idle EXCEPT !.at = "add", !.made = s]
    BY <2>4 DEF Idle
  <2>5. CASE local' = [Idle EXCEPT !.at = "native", !.held = {s}]
    BY <2>5 DEF Idle
  <2>. QED
    BY <2>1, <2>3, <2>4, <2>5
<1>2. CASE copyString
  <2>1. CASE \E s \in Interned : Deliver(s, stack)
    BY <1>1, <1>2, <2>1, DistinctLasts DEF copyString, Distinct
  <2>2. CASE Interned = {} /\ local' = [local EXCEPT !.at = "chars"]
    <3>1. local'.at = "chars" /\ local'.content = local.content /\ strings' = strings
      BY <1>2, <2>2 DEF TypeOK, Routine, copyString
    <3>. QED
      BY <2>2, <3>1, DistinctLasts DEF Distinct
  <2>. QED
    BY <1>2, <2>1, <2>2 DEF copyString
<1>3. CASE AllocateChars
  <2>1. /\ local'.content = local.content /\ strings' = strings
        /\ local'.at = IF local.at = "chars" THEN "string" ELSE "take"
    BY <1>3 DEF TypeOK, Routine, AllocateChars
  <2>. QED
    BY <2>1, DistinctLasts DEF Distinct
<1>4. CASE takeString
  <2>1. CASE \E s \in Interned : Deliver(s, stack)
    BY <1>1, <1>4, <2>1, DistinctLasts DEF takeString, Distinct
  <2>2. CASE Interned = {} /\ local' = [local EXCEPT !.at = "string"]
    <3>1. local'.at = "string" /\ local'.content = local.content /\ strings' = strings
      BY <1>4, <2>2 DEF TypeOK, Routine, takeString
    <3>. QED
      BY <2>2, <3>1, DistinctLasts DEF Distinct
  <2>. QED
    BY <1>4, <2>1, <2>2 DEF takeString
<1>5. CASE allocateString
  <2>1. PICK o \in Obj :
            /\ allocateObject(Handed(Memory, o), o, Object("string", {}, local.content, Length + 1))
            /\ local' = [local EXCEPT !.at = "strings", !.made = o]
    BY Zenon, <1>5 DEF allocateString
  <2>2. object'[o].content = local.content
    BY <2>1 DEF allocateObject, Object, TypeOK
  <2>3. local'.at = "strings" /\ local'.content = local.content /\ local'.made = o /\ strings' = strings
    BY <1>5, <2>1 DEF TypeOK, Routine, allocateString
  <2>4. Interned = {}
    BY <1>5 DEF allocateString, Distinct
  <2>. QED
    BY <2>2, <2>3, <2>4, DistinctLasts DEF Distinct
<1>6. CASE InternString
  <2>1. /\ Interned = {} /\ object[local.made].content = local.content /\ local.made \in Live
        /\ strings' = strings \cup {local.made} /\ local'.at \notin {"chars", "string", "strings"}
    BY <1>1, <1>6, Pushed DEF InternString, Distinct, Present, Roots
  <2>2. strings \subseteq Live
    BY DEF Distinct, InternedOnce
  <2>3. \A s \in strings' : s \in Live' /\ object'[s].content = object[s].content
    BY <2>1, <2>2 DEF Lasting, Live
  <2>4. \A s, t \in strings' : object[s].content = object[t].content => s = t
    BY <2>1 DEF Interned, Distinct, InternedOnce
  <2>. QED
    BY <2>1, <2>3, <2>4 DEF Distinct, InternedOnce
<1>. QED
  BY <1>2, <1>3, <1>4, <1>5, <1>6 DEF Strings

LEMMA DistinctCollection ==
  ASSUME TypeOK, InPlace, Present, Protected, Distinct, collectGarbage
  PROVE  Distinct'
<1>. DEFINE live == From(Roots)
<1>1. /\ object' = [o \in Obj |-> IF o \in live THEN object[o] ELSE Nothing]
      /\ strings' = strings \cap live /\ local' = local
  BY DEF collectGarbage, Roots, handleWeakVMReferences
<1>2. live \subseteq Live /\ live \subseteq Obj /\ strings \subseteq Live
  BY ReachIsPresent DEF Distinct, InternedOnce
<1>3. \A o \in live : object'[o] = object[o] /\ o \in Live'
  BY <1>1, <1>2 DEF Live
<1>4. InternedOnce' /\ Interned' \subseteq Interned
  BY <1>1, <1>3 DEF Distinct, InternedOnce, Interned
<1>5. local.at = "strings" => local.made \in live
  BY DEF InPlace, Protected, Locals
<1>. QED
  BY <1>1, <1>3, <1>4, <1>5 DEF Distinct

-----------------------------------------------------------------------------
(* What the collector does not look at: slots and globals.                   *)

LEMMA InitUnmarked == Init => UnmarkedOK /\ Slots /\ Named
  BY DEF Init, UnmarkedOK, Slots, Named, OfKind, Idle

\* Objects keep their kinds; those that are made are no upvalues.
SameKinds ==
  \A p \in Obj : object'[p].kind = object[p].kind \/ (object[p].kind = "free" /\ object'[p].kind # "upvalue")

LEMMA KindsEdited ==
  ASSUME TypeOK, NEW x, NEW e,
         \/ object' = [object EXCEPT ![x].refs = e]
         \/ object' = [object EXCEPT ![x].array = e]
         \/ object' = [object EXCEPT ![x].code = e]
  PROVE  \A p \in Obj : object'[p].kind = object[p].kind
<1>1. ASSUME NEW r \in Record
      PROVE  /\ [r EXCEPT !.refs = e].kind = r.kind /\ [r EXCEPT !.array = e].kind = r.kind
             /\ [r EXCEPT !.code = e].kind = r.kind
  BY DEF Record
<1>2. ASSUME NEW p \in Obj PROVE object'[p].kind = object[p].kind
  <2>1. object[p] \in Record /\ DOMAIN object = Obj
    BY DEF TypeOK
  <2>2. CASE p # x
    BY <2>1, <2>2
  <2>3. CASE p = x
    BY <1>1, <2>1, <2>3
  <2>. QED
    BY <2>2, <2>3
<1>. QED
  BY <1>2

LEMMA KindsAllocated ==
  ASSUME TypeOK, NEW o \in Obj, NEW m, NEW kind, kind # "upvalue", NEW refs, NEW content, NEW array,
         allocateObject(m, o, Object(kind, refs, content, array))
  PROVE  SameKinds
  BY DEF SameKinds, allocateObject, Object, TypeOK

\* Slots that open upvalues point to stay, and no upvalue comes to the list.
LEMMA SlotsStay ==
  ASSUME TypeOK, Present, Slots, SameKinds, location' = location, Captured \subseteq kept',
         \A p \in kept' \ kept : object[p].kind # "upvalue", kept' \subseteq Obj
  PROVE  Slots'
<1>1. \A o \in Obj : object'[o].kind # "upvalue" => location[o] = {}
  BY DEF Slots, SameKinds
<1>2. ASSUME NEW u \in kept' PROVE location[u] \ {NULL} \subseteq Values'
  <2>1. CASE location[u] = {}
    BY <2>1
  <2>2. CASE location[u] # {}
    <3>1. u \in Obj /\ u \in kept
      BY <1>2, <2>2 DEF Slots
    <3>2. \A v \in Obj : v \in location[u] => v \in Captured
      BY <2>2, <3>1 DEF Captured, openUpvalues, Open
    <3>3. location[u] \ {NULL} \subseteq kept \ OfKind("upvalue")
      BY Zenon, <3>1 DEF Slots, Values
    <3>4. \A v \in kept \ OfKind("upvalue") : v \in Obj /\ object[v].kind # "upvalue" /\ object[v].kind # "free"
      BY DEF OfKind, TypeOK, Present, Roots, Live
    <3>5. \A v \in kept \ OfKind("upvalue") : object'[v].kind # "upvalue"
      BY <3>4 DEF SameKinds
    <3>. QED
      BY <3>2, <3>3, <3>4, <3>5 DEF Values, OfKind
  <2>. QED
    BY <2>1, <2>2
<1>. QED
  BY <1>1, <1>2 DEF Slots

LEMMA CapturedKept == ASSUME Slots PROVE Captured \subseteq kept
<1>. SUFFICES ASSUME NEW v \in Captured PROVE v \in kept
  OBVIOUS
<1>1. PICK u \in openUpvalues : v \in location[u] \ {NULL}
  BY NullAssumption DEF Captured
<1>2. u \in kept
  BY <1>1 DEF openUpvalues
<1>3. location[u] \ {NULL} \subseteq Values
  BY Zenon, <1>2 DEF Slots
<1>. QED
  BY <1>1, <1>3 DEF Values

\* What is delivered is a string, and at most it comes to a slot or a function.
LEMMA NamedDelivery ==
  ASSUME TypeOK, NEW s \in OfKind("string"), NEW below, Deliver(s, below)
  PROVE  /\ SameKinds /\ kept \subseteq kept' /\ kept' \subseteq kept \cup {s}
         /\ local'.at # "strings" /\ (local'.at = "native" => local'.held = {s})
<1>1. SameKinds
  <2>1. CASE object' = object
    BY <2>1 DEF SameKinds
  <2>2. CASE object' = [object EXCEPT ![Function].refs = @ \cup {s}]
    BY <2>2, KindsEdited DEF SameKinds
  <2>. QED
    BY <2>1, <2>2 DEF Deliver
<1>2. kept \subseteq kept' /\ kept' \subseteq kept \cup {s}
  BY DEF Deliver
<1>3. \/ local' = Idle \/ local' = [Idle EXCEPT !.at = "add", !.made = s]
      \/ local' = [Idle EXCEPT !.at = "native", !.held = {s}]
  BY DEF Deliver
<1>4. CASE local' = Idle
  BY <1>1, <1>2, <1>4 DEF Idle
<1>5. CASE local' = [Idle EXCEPT !.at = "add", !.made = s]
  BY <1>1, <1>2, <1>5 DEF Idle
<1>6. CASE local' = [Idle EXCEPT !.at = "native", !.held = {s}]
  BY <1>1, <1>2, <1>6 DEF Idle
<1>. QED
  BY <1>3, <1>4, <1>5, <1>6

LEMMA UnmarkedStrings ==
  ASSUME TypeOK, TypeOK', InPlace, Present, UnmarkedOK, Slots, Named, Strings
  PROVE  UnmarkedOK' /\ Slots' /\ Named'
<1>1. UNCHANGED unmarked
  BY Zenon DEF Strings, copyString, AllocateChars, takeString, allocateString, InternString
<1>2. UnmarkedOK' /\ location' = location
  BY <1>1 DEF unmarked, UnmarkedOK
<1>3. ASSUME SameKinds, kept \subseteq kept', \A p \in kept' \ kept : object[p].kind # "upvalue",
             strings' \subseteq OfKind("string"),
             local'.at = "strings" => local'.made \in OfKind("string")',
             local'.at = "native" => local'.held \subseteq OfKind("string")
      PROVE  UnmarkedOK' /\ Slots' /\ Named'
  <2>1. Slots'
    BY <1>2, <1>3, CapturedKept, SlotsStay DEF TypeOK
  <2>2. OfKind("string") \subseteq OfKind("string")'
    BY <1>3 DEF SameKinds, OfKind
  <2>. QED
    BY <1>2, <1>3, <2>1, <2>2 DEF Named
<1>4. ASSUME NEW s \in OfKind("string"), NEW below, Deliver(s, below), strings' \subseteq OfKind("string")
      PROVE  UnmarkedOK' /\ Slots' /\ Named'
  <2>1. object[s].kind # "upvalue"
    BY DEF OfKind
  <2>. QED
    BY <1>3, <1>4, <2>1, NamedDelivery
<1>5. ASSUME object' = object, kept' = kept, strings' = strings, local'.at \notin {"strings", "native"}
      PROVE  UnmarkedOK' /\ Slots' /\ Named'
  BY <1>3, <1>5 DEF SameKinds, Named
<1>6. CASE copyString
  <2>1. CASE \E s \in Interned : Deliver(s, stack)
    BY <1>4, <1>6, <2>1 DEF copyString, Interned, Named
  <2>2. CASE local' = [local EXCEPT !.at = "chars"] /\ UNCHANGED <<object, kept, stack>>
    BY <1>5, <1>6, <2>2 DEF copyString, TypeOK, Routine
  <2>. QED
    BY <1>6, <2>1, <2>2 DEF copyString
<1>7. CASE AllocateChars
  BY <1>5, <1>7 DEF AllocateChars, TypeOK, Routine
<1>8. CASE takeString
  <2>1. CASE \E s \in Interned : Deliver(s, stack)
    BY <1>4, <1>8, <2>1 DEF takeString, Interned, Named
  <2>2. CASE local' = [local EXCEPT !.at = "string"] /\ UNCHANGED <<object, memory, kept, stack>>
    BY <1>5, <1>8, <2>2 DEF takeString, TypeOK, Routine
  <2>. QED
    BY <1>8, <2>1, <2>2 DEF takeString
<1>9. CASE allocateString
  <2>1. PICK o \in Obj :
            /\ allocateObject(Handed(Memory, o), o, Object("string", {}, local.content, Length + 1))
            /\ local' = [local EXCEPT !.at = "strings", !.made = o]
    BY Zenon, <1>9 DEF allocateString
  <2>2. SameKinds
    BY <2>1, KindsAllocated
  <2>3. o \in OfKind("string")'
    BY <2>1 DEF allocateObject, Object, TypeOK, OfKind
  <2>4. local'.at = "strings" /\ local'.made = o
    BY <2>1 DEF TypeOK, Routine
  <2>5. kept' = kept /\ strings' = strings
    BY <1>9 DEF allocateString
  <2>. QED
    BY <1>3, <2>2, <2>3, <2>4, <2>5 DEF Named
<1>10. CASE InternString
  <2>1. local.made \in OfKind("string") /\ strings' = strings \cup {local.made} /\ Deliver(local.made, Front(stack))
    BY <1>10 DEF InternString, At, Named
  <2>. QED
    BY <1>4, <2>1 DEF Named
<1>. QED
  BY <1>6, <1>7, <1>8, <1>9, <1>10 DEF Strings

\* What the steps that deliver no string come to.
LEMMA UnmarkedMove ==
  ASSUME TypeOK, TypeOK', Present, Slots, Named, SameKinds, location' = location, Captured \subseteq kept',
         \A p \in kept' \ kept : object[p].kind # "upvalue", strings' \subseteq strings,
         local'.at \notin {"strings", "native"}
  PROVE  Slots' /\ Named'
<1>1. Slots'
  BY SlotsStay DEF TypeOK
<1>2. OfKind("string") \subseteq OfKind("string")'
  BY DEF SameKinds, OfKind
<1>. QED
  BY <1>1, <1>2 DEF Named

\* A step that leaves the values of the VM where they are.
LEMMA UnmarkedQuiet ==
  ASSUME TypeOK, TypeOK', Present, UnmarkedOK, Slots, Named, SameKinds, UNCHANGED <<unmarked, kept>>,
         strings' \subseteq strings, local'.at \notin {"strings", "native"}
  PROVE  UnmarkedOK' /\ Slots' /\ Named'
<1>1. UnmarkedOK' /\ location' = location /\ kept' = kept
  BY DEF unmarked, UnmarkedOK
<1>. QED
  BY <1>1, UnmarkedMove, CapturedKept

LEMMA CountedOK ==
  ASSUME TypeOK, UnmarkedOK, Slots, NEW name, NEW value \in Obj \cup {NULL}, CountGlobal(name, value)
  PROVE  count' \in Nat /\ uncounted' \subseteq Obj \cup {NULL} /\ Captured \subseteq kept'
<1>1. count' \in Nat
  BY ByteAssumption DEF CountGlobal, UnmarkedOK
<1>2. uncounted' \subseteq Obj \cup {NULL}
  <2>1. CASE uncounted' \in {uncounted} \cup {(uncounted \ {v}) \cup {NULL} : v \in uncounted}
    BY <2>1 DEF UnmarkedOK
  <2>2. ASSUME NEW held \in SUBSET Values, uncounted' = uncounted \cup held \cup {NULL, value}
        PROVE  uncounted' \subseteq Obj \cup {NULL}
    BY <2>2 DEF UnmarkedOK, Values, TypeOK
  <2>. QED
    BY <2>1, <2>2 DEF CountGlobal
<1>. QED
  BY <1>1, <1>2, Counted, CapturedKept

LEMMA UnmarkedCompile ==
  ASSUME TypeOK, TypeOK', InPlace, Present, UnmarkedOK, Slots, Named, Compile
  PROVE  UnmarkedOK' /\ Slots' /\ Named'
<1>. strings' \subseteq strings /\ local'.at \notin {"strings", "native"}
  BY NotInterning
<1>1. CASE computeGlobalSlot
  <2>1. PICK name \in OfKind("string") : CountGlobal(name, NULL)
    BY <1>1 DEF computeGlobalSlot
  <2>2. object' = object /\ location' = location
    BY <1>1 DEF computeGlobalSlot
  <2>3. name \in Obj /\ object[name].kind # "upvalue"
    BY DEF OfKind
  <2>4. count' \in Nat /\ uncounted' \subseteq Obj \cup {NULL} /\ Captured \subseteq kept'
    BY <2>1, CountedOK
  <2>5. kept' \subseteq kept \cup {name}
    BY <2>1, Counted
  <2>6. SameKinds
    BY <2>2 DEF SameKinds
  <2>. QED
    BY <2>2, <2>3, <2>4, <2>5, <2>6, UnmarkedMove DEF UnmarkedOK
<1>2. CASE NewContext \/ CompileName \/ GrowCode \/ GrowLines \/ SetGlobalName \/ EndFunction \/ EmitUpvalues \/ interpret
  <2>1. object' = object /\ UNCHANGED <<unmarked, kept>>
    BY Zenon, <1>2 DEF NewContext, CompileName, GrowCode, GrowLines, SetGlobalName, EndFunction, EmitUpvalues, interpret
  <2>. QED
    BY <2>1, UnmarkedQuiet DEF SameKinds
<1>3. CASE newFunction
  <2>1. PICK o \in Obj : allocateObject(Memory, o, Object("function", {}, NULL, 0))
    BY <1>3 DEF newFunction
  <2>2. SameKinds
    BY <2>1, KindsAllocated
  <2>3. UNCHANGED <<unmarked, kept>>
    BY <1>3 DEF newFunction
  <2>. QED
    BY <2>2, <2>3, UnmarkedQuiet
<1>4. CASE addConstant \/ GrowConstants \/ writeChunk
  <2>1. UNCHANGED <<unmarked, kept>>
    BY <1>4 DEF addConstant, GrowConstants, writeChunk
  <2>2. \E e : \/ object' = [object EXCEPT ![Function].refs = e]
               \/ object' = [object EXCEPT ![Function].array = e]
               \/ object' = [object EXCEPT ![Function].code = e]
    <3>1. CASE addConstant
      BY Zenon, <3>1 DEF addConstant
    <3>2. CASE GrowConstants
      BY Zenon, <3>2 DEF GrowConstants
    <3>3. CASE writeChunk
      BY Zenon, <3>3 DEF writeChunk
    <3>. QED
      BY <1>4, <3>1, <3>2, <3>3
  <2>3. SameKinds
    BY <2>2, KindsEdited DEF SameKinds
  <2>. QED
    BY <2>1, <2>3, UnmarkedQuiet
<1>. QED
  BY <1>1, <1>2, <1>3, <1>4 DEF Compile

\* closeUpvalues takes one upvalue from the list, and keeps what it held.
LEMMA UnmarkedClosing ==
  ASSUME TypeOK, TypeOK', InPlace, Present, UnmarkedOK, Slots, Named, closeUpvalues
  PROVE  UnmarkedOK' /\ Slots' /\ Named'
<1>1. PICK u \in openUpvalues :
          /\ object' = [object EXCEPT ![u].refs = location[u] \ {NULL}]
          /\ location' = [location EXCEPT ![u] = {}]
          /\ kept' = kept \ {u}
  BY Zenon DEF closeUpvalues
<1>2. \A p \in Obj : object'[p].kind = object[p].kind
  BY <1>1, KindsEdited
<1>3. UnmarkedOK'
  BY <1>1 DEF closeUpvalues, UnmarkedOK
<1>4. \A p \in Obj : location'[p] = IF p = u THEN {} ELSE location[p]
  BY <1>1 DEF UnmarkedOK
<1>5. object[u].kind = "upvalue"
  BY DEF openUpvalues, Open, Slots
<1>6. Values' = Values
  BY <1>1, <1>2, <1>5 DEF Values, OfKind, TypeOK
<1>7. Slots'
  <2>1. \A o \in Obj : object'[o].kind # "upvalue" => location'[o] = {}
    BY <1>2, <1>4 DEF Slots
  <2>2. \A p \in kept' : p \in kept /\ p \in Obj /\ p # u
    BY <1>1 DEF TypeOK
  <2>3. \A p \in kept' : location'[p] \ {NULL} \subseteq Values
    BY <1>4, <2>2 DEF Slots
  <2>. QED
    BY <1>6, <2>1, <2>3 DEF Slots
<1>8. Named'
  <2>1. OfKind("string")' = OfKind("string")
    BY <1>2 DEF OfKind
  <2>. QED
    BY <2>1 DEF closeUpvalues, Named
<1>. QED
  BY <1>3, <1>7, <1>8

\* What an open upvalue points to is set to a value of the VM.
LEMMA SlotsSet ==
  ASSUME TypeOK, UnmarkedOK, Slots, NEW u \in Obj, NEW v \in Values \cup {NULL},
         location' = [location EXCEPT ![u] = {v}], object' = object, kept' = kept, object[u].kind = "upvalue"
  PROVE  Slots' /\ location' \in [Obj -> SUBSET (Obj \cup {NULL})]
<1>1. \A p \in Obj : location'[p] = IF p = u THEN {v} ELSE location[p]
  BY DEF UnmarkedOK
<1>2. Values' = Values /\ Values \subseteq Obj
  BY DEF Values, OfKind, TypeOK
<1>3. \A p \in kept : p \in Obj
  BY DEF TypeOK
<1>4. \A p \in kept : location'[p] \ {NULL} \subseteq Values
  BY <1>1, <1>3 DEF Slots
<1>. QED
  BY <1>1, <1>2, <1>4 DEF Slots, UnmarkedOK

LEMMA UnmarkedSetting ==
  ASSUME TypeOK, TypeOK', InPlace, Present, UnmarkedOK, Slots, Named, SetUpvalue \/ SetGlobal \/ ReuseSlot
  PROVE  UnmarkedOK' /\ Slots' /\ Named'
<1>1. strings' \subseteq strings /\ local'.at \notin {"strings", "native"}
  BY NotInterning DEF Run
<1>2. kept' = kept /\ UNCHANGED <<strings, local, count>>
  BY DEF SetUpvalue, SetGlobal, ReuseSlot
<1>3. ASSUME NEW u \in Obj, NEW v \in Values \cup {NULL}, location' = [location EXCEPT ![u] = {v}],
             object[u].kind = "upvalue", object' = object, uncounted' = uncounted
      PROVE  UnmarkedOK' /\ Slots' /\ Named'
  <2>1. Slots' /\ location' \in [Obj -> SUBSET (Obj \cup {NULL})]
    BY <1>2, <1>3, SlotsSet
  <2>. QED
    BY <1>2, <1>3, <2>1 DEF UnmarkedOK, Named, OfKind
<1>4. CASE SetUpvalue
  <2>1. PICK u \in From(kept) \cap OfKind("upvalue"), v \in Values \cup {NULL} :
            \/ location' = [location EXCEPT ![u] = {v}] /\ UNCHANGED object
            \/ object' = [object EXCEPT ![u].refs = {v} \ {NULL}] /\ UNCHANGED location
    BY <1>4 DEF SetUpvalue
  <2>2. u \in Obj /\ object[u].kind = "upvalue" /\ uncounted' = uncounted
    BY <1>4 DEF OfKind, SetUpvalue
  <2>3. CASE location' = [location EXCEPT ![u] = {v}] /\ UNCHANGED object
    BY <1>3, <2>2, <2>3
  <2>4. CASE object' = [object EXCEPT ![u].refs = {v} \ {NULL}] /\ UNCHANGED location
    <3>1. SameKinds
      BY <2>4, KindsEdited DEF SameKinds
    <3>. QED
      BY <1>1, <1>2, <2>2, <2>4, <3>1, UnmarkedQuiet DEF unmarked
  <2>. QED
    BY <2>1, <2>3, <2>4
<1>5. CASE SetGlobal
  <2>1. object' = object /\ location' = location
    BY <1>5 DEF SetGlobal
  <2>2. PICK v \in Values \cup {NULL}, old \in uncounted :
            uncounted' \in {uncounted \cup {v}, (uncounted \ {old}) \cup {v, NULL}}
    BY <1>5 DEF SetGlobal
  <2>3. v \in Obj \cup {NULL}
    BY DEF Values, TypeOK
  <2>4. uncounted' \subseteq Obj \cup {NULL}
    BY <2>2, <2>3 DEF UnmarkedOK
  <2>. QED
    BY <1>2, <2>1, <2>4 DEF UnmarkedOK, Slots, Named, Values, OfKind
<1>6. CASE ReuseSlot
  <2>1. PICK u \in Forgotten, v \in Values \cup {NULL} : location' = [location EXCEPT ![u] = {v}]
    BY <1>6 DEF ReuseSlot
  <2>2. u \in Obj /\ object[u].kind = "upvalue"
    BY DEF Forgotten, Open, Slots
  <2>3. object' = object /\ uncounted' = uncounted
    BY <1>6 DEF ReuseSlot
  <2>. QED
    BY <1>3, <2>1, <2>2, <2>3
<1>. QED
  BY <1>4, <1>5, <1>6

LEMMA UnmarkedNewUpvalue ==
  ASSUME TypeOK, TypeOK', InPlace, Present, Protected, UnmarkedOK, Slots, Named, newUpvalue
  PROVE  UnmarkedOK' /\ Slots' /\ Named'
<1>1. PICK o \in Obj :
          /\ object[o].kind = "free"
          /\ object' = [object EXCEPT ![o] = Object("upvalue", {}, NULL, 0), ![local.made].refs = @ \cup {o}]
          /\ kept' = kept \cup {o}
          /\ \E v \in Values \cup {NULL} : location' = [location EXCEPT ![o] = {v}]
  BY Zenon DEF newUpvalue
<1>2. PICK v \in Values \cup {NULL} : location' = [location EXCEPT ![o] = {v}]
  BY <1>1
<1>3. local.made \in Obj /\ local'.at \notin {"strings", "native"} /\ UNCHANGED <<strings, count, uncounted>>
  BY DEF newUpvalue, At, InPlace, TypeOK, Routine, Idle
<1>4. \A p \in Obj : object'[p].kind = IF p = o THEN "upvalue" ELSE object[p].kind
  <2>1. local.made \in Live
    BY ReachIsPresent, NullAssumption, <1>3 DEF Protected, Locals
  <2>2. local.made # o /\ object[local.made] \in Record /\ DOMAIN object = Obj
    BY <1>1, <1>3, <2>1 DEF Live, TypeOK
  <2>3. /\ object'[o] = Object("upvalue", {}, NULL, 0)
        /\ object'[local.made] = [object[local.made] EXCEPT !.refs = @ \cup {o}]
        /\ \A p \in Obj : p # o /\ p # local.made => object'[p] = object[p]
    BY <1>1, <1>3, <2>2
  <2>4. object'[o].kind = "upvalue" /\ object'[local.made].kind = object[local.made].kind
    BY <2>2, <2>3 DEF Object, Record
  <2>. QED
    BY <2>2, <2>3, <2>4
<1>5. \A p \in Obj : location'[p] = IF p = o THEN {v} ELSE location[p]
  BY <1>2 DEF UnmarkedOK
<1>6. kept \subseteq Obj /\ o \notin kept
  BY <1>1 DEF TypeOK, Present, Roots, Live
<1>7. Values \subseteq Values' /\ Values \subseteq Obj
  BY <1>1, <1>4, <1>6 DEF Values, OfKind
<1>8. UnmarkedOK'
  BY <1>2, <1>3, <1>7 DEF UnmarkedOK
<1>9. Slots'
  <2>1. \A p \in Obj : object'[p].kind # "upvalue" => location'[p] = {}
    BY <1>4, <1>5 DEF Slots
  <2>2. ASSUME NEW p \in kept' PROVE location'[p] \ {NULL} \subseteq Values'
    <3>1. CASE p = o
      BY <1>5, <1>7, <3>1
    <3>2. CASE p # o
      <4>1. p \in kept /\ location'[p] = location[p]
        BY <1>1, <1>5, <1>6, <2>2, <3>2
      <4>. QED
        BY <1>7, <4>1 DEF Slots
    <3>. QED
      BY <3>1, <3>2
  <2>. QED
    BY <2>1, <2>2 DEF Slots
<1>10. Named'
  <2>1. \A s \in OfKind("string") : s \in OfKind("string")'
    BY <1>1, <1>4 DEF OfKind
  <2>. QED
    BY <1>3, <2>1 DEF Named
<1>. QED
  BY <1>8, <1>9, <1>10

\* An object is made that is no upvalue, and pushed.
LEMMA UnmarkedMaking ==
  ASSUME TypeOK, TypeOK', InPlace, Present, UnmarkedOK, Slots, Named, newClosure \/ NewObject \/ newNative
  PROVE  UnmarkedOK' /\ Slots' /\ Named'
<1>1. strings' \subseteq strings /\ local'.at \notin {"strings", "native"}
  BY NotInterning DEF Run
<1>2. ASSUME NEW o \in Obj, object[o].kind = "free", SameKinds, kept' \subseteq kept \cup {o}, Captured \subseteq kept',
             UNCHANGED unmarked
      PROVE  UnmarkedOK' /\ Slots' /\ Named'
  BY <1>1, <1>2, UnmarkedMove DEF unmarked, UnmarkedOK
<1>3. CASE newClosure
  <2>1. PICK o \in Obj :
            /\ allocateObject(Handed(Memory, o), o, Object("closure", local.held, NULL, local.n))
            /\ kept' = kept \cup {o}
    BY Zenon, <1>3 DEF newClosure
  <2>2. SameKinds /\ object[o].kind = "free"
    BY <2>1, KindsAllocated DEF allocateObject
  <2>3. UNCHANGED unmarked
    BY Zenon, <1>3 DEF newClosure
  <2>. QED
    BY <1>2, <2>1, <2>2, <2>3, CapturedKept
<1>4. CASE NewObject
  <2>1. PICK o \in Obj :
            /\ allocateObject(Memory, o, Object(local.at, local.held, NULL, 0))
            /\ kept' = (kept \ ({local.made} \ Captured)) \cup {o}
    BY <1>4 DEF NewObject
  <2>2. SameKinds /\ object[o].kind = "free"
    <3>1. local.at # "upvalue"
      BY <1>4 DEF NewObject
    <3>. QED
      BY <2>1, <3>1, KindsAllocated DEF allocateObject
  <2>3. UNCHANGED unmarked
    BY <1>4 DEF NewObject
  <2>4. Captured \subseteq kept' /\ kept' \subseteq kept \cup {o}
    BY <2>1, CapturedKept
  <2>. QED
    BY <1>2, <2>2, <2>3, <2>4
<1>5. CASE newNative
  <2>1. PICK o \in Obj :
            /\ allocateObject(Memory, o, Object("native", {}, NULL, 0))
            /\ \E name \in local.held : CountGlobal(name, o)
    BY Zenon, <1>5 DEF newNative
  <2>2. PICK name \in local.held : CountGlobal(name, o)
    BY <2>1
  <2>3. SameKinds /\ object[o].kind = "free" /\ location' = location
    BY Zenon, <1>5, <2>1, KindsAllocated DEF allocateObject, newNative
  <2>4. object[name].kind # "upvalue"
    BY Zenon, <1>5 DEF newNative, At, Named, OfKind
  <2>5. kept' \subseteq kept \cup {name} \cup {o}
    BY <2>2, Counted
  <2>6. count' \in Nat /\ uncounted' \subseteq Obj \cup {NULL} /\ Captured \subseteq kept'
    BY <2>2, CountedOK
  <2>. QED
    BY <1>1, <2>3, <2>4, <2>5, <2>6, UnmarkedMove DEF UnmarkedOK
<1>. QED
  BY <1>3, <1>4, <1>5

LEMMA UnmarkedEnd ==
  ASSUME TypeOK, TypeOK', InPlace, UnmarkedOK, Slots, Named, freeVM \/ freeMemoryManager
  PROVE  UnmarkedOK' /\ Slots' /\ Named'
<1>1. CASE freeVM
  <2>1. object' = object /\ location' = location /\ kept' = {} /\ strings' = {} /\ count' = 0 /\ uncounted' = {}
    BY <1>1 DEF freeVM
  <2>2. local'.at = "exit"
    BY <1>1 DEF freeVM, Idle
  <2>. QED
    BY <2>1, <2>2 DEF UnmarkedOK, Slots, Named
<1>2. CASE freeMemoryManager
  <2>1. location' = [o \in Obj |-> {}] /\ kept' = {} /\ strings' = {} /\ UNCHANGED <<count, uncounted>>
    BY <1>2 DEF freeMemoryManager, At, InPlace
  <2>2. local'.at = "idle"
    BY <1>2 DEF freeMemoryManager, Idle
  <2>. QED
    BY <2>1, <2>2 DEF UnmarkedOK, Slots, Named
<1>. QED
  BY <1>1, <1>2

LEMMA UnmarkedRun ==
  ASSUME TypeOK, TypeOK', InPlace, Present, Protected, UnmarkedOK, Slots, Named, Run
  PROVE  UnmarkedOK' /\ Slots' /\ Named'
<1>. strings' \subseteq strings /\ local'.at \notin {"strings", "native"}
  BY NotInterning
<1>1. ASSUME object' = object, location' = location, UNCHANGED <<count, uncounted>>, Captured \subseteq kept',
             \A p \in kept' \ kept : object[p].kind # "upvalue"
      PROVE  UnmarkedOK' /\ Slots' /\ Named'
  BY <1>1, UnmarkedMove DEF SameKinds, UnmarkedOK
<1>2. CASE Keep
  BY <1>1, <1>2, CapturedKept DEF Keep, unmarked, OfKind, Live
<1>3. CASE Drop
  BY <1>1, <1>3, CapturedKept DEF Drop, unmarked
<1>4. CASE runtimeError
  <2>1. object' = object /\ UNCHANGED <<unmarked, strings, local>> /\ kept' \subseteq Values
    BY <1>4 DEF runtimeError
  <2>2. location' = location /\ count' = count /\ uncounted' = uncounted
    BY <2>1 DEF unmarked
  <2>3. \A u \in kept' : u \in Obj /\ object[u].kind # "upvalue"
    BY <2>1 DEF Values, OfKind, TypeOK
  <2>4. Slots'
    BY <2>1, <2>2, <2>3 DEF Slots
  <2>. QED
    BY <2>1, <2>2, <2>4 DEF UnmarkedOK, Named, OfKind
<1>5. CASE \/ concatenate \/ Closure \/ AllocateUpvalues \/ Class \/ Instance \/ bindMethod \/ SetEntry
           \/ defineNative \/ internBuiltinStrings
  <2>1. object' = object /\ UNCHANGED <<unmarked, kept>>
    BY Zenon, <1>5 DEF concatenate, Closure, AllocateUpvalues, Class, Instance, bindMethod, SetEntry, defineNative,
                       internBuiltinStrings, Call
  <2>. QED
    BY <2>1, UnmarkedQuiet DEF SameKinds
<1>6. CASE captureUpvalue
  <2>1. UNCHANGED <<unmarked, kept>>
    BY <1>6 DEF captureUpvalue
  <2>2. object' = object \/ \E e : object' = [object EXCEPT ![local.made].refs = e]
    BY Zenon, <1>6 DEF captureUpvalue
  <2>3. SameKinds
    BY <2>2, KindsEdited DEF SameKinds
  <2>. QED
    BY <2>1, <2>3, UnmarkedQuiet
<1>7. CASE tableSet
  <2>1. UNCHANGED <<unmarked, kept>>
    BY <1>7 DEF tableSet
  <2>2. PICK cap \in Room(object[local.made].array) :
            object' = [object EXCEPT ![local.made].array = cap, ![local.made].refs = @ \cup local.held]
    BY <1>7 DEF tableSet
  <2>3. SameKinds
    <3>1. local.made \in Obj
      BY <1>7 DEF tableSet, At, InPlace, TypeOK, Routine
    <3>2. \A p \in Obj : object[p] \in Record
      BY DEF TypeOK
    <3>. QED
      BY <2>2, <3>1, <3>2 DEF SameKinds, Record, TypeOK
  <2>. QED
    BY <2>1, <2>3, UnmarkedQuiet
<1>. QED
  BY <1>2, <1>3, <1>4, <1>5, <1>6, <1>7, UnmarkedClosing, UnmarkedSetting, UnmarkedNewUpvalue, UnmarkedMaking,
     UnmarkedEnd DEF Run

LEMMA UnmarkedCollection ==
  ASSUME TypeOK, TypeOK', InPlace, Present, Protected, UnmarkedOK, Slots, Named, collectGarbage
  PROVE  UnmarkedOK' /\ Slots' /\ Named'
<1>. DEFINE live == From(Roots)
<1>1. /\ object' = [o \in Obj |-> IF o \in live THEN object[o] ELSE Nothing]
      /\ location' = [o \in Obj |-> IF o \in live THEN location[o] ELSE {}]
      /\ strings' = strings \cap live /\ UNCHANGED <<kept, stack, local, count, uncounted>>
  BY DEF collectGarbage, Roots, handleWeakVMReferences
<1>2. Roots \subseteq live /\ live \subseteq Obj /\ kept \subseteq live /\ Range(stack) \subseteq live
  BY ReachIsPresent DEF Roots
<1>. HIDE DEF live
<1>3. \A p \in live : object'[p] = object[p] /\ location'[p] = location[p]
  BY <1>1, <1>2
<1>4. UnmarkedOK'
  BY <1>1 DEF UnmarkedOK
<1>5. Slots'
  <2>1. \A o \in Obj : object'[o].kind # "upvalue" => location'[o] = {}
    BY <1>1 DEF Slots
  <2>2. Values \subseteq Values'
    BY <1>1, <1>2, <1>3 DEF Values, OfKind
  <2>3. \A u \in kept : location'[u] \ {NULL} \subseteq Values
    BY <1>2, <1>3 DEF Slots
  <2>. QED
    BY <1>1, <2>1, <2>2, <2>3 DEF Slots
<1>6. Named'
  <2>1. \A s \in OfKind("string") \cap live : s \in OfKind("string")'
    BY <1>2, <1>3 DEF OfKind
  <2>2. local.at = "strings" => local.made \in live
    BY <1>2, Pushed
  <2>3. local.at = "native" => local.held \subseteq live
    BY <1>2 DEF InPlace
  <2>. QED
    BY <1>1, <2>1, <2>2, <2>3 DEF Named
<1>. QED
  BY <1>4, <1>5, <1>6

LEMMA UnmarkedStep ==
  ASSUME TypeOK, TypeOK', InPlace, Present, Protected, UnmarkedOK, Slots, Named, [Next]_vars
  PROVE  UnmarkedOK' /\ Slots' /\ Named'
<1>1. CASE UNCHANGED vars
  BY <1>1 DEF vars, unmarked, UnmarkedOK, Slots, Named, Values, OfKind
<1>. QED
  BY <1>1, UnmarkedStrings, UnmarkedCompile, UnmarkedRun, UnmarkedCollection DEF Next

-----------------------------------------------------------------------------
(* The theorems.                                                             *)

LEMMA InitIInv == Init => IInv
<1>. SUFFICES ASSUME Init PROVE IInv
  OBVIOUS
<1>1. TypeOK
  BY TypeOfIdle DEF Init, TypeOK
<1>2. InPlace
  BY DEF Init, InPlace, Idle
<1>3. Live = {} /\ Roots = {} /\ Locals = {} /\ strings = {} /\ local.at = "idle"
  BY DEF Init, Live, Nothing, Object, Roots, Range, Locals, Idle
<1>. QED
  BY <1>1, <1>2, <1>3, InitUnmarked DEF IInv, Present, Protected, Distinct, InternedOnce

LEMMA NextIInv == IInv /\ [Next]_vars => IInv'
<1>. SUFFICES ASSUME IInv, [Next]_vars PROVE IInv'
  OBVIOUS
<1>. USE DEF IInv
<1>1. TypeOK' /\ InPlace' /\ UnmarkedOK' /\ Slots' /\ Named'
  <2>1. TypeOK' /\ InPlace'
    BY InPlaceStep
  <2>. QED
    BY <2>1, UnmarkedStep
<1>2. CASE Strings
  BY <1>1, <1>2, SafeStrings, DistinctStrings
<1>3. CASE Compile
  <2>1. Present' /\ Protected' /\ Lasting
    BY <1>1, <1>3, SafeCompile
  <2>2. strings' \subseteq strings /\ local'.at \notin {"chars", "string", "strings", "native"}
    BY <1>3, NotInterning
  <2>. QED
    BY <1>1, <2>1, <2>2, DistinctLasts DEF Distinct
<1>4. CASE Run /\ ~freeMemoryManager
  <2>1. Present' /\ Protected' /\ Lasting
    BY <1>1, <1>4, SafeRun
  <2>2. strings' \subseteq strings /\ local'.at \notin {"chars", "string", "strings", "native"}
    BY <1>4, NotInterning
  <2>. QED
    BY <1>1, <2>1, <2>2, DistinctLasts DEF Distinct
<1>5. CASE freeMemoryManager
  <2>1. strings' = {} /\ local'.at = "idle"
    BY <1>5 DEF freeMemoryManager, At, InPlace, Idle
  <2>. QED
    BY <1>1, <1>5, <2>1, SafeEnd DEF Distinct, InternedOnce
<1>6. CASE collectGarbage
  BY <1>1, <1>6, SafeCollection, DistinctCollection
<1>7. CASE UNCHANGED vars
  BY <1>1, <1>7 DEF vars, Present, Roots, Live, Protected, Locals, From, Distinct, InternedOnce, Interned
<1>. QED
  BY <1>2, <1>3, <1>4, <1>5, <1>6, <1>7 DEF Next

LEMMA AlwaysIInv == Spec => []IInv
  BY InitIInv, NextIInv, PTL DEF Spec

\* Objects, tables, the stack, the routine in progress, the slots of upvalues
\* and the globals keep their types.
THEOREM TypeCorrect == Spec => [](TypeOK /\ UnmarkedOK)
<1>1. IInv => TypeOK /\ UnmarkedOK
  BY DEF IInv
<1>. QED
  BY <1>1, AlwaysIInv, PTL

\* A collection at any allocation, also in the middle of a routine, frees
\* nothing that the C locals of the routine hold, nor what they refer to.
THEOREM LocalsAreSafe == Spec => []LocalsSurvive
<1>1. IInv => LocalsSurvive
  <2>. SUFFICES ASSUME IInv PROVE From(Roots \cup Locals) \subseteq Live
    BY DEF LocalsSurvive, Roots
  <2>1. Roots \cup Locals \in SUBSET Live
    BY ReachIsPresent DEF IInv, Protected
  <2>. QED
    BY <2>1, ReachIsPresent DEF IInv
<1>. QED
  BY <1>1, AlwaysIInv, PTL

\* A collection spares whatever the program gets at, also through the slots that
\* open upvalues point to and the collector does not follow, as long as no
\* runtime error has forgotten an open upvalue and no global is uncounted: the
\* slot of an upvalue in the list of the VM is itself a root.
THEOREM CollectionIsSafe == Spec => []NothingInUseIsFreed
<1>1. IInv => NothingInUseIsFreed
  <2>. DEFINE S == From(Roots \cup Locals)
  <2>. SUFFICES ASSUME IInv, Forgotten = {}, uncounted = {} PROVE InUse \subseteq Live
    BY DEF NothingInUseIsFreed
  <2>1. Roots \cup Locals \in SUBSET Live
    BY ReachIsPresent DEF IInv, Protected
  <2>2. S \subseteq Live /\ Roots \cup Locals \subseteq S /\ S \in SUBSET Obj
    BY <2>1, ReachIsPresent DEF IInv
  <2>3. \A p \in S : object[p].refs \subseteq S
    <3>1. Roots \cup Locals \in SUBSET Obj
      BY <2>2
    <3>. QED
      BY <3>1, ReachIsClosed DEF IInv
  <2>. HIDE DEF S
  <2>4. ASSUME NEW p \in S PROVE location[p] \ {NULL} \subseteq S
    <3>1. CASE location[p] = {}
      BY <3>1
    <3>2. CASE location[p] # {}
      <4>1. p \in kept
        BY <2>2, <3>2 DEF Forgotten, Open
      <4>2. location[p] \ {NULL} \subseteq kept
        BY <4>1 DEF IInv, Slots, Values
      <4>. QED
        BY <2>2, <4>2 DEF Roots
    <3>. QED
      BY <3>1, <3>2
  <2>5. \A p \in S : Follow(p) \subseteq S
    BY <2>3, <2>4 DEF Follow
  <2>6. kept \cup (uncounted \ {NULL}) \cup Range(stack) \cup Range(contexts) \cup Locals \subseteq S
    BY <2>2 DEF Roots
  <2>7. InUse \subseteq S
    BY <2>2, <2>5, <2>6 DEF InUse, Reach
  <2>. QED
    BY <2>2, <2>7
<1>. QED
  BY <1>1, AlwaysIInv, PTL

\* Strings of equal contents are one object, however the search of the intern
\* table, the collections and the insertion fall.
THEOREM StringsAreInterned == Spec => []InternedOnce
<1>1. IInv => InternedOnce
  BY DEF IInv, Distinct
<1>. QED
  BY <1>1, AlwaysIInv, PTL

-----------------------------------------------------------------------------
(* Folds over a finite set, which take its members one by one.               *)

Pick(s) == CHOOSE x \in s : TRUE

LEMMA Picked == ASSUME NEW S, NEW s \in SUBSET S, s # {}
                PROVE  Pick(s) \in s /\ Pick(s) \in S /\ s \ {Pick(s)} \in SUBSET S
  BY DEF Pick

LEMMA SmallerSet ==
  ASSUME NEW S, IsFiniteSet(S), NEW s \in SUBSET S
  PROVE  /\ IsFiniteSet(s) /\ Cardinality(s) \in Nat
         /\ s # {} => Cardinality(s) > 0 /\ Cardinality(s \ {Pick(s)}) = Cardinality(s) - 1
<1>1. IsFiniteSet(s) /\ Cardinality(s) \in Nat
  BY FS_Subset, FS_CardinalityType
<1>2. s # {} => Cardinality(s) # 0
  BY <1>1, FS_EmptySet
<1>3. s # {} => Cardinality(s \ {Pick(s)}) = Cardinality(s) - 1
  BY <1>1, Picked, FS_RemoveElement
<1>. QED
  BY <1>1, <1>2, <1>3

\* Induction over the order in which a fold takes the members.
LEMMA SubsetInduction ==
  ASSUME NEW S, IsFiniteSet(S), NEW T, {} \in T,
         \A s \in SUBSET S : s # {} /\ s \ {Pick(s)} \in T => s \in T
  PROVE  SUBSET S \subseteq T
<1>. DEFINE N == {n \in Nat : \A s \in SUBSET S : Cardinality(s) = n => s \in T}
<1>1. 0 \in N
  <2>1. ASSUME NEW s \in SUBSET S, Cardinality(s) = 0 PROVE s = {}
    BY <2>1, SmallerSet, FS_EmptySet
  <2>. QED
    BY <2>1
<1>2. ASSUME NEW n \in Nat, n \in N PROVE n + 1 \in N
  <2>1. ASSUME NEW s \in SUBSET S, Cardinality(s) = n + 1 PROVE s \in T
    <3>1. s # {}
      BY <2>1, FS_EmptySet
    <3>2. s \ {Pick(s)} \in SUBSET S /\ Cardinality(s \ {Pick(s)}) = n
      BY <2>1, <3>1, SmallerSet, Picked
    <3>. QED
      BY <1>2, <3>1, <3>2
  <2>. QED
    BY <2>1
<1>3. \A s \in SUBSET S : Cardinality(s) \in N
  <2>1. SUFFICES ASSUME NEW s \in SUBSET S PROVE Cardinality(s) \in N
    OBVIOUS
  <2>2. Cardinality(s) \in Nat
    BY SmallerSet
  <2>. HIDE DEF N
  <2>3. \A i \in 0..Cardinality(s) - 1 : i \in N => i + 1 \in N
    BY <1>2, <2>2
  <2>4. 0..Cardinality(s) \subseteq N
    BY <1>1, <2>2, <2>3, TurnByTurn
  <2>. QED
    BY <2>2, <2>4
<1>. QED
  BY <1>3

\* What a fold makes of each subset: a function with that recursion exists.
Folded(g, S, base, F) ==
  g = [s \in SUBSET S |-> IF s = {} THEN base ELSE F[<<Pick(s), g[s \ {Pick(s)}]>>]]

LEMMA FoldExists ==
  ASSUME NEW S, IsFiniteSet(S), NEW M, NEW base \in M, NEW F \in [S \X M -> M]
  PROVE  \E g \in [SUBSET S -> M] : Folded(g, S, base, F)
<1>. DEFINE Turn(g, s) == IF s = {} THEN base ELSE F[<<Pick(s), g[s \ {Pick(s)}]>>]
            N == {n \in Nat : \E g \in [SUBSET S -> M] :
                                \A s \in SUBSET S : Cardinality(s) <= n => g[s] = Turn(g, s)}
<1>1. 0 \in N
  <2>1. ASSUME NEW s \in SUBSET S, Cardinality(s) <= 0 PROVE s = {}
    <3>1. IsFiniteSet(s) /\ Cardinality(s) \in Nat
      BY SmallerSet
    <3>. QED
      BY <2>1, <3>1, FS_EmptySet
  <2>2. [s \in SUBSET S |-> base] \in [SUBSET S -> M]
    OBVIOUS
  <2>. QED
    BY <2>1, <2>2
<1>2. ASSUME NEW n \in Nat, n \in N PROVE n + 1 \in N
  <2>1. PICK g \in [SUBSET S -> M] : \A s \in SUBSET S : Cardinality(s) <= n => g[s] = Turn(g, s)
    BY <1>2
  <2>2. \A s \in SUBSET S : Turn(g, s) \in M
    BY Picked
  <2>. DEFINE h == [s \in SUBSET S |-> Turn(g, s)]
  <2>3. h \in [SUBSET S -> M]
    BY <2>2
  <2>4. ASSUME NEW s \in SUBSET S, Cardinality(s) <= n + 1 PROVE h[s] = Turn(h, s)
    <3>1. CASE s = {}
      BY <3>1
    <3>2. CASE s # {}
      <4>1. s \ {Pick(s)} \in SUBSET S /\ Cardinality(s \ {Pick(s)}) <= n
        BY <2>4, <3>2, SmallerSet, Picked
      <4>2. g[s \ {Pick(s)}] = h[s \ {Pick(s)}]
        BY <2>1, <4>1
      <4>. QED
        BY <3>2, <4>2
    <3>. QED
      BY <3>1, <3>2
  <2>5. \A s \in SUBSET S : Cardinality(s) <= n + 1 => h[s] = Turn(h, s)
    BY <2>4
  <2>. HIDE DEF h, Turn
  <2>. QED
    BY <2>3, <2>5
<1>3. Cardinality(S) \in N
  <2>1. Cardinality(S) \in Nat
    BY FS_CardinalityType
  <2>. HIDE DEF N
  <2>2. \A i \in 0..Cardinality(S) - 1 : i \in N => i + 1 \in N
    BY <1>2, <2>1
  <2>3. 0..Cardinality(S) \subseteq N
    BY <1>1, <2>1, <2>2, TurnByTurn
  <2>. QED
    BY <2>1, <2>3
<1>4. PICK g \in [SUBSET S -> M] : \A s \in SUBSET S : Cardinality(s) <= Cardinality(S) => g[s] = Turn(g, s)
  BY <1>3
<1>5. \A s \in SUBSET S : Cardinality(s) <= Cardinality(S)
  BY FS_Subset
<1>6. g = [s \in SUBSET S |-> Turn(g, s)]
  BY <1>4, <1>5
<1>. QED
  BY <1>6 DEF Folded

-----------------------------------------------------------------------------
(* Sums over a finite set.                                                   *)

Total(f, S) == MapThenSumSet(LAMBDA p : f[p], S)

Summed(g, f, S) ==
  g = [s \in SUBSET S |-> IF s = {} THEN 0 ELSE f[Pick(s)] + g[s \ {Pick(s)}]]

LEMMA TotalIsSummed ==
  ASSUME NEW S, IsFiniteSet(S), NEW f \in [S -> Int]
  PROVE  \E g \in [SUBSET S -> Int] : Summed(g, f, S) /\ Total(f, S) = g[S]
<1>. DEFINE F == [q \in S \X Int |-> f[q[1]] + q[2]]
<1>1. F \in [S \X Int -> Int]
  OBVIOUS
<1>2. PICK g \in [SUBSET S -> Int] : Folded(g, S, 0, F)
  <2>. HIDE DEF F
  <2>. QED
    BY <1>1, 0 \in Int, FoldExists
<1>3. \A s \in SUBSET S : s # {} => F[<<Pick(s), g[s \ {Pick(s)}]>>] = f[Pick(s)] + g[s \ {Pick(s)}]
  BY Picked
<1>4. Summed(g, f, S)
  BY <1>2, <1>3 DEF Folded, Summed
<1>. DEFINE h == CHOOSE h : Summed(h, f, S)
<1>5. Total(f, S) = h[S]
  BY DEF Total, MapThenSumSet, MapThenFoldSet, Summed, Pick
<1>6. Summed(h, f, S)
  BY <1>4
<1>. HIDE DEF h
<1>7. h = g
  <2>. DEFINE T == {s \in SUBSET S : h[s] = g[s]}
  <2>1. {} \in T
    BY <1>4, <1>6 DEF Summed
  <2>2. \A s \in SUBSET S : s # {} /\ s \ {Pick(s)} \in T => s \in T
    BY <1>4, <1>6 DEF Summed
  <2>. HIDE DEF T
  <2>3. SUBSET S \subseteq T
    BY <2>1, <2>2, SubsetInduction
  <2>4. \A s \in SUBSET S : h[s] = g[s]
    BY <2>3 DEF T
  <2>. QED
    BY <1>4, <1>6, <2>4 DEF Summed
<1>. QED
  BY <1>4, <1>5, <1>7

\* A sum in which one term changes.
LEMMA TotalUpdated ==
  ASSUME NEW S, IsFiniteSet(S), NEW f \in [S -> Int], NEW x \in S, NEW v \in Int
  PROVE  Total([f EXCEPT ![x] = v], S) = Total(f, S) + v - f[x] /\ Total(f, S) \in Int
<1>. DEFINE h == [f EXCEPT ![x] = v]
<1>1. h \in [S -> Int] /\ h[x] = v /\ f[x] \in Int /\ \A y \in S : y # x => h[y] = f[y]
  OBVIOUS
<1>2. PICK g \in [SUBSET S -> Int] : Summed(g, f, S) /\ Total(f, S) = g[S]
  BY TotalIsSummed
<1>. HIDE DEF h
<1>3. PICK k \in [SUBSET S -> Int] : Summed(k, h, S) /\ Total(h, S) = k[S]
  BY <1>1, TotalIsSummed
<1>. DEFINE T == {s \in SUBSET S : k[s] = g[s] + (IF x \in s THEN v - f[x] ELSE 0)}
<1>4. {} \in T
  BY <1>2, <1>3 DEF Summed
<1>5. ASSUME NEW s \in SUBSET S, s # {}, s \ {Pick(s)} \in T PROVE s \in T
  <2>. DEFINE y == Pick(s)
              t == s \ {Pick(s)}
  <2>1. y \in s /\ y \in S /\ t \in SUBSET S /\ y \notin t /\ s = t \cup {y}
    BY <1>5, Picked
  <2>2. k[s] = h[y] + k[t] /\ g[s] = f[y] + g[t]
    BY <1>2, <1>3, <1>5 DEF Summed
  <2>3. k[t] = g[t] + (IF x \in t THEN v - f[x] ELSE 0)
    BY <1>5
  <2>4. g[t] \in Int /\ k[t] \in Int /\ h[y] \in Int /\ f[y] \in Int
    BY <1>1, <2>1
  <2>. HIDE DEF y, t
  <2>5. CASE y = x
    BY <1>1, <2>1, <2>2, <2>3, <2>4, <2>5
  <2>6. CASE y # x
    BY <1>1, <2>1, <2>2, <2>3, <2>4, <2>6
  <2>. QED
    BY <2>5, <2>6
<1>. HIDE DEF T
<1>6. S \in T
  BY <1>4, <1>5, SubsetInduction
<1>7. k[S] = g[S] + v - f[x] /\ g[S] \in Int
  BY <1>1, <1>6 DEF T
<1>. QED
  BY <1>2, <1>3, <1>7 DEF h

LEMMA TotalOfZeros ==
  ASSUME NEW S, IsFiniteSet(S)
  PROVE  Total([p \in S |-> 0], S) = 0
<1>. DEFINE f == [p \in S |-> 0]
<1>1. f \in [S -> Int] /\ \A p \in S : f[p] = 0
  OBVIOUS
<1>. HIDE DEF f
<1>2. PICK g \in [SUBSET S -> Int] : Summed(g, f, S) /\ Total(f, S) = g[S]
  BY <1>1, TotalIsSummed
<1>. DEFINE T == {s \in SUBSET S : g[s] = 0}
<1>3. {} \in T
  BY <1>2 DEF Summed
<1>4. ASSUME NEW s \in SUBSET S, s # {}, s \ {Pick(s)} \in T PROVE s \in T
  BY <1>1, <1>2, <1>4, Picked DEF Summed
<1>. HIDE DEF T
<1>5. S \in T
  BY <1>3, <1>4, SubsetInduction
<1>. QED
  BY <1>2, <1>5 DEF T, f

-----------------------------------------------------------------------------
(* What each block has to be: the inductive invariant, beside IInv.          *)

Books == [bytes : Int, blocks : [Place -> Nat]]
Balance == {m \in Books : m.bytes = Total(m.blocks, Place)}

\* While an array of the function under compilation grows, the new capacity is
\* in the function, and its block still has the old one, which a C local knows.
Settled == local.at \notin {"constants", "code", "lines"}
ArrayOf(o) == IF At("constants") /\ o = Function THEN local.n ELSE object[o].array
CodeOf(o) == IF At("code") /\ o = Function THEN local.n ELSE object[o].code
LinesOf(o) == IF (At("code") \/ At("lines")) /\ o = Function THEN local.n ELSE object[o].code

Exact(o) ==
  /\ blocks[<<o, "object">>] = IF object[o].kind = "free" THEN 0 ELSE SizeOf[object[o].kind]
  /\ blocks[<<o, "array">>] = IF object[o].kind = "free" THEN 0 ELSE Element[object[o].kind] * ArrayOf(o)
  /\ blocks[<<o, "code">>] = CodeOf(o)
  /\ blocks[<<o, "lines">>] = LineSize * LinesOf(o)
  /\ object[o].kind # "function" => object[o].code = 0

\* The array that only a C local points to.
InHand == IF local.at \in {"string", "take"} THEN Length + 1
          ELSE IF At("closure") THEN Element.closure * local.n ELSE 0

Accounted ==
  /\ Memory \in Balance
  /\ \A o \in Obj : Exact(o)
  /\ blocks[<<"vm", "strings">>] = EntrySize * capacity.strings
  /\ blocks[<<"vm", "names">>] = EntrySize * capacity.names
  /\ blocks[<<"C", "array">>] = InHand
  /\ \A f \in Range(contexts) : object[f].kind = "function"
  /\ At("table") => object[local.made].kind \in {"class", "instance"}
  /\ At("exit") => capacity.strings = 0 /\ capacity.names = 0

-----------------------------------------------------------------------------
(* reallocate keeps the bytes and the blocks in balance when it is told the  *)
(* size that the block really has.                                           *)

Part == {"object", "array", "code", "lines"}

LEMMA Places ==
  /\ IsFiniteSet(Place)
  /\ \A o \in Obj, part \in Part : <<o, part>> \in Place
  /\ <<"vm", "strings">> \in Place /\ <<"vm", "names">> \in Place /\ <<"C", "array">> \in Place
  /\ \A o \in Obj : o # "vm" /\ o # "C"
<1>1. IsFiniteSet(Obj) /\ IsFiniteSet(Part)
  <2>1. Part = {"object"} \cup {"array"} \cup {"code"} \cup {"lines"}
    BY DEF Part
  <2>. QED
    BY <2>1, ObjAssumption, FS_Singleton, FS_Union
<1>2. IsFiniteSet(Obj \X Part)
  BY <1>1, FS_Product
<1>3. Place = (Obj \X Part) \cup {<<"vm", "strings">>} \cup {<<"vm", "names">>} \cup {<<"C", "array">>}
  BY DEF Place, Part
<1>4. IsFiniteSet(Place)
  BY <1>2, <1>3, FS_Singleton, FS_Union
<1>. QED
  BY <1>3, <1>4, ObjAssumption

LEMMA Reallocated ==
  ASSUME NEW m \in Balance, NEW p \in Place, NEW n \in Nat, NEW old, old = m.blocks[p]
  PROVE  /\ reallocate(m, p, old, n) \in Balance
         /\ reallocate(m, p, old, n).blocks = [m.blocks EXCEPT ![p] = n]
<1>. DEFINE r == reallocate(m, p, old, n)
<1>1. m.bytes \in Int /\ m.blocks \in [Place -> Nat] /\ m.bytes = Total(m.blocks, Place)
  BY DEF Balance, Books
<1>2. r.bytes = m.bytes + n - old /\ r.blocks = [m.blocks EXCEPT ![p] = n]
  BY DEF reallocate
<1>3. m.blocks \in [Place -> Int] /\ n \in Int /\ m.blocks[p] \in Int
  BY <1>1
<1>4. Total([m.blocks EXCEPT ![p] = n], Place) = Total(m.blocks, Place) + n - m.blocks[p] /\ Total(m.blocks, Place) \in Int
  BY <1>3, Places, TotalUpdated
<1>5. r.bytes = Total(r.blocks, Place)
  BY <1>1, <1>2, <1>4
<1>6. r \in Books
  BY <1>1, <1>3 DEF reallocate, Books
<1>. QED
  BY <1>2, <1>5, <1>6 DEF Balance

LEMMA GivenBack ==
  ASSUME NEW m \in Balance, NEW p \in Place, NEW old, m.blocks[p] = old
  PROVE  reallocate(m, p, old, 0) \in Balance /\ reallocate(m, p, old, 0).blocks = [m.blocks EXCEPT ![p] = 0]
<1>1. \A n \in Nat : /\ reallocate(m, p, old, n) \in Balance
                    /\ reallocate(m, p, old, n).blocks = [m.blocks EXCEPT ![p] = n]
  BY Reallocated
<1>. QED
  BY <1>1

\* The pointer to a block moves, and the block is in the place of its array.
LEMMA HandedOver ==
  ASSUME NEW m \in Balance, NEW o \in Obj, m.blocks[<<o, "array">>] = 0
  PROVE  /\ Handed(m, o) \in Balance
         /\ Handed(m, o).blocks = [m.blocks EXCEPT ![<<o, "array">>] = m.blocks[<<"C", "array">>], ![<<"C", "array">>] = 0]
<1>. DEFINE a == <<o, "array">>
            c == <<"C", "array">>
            n == m.blocks[c]
            b == [m.blocks EXCEPT ![a] = n]
            d == [b EXCEPT ![c] = 0]
<1>1. m.bytes \in Int /\ m.blocks \in [Place -> Nat] /\ m.bytes = Total(m.blocks, Place)
  BY DEF Balance, Books
<1>2. a \in Place /\ c \in Place /\ a # c
  BY Places DEF Part
<1>3. n \in Nat /\ b \in [Place -> Nat] /\ b[c] = n
  BY <1>1, <1>2
<1>4. Handed(m, o) = [m EXCEPT !.blocks = d]
  BY DEF Handed
<1>5. Total(b, Place) = Total(m.blocks, Place) + n - 0
  <2>1. m.blocks \in [Place -> Int] /\ n \in Int /\ m.blocks[a] = 0
    BY <1>1, <1>3
  <2>2. IsFiniteSet(Place) /\ a \in Place
    BY <1>2, Places
  <2>. HIDE DEF n, a
  <2>3. Total([m.blocks EXCEPT ![a] = n], Place) = Total(m.blocks, Place) + n - m.blocks[a]
    BY <2>1, <2>2, Zenon, TotalUpdated
  <2>. QED
    BY <2>1, <2>3
<1>6. Total(d, Place) = Total(b, Place) + 0 - n
  <2>. HIDE DEF a, c, n, b
  <2>1. b \in [Place -> Int] /\ 0 \in Int
    BY <1>3
  <2>2. IsFiniteSet(Place)
    BY Places
  <2>4. \A f \in [Place -> Int], x \in Place, v \in Int :
          Total([f EXCEPT ![x] = v], Place) = Total(f, Place) + v - f[x] /\ Total(f, Place) \in Int
    BY <2>2, TotalUpdated, Zenon
  <2>3. Total([b EXCEPT ![c] = 0], Place) = Total(b, Place) + 0 - b[c]
    BY <1>2, <2>1, <2>4
  <2>. QED
    BY <1>3, <2>3
<1>7. d \in [Place -> Nat] /\ d = [m.blocks EXCEPT ![a] = n, ![c] = 0]
  BY <1>3
<1>8. Total(d, Place) = m.bytes
  BY <1>1, <1>3, <1>5, <1>6
<1>. HIDE DEF d, a, c, n, b
<1>9. Handed(m, o) = [bytes |-> m.bytes, blocks |-> d]
  BY <1>4 DEF Balance, Books
<1>10. Handed(m, o) \in Balance /\ Handed(m, o).blocks = d
  BY <1>1, <1>7, <1>8, <1>9 DEF Balance, Books
<1>. QED
  BY <1>7, <1>10 DEF a, c, n

-----------------------------------------------------------------------------
(* freeObject of a set of objects: their blocks go, and no other.            *)

\* The blocks of o are those that freeObject is going to give back.
Given(m, o) == \A part \in Part : m.blocks[<<o, part>>] = blocks[<<o, part>>]

LEMMA Types ==
  ASSUME TypeOK, NEW o \in Obj
  PROVE  /\ object[o].kind \in Kind /\ object[o].array \in Nat /\ object[o].code \in Nat
         /\ local.n \in Nat /\ ArrayOf(o) \in Nat /\ CodeOf(o) \in Nat /\ LinesOf(o) \in Nat
<1>1. object[o].kind \in Kind /\ object[o].array \in Nat /\ object[o].code \in Nat /\ local.n \in Nat
  BY DEF TypeOK, Record, Routine
<1>. QED
  BY <1>1 DEF ArrayOf, CodeOf, LinesOf

LEMMA Sizes ==
  ASSUME NEW kind \in Kind \ {"free"}, NEW n \in Nat
  PROVE  SizeOf[kind] \in Nat \ {0} /\ Element[kind] \in Nat /\ Element[kind] * n \in Nat /\ Element[kind] * 0 = 0
<1>1. SizeOf[kind] \in Nat \ {0} /\ Element[kind] \in Nat
  BY DEF Kind, SizeOf, Element
<1>2. \A e \in Nat : e * n \in Nat /\ e * 0 = 0
  OBVIOUS
<1>. QED
  BY <1>1, <1>2

LEMMA FreedOne ==
  ASSUME TypeOK, NEW o \in Obj, Exact(o), object[o].kind # "free",
         ArrayOf(o) = object[o].array, CodeOf(o) = object[o].code, LinesOf(o) = object[o].code,
         NEW m \in Balance, Given(m, o)
  PROVE  /\ freeObject(m, o) \in Balance
         /\ freeObject(m, o).blocks = [p \in Place |-> IF p[1] = o THEN 0 ELSE m.blocks[p]]
<1>. DEFINE kind == object[o].kind
            size == SizeOf[kind]
            a == <<o, "array">>
            b == <<o, "object">>
            c == <<o, "code">>
            l == <<o, "lines">>
<1>1. /\ m.blocks[b] = size /\ m.blocks[a] = Element[kind] * object[o].array
      /\ m.blocks[c] = object[o].code /\ m.blocks[l] = LineSize * object[o].code
  BY DEF Exact, Given, Part
<1>2. a \in Place /\ b \in Place /\ c \in Place /\ l \in Place
  BY Places DEF Part
<1>3. m.blocks \in [Place -> Nat]
  BY DEF Balance, Books
<1>4. \A p \in Place : p[1] = o => p \in {a, b, c, l}
  BY Places DEF Place
<1>5. a[1] = o /\ b[1] = o /\ c[1] = o /\ l[1] = o
  OBVIOUS
<1>6. a # b /\ a # c /\ a # l /\ b # c /\ b # l /\ c # l
  OBVIOUS
<1>7. CASE kind = "function"
  <2>. DEFINE lines == LineSize * object[o].code
              constants == Element.function * object[o].array
              m1 == reallocate(m, c, object[o].code, 0)
              m2 == reallocate(m1, l, lines, 0)
              m3 == reallocate(m2, a, constants, 0)
              m4 == reallocate(m3, b, size, 0)
  <2>1. freeObject(m, o) = m4
    BY <1>7 DEF freeObject, freeChunk, freeValueArray
  <2>2. m1 \in Balance /\ m1.blocks = [m.blocks EXCEPT ![c] = 0]
    BY <1>1, <1>2, Zenon, GivenBack
  <2>. HIDE DEF m1, a, b, c, l
  <2>3. m2 \in Balance /\ m2.blocks = [m1.blocks EXCEPT ![l] = 0]
    <3>1. m1.blocks[l] = lines
      BY <1>1, <1>2, <1>3, <1>6, <2>2
    <3>. HIDE DEF kind, size, lines
    <3>2. m1 \in Balance /\ l \in Place
      BY <1>2, <2>2
    <3>. QED
      BY <3>1, <3>2, Zenon, GivenBack
  <2>. HIDE DEF m2
  <2>4. m3 \in Balance /\ m3.blocks = [m2.blocks EXCEPT ![a] = 0]
    <3>1. m2.blocks[a] = constants
      BY <1>1, <1>2, <1>3, <1>6, <1>7, <2>2, <2>3 DEF Element
    <3>. HIDE DEF kind, constants
    <3>2. m2 \in Balance /\ a \in Place
      BY <1>2, <2>3
    <3>. QED
      BY <3>1, <3>2, Zenon, GivenBack
  <2>. HIDE DEF m3
  <2>5. m4 \in Balance /\ m4.blocks = [m3.blocks EXCEPT ![b] = 0]
    <3>1. m3.blocks[b] = size
      BY <1>1, <1>2, <1>3, <1>6, <2>2, <2>3, <2>4
    <3>. HIDE DEF kind, size
    <3>2. m3 \in Balance /\ b \in Place
      BY <1>2, <2>4
    <3>. QED
      BY <3>1, <3>2, Zenon, GivenBack
  <2>. HIDE DEF m4
  <2>6. m4.blocks = [p \in Place |-> IF p[1] = o THEN 0 ELSE m.blocks[p]]
    BY <1>2, <1>3, <1>4, <1>5, <2>2, <2>3, <2>4, <2>5
  <2>. QED
    BY <2>1, <2>5, <2>6
<1>8. CASE kind # "function"
  <2>. DEFINE m1 == reallocate(m, a, Element[kind] * object[o].array, 0)
              m2 == reallocate(m1, b, size, 0)
  <2>1. freeObject(m, o) = m2
    BY <1>8 DEF freeObject
  <2>2. m1 \in Balance /\ m1.blocks = [m.blocks EXCEPT ![a] = 0]
    BY <1>1, <1>2, Zenon, GivenBack
  <2>3. m.blocks[c] = 0 /\ m.blocks[l] = 0
    BY <1>1, <1>8 DEF Exact, LineSize
  <2>. HIDE DEF m1, a, b, c, l
  <2>4. m2 \in Balance /\ m2.blocks = [m1.blocks EXCEPT ![b] = 0]
    <3>1. m1.blocks[b] = size
      BY <1>1, <1>2, <1>3, <1>6, <2>2
    <3>. HIDE DEF kind, size
    <3>2. m1 \in Balance /\ b \in Place
      BY <1>2, <2>2
    <3>. QED
      BY <3>1, <3>2, Zenon, GivenBack
  <2>. HIDE DEF m2
  <2>5. m2.blocks = [p \in Place |-> IF p[1] = o THEN 0 ELSE m.blocks[p]]
    BY <1>2, <1>3, <1>4, <1>5, <2>2, <2>3, <2>4
  <2>. QED
    BY <2>1, <2>4, <2>5
<1>. QED
  BY <1>7, <1>8

LEMMA TypeOfReallocation ==
  ASSUME NEW m \in Books, NEW p \in Place, NEW old \in Int
  PROVE  reallocate(m, p, old, 0) \in Books
<1>1. m.bytes \in Int /\ m.blocks \in [Place -> Nat]
  BY DEF Books
<1>2. m.bytes + 0 - old \in Int /\ [m.blocks EXCEPT ![p] = 0] \in [Place -> Nat]
  BY <1>1
<1>. QED
  BY <1>2 DEF reallocate, Books

LEMMA TypeOfFreeing ==
  ASSUME TypeOK, NEW o \in Obj, object[o].kind # "free", NEW m \in Books
  PROVE  freeObject(m, o) \in Books
<1>. DEFINE kind == object[o].kind
            array == Element[kind] * object[o].array
            code == object[o].code
            lines == LineSize * object[o].code
            size == SizeOf[kind]
<1>1. array \in Int /\ code \in Int /\ lines \in Int /\ size \in Int
  BY Types, Sizes DEF LineSize
<1>2. /\ <<o, "array">> \in Place /\ <<o, "code">> \in Place
      /\ <<o, "lines">> \in Place /\ <<o, "object">> \in Place
  BY Places DEF Part
<1>3. CASE kind = "function"
  <2>1. freeObject(m, o) =
          reallocate(reallocate(reallocate(reallocate(m, <<o, "code">>, code, 0), <<o, "lines">>, lines, 0),
                                <<o, "array">>, array, 0), <<o, "object">>, size, 0)
    BY <1>3 DEF freeObject, freeChunk, freeValueArray, Element
  <2>. HIDE DEF kind, array, code, lines, size
  <2>. QED
    BY <1>1, <1>2, <2>1, TypeOfReallocation, Zenon
<1>4. CASE kind # "function"
  <2>1. freeObject(m, o) = reallocate(reallocate(m, <<o, "array">>, array, 0), <<o, "object">>, size, 0)
    BY <1>4 DEF freeObject
  <2>. HIDE DEF kind, array, code, lines, size
  <2>. QED
    BY <1>1, <1>2, <2>1, TypeOfReallocation, Zenon
<1>. QED
  BY <1>3, <1>4

\* What freeObject is told of the object is what was allocated for it.
Freeable(o) ==
  /\ Exact(o) /\ object[o].kind # "free"
  /\ ArrayOf(o) = object[o].array /\ CodeOf(o) = object[o].code /\ LinesOf(o) = object[o].code

LEMMA FreedAll ==
  ASSUME TypeOK, Memory \in Balance, NEW S \in SUBSET Obj, \A o \in S : Freeable(o)
  PROVE  Freed(S) \in Balance /\ Freed(S).blocks = [p \in Place |-> IF p[1] \in S THEN 0 ELSE blocks[p]]
<1>. DEFINE F == [q \in S \X Books |-> freeObject(q[2], q[1])]
            Rest(s) == [p \in Place |-> IF p[1] \in s THEN 0 ELSE blocks[p]]
<1>1. IsFiniteSet(S)
  BY ObjAssumption, FS_Subset
<1>2. Memory \in Books /\ Memory.blocks = blocks /\ blocks \in [Place -> Nat]
  BY DEF Balance, Books, Memory
<1>3. \A o \in S, m \in Books : freeObject(m, o) \in Books
  BY TypeOfFreeing DEF Freeable
<1>4. F \in [S \X Books -> Books]
  BY <1>3
<1>5. PICK g \in [SUBSET S -> Books] : Folded(g, S, Memory, F)
  <2>. HIDE DEF F
  <2>. QED
    BY <1>1, <1>2, <1>4, FoldExists
<1>6. g = [s \in SUBSET S |-> IF s = {} THEN Memory ELSE freeObject(g[s \ {Pick(s)}], Pick(s))]
  <2>1. \A s \in SUBSET S : s # {} => F[<<Pick(s), g[s \ {Pick(s)}]>>] = freeObject(g[s \ {Pick(s)}], Pick(s))
    BY Picked
  <2>. HIDE DEF F
  <2>. QED
    BY <1>5, <2>1 DEF Folded
<1>. DEFINE Recursion(h) == h = [s \in SUBSET S |-> IF s = {} THEN Memory ELSE freeObject(h[s \ {Pick(s)}], Pick(s))]
            h == CHOOSE h : Recursion(h)
<1>7. Freed(S) = h[S]
  BY DEF Freed, FoldSet, MapThenFoldSet, Pick
<1>8. Recursion(h)
  <2>1. Recursion(g)
    BY <1>6
  <2>. HIDE DEF Recursion
  <2>. QED
    BY <2>1
<1>9. h[{}] = Memory /\ \A s \in SUBSET S : s # {} => h[s] = freeObject(h[s \ {Pick(s)}], Pick(s))
  <2>. HIDE DEF h
  <2>. QED
    BY <1>8
<1>. DEFINE T == {s \in SUBSET S : h[s] \in Balance /\ h[s].blocks = Rest(s)}
<1>. HIDE DEF h, Recursion, F
<1>10. {} \in T
  <2>1. Rest({}) = blocks
    BY <1>2
  <2>. QED
    BY <1>2, <1>9, <2>1
<1>11. ASSUME NEW s \in SUBSET S, s # {}, s \ {Pick(s)} \in T PROVE s \in T
  <2>. DEFINE o == Pick(s)
              t == s \ {Pick(s)}
  <2>1. o \in S /\ o \in Obj /\ t \in SUBSET S /\ o \notin t /\ s = t \cup {o} /\ Freeable(o)
    BY <1>11, Picked
  <2>2. h[t] \in Balance /\ h[t].blocks = Rest(t)
    BY <1>11
  <2>3. h[s] = freeObject(h[t], o)
    BY <1>9, <1>11
  <2>. HIDE DEF o, t
  <2>4. Given(h[t], o)
    BY <2>1, <2>2, Places DEF Given
  <2>5. /\ freeObject(h[t], o) \in Balance
        /\ freeObject(h[t], o).blocks = [p \in Place |-> IF p[1] = o THEN 0 ELSE h[t].blocks[p]]
    BY <2>1, <2>2, <2>4, FreedOne DEF Freeable
  <2>6. [p \in Place |-> IF p[1] = o THEN 0 ELSE h[t].blocks[p]] = Rest(s)
    BY <2>1, <2>2
  <2>. QED
    BY <2>3, <2>5, <2>6
<1>12. S \in T
  <2>. HIDE DEF T
  <2>. QED
    BY <1>1, <1>10, <1>11, SubsetInduction
<1>. QED
  BY <1>7, <1>12

-----------------------------------------------------------------------------
(* The steps.                                                                *)

\* Sizes of objects do not change.
Shapes == \A o \in Obj : /\ object'[o].kind = object[o].kind
                         /\ object'[o].array = object[o].array
                         /\ object'[o].code = object[o].code

\* Nothing is being resized, in hand or at its end.
Resting == local.at \notin {"constants", "code", "lines", "string", "take", "closure", "table", "exit"}

LEMMA AtRest == Resting => Settled /\ InHand = 0 /\ ~At("table") /\ ~At("exit")
  BY DEF Resting, Settled, InHand, At

LEMMA AtRestNext == ASSUME Resting' PROVE Settled' /\ InHand' = 0 /\ ~At("table")' /\ ~At("exit")'
  BY DEF Resting, Settled, InHand, At

LEMMA SettledSizes ==
  ASSUME Settled, NEW o
  PROVE  ArrayOf(o) = object[o].array /\ CodeOf(o) = object[o].code /\ LinesOf(o) = object[o].code
  BY DEF Settled, ArrayOf, CodeOf, LinesOf, At

\* An object whose size and blocks stay the same.
LEMMA ExactKept ==
  ASSUME NEW o \in Obj, Exact(o), Settled, Settled',
         object'[o].kind = object[o].kind, object'[o].array = object[o].array, object'[o].code = object[o].code,
         \A part \in Part : blocks'[<<o, part>>] = blocks[<<o, part>>]
  PROVE  Exact(o)'
  BY DEF Exact, Settled, ArrayOf, CodeOf, LinesOf, At, Part

LEMMA SameShapes ==
  ASSUME TypeOK
  PROVE  /\ object' = object => Shapes
         /\ \A o \in Obj : \A S : object' = [object EXCEPT ![o].refs = S] => Shapes
<1>1. \A o \in Obj : object[o] \in Record /\ DOMAIN object = Obj
  BY DEF TypeOK
<1>2. ASSUME NEW o \in Obj, NEW S, object' = [object EXCEPT ![o].refs = S] PROVE Shapes
  BY <1>1, <1>2 DEF Shapes, Record
<1>. QED
  BY <1>2 DEF Shapes

\* A step that allocates and frees nothing.
LEMMA Quiet ==
  ASSUME TypeOK, Accounted, Shapes, Resting, Resting', UNCHANGED <<memory, capacity>>,
         Range(contexts') \subseteq Range(contexts)
  PROVE  Accounted'
<1>. USE AtRest, AtRestNext
<1>1. Memory' \in Balance
  BY DEF Accounted, Memory, memory, Balance, Books
<1>2. \A o \in Obj : Exact(o)'
  BY ExactKept DEF Accounted, memory, Shapes
<1>3. Range(contexts) \subseteq Obj
  BY DEF TypeOK, Range
<1>4. \A f \in Range(contexts') : object'[f].kind = "function"
  BY <1>3 DEF Shapes, Accounted
<1>. QED
  BY <1>1, <1>2, <1>4 DEF Accounted, memory

LEMMA Delivered ==
  ASSUME TypeOK, InPlace, NEW s \in Obj, NEW below, Deliver(s, below)
  PROVE  Shapes /\ Resting'
<1>1. Resting'
  <2>1. \/ local' = Idle \/ local' = [Idle EXCEPT !.at = "add", !.made = s]
        \/ local' = [Idle EXCEPT !.at = "native", !.held = {s}]
    BY DEF Deliver
  <2>2. local'.at \in {"idle", "add", "native"}
    <3>1. CASE local' = Idle
      BY <3>1 DEF Idle
    <3>2. CASE local' = [Idle EXCEPT !.at = "add", !.made = s]
      BY <3>2 DEF Idle
    <3>3. CASE local' = [Idle EXCEPT !.at = "native", !.held = {s}]
      BY <3>3 DEF Idle
    <3>. QED
      BY <2>1, <3>1, <3>2, <3>3
  <2>. QED
    BY <2>2 DEF Resting
<1>2. CASE local.then = "name"
  <2>1. Function \in Obj
    BY <1>2, UnderCompilation DEF InPlace
  <2>2. object' = [object EXCEPT ![Function].refs = object[Function].refs \cup {s}]
    BY <1>2 DEF Deliver
  <2>. QED
    BY <1>1, <2>1, <2>2, SameShapes
<1>3. CASE local.then # "name"
  BY <1>1, <1>3, SameShapes DEF Deliver
<1>. QED
  BY <1>2, <1>3

\* The sizes that reallocate is told of.
LEMMA Became ==
  ASSUME NEW m \in Balance, Becomes(m)
  PROVE  Memory' \in Balance /\ blocks' = m.blocks /\ blocks' \in [Place -> Nat]
<1>1. m.bytes \in Int /\ m.blocks \in [Place -> Nat] /\ m.bytes = Total(m.blocks, Place)
  BY DEF Balance, Books
<1>2. bytesAllocated' = m.bytes /\ blocks' = m.blocks
  BY DEF Becomes
<1>3. Memory' = [bytes |-> m.bytes, blocks |-> m.blocks]
  BY <1>2 DEF Memory
<1>4. [bytes |-> m.bytes, blocks |-> m.blocks] \in Balance
  BY <1>1 DEF Balance, Books
<1>. QED
  BY <1>1, <1>2, <1>3, <1>4

LEMMA Sized ==
  ASSUME Memory \in Balance, NEW p \in Place, NEW n \in Nat, NEW old, old = blocks[p],
         Becomes(reallocate(Memory, p, old, n))
  PROVE  Memory' \in Balance /\ blocks' = [blocks EXCEPT ![p] = n] /\ blocks \in [Place -> Nat]
<1>1. Memory.blocks = blocks /\ blocks \in [Place -> Nat]
  BY DEF Memory, Balance, Books
<1>2. /\ reallocate(Memory, p, old, n) \in Balance
      /\ reallocate(Memory, p, old, n).blocks = [Memory.blocks EXCEPT ![p] = n]
  <2>1. old = Memory.blocks[p]
    BY <1>1
  <2>. QED
    BY <2>1, Reallocated
<1>. QED
  BY <1>1, <1>2, Became

\* A step at which only a table of the VM or an array in hand changes its size.
LEMMA Elsewhere ==
  ASSUME TypeOK, Accounted, Shapes, Settled, Settled', Memory' \in Balance,
         \A o \in Obj, part \in Part : blocks'[<<o, part>>] = blocks[<<o, part>>],
         blocks'[<<"vm", "strings">>] = EntrySize * capacity'.strings,
         blocks'[<<"vm", "names">>] = EntrySize * capacity'.names,
         blocks'[<<"C", "array">>] = InHand',
         Range(contexts') \subseteq Range(contexts),
         local'.at \notin {"table", "exit"}
  PROVE  Accounted'
<1>2. \A o \in Obj : Exact(o)'
  BY ExactKept DEF Accounted, Shapes
<1>3. Range(contexts) \subseteq Obj
  BY DEF TypeOK, Range
<1>4. \A f \in Range(contexts') : object'[f].kind = "function"
  BY <1>3 DEF Shapes, Accounted
<1>. QED
  BY <1>2, <1>4 DEF Accounted, At

LEMMA AccountedStrings ==
  ASSUME TypeOK, TypeOK', InPlace, Distinct, Accounted, Strings, ~allocateString
  PROVE  Accounted'
<1>. USE DEF At
<1>. DEFINE C == <<"C", "array">>
<1>0. Interned \subseteq Obj
  BY DEF Interned, TypeOK
<1>a. Memory \in Balance /\ blocks \in [Place -> Nat] /\ blocks[C] = InHand /\ C \in Place
  BY Places DEF Accounted, Balance, Books, Memory
<1>b. \A o \in Obj, part \in Part : <<o, part>> \in Place /\ <<o, part>> # C
  BY Zenon, Places
<1>1. CASE copyString
  <2>1. Resting /\ UNCHANGED <<memory, capacity, contexts>>
    BY <1>1 DEF copyString, Resting
  <2>2. CASE \E s \in Interned : Deliver(s, stack)
    BY <1>0, <2>1, <2>2, Delivered, Quiet
  <2>3. CASE local' = [local EXCEPT !.at = "chars"] /\ UNCHANGED <<object, kept, stack>>
    <3>1. Resting'
      BY <2>3 DEF Resting, TypeOK, Routine
    <3>. QED
      BY <2>1, <2>3, <3>1, SameShapes, Quiet
  <2>. QED
    BY <1>1, <2>2, <2>3 DEF copyString
<1>2. CASE AllocateChars
  <2>1. Settled /\ InHand = 0
    BY <1>2 DEF AllocateChars, Settled, InHand
  <2>2. Settled' /\ InHand' = Length + 1 /\ local'.at \notin {"table", "exit"}
    BY <1>2 DEF AllocateChars, Settled, InHand, TypeOK, Routine
  <2>3. Becomes(reallocate(Memory, C, 0, Length + 1))
    BY <1>2 DEF AllocateChars
  <2>4. Memory' \in Balance /\ blocks' = [blocks EXCEPT ![C] = Length + 1]
    <3>1. Length + 1 \in Nat /\ blocks[C] = 0
      BY <1>a, <2>1 DEF Length
    <3>. HIDE DEF C
    <3>. QED
      BY <1>a, <2>3, <3>1, Sized
  <2>5. object' = object /\ contexts' = contexts /\ capacity' = capacity
    BY <1>2 DEF AllocateChars
  <2>6. /\ \A o \in Obj, part \in Part : blocks'[<<o, part>>] = blocks[<<o, part>>]
        /\ blocks'[C] = Length + 1
        /\ blocks'[<<"vm", "strings">>] = blocks[<<"vm", "strings">>]
        /\ blocks'[<<"vm", "names">>] = blocks[<<"vm", "names">>]
    BY <1>a, <1>b, <2>4, Places
  <2>7. Shapes
    BY <2>5, SameShapes
  <2>. QED
    BY <2>1, <2>2, <2>4, <2>5, <2>6, <2>7, Elsewhere DEF Accounted
<1>3. CASE takeString
  <2>1. Settled /\ InHand = Length + 1 /\ capacity' = capacity /\ contexts' = contexts
    BY <1>3 DEF takeString, Settled, InHand
  <2>2. ASSUME NEW s \in Interned, Deliver(s, stack), Becomes(reallocate(Memory, C, Length + 1, 0))
        PROVE  Accounted'
    <3>1. Shapes /\ Resting'
      BY <1>0, <2>2, Delivered
    <3>2. Settled' /\ InHand' = 0 /\ local'.at \notin {"table", "exit"}
      BY <3>1, AtRestNext DEF Resting
    <3>3. Memory' \in Balance /\ blocks' = [blocks EXCEPT ![C] = 0]
      <4>1. 0 \in Nat /\ blocks[C] = Length + 1
        BY <1>a, <2>1
      <4>. HIDE DEF C
      <4>. QED
        BY <1>a, <2>2, <4>1, Sized
    <3>4. /\ \A o \in Obj, part \in Part : blocks'[<<o, part>>] = blocks[<<o, part>>]
          /\ blocks'[C] = 0
          /\ blocks'[<<"vm", "strings">>] = blocks[<<"vm", "strings">>]
          /\ blocks'[<<"vm", "names">>] = blocks[<<"vm", "names">>]
      BY <1>a, <1>b, <3>3, Places
    <3>. QED
      BY <2>1, <3>1, <3>2, <3>3, <3>4, Elsewhere DEF Accounted
  <2>3. CASE local' = [local EXCEPT !.at = "string"] /\ UNCHANGED <<object, memory, kept, stack>>
    <3>1. Settled' /\ InHand' = Length + 1 /\ local'.at \notin {"table", "exit"}
      BY <2>3 DEF Settled, InHand, TypeOK, Routine
    <3>2. Memory' \in Balance /\ blocks' = blocks
      BY <1>a, <2>3 DEF memory, Memory
    <3>3. Shapes
      BY <2>3, SameShapes
    <3>. QED
      BY <2>1, <3>1, <3>2, <3>3, Elsewhere DEF Accounted
  <2>. QED
    BY <1>3, <2>2, <2>3 DEF takeString
<1>4. CASE InternString
  <2>. DEFINE V == <<"vm", "strings">>
  <2>1. Resting /\ contexts' = contexts
    BY <1>4 DEF InternString, Resting
  <2>2. PICK cap \in Room(capacity.strings) :
            /\ capacity' = [capacity EXCEPT !.strings = cap]
            /\ Becomes(reallocate(Memory, V, EntrySize * capacity.strings, EntrySize * cap))
    BY <1>4 DEF InternString
  <2>3. cap \in Nat /\ EntrySize * cap \in Nat /\ V \in Place /\ blocks[V] = EntrySize * capacity.strings
    <3>1. capacity.strings \in Nat
      BY DEF TypeOK
    <3>2. cap \in Nat
      BY <3>1, Capacities
    <3>. QED
      BY <3>2, Places DEF EntrySize, Accounted
  <2>4. Shapes /\ Resting'
    <3>1. local.made \in Obj
      BY <1>4, Pushed DEF InternString
    <3>. QED
      BY <1>4, <3>1, Delivered DEF InternString
  <2>5. Memory' \in Balance /\ blocks' = [blocks EXCEPT ![V] = EntrySize * cap]
    <3>. HIDE DEF V
    <3>. QED
      BY <1>a, <2>2, <2>3, Sized
  <2>6. /\ \A o \in Obj, part \in Part : blocks'[<<o, part>>] = blocks[<<o, part>>]
        /\ blocks'[C] = blocks[C]
        /\ blocks'[V] = EntrySize * cap
        /\ blocks'[<<"vm", "names">>] = blocks[<<"vm", "names">>]
    <3>1. \A o \in Obj, part \in Part : <<o, part>> # V
      BY Places
    <3>2. C # V /\ <<"vm", "names">> # V
      OBVIOUS
    <3>. QED
      BY <1>a, <1>b, <2>3, <2>5, <3>1, <3>2, Places
  <2>7. capacity'.strings = cap /\ capacity'.names = capacity.names
    BY <2>2 DEF TypeOK
  <2>8. Settled /\ Settled' /\ InHand = 0 /\ InHand' = 0 /\ local'.at \notin {"table", "exit"}
    BY <2>1, <2>4, AtRest, AtRestNext DEF Resting
  <2>. QED
    BY <2>1, <2>4, <2>5, <2>6, <2>7, <2>8, Elsewhere DEF Accounted
<1>. QED
  BY <1>1, <1>2, <1>3, <1>4 DEF Strings

\* An object is made, whose array if any is in place, and nothing else changes.
LEMMA Made ==
  ASSUME TypeOK, Accounted, Settled, Settled', NEW o \in Obj, object[o].kind = "free",
         NEW kind \in Kind \ {"free"}, NEW array \in Nat,
         object'[o].kind = kind, object'[o].array = array, object'[o].code = 0,
         \A q \in Obj : q # o => /\ object'[q].kind = object[q].kind
                                 /\ object'[q].array = object[q].array
                                 /\ object'[q].code = object[q].code,
         NEW m \in Balance, m.blocks[<<o, "array">>] = Element[kind] * array,
         \A q \in Obj, part \in Part : <<q, part>> # <<o, "array">> => m.blocks[<<q, part>>] = blocks[<<q, part>>],
         Becomes(reallocate(m, <<o, "object">>, 0, SizeOf[kind]))
  PROVE  /\ Memory' \in Balance
         /\ \A q \in Obj : Exact(q)'
         /\ \A p \in {<<"vm", "strings">>, <<"vm", "names">>, <<"C", "array">>} : blocks'[p] = m.blocks[p]
<1>. DEFINE b == <<o, "object">>
<1>1. b \in Place /\ SizeOf[kind] \in Nat
  BY Places, Sizes, 0 \in Nat DEF Part
<1>2. Exact(o) /\ CodeOf(o) = 0 /\ LinesOf(o) = 0
  BY SettledSizes, <1>1 DEF Accounted, Exact
<1>3. blocks[b] = 0 /\ blocks[<<o, "code">>] = 0 /\ blocks[<<o, "lines">>] = 0
  BY <1>2 DEF Exact, LineSize
<1>4. m.blocks[b] = 0 /\ m.blocks[<<o, "code">>] = 0 /\ m.blocks[<<o, "lines">>] = 0
  BY <1>3 DEF Part
<1>5. /\ reallocate(m, b, 0, SizeOf[kind]) \in Balance
      /\ reallocate(m, b, 0, SizeOf[kind]).blocks = [m.blocks EXCEPT ![b] = SizeOf[kind]]
  <2>1. 0 = m.blocks[b]
    BY <1>4
  <2>. DEFINE size == SizeOf[kind]
  <2>. HIDE DEF b, size
  <2>2. reallocate(m, b, 0, size) \in Balance /\ reallocate(m, b, 0, size).blocks = [m.blocks EXCEPT ![b] = size]
    BY <1>1, <2>1, Reallocated DEF size
  <2>. QED
    BY <2>2 DEF size
<1>6. Memory' \in Balance /\ blocks' = [m.blocks EXCEPT ![b] = SizeOf[kind]]
  BY <1>5, Became
<1>7. m.blocks \in [Place -> Nat]
  BY DEF Balance, Books
<1>8. blocks'[b] = SizeOf[kind] /\ \A p \in Place : p # b => blocks'[p] = m.blocks[p]
  BY <1>1, <1>6, <1>7
<1>9. Exact(o)'
  <2>1. ArrayOf(o)' = array /\ CodeOf(o)' = 0 /\ LinesOf(o)' = 0
    BY DEF Settled, ArrayOf, CodeOf, LinesOf, At
  <2>2. <<o, "array">> \in Place /\ <<o, "code">> \in Place /\ <<o, "lines">> \in Place
    BY Places DEF Part
  <2>3. blocks'[<<o, "array">>] = Element[kind] * array /\ blocks'[<<o, "code">>] = 0 /\ blocks'[<<o, "lines">>] = 0
    BY <1>4, <1>8, <2>2
  <2>4. kind # "free"
    OBVIOUS
  <2>. QED
    BY <1>8, <2>1, <2>3, <2>4 DEF Exact, LineSize
<1>10. ASSUME NEW q \in Obj, q # o PROVE Exact(q)'
  <2>1. \A part \in Part : <<q, part>> \in Place /\ <<q, part>> # b /\ <<q, part>> # <<o, "array">>
    BY <1>10, Places
  <2>2. \A part \in Part : blocks'[<<q, part>>] = blocks[<<q, part>>]
    BY <1>8, <2>1
  <2>3. Exact(q)
    BY DEF Accounted
  <2>. QED
    BY <1>10, <2>2, <2>3, ExactKept
<1>11. \A p \in {<<"vm", "strings">>, <<"vm", "names">>, <<"C", "array">>} : p \in Place /\ p # b
  BY Places
<1>. QED
  BY <1>6, <1>8, <1>9, <1>10, <1>11

\* The same, of a step that fills an object that was free.
LEMMA MadeAtRest ==
  ASSUME TypeOK, Present, Accounted, Settled, InHand = 0, Resting', NEW o \in Obj, object[o].kind = "free",
         NEW kind \in Kind \ {"free"},
         object'[o].kind = kind, object'[o].array = 0, object'[o].code = 0,
         \A q \in Obj : q # o => /\ object'[q].kind = object[q].kind
                                 /\ object'[q].array = object[q].array
                                 /\ object'[q].code = object[q].code,
         Becomes(reallocate(Memory, <<o, "object">>, 0, SizeOf[kind])),
         capacity' = capacity,
         \A f \in Range(contexts') : f \in Range(contexts) \/ (f = o /\ kind = "function")
  PROVE  Accounted'
<1>1. Settled' /\ InHand' = 0 /\ ~At("table")' /\ ~At("exit")'
  BY AtRestNext
<1>2. Memory \in Balance /\ Memory.blocks = blocks
  BY DEF Accounted, Memory
<1>3. Memory.blocks[<<o, "array">>] = Element[kind] * 0
  BY <1>2, Sizes, 0 \in Nat DEF Accounted, Exact
<1>4. /\ Memory' \in Balance
      /\ \A q \in Obj : Exact(q)'
      /\ \A p \in {<<"vm", "strings">>, <<"vm", "names">>, <<"C", "array">>} : blocks'[p] = blocks[p]
  BY <1>1, <1>2, <1>3, 0 \in Nat, Made
<1>5. \A f \in Range(contexts) : f \in Obj /\ f # o
  BY DEF Present, Roots, Live
<1>6. \A f \in Range(contexts') : object'[f].kind = "function"
  BY <1>5 DEF Accounted
<1>. QED
  BY <1>1, <1>4, <1>6 DEF Accounted

\* An object is made of an array that a C local has pointed to.
LEMMA MadeOfHand ==
  ASSUME TypeOK, Present, Accounted, Settled, Resting', NEW o \in Obj, object[o].kind = "free",
         NEW kind \in Kind \ {"free"}, NEW array \in Nat, InHand = Element[kind] * array,
         object'[o].kind = kind, object'[o].array = array, object'[o].code = 0,
         \A q \in Obj : q # o => object'[q] = object[q],
         Becomes(reallocate(Handed(Memory, o), <<o, "object">>, 0, SizeOf[kind])),
         capacity' = capacity, contexts' = contexts
  PROVE  Accounted'
<1>. DEFINE m == Handed(Memory, o)
            a == <<o, "array">>
            c == <<"C", "array">>
<1>1. Settled' /\ InHand' = 0 /\ ~At("table")' /\ ~At("exit")'
  BY AtRestNext
<1>2. Memory \in Balance /\ Memory.blocks = blocks /\ blocks[c] = InHand
  BY DEF Accounted, Memory
<1>3. blocks[a] = 0
  BY DEF Accounted, Exact
<1>4. m \in Balance /\ m.blocks = [blocks EXCEPT ![a] = blocks[c], ![c] = 0]
  BY <1>2, <1>3, HandedOver
<1>5. blocks \in [Place -> Nat] /\ a \in Place /\ c \in Place /\ a # c
  BY <1>2, Places DEF Balance, Books, Part
<1>6. /\ m.blocks[a] = Element[kind] * array /\ m.blocks[c] = 0
      /\ \A p \in Place : p # a /\ p # c => m.blocks[p] = blocks[p]
  BY <1>2, <1>4, <1>5
<1>7. \A q \in Obj, part \in Part : <<q, part>> \in Place /\ <<q, part>> # c
  BY Zenon, Places
<1>8. \A q \in Obj, part \in Part : <<q, part>> # a => m.blocks[<<q, part>>] = blocks[<<q, part>>]
  BY <1>6, <1>7
<1>13. Becomes(reallocate(m, <<o, "object">>, 0, SizeOf[kind]))
  OBVIOUS
<1>14. \A q \in Obj : q # o => /\ object'[q].kind = object[q].kind
                               /\ object'[q].array = object[q].array
                               /\ object'[q].code = object[q].code
  OBVIOUS
<1>. HIDE DEF m
<1>9. /\ Memory' \in Balance
      /\ \A q \in Obj : Exact(q)'
      /\ \A p \in {<<"vm", "strings">>, <<"vm", "names">>, <<"C", "array">>} : blocks'[p] = m.blocks[p]
  <2>1. PICK n \in Balance : n = m
    BY <1>4
  <2>2. n.blocks[<<o, "array">>] = Element[kind] * array
    BY <1>6, <2>1
  <2>3. \A q \in Obj, part \in Part : <<q, part>> # <<o, "array">> => n.blocks[<<q, part>>] = blocks[<<q, part>>]
    BY <1>8, <2>1
  <2>4. Becomes(reallocate(n, <<o, "object">>, 0, SizeOf[kind]))
    BY <1>13, <2>1
  <2>. QED
    BY <1>1, <1>14, <2>1, <2>2, <2>3, <2>4, Made
<1>10. \A p \in {<<"vm", "strings">>, <<"vm", "names">>} : m.blocks[p] = blocks[p]
  BY <1>6, Places
<1>11. \A f \in Range(contexts) : f \in Obj /\ f # o
  BY DEF Present, Roots, Live
<1>12. \A f \in Range(contexts') : object'[f].kind = "function"
  BY <1>11 DEF Accounted
<1>. QED
  BY <1>1, <1>6, <1>9, <1>10, <1>12 DEF Accounted

LEMMA AccountedNewString ==
  ASSUME TypeOK, Present, Accounted, allocateString
  PROVE  Accounted'
<1>. USE DEF At
<1>1. PICK o \in Obj :
          /\ allocateObject(Handed(Memory, o), o, Object("string", {}, local.content, Length + 1))
          /\ local' = [local EXCEPT !.at = "strings", !.made = o]
  BY Zenon DEF allocateString
<1>2. Settled /\ InHand = Element["string"] * (Length + 1)
  BY DEF allocateString, Settled, InHand, Element, Length
<1>3. Resting'
  BY <1>1 DEF Resting, TypeOK, Routine
<1>4. /\ object[o].kind = "free"
      /\ object'[o].kind = "string" /\ object'[o].array = Length + 1 /\ object'[o].code = 0
      /\ \A q \in Obj : q # o => object'[q] = object[q]
      /\ Becomes(reallocate(Handed(Memory, o), <<o, "object">>, 0, SizeOf["string"]))
  BY <1>1 DEF allocateObject, Object, TypeOK
<1>5. "string" \in Kind \ {"free"} /\ Length + 1 \in Nat
  BY DEF Kind, Length
<1>6. capacity' = capacity /\ contexts' = contexts
  BY DEF allocateString
<1>. QED
  BY <1>2, <1>3, <1>4, <1>5, <1>6, MadeOfHand

-----------------------------------------------------------------------------
(* The compiler: the arrays of the function under compilation.               *)

LEMMA Compiled ==
  ASSUME TypeOK, InPlace, Present, Accounted, Compiling
  PROVE  /\ Function \in Obj /\ Function \in Range(contexts) /\ object[Function].kind = "function"
         /\ object[Function] \in Record /\ object[Function].array \in Nat /\ object[Function].code \in Nat
         /\ local.n \in Nat
<1>1. Function \in Obj /\ Function \in Range(contexts)
  BY UnderCompilation
<1>. QED
  BY <1>1 DEF Accounted, TypeOK, Record, Routine

\* The new capacity is in the function before its array has grown.
LEMMA AccountedCapacity ==
  ASSUME TypeOK, InPlace, Present, Accounted, Compiling, Resting, NEW cap \in Nat,
         UNCHANGED <<memory, capacity, contexts>>,
         \/ /\ object' = [object EXCEPT ![Function].array = cap]
            /\ local' = [local EXCEPT !.at = "constants", !.n = object[Function].array]
         \/ /\ object' = [object EXCEPT ![Function].code = cap]
            /\ local' = [local EXCEPT !.at = "code", !.n = object[Function].code]
  PROVE  Accounted'
<1>. USE DEF At
<1>1. /\ Function \in Obj /\ object[Function].kind = "function" /\ object[Function] \in Record
      /\ DOMAIN object = Obj /\ Function' = Function
  BY Compiled DEF TypeOK, Function
<1>. PICK f \in Obj : f = Function
  BY <1>1
<1>2. Settled /\ InHand = 0 /\ Exact(f)
  BY <1>1, AtRest DEF Accounted
<1>3. InHand' = 0 /\ ~At("table")' /\ ~At("exit")' /\ local'.at \in {"constants", "code"}
  BY DEF TypeOK, Routine, InHand
<1>4. \A o \in Obj : o # f => object'[o] = object[o]
  BY <1>1
<1>5. Exact(f)'
  <2>1. CASE /\ object' = [object EXCEPT ![Function].array = cap]
             /\ local' = [local EXCEPT !.at = "constants", !.n = object[Function].array]
    <3>1. /\ object'[f].kind = "function" /\ object'[f].code = object[Function].code
          /\ local'.at = "constants" /\ local'.n = object[Function].array
      BY <1>1, <2>1 DEF Record, TypeOK, Routine
    <3>2. ArrayOf(f)' = ArrayOf(f) /\ CodeOf(f)' = CodeOf(f) /\ LinesOf(f)' = LinesOf(f)
      BY <1>1, <1>2, <3>1, SettledSizes DEF ArrayOf, CodeOf, LinesOf
    <3>. QED
      BY <1>1, <1>2, <3>1, <3>2 DEF Exact, memory
  <2>2. CASE /\ object' = [object EXCEPT ![Function].code = cap]
             /\ local' = [local EXCEPT !.at = "code", !.n = object[Function].code]
    <3>1. /\ object'[f].kind = "function" /\ object'[f].array = object[Function].array
          /\ local'.at = "code" /\ local'.n = object[Function].code
      BY <1>1, <2>2 DEF Record, TypeOK, Routine
    <3>2. ArrayOf(f)' = ArrayOf(f) /\ CodeOf(f)' = CodeOf(f) /\ LinesOf(f)' = LinesOf(f)
      BY <1>1, <1>2, <3>1, SettledSizes DEF ArrayOf, CodeOf, LinesOf
    <3>. QED
      BY <1>1, <1>2, <3>1, <3>2 DEF Exact, memory
  <2>. QED
    BY <2>1, <2>2
<1>6. ASSUME NEW o \in Obj, o # f PROVE Exact(o)'
  <2>1. ArrayOf(o)' = ArrayOf(o) /\ CodeOf(o)' = CodeOf(o) /\ LinesOf(o)' = LinesOf(o)
    BY <1>1, <1>4, <1>6 DEF ArrayOf, CodeOf, LinesOf
  <2>. QED
    BY <1>4, <1>6, <2>1 DEF Exact, Accounted, memory
<1>7. Memory' \in Balance
  BY DEF Accounted, Memory, memory
<1>8. \A g \in Range(contexts') : object'[g].kind = "function"
  <2>1. Range(contexts) \subseteq Obj
    BY DEF TypeOK, Range
  <2>2. object'[f].kind = "function"
    BY <1>1 DEF Record
  <2>. QED
    BY <1>4, <2>1, <2>2 DEF Accounted
<1>9. \A o \in Obj : Exact(o)'
  BY <1>5, <1>6
<1>10. blocks' = blocks /\ capacity' = capacity
  BY DEF memory
<1>. QED
  BY <1>2, <1>3, <1>7, <1>8, <1>9, <1>10 DEF Accounted

\* An array of the function under compilation grows, and comes to be exact.
LEMMA AccountedArray ==
  ASSUME TypeOK, Accounted, Shapes, contexts' = contexts, capacity' = capacity,
         InHand = 0, InHand' = 0, local'.at \notin {"table", "exit"},
         NEW f \in Obj, f = Function, NEW part \in Part, NEW n, Memory' \in Balance,
         blocks' = [blocks EXCEPT ![<<f, part>>] = n], Exact(f)'
  PROVE  Accounted'
<1>1. blocks \in [Place -> Nat] /\ Function' = Function
  BY DEF Accounted, Balance, Books, Memory, Function
<1>2. \A p \in Place : p # <<f, part>> => blocks'[p] = blocks[p]
  BY <1>1
<1>3. ASSUME NEW o \in Obj, o # f PROVE Exact(o)'
  <2>1. \A q \in Part : <<o, q>> \in Place /\ <<o, q>> # <<f, part>>
    BY <1>3, Places
  <2>2. \A q \in Part : blocks'[<<o, q>>] = blocks[<<o, q>>]
    BY <1>2, <2>1
  <2>3. Exact(o) /\ object'[o].kind = object[o].kind /\ object'[o].array = object[o].array /\ object'[o].code = object[o].code
    BY DEF Accounted, Shapes
  <2>4. /\ ArrayOf(o) = object[o].array /\ CodeOf(o) = object[o].code /\ LinesOf(o) = object[o].code
        /\ ArrayOf(o)' = object'[o].array /\ CodeOf(o)' = object'[o].code /\ LinesOf(o)' = object'[o].code
    BY <1>1, <1>3 DEF ArrayOf, CodeOf, LinesOf
  <2>. QED
    BY <2>2, <2>3, <2>4 DEF Exact, Part
<1>4. \A o \in Obj : Exact(o)'
  BY <1>3
<1>5. \A p \in {<<"vm", "strings">>, <<"vm", "names">>, <<"C", "array">>} : blocks'[p] = blocks[p]
  BY <1>2, Places
<1>6. \A g \in Range(contexts') : object'[g].kind = "function"
  <2>1. Range(contexts) \subseteq Obj
    BY DEF TypeOK, Range
  <2>. QED
    BY <2>1 DEF Accounted, Shapes
<1>. QED
  BY <1>4, <1>5, <1>6 DEF Accounted, At

LEMMA AccountedGrowing ==
  ASSUME TypeOK, InPlace, Present, Accounted, GrowConstants \/ GrowCode \/ GrowLines
  PROVE  Accounted'
<1>. USE DEF At
<1>1. Compiling
  BY DEF InPlace, GrowConstants, GrowCode, GrowLines
<1>2. /\ Function \in Obj /\ object[Function].kind = "function"
      /\ object[Function].array \in Nat /\ object[Function].code \in Nat /\ local.n \in Nat
  BY <1>1, Compiled
<1>3. contexts' = contexts /\ capacity' = capacity /\ Function' = Function
  BY DEF GrowConstants, GrowCode, GrowLines, Function
<1>. PICK f \in Obj : f = Function
  BY <1>2
<1>4. Exact(f) /\ Memory \in Balance /\ blocks \in [Place -> Nat] /\ object[f].kind # "free"
  BY <1>2 DEF Accounted, Balance, Books, Memory
<1>5. \A part \in Part : <<f, part>> \in Place
  BY Places
<1>6. CASE GrowConstants
  <2>. DEFINE n == Element.function * object[f].array
              old == Element.function * local.n
  <2>1. Becomes(reallocate(Memory, <<f, "array">>, old, n)) /\ n \in Nat
    BY <1>2, <1>6 DEF GrowConstants, Element
  <2>2. old = blocks[<<f, "array">>]
    BY <1>2, <1>4, <1>6 DEF GrowConstants, Exact, ArrayOf
  <2>3. Memory' \in Balance /\ blocks' = [blocks EXCEPT ![<<f, "array">>] = n]
    <3>. HIDE DEF n, old
    <3>. QED
      BY <1>4, <1>5, <2>1, <2>2, Sized DEF Part
  <2>4. Shapes
    <3>1. object' = [object EXCEPT ![Function].refs = object[Function].refs \cup {local.made}]
      BY <1>6 DEF GrowConstants
    <3>. QED
      BY <1>2, <3>1, SameShapes
  <2>5. Resting'
    BY <1>6 DEF GrowConstants, Resume, Idle, Resting
  <2>6. InHand = 0 /\ InHand' = 0 /\ Settled' /\ local'.at \notin {"table", "exit"}
    BY <1>6, <2>5, AtRestNext DEF GrowConstants, InHand, Resting
  <2>7. Exact(f)'
    <3>1. CodeOf(f) = object[f].code /\ LinesOf(f) = object[f].code
      BY <1>6 DEF GrowConstants, CodeOf, LinesOf
    <3>2. ArrayOf(f)' = object'[f].array /\ CodeOf(f)' = object'[f].code /\ LinesOf(f)' = object'[f].code
      BY <2>6 DEF Settled, ArrayOf, CodeOf, LinesOf
    <3>3. /\ blocks'[<<f, "array">>] = n /\ blocks'[<<f, "object">>] = blocks[<<f, "object">>]
          /\ blocks'[<<f, "code">>] = blocks[<<f, "code">>] /\ blocks'[<<f, "lines">>] = blocks[<<f, "lines">>]
      BY <1>4, <1>5, <2>3 DEF Part
    <3>. QED
      BY <1>2, <1>4, <2>4, <3>1, <3>2, <3>3 DEF Exact, Shapes
  <2>. QED
    BY <1>3, <2>3, <2>4, <2>6, <2>7, AccountedArray DEF Part
<1>7. CASE GrowCode
  <2>. DEFINE n == object[f].code
              old == local.n
  <2>1. Becomes(reallocate(Memory, <<f, "code">>, old, n)) /\ n \in Nat
    BY <1>2, <1>7 DEF GrowCode
  <2>2. old = blocks[<<f, "code">>]
    BY <1>2, <1>4, <1>7 DEF GrowCode, Exact, CodeOf
  <2>3. Memory' \in Balance /\ blocks' = [blocks EXCEPT ![<<f, "code">>] = n]
    <3>. HIDE DEF n, old
    <3>. QED
      BY <1>4, <1>5, <2>1, <2>2, Sized DEF Part
  <2>4. Shapes /\ object' = object
    BY <1>7, SameShapes DEF GrowCode
  <2>5. local'.at = "lines" /\ local'.n = local.n
    BY <1>7 DEF GrowCode, TypeOK, Routine
  <2>6. InHand = 0 /\ InHand' = 0 /\ local'.at \notin {"table", "exit"}
    BY <1>7, <2>5 DEF GrowCode, InHand
  <2>7. Exact(f)'
    <3>1. ArrayOf(f) = object[f].array /\ LinesOf(f) = local.n
      BY <1>7 DEF GrowCode, ArrayOf, LinesOf
    <3>2. ArrayOf(f)' = object[f].array /\ CodeOf(f)' = object[f].code /\ LinesOf(f)' = local.n
      BY <1>3, <2>4, <2>5 DEF ArrayOf, CodeOf, LinesOf
    <3>3. /\ blocks'[<<f, "code">>] = n /\ blocks'[<<f, "object">>] = blocks[<<f, "object">>]
          /\ blocks'[<<f, "array">>] = blocks[<<f, "array">>] /\ blocks'[<<f, "lines">>] = blocks[<<f, "lines">>]
      BY <1>4, <1>5, <2>3 DEF Part
    <3>. QED
      BY <1>2, <1>4, <2>4, <3>1, <3>2, <3>3 DEF Exact
  <2>. QED
    BY <1>3, <2>3, <2>4, <2>6, <2>7, AccountedArray DEF Part
<1>8. CASE GrowLines
  <2>. DEFINE n == LineSize * object[f].code
              old == LineSize * local.n
  <2>1. Becomes(reallocate(Memory, <<f, "lines">>, old, n)) /\ n \in Nat
    BY <1>2, <1>8 DEF GrowLines, LineSize
  <2>2. old = blocks[<<f, "lines">>]
    BY <1>2, <1>4, <1>8 DEF GrowLines, Exact, LinesOf
  <2>3. Memory' \in Balance /\ blocks' = [blocks EXCEPT ![<<f, "lines">>] = n]
    <3>. HIDE DEF n, old
    <3>. QED
      BY <1>4, <1>5, <2>1, <2>2, Sized DEF Part
  <2>4. Shapes /\ object' = object
    BY <1>8, SameShapes DEF GrowLines
  <2>5. Resting'
    BY <1>8 DEF GrowLines, Resume, Idle, Resting
  <2>6. InHand = 0 /\ InHand' = 0 /\ Settled' /\ local'.at \notin {"table", "exit"}
    BY <1>8, <2>5, AtRestNext DEF GrowLines, InHand, Resting
  <2>7. Exact(f)'
    <3>1. ArrayOf(f) = object[f].array /\ CodeOf(f) = object[f].code
      BY <1>8 DEF GrowLines, ArrayOf, CodeOf
    <3>2. ArrayOf(f)' = object[f].array /\ CodeOf(f)' = object[f].code /\ LinesOf(f)' = object[f].code
      BY <2>4, <2>6 DEF Settled, ArrayOf, CodeOf, LinesOf
    <3>3. /\ blocks'[<<f, "lines">>] = n /\ blocks'[<<f, "object">>] = blocks[<<f, "object">>]
          /\ blocks'[<<f, "array">>] = blocks[<<f, "array">>] /\ blocks'[<<f, "code">>] = blocks[<<f, "code">>]
      BY <1>4, <1>5, <2>3 DEF Part
    <3>. QED
      BY <1>2, <1>4, <2>4, <3>1, <3>2, <3>3 DEF Exact
  <2>. QED
    BY <1>3, <2>3, <2>4, <2>6, <2>7, AccountedArray DEF Part
<1>. QED
  BY <1>6, <1>7, <1>8

LEMMA AccountedNames ==
  ASSUME TypeOK, Accounted, SetGlobalName
  PROVE  Accounted'
<1>. DEFINE V == <<"vm", "names">>
<1>1. PICK cap \in Room(capacity.names) :
          /\ capacity' = [capacity EXCEPT !.names = cap]
          /\ Becomes(reallocate(Memory, V, EntrySize * capacity.names, EntrySize * cap))
  BY DEF SetGlobalName
<1>2. cap \in Nat /\ EntrySize * cap \in Nat /\ V \in Place /\ EntrySize * capacity.names = blocks[V]
  <2>1. capacity.names \in Nat
    BY DEF TypeOK
  <2>2. cap \in Nat
    BY <2>1, Capacities
  <2>. QED
    BY <2>2, Places DEF EntrySize, Accounted
<1>3. Memory' \in Balance /\ blocks' = [blocks EXCEPT ![V] = EntrySize * cap] /\ blocks \in [Place -> Nat]
  <2>. HIDE DEF V
  <2>1. Memory \in Balance
    BY DEF Accounted
  <2>. QED
    BY <1>1, <1>2, <2>1, Sized
<1>4. blocks'[V] = EntrySize * cap /\ \A p \in Place : p # V => blocks'[p] = blocks[p]
  BY <1>2, <1>3
<1>5. /\ \A o \in Obj, part \in Part : <<o, part>> \in Place /\ <<o, part>> # V
      /\ <<"vm", "strings">> # V /\ <<"C", "array">> # V
  BY Places
<1>6. /\ \A o \in Obj, part \in Part : blocks'[<<o, part>>] = blocks[<<o, part>>]
      /\ blocks'[<<"vm", "strings">>] = blocks[<<"vm", "strings">>]
      /\ blocks'[<<"C", "array">>] = blocks[<<"C", "array">>]
  BY <1>4, <1>5, Places
<1>7. capacity'.strings = capacity.strings /\ capacity'.names = cap
  BY <1>1 DEF TypeOK
<1>8. object' = object /\ contexts' = contexts /\ local'.at = "idle" /\ local.at = "names"
  BY DEF SetGlobalName, Idle, At
<1>9. Shapes /\ Settled /\ Settled' /\ InHand = 0 /\ InHand' = 0 /\ local'.at \notin {"table", "exit"}
  BY <1>8, SameShapes DEF Settled, InHand, At
<1>. QED
  BY <1>3, <1>4, <1>6, <1>7, <1>8, <1>9, Elsewhere DEF Accounted

LEMMA AccountedCompile ==
  ASSUME TypeOK, InPlace, Present, Accounted, Compile
  PROVE  Accounted'
<1>. USE DEF At
<1>1. ASSUME object' = object, contexts' = contexts, UNCHANGED <<memory, capacity>>, Resting, Resting'
      PROVE  Accounted'
  BY <1>1, SameShapes, Quiet
<1>2. CASE NewContext \/ CompileName \/ computeGlobalSlot \/ EmitUpvalues
  <2>1. object' = object /\ contexts' = contexts /\ UNCHANGED <<memory, capacity>> /\ Resting
    BY Zenon, <1>2 DEF NewContext, CompileName, computeGlobalSlot, EmitUpvalues, Resting
  <2>2. Resting'
    <3>1. CASE NewContext
      BY <3>1 DEF NewContext, Idle, Resting
    <3>2. CASE CompileName
      BY <3>2 DEF CompileName, CopyString, Idle, Resting
    <3>3. CASE computeGlobalSlot
      BY <3>3 DEF computeGlobalSlot, Idle, Resting
    <3>4. CASE EmitUpvalues
      BY <3>4 DEF EmitUpvalues, Idle, Resting
    <3>. QED
      BY <1>2, <3>1, <3>2, <3>3, <3>4
  <2>. QED
    BY <1>1, <2>1, <2>2
<1>3. CASE newFunction
  <2>1. PICK o \in Obj : allocateObject(Memory, o, Object("function", {}, NULL, 0)) /\ contexts' = Append(contexts, o)
    BY <1>3 DEF newFunction
  <2>2. /\ object[o].kind = "free"
        /\ object'[o].kind = "function" /\ object'[o].array = 0 /\ object'[o].code = 0
        /\ \A q \in Obj : q # o => object'[q] = object[q]
        /\ Becomes(reallocate(Memory, <<o, "object">>, 0, SizeOf["function"]))
    BY <2>1 DEF allocateObject, Object, TypeOK
  <2>3. Range(contexts') = Range(contexts) \cup {o}
    BY <2>1, Appended DEF TypeOK
  <2>4. Resting /\ capacity' = capacity
    BY <1>3 DEF newFunction, Resting
  <2>5. Resting'
    <3>1. CASE \E c \in Content : local' = [Idle EXCEPT !.at = "copy", !.then = "name", !.content = c]
      BY <3>1 DEF Idle, Resting
    <3>2. CASE local' = Idle
      BY <3>2 DEF Idle, Resting
    <3>. QED
      BY Zenon, <1>3, <3>1, <3>2 DEF newFunction, CopyString
  <2>6. "function" \in Kind \ {"free"}
    BY DEF Kind
  <2>. QED
    BY <2>2, <2>3, <2>4, <2>5, <2>6, AtRest, MadeAtRest
<1>4. CASE addConstant
  <2>1. Compiling /\ Resting /\ UNCHANGED <<memory, capacity, contexts>>
    BY <1>4 DEF addConstant, InPlace, Resting
  <2>2. CASE object' = [object EXCEPT ![Function].refs = @ \cup {local.made}] /\ local' = Resume
    <3>1. object' = [object EXCEPT ![Function].refs = object[Function].refs \cup {local.made}]
      BY <2>2
    <3>2. Shapes
      BY <2>1, <3>1, Compiled, SameShapes
    <3>3. Resting'
      BY <2>2 DEF Resume, Idle, Resting
    <3>. QED
      BY <2>1, <3>2, <3>3, Quiet
  <2>3. ASSUME NEW cap \in Grown(object[Function].array),
               object' = [object EXCEPT ![Function].array = cap],
               local' = [local EXCEPT !.at = "constants", !.n = object[Function].array]
        PROVE  Accounted'
    <3>1. cap \in Nat
      BY <2>1, Compiled, Capacities
    <3>. QED
      BY <2>1, <2>3, <3>1, AccountedCapacity
  <2>. QED
    BY <1>4, <2>2, <2>3 DEF addConstant
<1>5. CASE writeChunk
  <2>1. Compiling /\ Resting /\ UNCHANGED <<memory, capacity, contexts>>
    BY <1>5 DEF writeChunk, Resting
  <2>2. PICK cap \in Grown(object[Function].code) :
            /\ object' = [object EXCEPT ![Function].code = cap]
            /\ local' = [local EXCEPT !.at = "code", !.n = object[Function].code]
    BY <1>5 DEF writeChunk
  <2>3. cap \in Nat
    BY <2>1, Compiled, Capacities
  <2>. QED
    BY <2>1, <2>2, <2>3, AccountedCapacity
<1>6. CASE EndFunction
  <2>1. Range(contexts') \subseteq Range(contexts)
    BY <1>6, UnderCompilation DEF EndFunction, Compiling
  <2>2. Resting /\ Resting' /\ object' = object /\ UNCHANGED <<memory, capacity>>
    BY <1>6 DEF EndFunction, Idle, Resting
  <2>. QED
    BY <2>1, <2>2, SameShapes, Quiet
<1>7. CASE interpret
  <2>1. Range(contexts') \subseteq Range(contexts)
    BY <1>7 DEF interpret, Range
  <2>2. Resting /\ object' = object /\ UNCHANGED <<memory, capacity>>
    BY <1>7 DEF interpret, Resting
  <2>3. Resting'
    <3>1. CASE local' = Idle
      BY <3>1 DEF Idle, Resting
    <3>2. CASE local' = [Idle EXCEPT !.at = "upvalues", !.then = "interpret", !.held = {Function}]
      BY <3>2 DEF Idle, Resting
    <3>. QED
      BY <1>7, <3>1, <3>2 DEF interpret
  <2>. QED
    BY <2>1, <2>2, <2>3, SameShapes, Quiet
<1>. QED
  BY <1>2, <1>3, <1>4, <1>5, <1>6, <1>7, AccountedGrowing, AccountedNames DEF Compile

-----------------------------------------------------------------------------
(* The instructions.                                                         *)

LEMMA AccountedQuietRun ==
  ASSUME TypeOK, InPlace, Accounted,
         \/ Keep \/ Drop \/ closeUpvalues \/ SetUpvalue \/ SetGlobal \/ runtimeError \/ ReuseSlot
         \/ concatenate \/ Closure \/ captureUpvalue
         \/ Class \/ Instance \/ bindMethod \/ defineNative \/ internBuiltinStrings
  PROVE  Accounted'
<1>. USE DEF At
<1>1. ASSUME contexts' = contexts, UNCHANGED <<memory, capacity>>, Shapes, Resting, Resting'
      PROVE  Accounted'
  BY <1>1, Quiet
<1>2. CASE Keep \/ Drop \/ SetGlobal \/ runtimeError \/ ReuseSlot
  <2>1. Resting /\ local' = local /\ object' = object /\ contexts' = contexts /\ UNCHANGED <<memory, capacity>>
    BY <1>2 DEF Keep, Drop, SetGlobal, runtimeError, ReuseSlot, Running, Resting
  <2>. QED
    BY <1>1, <2>1, SameShapes DEF Resting
<1>3. CASE closeUpvalues \/ SetUpvalue
  <2>1. object' = object \/ \E u \in Obj : \E S : object' = [object EXCEPT ![u].refs = S]
    <3>1. CASE closeUpvalues
      BY Zenon, <3>1 DEF closeUpvalues, openUpvalues, Open
    <3>2. CASE SetUpvalue
      BY Zenon, <3>2 DEF SetUpvalue, OfKind
    <3>. QED
      BY <1>3, <3>1, <3>2
  <2>2. Resting /\ local' = local /\ contexts' = contexts /\ UNCHANGED <<memory, capacity>>
    BY <1>3 DEF closeUpvalues, SetUpvalue, Running, Resting
  <2>. QED
    BY <1>1, <2>1, <2>2, SameShapes DEF Resting
<1>4. CASE concatenate \/ defineNative \/ internBuiltinStrings
  <2>1. Resting /\ object' = object /\ contexts' = contexts /\ UNCHANGED <<memory, capacity>>
    BY Zenon, <1>4 DEF concatenate, defineNative, internBuiltinStrings, Running, Resting
  <2>2. Resting'
    <3>1. CASE concatenate
      BY Zenon, <3>1 DEF concatenate, Idle, Resting
    <3>2. CASE defineNative
      BY Zenon, <3>2 DEF defineNative, CopyString, Idle, Resting
    <3>3. CASE internBuiltinStrings
      BY Zenon, <3>3 DEF internBuiltinStrings, CopyString, Idle, Resting
    <3>. QED
      BY <1>4, <3>1, <3>2, <3>3
  <2>. QED
    BY <1>1, <2>1, <2>2, SameShapes
<1>5. ASSUME NEW at, at \notin {"constants", "code", "lines", "string", "take", "closure", "table", "exit"},
             NEW made, NEW held, Call(at, made, held), Running
      PROVE  Accounted'
  <2>1. Resting /\ Resting'
    BY <1>5 DEF Running, Call, Idle, Resting
  <2>2. object' = object /\ contexts' = contexts /\ UNCHANGED <<memory, capacity>>
    BY <1>5 DEF Call
  <2>. QED
    BY <1>1, <2>1, <2>2, SameShapes
<1>6. CASE Closure
  BY <1>5, <1>6 DEF Closure
<1>7. CASE Class
  BY <1>5, <1>7 DEF Class
<1>8. CASE Instance
  BY <1>5, <1>8 DEF Instance
<1>9. CASE bindMethod
  BY <1>5, <1>9 DEF bindMethod
<1>10. CASE captureUpvalue
  <2>1. Resting /\ contexts' = contexts /\ UNCHANGED <<memory, capacity>>
    BY <1>10 DEF captureUpvalue, Resting
  <2>2. CASE local' = [local EXCEPT !.at = "upvalue"] /\ UNCHANGED object
    <3>1. Resting'
      BY <2>2 DEF TypeOK, Routine, Resting
    <3>. QED
      BY <1>1, <2>1, <2>2, <3>1, SameShapes
  <2>3. ASSUME NEW u, object' = [object EXCEPT ![local.made].refs = @ \cup {u}], local' = Idle
        PROVE  Accounted'
    <3>1. local.made \in Obj
      BY <1>10 DEF captureUpvalue, InPlace, TypeOK, Routine
    <3>2. object' = [object EXCEPT ![local.made].refs = object[local.made].refs \cup {u}]
      BY <2>3
    <3>3. Shapes
      BY <3>1, <3>2, SameShapes
    <3>4. Resting'
      BY <2>3 DEF Idle, Resting
    <3>. QED
      BY <1>1, <2>1, <3>3, <3>4
  <2>. QED
    BY <1>10, <2>2, <2>3 DEF captureUpvalue
<1>. QED
  BY <1>2, <1>3, <1>4, <1>6, <1>7, <1>8, <1>9, <1>10

\* The object whose table is about to grow is a class or an instance.
LEMMA AccountedSetEntry ==
  ASSUME TypeOK, Accounted, SetEntry
  PROVE  Accounted'
<1>1. PICK owner \in kept \cap (OfKind("class") \cup OfKind("instance")) :
          local'.at = "table" /\ local'.made = owner
  BY DEF SetEntry, Call, Idle
<1>2. owner \in Obj /\ object[owner].kind \in {"class", "instance"}
  BY DEF OfKind
<1>3. object' = object /\ contexts' = contexts /\ UNCHANGED <<memory, capacity>> /\ local.at = "idle"
  BY DEF SetEntry, Call, Running, At
<1>4. Settled /\ Settled' /\ InHand = 0 /\ InHand' = 0
  BY <1>1, <1>3 DEF Settled, InHand, At
<1>5. \A o \in Obj : Exact(o)'
  BY <1>3, <1>4, ExactKept DEF Accounted, memory
<1>. QED
  BY <1>1, <1>2, <1>3, <1>4, <1>5 DEF Accounted, At, Memory, memory

\* The array of upvalues, before its closure.
LEMMA AccountedUpvalues ==
  ASSUME TypeOK, Accounted, AllocateUpvalues
  PROVE  Accounted'
<1>. USE DEF At
<1>. DEFINE C == <<"C", "array">>
<1>1. PICK upvalueCount \in 0..1 :
          /\ Becomes(reallocate(Memory, C, 0, Element.closure * upvalueCount))
          /\ local' = [local EXCEPT !.at = "closure", !.n = upvalueCount]
  BY DEF AllocateUpvalues
<1>. DEFINE n == Element.closure * upvalueCount
<1>2. n \in Nat /\ C \in Place /\ blocks[C] = 0 /\ Memory \in Balance /\ blocks \in [Place -> Nat]
  BY Places DEF AllocateUpvalues, Accounted, InHand, Element, Balance, Books, Memory
<1>3. Memory' \in Balance /\ blocks' = [blocks EXCEPT ![C] = n]
  <2>1. Becomes(reallocate(Memory, C, 0, n)) /\ 0 = blocks[C]
    BY <1>1, <1>2
  <2>. HIDE DEF C, n
  <2>. QED
    BY <1>2, <2>1, Sized
<1>4. object' = object /\ contexts' = contexts /\ capacity' = capacity /\ local'.at = "closure" /\ local'.n = upvalueCount
  BY <1>1 DEF AllocateUpvalues, TypeOK, Routine
<1>5. Shapes /\ Settled /\ Settled' /\ InHand' = n /\ local'.at \notin {"table", "exit"}
  BY <1>4, SameShapes DEF AllocateUpvalues, Settled, InHand
<1>6. \A o \in Obj, part \in Part : <<o, part>> \in Place /\ <<o, part>> # C
  BY Zenon, Places
<1>. HIDE DEF n
<1>7. /\ \A o \in Obj, part \in Part : blocks'[<<o, part>>] = blocks[<<o, part>>]
      /\ blocks'[C] = n
      /\ blocks'[<<"vm", "strings">>] = blocks[<<"vm", "strings">>]
      /\ blocks'[<<"vm", "names">>] = blocks[<<"vm", "names">>]
  BY <1>2, <1>3, <1>6, Places
<1>. QED
  BY <1>3, <1>4, <1>5, <1>7, Elsewhere DEF Accounted

LEMMA AccountedMaking ==
  ASSUME TypeOK, InPlace, Present, Protected, Accounted, newClosure \/ newUpvalue \/ NewObject \/ newNative
  PROVE  Accounted'
<1>. USE DEF At
<1>1. CASE newClosure
  <2>1. PICK o \in Obj :
            /\ allocateObject(Handed(Memory, o), o, Object("closure", local.held, NULL, local.n))
            /\ local' = IF local.then # "interpret" /\ local.n > 0
                        THEN [Idle EXCEPT !.at = "capture", !.made = o, !.n = local.n] ELSE Idle
    BY Zenon, <1>1 DEF newClosure
  <2>2. Settled /\ InHand = Element["closure"] * local.n /\ local.n \in Nat
    BY Zenon, <1>1 DEF newClosure, Settled, InHand, TypeOK, Routine
  <2>3. Resting'
    BY <2>1 DEF Resting, Idle
  <2>4. /\ object[o].kind = "free"
        /\ object'[o].kind = "closure" /\ object'[o].array = local.n /\ object'[o].code = 0
        /\ \A q \in Obj : q # o => object'[q] = object[q]
        /\ Becomes(reallocate(Handed(Memory, o), <<o, "object">>, 0, SizeOf["closure"]))
    BY <2>1 DEF allocateObject, Object, TypeOK
  <2>5. "closure" \in Kind \ {"free"} /\ capacity' = capacity /\ contexts' = contexts
    BY Zenon, <1>1 DEF Kind, newClosure
  <2>. QED
    BY <2>2, <2>3, <2>4, <2>5, MadeOfHand
<1>2. CASE newUpvalue
  <2>1. PICK o \in Obj :
            /\ object[o].kind = "free"
            /\ object' = [object EXCEPT ![o] = Object("upvalue", {}, NULL, 0), ![local.made].refs = @ \cup {o}]
            /\ Becomes(reallocate(Memory, <<o, "object">>, 0, SizeOf.upvalue))
    BY <1>2 DEF newUpvalue
  <2>2. local.made \in Live
    BY <1>2, ReachIsPresent DEF newUpvalue, InPlace, Protected, Locals
  <2>3. local.made # o /\ local.made \in Obj /\ object[local.made] \in Record /\ DOMAIN object = Obj
    BY <2>1, <2>2 DEF Live, TypeOK
  <2>4. /\ object'[o] = Object("upvalue", {}, NULL, 0)
        /\ object'[local.made] = [object[local.made] EXCEPT !.refs = @ \cup {o}]
        /\ \A p \in Obj : p # o /\ p # local.made => object'[p] = object[p]
    BY <2>1, <2>3
  <2>5. /\ object'[local.made].kind = object[local.made].kind
        /\ object'[local.made].array = object[local.made].array
        /\ object'[local.made].code = object[local.made].code
    BY <2>3, <2>4 DEF Record
  <2>6. /\ object'[o].kind = "upvalue" /\ object'[o].array = 0 /\ object'[o].code = 0
        /\ \A q \in Obj : q # o => /\ object'[q].kind = object[q].kind
                                   /\ object'[q].array = object[q].array
                                   /\ object'[q].code = object[q].code
    <3>1. object'[o].kind = "upvalue" /\ object'[o].array = 0 /\ object'[o].code = 0
      BY <2>4 DEF Object
    <3>2. ASSUME NEW q \in Obj, q # o
          PROVE  /\ object'[q].kind = object[q].kind
                 /\ object'[q].array = object[q].array
                 /\ object'[q].code = object[q].code
      <4>1. CASE q = local.made
        BY <2>5, <4>1
      <4>2. CASE q # local.made
        BY <2>4, <3>2, <4>2
      <4>. QED
        BY <4>1, <4>2
    <3>. QED
      BY <3>1, <3>2
  <2>7. Resting /\ Resting' /\ capacity' = capacity /\ contexts' = contexts /\ "upvalue" \in Kind \ {"free"}
    BY <1>2 DEF newUpvalue, Idle, Resting, Kind
  <2>. QED
    BY <2>1, <2>6, <2>7, AtRest, MadeAtRest
<1>3. ASSUME NEW o \in Obj, NEW kind \in Kind \ {"free"}, NEW refs,
             allocateObject(Memory, o, Object(kind, refs, NULL, 0)),
             Resting, Resting', capacity' = capacity, contexts' = contexts
      PROVE  Accounted'
  <2>1. /\ object[o].kind = "free"
        /\ object'[o].kind = kind /\ object'[o].array = 0 /\ object'[o].code = 0
        /\ \A q \in Obj : q # o => object'[q] = object[q]
        /\ Becomes(reallocate(Memory, <<o, "object">>, 0, SizeOf[kind]))
    BY <1>3 DEF allocateObject, Object, TypeOK
  <2>. QED
    BY <1>3, <2>1, AtRest, MadeAtRest
<1>4. CASE NewObject
  <2>1. PICK o \in Obj : allocateObject(Memory, o, Object(local.at, local.held, NULL, 0))
    BY <1>4 DEF NewObject
  <2>2. local.at \in Kind \ {"free"} /\ Resting /\ Resting' /\ capacity' = capacity /\ contexts' = contexts
    BY <1>4 DEF NewObject, Kind, Idle, Resting
  <2>. QED
    BY <1>3, <2>1, <2>2
<1>5. CASE newNative
  <2>1. PICK o \in Obj :
            /\ allocateObject(Memory, o, Object("native", {}, NULL, 0))
            /\ local' = [Idle EXCEPT !.at = "names", !.held = local.held \cup {o}]
    BY Zenon, <1>5 DEF newNative
  <2>2. "native" \in Kind \ {"free"} /\ Resting /\ Resting' /\ capacity' = capacity /\ contexts' = contexts
    BY Zenon, <1>5, <2>1 DEF newNative, Kind, Idle, Resting
  <2>. QED
    BY <1>3, <2>1, <2>2
<1>. QED
  BY <1>1, <1>2, <1>4, <1>5

LEMMA AccountedTableSet ==
  ASSUME TypeOK, InPlace, Accounted, tableSet
  PROVE  Accounted'
<1>. USE DEF At
<1>1. local.at = "table" /\ local.made \in Obj /\ object[local.made].kind \in {"class", "instance"}
  BY DEF tableSet, InPlace, TypeOK, Routine, Accounted
<1>. PICK f \in Obj : f = local.made
  BY <1>1
<1>. DEFINE a == <<f, "array">>
<1>2. PICK cap \in Room(object[f].array) :
          /\ object' = [object EXCEPT ![f].array = cap, ![f].refs = @ \cup local.held]
          /\ Becomes(reallocate(Memory, a, EntrySize * object[f].array, EntrySize * cap))
  BY DEF tableSet
<1>3. object[f] \in Record /\ object[f].array \in Nat /\ cap \in Nat /\ DOMAIN object = Obj
  <2>1. object[f] \in Record /\ object[f].array \in Nat /\ DOMAIN object = Obj
    BY DEF TypeOK, Record
  <2>. QED
    BY <2>1, Capacities
<1>4. /\ object'[f].kind = object[f].kind /\ object'[f].array = cap /\ object'[f].code = object[f].code
      /\ \A q \in Obj : q # f => object'[q] = object[q]
  BY <1>2, <1>3 DEF Record
<1>5. Settled /\ Settled' /\ InHand = 0 /\ InHand' = 0 /\ local'.at = "idle"
  BY <1>1 DEF tableSet, Idle, Settled, InHand
<1>. DEFINE n == EntrySize * cap
<1>6. Exact(f) /\ n \in Nat /\ a \in Place /\ Memory \in Balance /\ blocks \in [Place -> Nat]
  <2>1. n \in Nat
    BY <1>3 DEF EntrySize
  <2>2. a \in Place
    BY Places DEF Part
  <2>. QED
    BY <2>1, <2>2 DEF Accounted, Balance, Books, Memory
<1>7. EntrySize * object[f].array = blocks[a]
  BY <1>1, <1>5, <1>6, SettledSizes DEF Exact, EntrySize, Element
<1>8. Memory' \in Balance /\ blocks' = [blocks EXCEPT ![a] = n]
  <2>. HIDE DEF a
  <2>. QED
    BY <1>2, <1>6, <1>7, Sized
<1>9. blocks'[a] = n /\ \A p \in Place : p # a => blocks'[p] = blocks[p]
  BY <1>6, <1>8
<1>10. \A part \in Part : <<f, part>> \in Place
  BY Places
<1>11. Exact(f)'
  <2>1. ArrayOf(f)' = cap /\ CodeOf(f)' = object[f].code /\ LinesOf(f)' = object[f].code
    BY <1>4, <1>5 DEF Settled, ArrayOf, CodeOf, LinesOf
  <2>2. ArrayOf(f) = object[f].array /\ CodeOf(f) = object[f].code /\ LinesOf(f) = object[f].code
    BY <1>5, SettledSizes
  <2>3. blocks'[a] = Element[object'[f].kind] * cap
    BY <1>1, <1>4, <1>9 DEF EntrySize, Element
  <2>4. /\ blocks'[<<f, "object">>] = blocks[<<f, "object">>]
        /\ blocks'[<<f, "code">>] = blocks[<<f, "code">>] /\ blocks'[<<f, "lines">>] = blocks[<<f, "lines">>]
    BY <1>9, <1>10 DEF Part
  <2>5. object[f].kind # "free" /\ object[f].kind # "function"
    BY <1>1
  <2>. QED
    BY <1>4, <1>6, <2>1, <2>2, <2>3, <2>4, <2>5 DEF Exact
<1>12. ASSUME NEW q \in Obj, q # f PROVE Exact(q)'
  <2>1. \A part \in Part : <<q, part>> \in Place /\ <<q, part>> # a
    BY <1>12, Places
  <2>2. \A part \in Part : blocks'[<<q, part>>] = blocks[<<q, part>>]
    BY <1>9, <2>1
  <2>. QED
    BY <1>4, <1>5, <1>12, <2>2, ExactKept DEF Accounted
<1>13. \A q \in Obj : Exact(q)'
  BY <1>11, <1>12
<1>14. \A p \in {<<"vm", "strings">>, <<"vm", "names">>, <<"C", "array">>} : p \in Place /\ p # a
  BY Places
<1>15. capacity' = capacity /\ contexts' = contexts /\ Range(contexts) \subseteq Obj
  BY DEF tableSet, TypeOK, Range
<1>16. \A g \in Range(contexts') : object'[g].kind = "function"
  BY <1>4, <1>15 DEF Accounted
<1>. QED
  BY <1>5, <1>8, <1>9, <1>13, <1>14, <1>15, <1>16 DEF Accounted

\* The tables of the VM go.
LEMMA AccountedFreeVM ==
  ASSUME TypeOK, Accounted, freeVM
  PROVE  Accounted'
<1>. USE DEF At
<1>. DEFINE V == <<"vm", "strings">>
            W == <<"vm", "names">>
            s == EntrySize * capacity.strings
            t == EntrySize * capacity.names
            m == reallocate(Memory, V, s, 0)
            r == reallocate(m, W, t, 0)
<1>1. Becomes(r)
  BY DEF freeVM
<1>2. V \in Place /\ W \in Place /\ V # W /\ Memory \in Balance /\ Memory.blocks = blocks /\ blocks \in [Place -> Nat]
  BY Places DEF Accounted, Balance, Books, Memory
<1>3. m \in Balance /\ m.blocks = [blocks EXCEPT ![V] = 0]
  <2>1. Memory.blocks[V] = s
    BY <1>2 DEF Accounted
  <2>. HIDE DEF V, s
  <2>2. m \in Balance /\ m.blocks = [Memory.blocks EXCEPT ![V] = 0]
    BY <1>2, <2>1, GivenBack
  <2>. QED
    BY <1>2, <2>2
<1>4. r \in Balance /\ r.blocks = [m.blocks EXCEPT ![W] = 0]
  <2>1. m.blocks[W] = t
    BY <1>2, <1>3 DEF Accounted
  <2>. HIDE DEF W, t, m
  <2>. QED
    BY <1>2, <1>3, <2>1, GivenBack
<1>. HIDE DEF m
<1>5. Memory' \in Balance /\ blocks' = r.blocks
  <2>. HIDE DEF r
  <2>. QED
    BY <1>1, <1>4, Became
<1>6. blocks'[V] = 0 /\ blocks'[W] = 0 /\ \A p \in Place : p # V /\ p # W => blocks'[p] = blocks[p]
  BY <1>2, <1>3, <1>4, <1>5
<1>7. /\ object' = object /\ contexts' = contexts /\ local'.at = "exit" /\ local.at = "idle"
      /\ capacity'.strings = 0 /\ capacity'.names = 0
  BY DEF freeVM, Running, Idle
<1>8. Settled /\ Settled' /\ InHand = 0 /\ InHand' = 0
  BY <1>7 DEF Settled, InHand
<1>9. \A o \in Obj, part \in Part : <<o, part>> \in Place /\ <<o, part>> # V /\ <<o, part>> # W
  BY Zenon, Places
<1>10. \A o \in Obj, part \in Part : blocks'[<<o, part>>] = blocks[<<o, part>>]
  BY Zenon, <1>6, <1>9
<1>11. \A o \in Obj : Exact(o)'
  BY <1>7, <1>8, <1>10, ExactKept DEF Accounted
<1>12. blocks'[<<"C", "array">>] = blocks[<<"C", "array">>]
  BY <1>6, Places
<1>. QED
  BY <1>5, <1>6, <1>7, <1>8, <1>11, <1>12 DEF Accounted, EntrySize

-----------------------------------------------------------------------------
(* The collector and the end of the program.                                 *)

\* The function whose array grows is a root: what is freed is at its size.
LEMMA AccountedCollection ==
  ASSUME TypeOK, TypeOK', InPlace, Present, Protected, Accounted, collectGarbage
  PROVE  Accounted'
<1>. DEFINE live == From(Roots)
            S == Live \ live
<1>1. /\ object' = [o \in Obj |-> IF o \in live THEN object[o] ELSE Nothing]
      /\ Becomes(Freed(S)) /\ capacity' = capacity /\ contexts' = contexts /\ local' = local
  BY DEF collectGarbage, Roots
<1>2. S \in SUBSET Obj /\ Roots \subseteq live /\ live \subseteq Live /\ Memory \in Balance /\ blocks \in [Place -> Nat]
  BY ReachIsPresent DEF Accounted, Balance, Books, Memory
<1>3. Compiling => Function \in live
  BY <1>2, UnderCompilation DEF Roots
<1>4. \A o \in Obj : o \notin live => /\ ArrayOf(o) = object[o].array
                                     /\ CodeOf(o) = object[o].code /\ LinesOf(o) = object[o].code
  BY <1>3 DEF InPlace, ArrayOf, CodeOf, LinesOf, At
<1>5. \A o \in S : Freeable(o)
  BY <1>2, <1>4 DEF Freeable, Accounted, Live
<1>. HIDE DEF S
<1>6. Freed(S) \in Balance /\ Freed(S).blocks = [p \in Place |-> IF p[1] \in S THEN 0 ELSE blocks[p]]
  BY <1>2, <1>5, FreedAll
<1>7. Memory' \in Balance /\ blocks' = [p \in Place |-> IF p[1] \in S THEN 0 ELSE blocks[p]]
  BY <1>1, <1>6, Became
<1>. USE DEF S
<1>8. ASSUME NEW o \in Obj PROVE Exact(o)'
  <2>1. \A part \in Part : blocks'[<<o, part>>] = IF o \in S THEN 0 ELSE blocks[<<o, part>>]
    BY <1>7, Places
  <2>2. Exact(o)
    BY DEF Accounted
  <2>3. CASE o \in live
    <3>1. object'[o] = object[o] /\ \A part \in Part : blocks'[<<o, part>>] = blocks[<<o, part>>]
      BY <1>1, <2>1, <2>3
    <3>2. ArrayOf(o)' = ArrayOf(o) /\ CodeOf(o)' = CodeOf(o) /\ LinesOf(o)' = LinesOf(o)
      BY <1>1, <3>1 DEF ArrayOf, CodeOf, LinesOf, At, Function
    <3>. QED
      BY <2>2, <3>1, <3>2 DEF Exact, Part
  <2>4. CASE o \notin live
    <3>1. object'[o] = Nothing
      BY <1>1, <2>4
    <3>2. object'[o].kind = "free" /\ object'[o].array = 0 /\ object'[o].code = 0
      BY <3>1 DEF Nothing, Object
    <3>3. CodeOf(o)' = 0 /\ LinesOf(o)' = 0
      <4>1. (At("code") \/ At("lines")) => Function # o
        BY <1>3, <2>4 DEF InPlace, At
      <4>. QED
        BY <1>1, <3>2, <4>1 DEF CodeOf, LinesOf, At, Function
    <3>4. \A part \in Part : blocks'[<<o, part>>] = 0
      <4>1. CASE object[o].kind # "free"
        BY <2>1, <2>4, <4>1 DEF Live
      <4>2. CASE object[o].kind = "free"
        <5>1. CodeOf(o) = 0 /\ LinesOf(o) = 0
          BY <1>4, <2>2, <2>4, <4>2 DEF Exact
        <5>2. \A part \in Part : blocks[<<o, part>>] = 0
          BY <2>2, <4>2, <5>1 DEF Exact, Part, LineSize
        <5>. QED
          BY <2>1, <5>2
      <4>. QED
        BY <4>1, <4>2
    <3>. QED
      BY <3>2, <3>3, <3>4 DEF Exact, Part, LineSize
  <2>. QED
    BY <2>3, <2>4
<1>9. \A p \in {<<"vm", "strings">>, <<"vm", "names">>, <<"C", "array">>} : blocks'[p] = blocks[p]
  BY <1>2, <1>7, Places
<1>10. \A f \in Range(contexts') : object'[f].kind = "function"
  BY <1>1, <1>2 DEF Accounted, Roots, Live
<1>11. At("table")' => object'[local'.made].kind \in {"class", "instance"}
  <2>1. At("table") => local.made \in Obj /\ local.made \in live
    BY DEF InPlace, Protected, Locals, TypeOK, Routine, At
  <2>. QED
    BY <1>1, <2>1 DEF Accounted, At
<1>12. InHand' = InHand
  BY <1>1 DEF InHand, At
<1>. QED
  BY <1>1, <1>7, <1>8, <1>9, <1>10, <1>11, <1>12 DEF Accounted, At

\* Every block is gone, as the bytes that initMemoryManager counts from have it.
LEMMA AccountedEnd ==
  ASSUME TypeOK, InPlace, Accounted, freeMemoryManager
  PROVE  Accounted'
<1>. USE DEF At
<1>1. /\ local.at = "exit" /\ contexts = <<>> /\ capacity.strings = 0 /\ capacity.names = 0
      /\ Settled /\ InHand = 0
  BY DEF freeMemoryManager, InPlace, Accounted, Settled, InHand
<1>2. Live \in SUBSET Obj /\ Memory \in Balance
  BY DEF Live, Accounted
<1>3. \A o \in Live : Freeable(o)
  BY <1>1, SettledSizes DEF Freeable, Accounted, Live
<1>4. Freed(Live).blocks = [p \in Place |-> IF p[1] \in Live THEN 0 ELSE blocks[p]]
  BY <1>2, <1>3, FreedAll
<1>5. \A p \in Place : p[1] \notin Live => blocks[p] = 0
  <2>1. ASSUME NEW o \in Obj, o \notin Live PROVE \A part \in Part : blocks[<<o, part>>] = 0
    <3>1. Exact(o) /\ object[o].kind = "free"
      BY <2>1 DEF Accounted, Live
    <3>2. CodeOf(o) = 0 /\ LinesOf(o) = 0
      BY <1>1, <3>1, SettledSizes DEF Exact
    <3>. QED
      BY <3>1, <3>2 DEF Exact, Part, LineSize
  <2>2. \A p \in {<<"vm", "strings">>, <<"vm", "names">>, <<"C", "array">>} : blocks[p] = 0
    BY <1>1 DEF Accounted, EntrySize
  <2>. SUFFICES ASSUME NEW p \in Place, p[1] \notin Live PROVE blocks[p] = 0
    OBVIOUS
  <2>3. CASE p \in Obj \X Part
    <3>1. PICK o \in Obj, part \in Part : p = <<o, part>>
      BY <2>3
    <3>2. o \notin Live
      BY <3>1
    <3>. QED
      BY <2>1, <3>1, <3>2
  <2>. QED
    BY <2>2, <2>3 DEF Place, Part
<1>6. blocks' = [p \in Place |-> 0] /\ bytesAllocated' = 0
  BY <1>4, <1>5 DEF freeMemoryManager
<1>7. Memory' \in Balance
  <2>1. Total([p \in Place |-> 0], Place) = 0
    BY Places, TotalOfZeros
  <2>2. Memory' = [bytes |-> 0, blocks |-> [p \in Place |-> 0]]
    BY <1>6 DEF Memory
  <2>3. [bytes |-> 0, blocks |-> [p \in Place |-> 0]] \in Books
    BY DEF Books
  <2>. QED
    BY <2>1, <2>2, <2>3 DEF Balance
<1>8. /\ object' = [o \in Obj |-> Nothing] /\ local'.at = "idle" /\ capacity' = capacity /\ contexts' = <<>>
      /\ Settled' /\ InHand' = 0
  BY <1>1 DEF freeMemoryManager, Idle, Settled, InHand
<1>9. ASSUME NEW o \in Obj PROVE Exact(o)'
  <2>1. object'[o].kind = "free" /\ object'[o].array = 0 /\ object'[o].code = 0
    BY <1>8 DEF Nothing, Object
  <2>2. CodeOf(o)' = 0 /\ LinesOf(o)' = 0
    BY <1>8, <2>1 DEF Settled, CodeOf, LinesOf
  <2>3. \A part \in Part : blocks'[<<o, part>>] = 0
    BY <1>6, Places
  <2>. QED
    BY <2>1, <2>2, <2>3 DEF Exact, Part, LineSize
<1>10. \A p \in {<<"vm", "strings">>, <<"vm", "names">>, <<"C", "array">>} : blocks'[p] = 0
  BY <1>6, Places
<1>. QED
  BY <1>1, <1>7, <1>8, <1>9, <1>10 DEF Accounted, EntrySize, Range

-----------------------------------------------------------------------------
(* The theorems.                                                             *)

LEMMA InitAccounted == Init => Accounted
<1>. SUFFICES ASSUME Init PROVE Accounted
  OBVIOUS
<1>1. Memory = [bytes |-> 0, blocks |-> [p \in Place |-> 0]]
  BY DEF Init, Memory
<1>2. Total([p \in Place |-> 0], Place) = 0
  BY Places, TotalOfZeros
<1>3. Memory \in Balance
  BY <1>1, <1>2 DEF Balance, Books
<1>4. Settled /\ InHand = 0 /\ ~At("table") /\ capacity.strings = 0 /\ capacity.names = 0 /\ Range(contexts) = {}
  BY DEF Init, Idle, Settled, InHand, At, Range
<1>5. \A p \in Place : blocks[p] = 0
  BY DEF Init
<1>6. ASSUME NEW o \in Obj PROVE Exact(o)
  <2>1. object[o].kind = "free" /\ object[o].array = 0 /\ object[o].code = 0
    BY DEF Init, Nothing, Object
  <2>2. CodeOf(o) = 0 /\ LinesOf(o) = 0
    BY <1>4, <2>1, SettledSizes
  <2>3. \A part \in Part : blocks[<<o, part>>] = 0
    BY <1>5, Places
  <2>. QED
    BY <2>1, <2>2, <2>3 DEF Exact, Part, LineSize
<1>. QED
  BY <1>3, <1>4, <1>5, <1>6, Places DEF Accounted, EntrySize

LEMMA NextAccounted == IInv /\ IInv' /\ Accounted /\ [Next]_vars => Accounted'
<1>. SUFFICES ASSUME IInv, IInv', Accounted, [Next]_vars PROVE Accounted'
  OBVIOUS
<1>. USE DEF IInv
<1>1. CASE Strings
  BY <1>1, AccountedStrings, AccountedNewString
<1>2. CASE Compile
  BY <1>2, AccountedCompile
<1>3. CASE Run
  BY <1>3, AccountedQuietRun, AccountedSetEntry, AccountedUpvalues, AccountedMaking, AccountedTableSet,
     AccountedFreeVM, AccountedEnd DEF Run
<1>4. CASE collectGarbage
  BY <1>4, AccountedCollection
<1>5. CASE UNCHANGED vars
  BY <1>5 DEF vars, memory, Accounted, Memory, Exact, ArrayOf, CodeOf, LinesOf, InHand, At, Function
<1>. QED
  BY <1>1, <1>2, <1>3, <1>4, <1>5 DEF Next

LEMMA AlwaysAccounted == Spec => []Accounted
  BY InitAccounted, NextAccounted, AlwaysIInv, PTL DEF Spec

\* bytesAllocated is the sum of the blocks that malloc has handed out, whatever
\* is freed and however an array is being resized (reallocate).
THEOREM BytesAreCounted == Spec => []Balanced
<1>1. Accounted => Balanced
  <2>1. Balanced <=> bytesAllocated = Total(blocks, Place)
    BY Zenon DEF Balanced, Total
  <2>2. Memory.bytes = bytesAllocated /\ Memory.blocks = blocks
    BY DEF Memory
  <2>. QED
    BY <2>1, <2>2 DEF Accounted, Balance
<1>. QED
  BY <1>1, AlwaysAccounted, PTL

\* A block that is not given back belongs to something that will give it back.
THEOREM NothingLeaks == Spec => []NoLeak
<1>1. IInv /\ Accounted => NoLeak
  <2>. SUFFICES ASSUME IInv, Accounted, NEW p \in Place, blocks[p] # 0
                PROVE  \/ p[1] \in Live
                       \/ p[1] = "vm" /\ capacity[p[2]] # 0
                       \/ p[1] = "C" /\ local.at \in {"string", "take", "closure"}
    BY DEF NoLeak
  <2>1. CASE p = <<"vm", "strings">> \/ p = <<"vm", "names">>
    BY <2>1 DEF Accounted, EntrySize
  <2>2. CASE p = <<"C", "array">>
    BY <2>2 DEF Accounted, InHand, At
  <2>3. ASSUME NEW o \in Obj, NEW part \in Part, p = <<o, part>>
        PROVE  o \in Live
    <3>1. SUFFICES ASSUME object[o].kind = "free" PROVE FALSE
      BY DEF Live
    <3>2. Compiling => Function # o
      BY <3>1, UnderCompilation DEF IInv, Present, Roots, Live
    <3>3. CodeOf(o) = object[o].code /\ LinesOf(o) = object[o].code
      BY <3>2 DEF IInv, InPlace, CodeOf, LinesOf, At
    <3>4. Exact(o)
      BY DEF Accounted
    <3>. QED
      BY <2>3, <3>1, <3>3, <3>4 DEF Exact, Part, LineSize
  <2>. QED
    BY <2>1, <2>2, <2>3 DEF Place, Part
<1>. QED
  BY <1>1, AlwaysIInv, AlwaysAccounted, PTL
=============================================================================
