----------------------------- MODULE Allocation -----------------------------
(* Where clox allocates. Every reallocate that grows may collect, and the    *)
(* collector marks what the VM and the compiler mark, never the C locals of  *)
(* the routine that allocates: so each routine is cut at its allocations.    *)
(* The bytes that reallocate is told of are counted as the code counts them, *)
(* beside the blocks that malloc has really handed out.                      *)
EXTENDS Integers, FiniteSetsExt, SequencesExt

CONSTANTS Obj,          \* addresses of objects
          Content,      \* contents of strings
          NULL,
          UINT8_COUNT,  \* globals that the byte globals->count can tell apart
          MaxCapacity,  \* bounds of the model: entries of an array,
          MaxContexts,  \* nested compilations,
          MaxKept       \* objects that the VM marks at once

\* An address space is finite, and the VM and the C stack are no objects of the heap.
ASSUME ObjAssumption == IsFiniteSet(Obj) /\ {"vm", "C"} \cap Obj = {}
ASSUME NullAssumption == NULL \notin Obj \cup Content
ASSUME ByteAssumption == UINT8_COUNT \in Nat \ {0}
ASSUME BoundAssumption == {MaxCapacity, MaxContexts, MaxKept} \subseteq Nat

VARIABLES object,       \* what is at each address
          strings,      \* keys of the intern table
          capacity,     \* capacities of the tables of the VM
          bytesAllocated,
          blocks,       \* bytes of each block of malloc, by where its pointer is
          kept,         \* what markVMRoots marks in slots that stay: values, globals
                        \* below count, names, frames, the list of open upvalues
          stack,        \* what is on the stack only while something allocates
          contexts,     \* functions under compilation, which markCompilerRoots marks
          local,        \* the C routine in progress, and its locals
          location,     \* of an upvalue, what is in the slot it points to: {} once closed
          count,        \* globals->count
          uncounted     \* what globals from count on hold: {} until it wraps

memory == <<bytesAllocated, blocks>>
\* What the program can use and the collector does not look at.
unmarked == <<location, count, uncounted>>
vars == <<object, strings, capacity, memory, kept, stack, contexts, local, unmarked>>

-----------------------------------------------------------------------------
(* Objects, and what they take of memory on a 64-bit machine.               *)

Object(kind, refs, content, array) ==
  [kind |-> kind, refs |-> refs, content |-> content, array |-> array, code |-> 0]
Nothing == Object("free", {}, NULL, 0)

Live == {o \in Obj : object[o].kind # "free"}
OfKind(kind) == {o \in Obj : object[o].kind = kind}

SizeOf == [string |-> 40, function |-> 80, closure |-> 40, upvalue |-> 40,
           class |-> 48, instance |-> 48, bound |-> 32, native |-> 32]
\* What the array of an object holds: characters, constants, upvalues, entries.
Element == [string |-> 1, function |-> 8, closure |-> 8, upvalue |-> 0,
            class |-> 16, instance |-> 16, bound |-> 0, native |-> 0]
EntrySize == 16
LineSize == 4

\* GROW_CAPACITY, when the model has room for it.
Grown(cap) == {IF cap < 8 THEN 8 ELSE 2 * cap} \cap 0..MaxCapacity
\* The capacities a table can have once an entry is set: it may have to grow.
Room(cap) == Grown(cap) \cup ({cap} \ {0})

\* bytesAllocated and the blocks together, as reallocate takes them on.
Memory == [bytes |-> bytesAllocated, blocks |-> blocks]
reallocate(m, place, oldSize, newSize) ==
  [bytes |-> m.bytes + newSize - oldSize, blocks |-> [m.blocks EXCEPT ![place] = newSize]]
\* A pointer in a C local goes into the object that is made for it.
Handed(m, o) ==
  [m EXCEPT !.blocks = [@ EXCEPT ![<<o, "array">>] = m.blocks[<<"C", "array">>], ![<<"C", "array">>] = 0]]
Becomes(m) == bytesAllocated' = m.bytes /\ blocks' = m.blocks

Place == (Obj \X {"object", "array", "code", "lines"}) \cup {<<"vm", "strings">>, <<"vm", "names">>, <<"C", "array">>}

\* The constants of a function.
freeValueArray(m, o) == reallocate(m, <<o, "array">>, Element.function * object[o].array, 0)

\* Mutant: the lines of a chunk are not freed with its code.
FreeChunkKeepingLines(m, o) == freeValueArray(reallocate(m, <<o, "code">>, object[o].code, 0), o)
freeChunk(m, o) ==
  LET code == reallocate(m, <<o, "code">>, object[o].code, 0)
      lines == reallocate(code, <<o, "lines">>, LineSize * object[o].code, 0)
  IN freeValueArray(lines, o)

freeObject(m, o) ==
  LET kind == object[o].kind
      parts == IF kind = "function" THEN freeChunk(m, o)
               ELSE reallocate(m, <<o, "array">>, Element[kind] * object[o].array, 0)
  IN reallocate(parts, <<o, "object">>, SizeOf[kind], 0)

Freed(S) == FoldSet(LAMBDA o, m : freeObject(m, o), Memory, S)

-----------------------------------------------------------------------------
Idle == [at |-> "idle", then |-> "idle", content |-> NULL, made |-> NULL, held |-> {}, n |-> 0]
At(step) == local.at = step
Compiling == contexts # <<>>
Function == Last(contexts)
\* emitUpvalues of function() still reads the function after its OP_CLOSURE.
Resume == [Idle EXCEPT !.at = IF local.held = {} THEN "idle" ELSE "emit", !.held = local.held]

\* What the collector marks from S: blackenObject marks what a closed upvalue
\* holds, and nothing for an open one.
From(S) ==
  {o \in Obj : \A T \in SUBSET Obj : S \subseteq T /\ (\A p \in T : object[p].refs \subseteq T) => o \in T}

\* What the program gets at from S: also through *upvalue->location.
Follow(p) == object[p].refs \cup (location[p] \ {NULL})
Reach(S) ==
  {o \in Obj : \A T \in SUBSET Obj : S \subseteq T /\ (\A p \in T : Follow(p) \subseteq T) => o \in T}

\* An upvalue is open until it is closed. It is in the list of the VM unless
\* runtimeError has emptied that; the slots that the listed ones point to are
\* on the stack.
Open == {u \in Obj : location[u] # {}}
openUpvalues == Open \cap kept
Forgotten == Open \ kept
Captured == {v \in Obj : \E u \in openUpvalues : v \in location[u]}

Init ==
  /\ object = [o \in Obj |-> Nothing]
  /\ strings = {} /\ capacity = [strings |-> 0, names |-> 0]
  /\ bytesAllocated = 0 /\ blocks = [p \in Place |-> 0]
  /\ kept = {} /\ stack = <<>> /\ contexts = <<>> /\ local = Idle
  /\ location = [o \in Obj |-> {}] /\ count = 0 /\ uncounted = {}

Sites == {"chars", "result", "string", "strings", "constants", "code", "lines", "names", "function",
          "upvalues", "closure", "upvalue", "class", "instance", "bound", "native", "table"}

\* The intern table forgets the strings that are not marked.
handleWeakVMReferences(live) == strings' = strings \cap live

\* reallocate collects before it allocates, once the bytes pass nextGC; which
\* allocation that is depends on the sizes, so any may be it.
collectGarbage ==
  /\ local.at \in Sites
  /\ LET live == From(kept \cup Range(stack) \cup Range(contexts))
     IN /\ Becomes(Freed(Live \ live))
        /\ object' = [o \in Obj |-> IF o \in live THEN object[o] ELSE Nothing]
        /\ location' = [o \in Obj |-> IF o \in live THEN location[o] ELSE {}]
        /\ handleWeakVMReferences(live)
  /\ UNCHANGED <<capacity, kept, stack, contexts, local, count, uncounted>>

\* allocateObject, for the object that a routine makes.
allocateObject(m, o, made) ==
  /\ object[o].kind = "free"
  /\ object' = [object EXCEPT ![o] = made]
  /\ Becomes(reallocate(m, <<o, "object">>, 0, SizeOf[made.kind]))

-----------------------------------------------------------------------------
(* Strings.                                                                  *)

\* Where the caller of copyString or takeString takes the string; below is the
\* stack under what the routine itself has on it.
Deliver(s, below) ==
  \/ local.then = "lookup" /\ local' = Idle /\ stack' = below /\ UNCHANGED <<object, kept>>
  \/ /\ local.then = "name"
     /\ object' = [object EXCEPT ![Function].refs = @ \cup {s}]
     /\ local' = Idle /\ stack' = below /\ UNCHANGED kept
  \/ local.then = "push" /\ kept' = kept \cup {s} /\ local' = Idle /\ stack' = below /\ UNCHANGED object
  \/ /\ local.then = "constant"      \* makeConstant, up to pushStack of addConstant
     /\ local' = [Idle EXCEPT !.at = "add", !.made = s]
     /\ stack' = Append(below, s) /\ UNCHANGED <<object, kept>>
  \/ /\ local.then = "native"        \* defineNative, which pushes the name
     /\ local' = [Idle EXCEPT !.at = "native", !.held = {s}]
     /\ stack' = Append(below, s) /\ UNCHANGED <<object, kept>>

Interned == {s \in strings : object[s].content = local.content}

\* mm->pushStack and popStack, of allocateString and addConstant.
pushStackVM(o) == stack' = Append(stack, o)
popStackVM == stack' = Front(stack)

CopyString(content, then) == local' = [Idle EXCEPT !.at = "copy", !.then = then, !.content = content]

copyString ==
  /\ At("copy")
  /\ \/ \E s \in Interned : Deliver(s, stack)
     \/ Interned = {} /\ local' = [local EXCEPT !.at = "chars"] /\ UNCHANGED <<object, kept, stack>>
  /\ UNCHANGED <<strings, capacity, memory, contexts, unmarked>>

\* One character and the NUL, before copyString or after concatenate.
Length == 1
AllocateChars ==
  /\ local.at \in {"chars", "result"}
  /\ Becomes(reallocate(Memory, <<"C", "array">>, 0, Length + 1))
  /\ local' = [local EXCEPT !.at = IF @ = "chars" THEN "string" ELSE "take"]
  /\ UNCHANGED <<object, strings, capacity, kept, stack, contexts, unmarked>>

\* Mutant: the NUL is not counted when the characters are dropped.
TakeStringForgettingNul ==
  /\ At("take")
  /\ \/ /\ \E s \in Interned : Deliver(s, stack)
        /\ Becomes(reallocate(Memory, <<"C", "array">>, Length, 0))
     \/ Interned = {} /\ local' = [local EXCEPT !.at = "string"] /\ UNCHANGED <<object, memory, kept, stack>>
  /\ UNCHANGED <<strings, capacity, contexts, unmarked>>

\* Mutant: every result becomes a string of its own.
TakeStringAfresh ==
  At("take") /\ local' = [local EXCEPT !.at = "string"]
    /\ UNCHANGED <<object, strings, capacity, memory, kept, stack, contexts, unmarked>>

takeString ==
  /\ At("take")
  /\ \/ /\ \E s \in Interned : Deliver(s, stack)
        /\ Becomes(reallocate(Memory, <<"C", "array">>, Length + 1, 0))
     \/ Interned = {} /\ local' = [local EXCEPT !.at = "string"] /\ UNCHANGED <<object, memory, kept, stack>>
  /\ UNCHANGED <<strings, capacity, contexts, unmarked>>

\* allocateString, up to pushStack.
allocateString ==
  /\ At("string")
  /\ \E o \in Obj :
       /\ allocateObject(Handed(Memory, o), o, Object("string", {}, local.content, Length + 1))
       /\ local' = [local EXCEPT !.at = "strings", !.made = o]
       /\ pushStackVM(o)
  /\ UNCHANGED <<strings, capacity, kept, contexts, unmarked>>

\* allocateString: tableSet of vm->strings, popStack.
InternString ==
  /\ At("strings")
  /\ \E cap \in Room(capacity.strings) :
       /\ capacity' = [capacity EXCEPT !.strings = cap]
       /\ Becomes(reallocate(Memory, <<"vm", "strings">>, EntrySize * capacity.strings, EntrySize * cap))
  /\ strings' = strings \cup {local.made}
  /\ Deliver(local.made, Front(stack))
  /\ UNCHANGED <<contexts, unmarked>>
-----------------------------------------------------------------------------
(* The compiler.                                                             *)

\* compile, or function() inside: initCompilationContext.
NewContext ==
  /\ At("idle") /\ Len(contexts) < MaxContexts
  /\ local' = [Idle EXCEPT !.at = "function"]
  /\ UNCHANGED <<object, strings, capacity, memory, kept, stack, contexts, unmarked>>

\* The new function is linked, and only then does a nested one get its name.
newFunction ==
  /\ At("function")
  /\ \E o \in Obj : allocateObject(Memory, o, Object("function", {}, NULL, 0)) /\ contexts' = Append(contexts, o)
  /\ IF Compiling THEN \E t \in Content : CopyString(t, "name") ELSE local' = Idle
  /\ UNCHANGED <<strings, capacity, kept, stack, unmarked>>

\* identifierConstant and string; namedVariable copies a name to look it up.
CompileName ==
  /\ At("idle") /\ Compiling
  /\ \E t \in Content, then \in {"constant", "lookup"} : CopyString(t, then)
  /\ UNCHANGED <<object, strings, capacity, memory, kept, stack, contexts, unmarked>>

\* writeValueArray, of addConstant: the capacity is set before the array grows.
addConstant ==
  /\ At("add")
  /\ \/ /\ object[Function].array > 0
        /\ object' = [object EXCEPT ![Function].refs = @ \cup {local.made}]
        /\ popStackVM
        /\ local' = Resume
     \/ \E cap \in Grown(object[Function].array) :
          /\ object' = [object EXCEPT ![Function].array = cap]
          /\ local' = [local EXCEPT !.at = "constants", !.n = object[Function].array]
          /\ UNCHANGED stack
  /\ UNCHANGED <<strings, capacity, memory, kept, contexts, unmarked>>

GrowConstants ==
  /\ At("constants")
  /\ Becomes(reallocate(Memory, <<Function, "array">>,
                        Element.function * local.n, Element.function * object[Function].array))
  /\ object' = [object EXCEPT ![Function].refs = @ \cup {local.made}]
  /\ popStackVM
  /\ local' = Resume
  /\ UNCHANGED <<strings, capacity, kept, contexts, unmarked>>

\* writeChunk, when the code is full; its two arrays share a capacity.
writeChunk ==
  /\ local.at \in {"idle", "emit"} /\ Compiling
  /\ \E cap \in Grown(object[Function].code) :
       /\ object' = [object EXCEPT ![Function].code = cap]
       /\ local' = [local EXCEPT !.at = "code", !.n = object[Function].code]
  /\ UNCHANGED <<strings, capacity, memory, kept, stack, contexts, unmarked>>

GrowCode ==
  /\ At("code")
  /\ Becomes(reallocate(Memory, <<Function, "code">>, local.n, object[Function].code))
  /\ local' = [local EXCEPT !.at = "lines"]
  /\ UNCHANGED <<object, strings, capacity, kept, stack, contexts, unmarked>>

GrowLines ==
  /\ At("lines")
  /\ Becomes(reallocate(Memory, <<Function, "lines">>, LineSize * local.n, LineSize * object[Function].code))
  /\ local' = Resume
  /\ UNCHANGED <<object, strings, capacity, kept, stack, contexts, unmarked>>

Values == kept \ OfKind("upvalue")

\* globals->count++ for a global with a name and a first value, in the place of
\* what the slot held if it was in use. When the byte wraps, no global is below
\* it: what they held is uncounted, and some of it is only there.
CountGlobal(name, value) ==
  /\ count' = (count + 1) % UINT8_COUNT
  /\ \/ /\ count' # 0
        /\ kept' = kept \cup {name} \cup ({value} \ {NULL})
        /\ uncounted' \in {uncounted} \cup {(uncounted \ {v}) \cup {NULL} : v \in uncounted}
     \/ /\ count' = 0
        /\ \E held \in SUBSET Values, only \in SUBSET Values :
             /\ only \subseteq held
             /\ kept' = (kept \ (only \ Captured)) \cup {name}
             /\ uncounted' = uncounted \cup held \cup {NULL, value}

\* A name that is a constant becomes a global, and markVMRoots marks it, before
\* tableSet of the names: of a local class in any function, too.
computeGlobalSlot ==
  /\ At("idle") /\ Compiling
  /\ \E name \in object[Function].refs \cap OfKind("string") :
       CountGlobal(name, NULL) /\ local' = [Idle EXCEPT !.at = "names", !.held = {name}]
  /\ UNCHANGED <<object, strings, capacity, memory, stack, contexts, location>>

\* tableSet of globals->names; defineNative pops its two values after it.
SetGlobalName ==
  /\ At("names")
  /\ \E cap \in Room(capacity.names) :
       /\ capacity' = [capacity EXCEPT !.names = cap]
       /\ Becomes(reallocate(Memory, <<"vm", "names">>, EntrySize * capacity.names, EntrySize * cap))
  /\ local' = Idle /\ stack' = <<>>
  /\ UNCHANGED <<object, strings, kept, contexts, unmarked>>

\* function(): endCompilation unlinks the context, addConstant pushes it.
EndFunction ==
  /\ At("idle") /\ Len(contexts) > 1
  /\ contexts' = Front(contexts)
  /\ pushStackVM(Function)
  /\ local' = [Idle EXCEPT !.at = "add", !.made = Function, !.held = {Function}]
  /\ UNCHANGED <<object, strings, capacity, memory, kept, unmarked>>

EmitUpvalues ==
  /\ At("emit")
  /\ local' = Idle
  /\ UNCHANGED <<object, strings, capacity, memory, kept, stack, contexts, unmarked>>

\* Mutant: interpret makes the closure without the function on the stack.
InterpretUnpushed ==
  /\ At("idle") /\ Len(contexts) = 1
  /\ contexts' = <<>>
  /\ local' = [Idle EXCEPT !.at = "upvalues", !.then = "interpret", !.held = {Function}]
  /\ UNCHANGED <<object, strings, capacity, memory, kept, stack, unmarked>>

\* compile returns NULL after an error, and interpret makes a closure if not.
interpret ==
  /\ At("idle") /\ Len(contexts) = 1
  /\ contexts' = <<>>
  /\ \/ local' = Idle /\ UNCHANGED stack
     \/ /\ stack' = Append(stack, Function)
        /\ local' = [Idle EXCEPT !.at = "upvalues", !.then = "interpret", !.held = {Function}]
  /\ UNCHANGED <<object, strings, capacity, memory, kept, unmarked>>

-----------------------------------------------------------------------------
(* The instructions of a script that runs: in no routine, nothing compiling. *)

Running == At("idle") /\ ~Compiling

\* Instructions that do not allocate: what can be got at comes into a slot of
\* the VM. What freed memory reads as is left out.
Keep ==
  /\ Running /\ Cardinality(kept) < MaxKept
  /\ \E o \in Reach(kept \cup (uncounted \ {NULL})) \cap (Live \ OfKind("upvalue")) : kept' = kept \cup {o}
  /\ UNCHANGED <<object, strings, capacity, memory, stack, contexts, local, unmarked>>

\* Mutant: OP_POP ends a captured variable.
DropCaptured ==
  /\ Running
  /\ \E o \in Values : kept' = kept \ {o}
  /\ UNCHANGED <<object, strings, capacity, memory, stack, contexts, local, unmarked>>

\* Slots lose what they hold, those that open upvalues point to not before
\* closeUpvalues.
Drop ==
  /\ Running
  /\ \E o \in Values \ Captured : kept' = kept \ {o}
  /\ UNCHANGED <<object, strings, capacity, memory, stack, contexts, local, unmarked>>
closeUpvalues ==
  /\ Running
  /\ \E u \in openUpvalues :
       /\ object' = [object EXCEPT ![u].refs = location[u] \ {NULL}]
       /\ location' = [location EXCEPT ![u] = {}]
       /\ kept' = kept \ {u}
  /\ UNCHANGED <<strings, capacity, memory, stack, contexts, local, count, uncounted>>

\* *upvalue->location, or a captured local, is set: in the upvalue or in a slot.
SetUpvalue ==
  /\ Running
  /\ \E u \in From(kept) \cap OfKind("upvalue"), v \in Values \cup {NULL} :
       \/ u \in Open /\ location' = [location EXCEPT ![u] = {v}] /\ UNCHANGED object
       \/ u \notin Open /\ object' = [object EXCEPT ![u].refs = {v} \ {NULL}] /\ UNCHANGED location
  /\ UNCHANGED <<strings, capacity, memory, kept, stack, contexts, local, count, uncounted>>

\* OP_SET_GLOBAL, of a global that is not below count.
SetGlobal ==
  /\ Running
  /\ \E v \in Values \cup {NULL}, old \in uncounted :
       uncounted' \in {uncounted \cup {v}, (uncounted \ {old}) \cup {v, NULL}}
  /\ UNCHANGED <<object, strings, capacity, memory, kept, stack, contexts, local, location, count>>

\* runtimeError empties the stack and the list of open upvalues, closing none;
\* what is left is in globals. A script in a file ends here, the prompt goes on.
runtimeError ==
  /\ Running
  /\ \E left \in SUBSET Values : kept' = left
  /\ UNCHANGED <<object, strings, capacity, memory, stack, contexts, local, unmarked>>
\* Later lines use the slots that forgotten upvalues point to.
ReuseSlot ==
  /\ Running
  /\ \E u \in Forgotten, v \in Values \cup {NULL} : location' = [location EXCEPT ![u] = {v}]
  /\ UNCHANGED <<object, strings, capacity, memory, kept, stack, contexts, local, count, uncounted>>

\* Up to its first allocation, a routine only takes what it is given.
Call(at, made, held) ==
  /\ local' = [Idle EXCEPT !.at = at, !.made = made, !.held = held]
  /\ UNCHANGED <<object, strings, capacity, memory, stack, contexts, kept, unmarked>>

concatenate ==
  /\ Running
  /\ \E a, b \in kept \cap OfKind("string"), t \in Content :
       local' = [Idle EXCEPT !.at = "result", !.then = "push", !.content = t, !.held = {a, b}]
  /\ UNCHANGED <<object, strings, capacity, memory, kept, stack, contexts, unmarked>>

\* OP_CLOSURE and newClosure, which allocates the array of upvalues first.
Closure == Running /\ \E f \in From(kept) \cap OfKind("function") : Call("upvalues", NULL, {f})

AllocateUpvalues ==
  /\ At("upvalues")
  /\ \E upvalueCount \in 0..1 :
       /\ Becomes(reallocate(Memory, <<"C", "array">>, 0, Element.closure * upvalueCount))
       /\ local' = [local EXCEPT !.at = "closure", !.n = upvalueCount]
  /\ UNCHANGED <<object, strings, capacity, kept, stack, contexts, unmarked>>

\* interpret pops the function; OP_CLOSURE goes on to capture the upvalues.
newClosure ==
  /\ At("closure")
  /\ \E o \in Obj :
       /\ allocateObject(Handed(Memory, o), o, Object("closure", local.held, NULL, local.n))
       /\ kept' = kept \cup {o}
       /\ local' = IF local.then # "interpret" /\ local.n > 0
                   THEN [Idle EXCEPT !.at = "capture", !.made = o, !.n = local.n] ELSE Idle
  /\ stack' = <<>>
  /\ UNCHANGED <<strings, capacity, contexts, unmarked>>

\* An open upvalue, or one of the enclosing closure, or a new one, which goes to
\* the list and points to the slot of a local.
captureUpvalue ==
  /\ At("capture")
  /\ \/ local' = [local EXCEPT !.at = "upvalue"] /\ UNCHANGED object
     \/ \E u \in From(kept) \cap OfKind("upvalue") :
          object' = [object EXCEPT ![local.made].refs = @ \cup {u}] /\ local' = Idle
  /\ UNCHANGED <<strings, capacity, memory, kept, stack, contexts, unmarked>>

newUpvalue ==
  /\ At("upvalue")
  /\ \E o \in Obj :
       /\ object[o].kind = "free"
       /\ object' = [object EXCEPT ![o] = Object("upvalue", {}, NULL, 0), ![local.made].refs = @ \cup {o}]
       /\ Becomes(reallocate(Memory, <<o, "object">>, 0, SizeOf.upvalue))
       /\ kept' = kept \cup {o}
       /\ \E v \in Values \cup {NULL} : location' = [location EXCEPT ![o] = {v}]
  /\ local' = Idle
  /\ UNCHANGED <<strings, capacity, stack, contexts, count, uncounted>>

\* OP_CLASS, callValue on a class, bindMethod.
Class == Running /\ \E name \in From(kept) \cap OfKind("string") : Call("class", NULL, {name})
Instance == Running /\ \E class \in kept \cap OfKind("class") : Call("instance", class, {class})
bindMethod ==
  Running /\ \E receiver \in kept, method \in From(kept) \cap OfKind("closure") :
    Call("bound", receiver, {receiver, method})

\* The object is pushed, in the place of the class or the receiver if any.
NewObject ==
  /\ local.at \in {"class", "instance", "bound"}
  /\ \E o \in Obj :
       /\ allocateObject(Memory, o, Object(local.at, local.held, NULL, 0))
       /\ kept' = (kept \ ({local.made} \ Captured)) \cup {o}
  /\ local' = Idle
  /\ UNCHANGED <<strings, capacity, stack, contexts, unmarked>>

\* OP_SET_PROPERTY, OP_METHOD and OP_INHERIT set entries of an object that is
\* on the stack.
SetEntry ==
  Running /\ \E owner \in kept \cap (OfKind("class") \cup OfKind("instance")),
               name \in From(kept) \cap OfKind("string"), value \in From(kept) :
    Call("table", owner, {owner, name, value})

tableSet ==
  /\ At("table")
  /\ \E cap \in Room(object[local.made].array) :
       /\ object' = [object EXCEPT ![local.made].array = cap, ![local.made].refs = @ \cup local.held]
       /\ Becomes(reallocate(Memory, <<local.made, "array">>,
                             EntrySize * object[local.made].array, EntrySize * cap))
  /\ local' = Idle
  /\ UNCHANGED <<strings, capacity, kept, stack, contexts, unmarked>>

\* initNativeFunctionEnvironment, and the native of defineNative.
defineNative ==
  /\ Running
  /\ \E t \in Content : CopyString(t, "native")
  /\ UNCHANGED <<object, strings, capacity, memory, kept, stack, contexts, unmarked>>
\* internBuiltinStrings: the string stays in vm->initString.
internBuiltinStrings ==
  /\ Running
  /\ \E t \in Content : CopyString(t, "push")
  /\ UNCHANGED <<object, strings, capacity, memory, kept, stack, contexts, unmarked>>
newNative ==
  /\ At("native")
  /\ \E o \in Obj :
       /\ allocateObject(Memory, o, Object("native", {}, NULL, 0))
       /\ stack' = Append(stack, o)
       /\ \E name \in local.held : CountGlobal(name, o)
       /\ local' = [Idle EXCEPT !.at = "names", !.held = local.held \cup {o}]
  /\ UNCHANGED <<strings, capacity, contexts, location>>

\* main at the end: freeVM frees the tables of the VM, and marks nothing more.
freeVM ==
  /\ Running
  /\ Becomes(reallocate(reallocate(Memory, <<"vm", "strings">>, EntrySize * capacity.strings, 0),
                        <<"vm", "names">>, EntrySize * capacity.names, 0))
  /\ strings' = {} /\ capacity' = [strings |-> 0, names |-> 0] /\ kept' = {}
  /\ local' = [Idle EXCEPT !.at = "exit"]
  /\ count' = 0 /\ uncounted' = {}
  /\ UNCHANGED <<object, stack, contexts, location>>

\* freeMemoryManager frees every object, and initMemoryManager counts from 0;
\* the program may start again.
freeMemoryManager ==
  /\ At("exit")
  /\ bytesAllocated' = 0 /\ blocks' = Freed(Live).blocks
  /\ object' = [o \in Obj |-> Nothing]
  /\ location' = [o \in Obj |-> {}]
  /\ local' = Idle
  /\ UNCHANGED <<strings, capacity, kept, stack, contexts, count, uncounted>>

Strings == copyString \/ AllocateChars \/ takeString \/ allocateString \/ InternString
Compile ==
  \/ NewContext \/ newFunction \/ CompileName \/ addConstant \/ GrowConstants \/ writeChunk \/ GrowCode
  \/ GrowLines \/ computeGlobalSlot \/ SetGlobalName \/ EndFunction \/ EmitUpvalues \/ interpret
Run ==
  \/ Keep \/ Drop \/ closeUpvalues \/ SetUpvalue \/ SetGlobal \/ runtimeError \/ ReuseSlot \/ concatenate
  \/ Closure \/ AllocateUpvalues \/ newClosure \/ captureUpvalue \/ newUpvalue
  \/ Class \/ Instance \/ bindMethod \/ NewObject \/ SetEntry \/ tableSet
  \/ defineNative \/ newNative \/ internBuiltinStrings \/ freeVM \/ freeMemoryManager
Next == collectGarbage \/ Strings \/ Compile \/ Run

Spec == Init /\ [][Next]_vars

-----------------------------------------------------------------------------
Locals == local.held \cup ({local.made} \ {NULL})

\* A collection at any allocation spares what the C locals of the routine hold,
\* and all that the collector marks from there: object.c, chunk.c, compiler.c
\* and vm.c push it, link it or keep it in a slot first.
LocalsSurvive == From(kept \cup Range(stack) \cup Range(contexts) \cup Locals) \subseteq Live

\* What the program and the routine in progress can still get at.
InUse == Reach(kept \cup (uncounted \ {NULL}) \cup Range(stack) \cup Range(contexts) \cup Locals)

\* Neither does the program lose what it gets at through open upvalues, which
\* the collector does not follow: closeUpvalues comes before their slots go. Two
\* cases are excepted: a runtime error at the prompt forgets open upvalues, and
\* globals are not marked once the byte that counts them wraps.
NothingInUseIsFreed == Forgotten = {} /\ uncounted = {} => InUse \subseteq Live

\* What a program can get at is never freed, without exceptions: what the
\* collector promises, and vm.c and compiler.c do not keep.
ReachableIsSpared == InUse \subseteq Live

\* Two live strings never have the same contents, although a string may be
\* forgotten between the search of the intern table and the insertion: so that
\* valuesEqual and findEntry may compare addresses (copyString, takeString).
InternedOnce ==
  /\ strings \subseteq Live
  /\ \A s, t \in strings : object[s].content = object[t].content => s = t

\* bytesAllocated is what malloc has handed out, at every allocation, also when
\* a collection comes while a capacity is set but its array has not grown: the
\* sizes that the code passes to free are those it allocated (reallocate).
Balanced == bytesAllocated = MapThenSumSet(LAMBDA p : blocks[p], Place)

\* Every block belongs to a live object, to a table of the VM, or to the string
\* or closure being made; after freeVM and freeMemoryManager none is left.
NoLeak ==
  \A p \in Place : blocks[p] # 0 =>
    \/ p[1] \in Live
    \/ p[1] = "vm" /\ capacity[p[2]] # 0
    \/ p[1] = "C" /\ local.at \in {"string", "take", "closure"}
=============================================================================
