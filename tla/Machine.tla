------------------------------ MODULE Machine ------------------------------
(* The virtual machine of clox: the repl or the driver gives it one source   *)
(* after another, each is compiled and its instructions run one per step.    *)
(* Slots of the stack count from 0 and keep their value when they are popped *)
(* (stackTop moves); objects are numbered in the order they are allocated.   *)
(* Strings are interned, so a string is its characters.                      *)
EXTENDS Compiler

CONSTANTS FRAMES_MAX,   \* 64 in the build
          Clock,        \* the numbers clock() may return
          Garbage       \* how the uninitialised parts of a Compiler may read

ASSUME MachineAssumption == FRAMES_MAX \in Nat \ {0} /\ Garbage \subseteq Uninitialized

VARIABLES lines,        \* the sources still to be interpreted
          results,      \* the InterpretResult of each source so far
          status,       \* "ready" for a source or "running" one
          stack, stackTop,
          frames,       \* CallFrames: the closure, the offset ip, the first slot
          openUpvalues, \* the linked list, its head first
          objects, globals,
          output        \* what was printed

vars == <<lines, results, status, stack, stackTop, frames, openUpvalues, objects, globals, output>>

-----------------------------------------------------------------------------
(* Values and objects. *)

Object(i) == [type |-> "object", object |-> i]
New == Object(Len(objects) + 1)     \* the object the next allocation makes

isObjType(v, kind) == v.type = "object" /\ objects[v.object].kind = kind

newClosure(fn, upvalues) == [kind |-> "closure", function |-> fn, upvalues |-> upvalues]
newUpvalue(slot) == [kind |-> "upvalue", location |-> slot, closed |-> Nil]
newClass(name) == [kind |-> "class", name |-> name, methods |-> <<>>]
newInstance(class) == [kind |-> "instance", class |-> class, fields |-> <<>>]
newBoundMethod(receiver, closure) == [kind |-> "bound", receiver |-> receiver, method |-> closure]
newNative(arity) == [kind |-> "native", arity |-> arity]

Closed == -1      \* the location of an upvalue that holds its own value

isFalsey(v) == v.type = "nil" \/ (v.type = "bool" /\ ~v.bool)

valuesEqual(a, b) == a = b

\* What printValue prints: an object prints as its kind and name.
printObject(object) ==
  CASE object.kind = "closure" -> [fn |-> object.function.name]
    [] object.kind = "bound" -> [fn |-> objects[object.method].function.name]
    [] object.kind = "class" -> [class |-> object.name]
    [] object.kind = "instance" -> [instance |-> objects[object.class].name]
    [] object.kind = "native" -> [native |-> "fn"]
printValue(v) == IF v.type = "object" THEN printObject(objects[v.object]) ELSE v

-----------------------------------------------------------------------------
(* The stack, and the instruction the last frame is at. *)

Written(memory, slot, v) ==
  IF slot = Len(memory) THEN Append(memory, v) ELSE [memory EXCEPT ![slot + 1] = v]

peek(distance) == stack[stackTop - distance]

CallFrame(closure, ip, slots) == [closure |-> closure, ip |-> ip, slots |-> slots]

Frame == frames[Len(frames)]
Code == objects[Frame.closure].function.chunk
At(op) == status = "running" /\ OpAt(Code, Frame.ip) = op
READ_BYTE(i) == ByteAt(Code, Frame.ip + i)
READ_CONSTANT == Constant(Code, Frame.ip + 1)
READ_STRING == READ_CONSTANT.chars

\* The frames once the instruction, of size bytes, has been read.
Past(size) == [frames EXCEPT ![Len(frames)].ip = @ + size]

\* n values popped and v pushed, by an instruction of size bytes.
PopPush(n, v, size) ==
  /\ stack' = Written(stack, stackTop - n, v)
  /\ stackTop' = stackTop - n + 1
  /\ frames' = Past(size)
  /\ UNCHANGED <<lines, results, status, openUpvalues>>

\* Mutant: runtimeError leaves the stack as it is.
RuntimeErrorKeepingStack ==
  /\ results' = Append(results, "RUNTIME_ERROR")
  /\ status' = "ready"
  /\ frames' = <<>>
  /\ openUpvalues' = <<>>
  /\ UNCHANGED stackTop

\* runtimeError reports, and resets the stack; run returns.
runtimeError ==
  /\ results' = Append(results, "RUNTIME_ERROR")
  /\ status' = "ready"
  /\ stackTop' = 0
  /\ frames' = <<>>
  /\ openUpvalues' = <<>>

-----------------------------------------------------------------------------
(* Constants, variables and operators. *)

PushLiteral ==
  /\ \/ At("NIL") /\ PopPush(0, Nil, 1)
     \/ At("TRUE") /\ PopPush(0, Bool(TRUE), 1)
     \/ At("FALSE") /\ PopPush(0, Bool(FALSE), 1)
     \/ At("CONSTANT") /\ PopPush(0, READ_CONSTANT, 2)
  /\ UNCHANGED <<objects, globals, output>>

Pop ==
  /\ At("POP")
  /\ stackTop' = stackTop - 1 /\ frames' = Past(1)
  /\ UNCHANGED <<lines, results, status, stack, openUpvalues, objects, globals, output>>

GetLocal ==
  /\ At("GET_LOCAL")
  /\ PopPush(0, stack[Frame.slots + READ_BYTE(1) + 1], 2)
  /\ UNCHANGED <<objects, globals, output>>

SetLocal ==
  /\ At("SET_LOCAL")
  /\ stack' = Written(stack, Frame.slots + READ_BYTE(1), peek(0))
  /\ frames' = Past(2)
  /\ UNCHANGED <<lines, results, status, stackTop, openUpvalues, objects, globals, output>>

GetGlobal ==
  /\ At("GET_GLOBAL")
  /\ PopPush(0, globals.values[READ_BYTE(1)], 2)
  /\ UNCHANGED <<objects, globals, output>>

SetGlobal(op, popped) ==
  /\ At(op)
  /\ globals' = [globals EXCEPT !.values[READ_BYTE(1)] = peek(0)]
  /\ stackTop' = stackTop - popped /\ frames' = Past(2)
  /\ UNCHANGED <<lines, results, status, stack, openUpvalues, objects, output>>

GlobalAssignment == SetGlobal("DEFINE_GLOBAL", 1) \/ SetGlobal("SET_GLOBAL", 0)

UpvalueAt(i) == objects[Frame.closure].upvalues[i + 1]

GetUpvalue ==
  LET upvalue == objects[UpvalueAt(READ_BYTE(1))]
  IN /\ At("GET_UPVALUE")
     /\ PopPush(0, IF upvalue.location = Closed THEN upvalue.closed ELSE stack[upvalue.location + 1], 2)
     /\ UNCHANGED <<objects, globals, output>>

SetUpvalue ==
  LET i == UpvalueAt(READ_BYTE(1))
      location == objects[i].location
  IN /\ At("SET_UPVALUE")
     /\ objects' = IF location = Closed THEN [objects EXCEPT ![i].closed = peek(0)] ELSE objects
     /\ stack' = IF location = Closed THEN stack ELSE Written(stack, location, peek(0))
     /\ frames' = Past(2)
     /\ UNCHANGED <<lines, results, status, stackTop, openUpvalues, globals, output>>

Equal ==
  /\ At("EQUAL")
  /\ PopPush(2, Bool(valuesEqual(peek(1), peek(0))), 1)
  /\ UNCHANGED <<objects, globals, output>>

BothAre(type) == peek(0).type = type /\ peek(1).type = type

ArithmeticOps == {"GREATER", "LESS", "SUBTRACT", "MULTIPLY", "DIVIDE"}
Arithmetic(op, a, b) ==
  CASE op = "GREATER" -> Bool(a > b)
    [] op = "LESS" -> Bool(a < b)
    [] op = "ADD" -> Number(a + b)
    [] op = "SUBTRACT" -> Number(a - b)
    [] op = "MULTIPLY" -> Number(a * b)
    [] op = "DIVIDE" -> Number(a \div b)

BINARY_OP ==
  \E op \in ArithmeticOps :
    /\ At(op)
    /\ \/ /\ BothAre("number")
          /\ PopPush(2, Arithmetic(op, peek(1).number, peek(0).number), 1)
       \/ ~BothAre("number") /\ runtimeError /\ UNCHANGED <<lines, stack>>
    /\ UNCHANGED <<objects, globals, output>>

Add ==
  /\ At("ADD")
  /\ \/ BothAre("string") /\ PopPush(2, String(peek(1).chars \o peek(0).chars), 1)
     \/ BothAre("number") /\ PopPush(2, Arithmetic("ADD", peek(1).number, peek(0).number), 1)
     \/ ~BothAre("string") /\ ~BothAre("number") /\ runtimeError /\ UNCHANGED <<lines, stack>>
  /\ UNCHANGED <<objects, globals, output>>

Not ==
  /\ At("NOT")
  /\ PopPush(1, Bool(isFalsey(peek(0))), 1)
  /\ UNCHANGED <<objects, globals, output>>

Negate ==
  /\ At("NEGATE")
  /\ \/ peek(0).type = "number" /\ PopPush(1, Number(-peek(0).number), 1)
     \/ peek(0).type # "number" /\ runtimeError /\ UNCHANGED <<lines, stack>>
  /\ UNCHANGED <<objects, globals, output>>

PrintTop ==
  /\ At("PRINT")
  /\ output' = Append(output, printValue(peek(0)))
  /\ stackTop' = stackTop - 1 /\ frames' = Past(1)
  /\ UNCHANGED <<lines, results, status, stack, openUpvalues, objects, globals>>

Jump ==
  /\ \/ At("JUMP")
     \/ At("LOOP")
     \/ At("JUMP_IF_FALSE") /\ isFalsey(peek(0))
  /\ frames' = [frames EXCEPT ![Len(frames)].ip = JumpTarget(Code, @)]
  /\ UNCHANGED <<lines, results, status, stack, stackTop, openUpvalues, objects, globals, output>>

NoJump ==
  /\ At("JUMP_IF_FALSE") /\ ~isFalsey(peek(0))
  /\ frames' = Past(3)
  /\ UNCHANGED <<lines, results, status, stack, stackTop, openUpvalues, objects, globals, output>>

-----------------------------------------------------------------------------
(* Calls. An action below that calls leaves the stack and the objects to the *)
(* one that cites it. top is the top of the stack the call finds.            *)

callClosure(closure, argCount, top, size) ==
  LET fits == argCount = objects[closure].function.arity /\ Len(frames) # FRAMES_MAX
  IN \/ /\ fits
        /\ frames' = Append(Past(size), CallFrame(closure, 0, top - argCount - 1))
        /\ stackTop' = top /\ UNCHANGED <<results, status, openUpvalues>>
     \/ ~fits /\ runtimeError

nativeCall(native, argCount, size) ==
  \/ /\ argCount = native.arity
     /\ \E t \in Clock : PopPush(argCount + 1, Number(t), size)
     /\ UNCHANGED objects
  \/ /\ argCount # native.arity
     /\ runtimeError /\ UNCHANGED <<lines, stack, objects>>

\* memory is the stack callValue finds, callee the value in the slot it calls.
callValue(memory, callee, argCount, size) ==
  LET slot == stackTop - argCount - 1
      object == objects[callee.object]
  IN \/ /\ isObjType(callee, "bound")
        /\ stack' = Written(memory, slot, object.receiver)
        /\ callClosure(object.method, argCount, stackTop, size)
        /\ UNCHANGED <<lines, objects>>
     \/ /\ isObjType(callee, "class")
        /\ stack' = Written(memory, slot, New)
        /\ objects' = Append(objects, newInstance(callee.object))
        /\ \/ "init" \in DOMAIN object.methods /\ callClosure(object.methods["init"], argCount, stackTop, size)
           \/ "init" \notin DOMAIN object.methods /\ argCount # 0 /\ runtimeError
           \/ /\ "init" \notin DOMAIN object.methods /\ argCount = 0
              /\ frames' = Past(size) /\ UNCHANGED <<results, status, openUpvalues, stackTop>>
        /\ UNCHANGED lines
     \/ /\ isObjType(callee, "closure")
        /\ callClosure(callee.object, argCount, stackTop, size)
        /\ stack' = memory /\ UNCHANGED <<lines, objects>>
     \/ isObjType(callee, "native") /\ nativeCall(object, argCount, size)
     \/ /\ \A kind \in {"bound", "class", "closure", "native"} : ~isObjType(callee, kind)
        /\ runtimeError
        /\ stack' = memory /\ UNCHANGED <<lines, objects>>

CallOp ==
  /\ At("CALL")
  /\ callValue(stack, peek(READ_BYTE(1)), READ_BYTE(1), 2)
  /\ UNCHANGED <<globals, output>>

invokeFromClass(class, name, argCount, top, size) ==
  LET table == objects[class].methods
  IN \/ name \in DOMAIN table /\ callClosure(table[name], argCount, top, size)
     \/ name \notin DOMAIN table /\ runtimeError

invoke(name, argCount, size) ==
  LET receiver == peek(argCount)
      instance == objects[receiver.object]
  IN \/ ~isObjType(receiver, "instance") /\ runtimeError /\ UNCHANGED <<lines, stack, objects>>
     \/ /\ isObjType(receiver, "instance") /\ name \in DOMAIN instance.fields
        /\ callValue(Written(stack, stackTop - argCount - 1, instance.fields[name]),
                     instance.fields[name], argCount, size)
     \/ /\ isObjType(receiver, "instance") /\ name \notin DOMAIN instance.fields
        /\ invokeFromClass(instance.class, name, argCount, stackTop, size)
        /\ UNCHANGED <<lines, stack, objects>>

Invoke ==
  /\ At("INVOKE")
  /\ invoke(READ_STRING, READ_BYTE(2), 3)
  /\ UNCHANGED <<globals, output>>

\* The upvalues of the list above a slot, or at it as well.
RECURSIVE Leading(_, _)
Leading(open, slot) ==
  IF open = <<>> THEN <<>>
  ELSE IF objects[Head(open)].location < slot THEN <<>>
  ELSE <<Head(open)>> \o Leading(Tail(open), slot)

closeUpvalues(last) ==
  LET closing == Leading(openUpvalues, last)
  IN /\ openUpvalues' = SubSeq(openUpvalues, Len(closing) + 1, Len(openUpvalues))
     /\ objects' = [i \in DOMAIN objects |->
          IF \E k \in DOMAIN closing : closing[k] = i
          THEN [objects[i] EXCEPT !.closed = stack[objects[i].location + 1], !.location = Closed]
          ELSE objects[i]]

CloseUpvalue ==
  /\ At("CLOSE_UPVALUE")
  /\ closeUpvalues(stackTop - 1)
  /\ stackTop' = stackTop - 1 /\ frames' = Past(1)
  /\ UNCHANGED <<lines, results, status, stack, globals, output>>

\* Mutant: a captured slot gets one more upvalue each time.
CaptureUpvalueAfresh(heap, open, slot) ==
  LET above == {k \in DOMAIN open : \A j \in 1..k : heap[open[j]].location > slot}
      k == Cardinality(above)
      upvalue == Len(heap) + 1
  IN [heap |-> Append(heap, newUpvalue(slot)), upvalue |-> upvalue,
      open |-> SubSeq(open, 1, k) \o <<upvalue>> \o SubSeq(open, k + 1, Len(open))]

\* captureUpvalue: the upvalue for a slot, with the heap and the list after it.
captureUpvalue(heap, open, slot) ==
  LET above == {k \in DOMAIN open : \A j \in 1..k : heap[open[j]].location > slot}
      k == Cardinality(above)
      upvalue == Len(heap) + 1
  IN IF k < Len(open) /\ heap[open[k + 1]].location = slot
     THEN [heap |-> heap, open |-> open, upvalue |-> open[k + 1]]
     ELSE [heap |-> Append(heap, newUpvalue(slot)), upvalue |-> upvalue,
           open |-> SubSeq(open, 1, k) \o <<upvalue>> \o SubSeq(open, k + 1, Len(open))]

RECURSIVE Captured(_, _, _, _)
Captured(heap, open, upvalues, count) ==
  LET i == Len(upvalues)
      index == READ_BYTE(2 * i + 3)
      r == captureUpvalue(heap, open, Frame.slots + index)
  IN IF i = count THEN [heap |-> heap, open |-> open, upvalues |-> upvalues]
     ELSE IF READ_BYTE(2 * i + 2) = 1 THEN Captured(r.heap, r.open, Append(upvalues, r.upvalue), count)
     ELSE Captured(heap, open, Append(upvalues, UpvalueAt(index)), count)

\* The closure is the first object the instruction allocates.
Closure ==
  LET fn == READ_CONSTANT.function
      r == Captured(Append(objects, newClosure(fn, <<>>)), openUpvalues, <<>>, fn.upvalueCount)
  IN /\ At("CLOSURE")
     /\ objects' = [r.heap EXCEPT ![New.object].upvalues = r.upvalues]
     /\ openUpvalues' = r.open
     /\ stack' = Written(stack, stackTop, New)
     /\ stackTop' = stackTop + 1
     /\ frames' = Past(2 + 2 * fn.upvalueCount)
     /\ UNCHANGED <<lines, results, status, globals, output>>

\* The return of the script ends the run; any other goes on in the caller.
ReturnOp ==
  LET callers == SubSeq(frames, 1, Len(frames) - 1)
  IN /\ At("RETURN")
     /\ closeUpvalues(Frame.slots)
     /\ frames' = callers
     /\ \/ /\ callers = <<>>
           /\ stackTop' = stackTop - 2 /\ UNCHANGED stack
           /\ results' = Append(results, "OK") /\ status' = "ready"
        \/ /\ callers # <<>>
           /\ stack' = Written(stack, Frame.slots, peek(0))
           /\ stackTop' = Frame.slots + 1 /\ UNCHANGED <<results, status>>
     /\ UNCHANGED <<lines, globals, output>>

-----------------------------------------------------------------------------
(* Classes. *)

ClassOp ==
  /\ At("CLASS")
  /\ PopPush(0, New, 2)
  /\ objects' = Append(objects, newClass(READ_STRING))
  /\ UNCHANGED <<globals, output>>

\* The entries of one table are set in another, over those already there.
tableAddAll(from, to) == from @@ to

\* Mutant: the methods are copied the wrong way.
InheritIntoSuperclass ==
  /\ At("INHERIT")
  /\ \/ /\ isObjType(peek(1), "class")
        /\ objects' = [objects EXCEPT ![peek(1).object].methods =
                                      tableAddAll(objects[peek(0).object].methods, @)]
        /\ stackTop' = stackTop - 1 /\ frames' = Past(1)
        /\ UNCHANGED <<results, status, openUpvalues>>
     \/ ~isObjType(peek(1), "class") /\ runtimeError /\ UNCHANGED objects
  /\ UNCHANGED <<lines, stack, globals, output>>

Inherit ==
  /\ At("INHERIT")
  /\ \/ /\ isObjType(peek(1), "class")
        /\ objects' = [objects EXCEPT ![peek(0).object].methods =
                                      tableAddAll(objects[peek(1).object].methods, @)]
        /\ stackTop' = stackTop - 1 /\ frames' = Past(1)
        /\ UNCHANGED <<results, status, openUpvalues>>
     \/ ~isObjType(peek(1), "class") /\ runtimeError /\ UNCHANGED objects
  /\ UNCHANGED <<lines, stack, globals, output>>

defineMethod ==
  /\ At("METHOD")
  /\ objects' = [objects EXCEPT ![peek(1).object].methods = (READ_STRING :> peek(0).object) @@ @]
  /\ stackTop' = stackTop - 1 /\ frames' = Past(2)
  /\ UNCHANGED <<lines, results, status, stack, openUpvalues, globals, output>>

\* The receiver, popped values below the top, is replaced by its method.
bindMethod(class, name, popped) ==
  LET table == objects[class].methods
  IN \/ /\ name \in DOMAIN table
        /\ PopPush(popped + 1, New, 2)
        /\ objects' = Append(objects, newBoundMethod(peek(popped), table[name]))
     \/ name \notin DOMAIN table /\ runtimeError /\ UNCHANGED <<lines, stack, objects>>

GetSuper ==
  /\ At("GET_SUPER")
  /\ bindMethod(peek(0).object, READ_STRING, 1)
  /\ UNCHANGED <<globals, output>>

GetProperty ==
  LET v == peek(0)
      fields == objects[v.object].fields
  IN /\ At("GET_PROPERTY")
     /\ \/ ~isObjType(v, "instance") /\ runtimeError /\ UNCHANGED <<lines, stack, objects>>
        \/ /\ isObjType(v, "instance") /\ READ_STRING \in DOMAIN fields
           /\ PopPush(1, fields[READ_STRING], 2) /\ UNCHANGED objects
        \/ /\ isObjType(v, "instance") /\ READ_STRING \notin DOMAIN fields
           /\ bindMethod(objects[v.object].class, READ_STRING, 0)
     /\ UNCHANGED <<globals, output>>

SetProperty ==
  /\ At("SET_PROPERTY")
  /\ \/ /\ isObjType(peek(1), "instance")
        /\ objects' = [objects EXCEPT ![peek(1).object].fields = (READ_STRING :> peek(0)) @@ @]
        /\ PopPush(2, peek(0), 2)
     \/ ~isObjType(peek(1), "instance") /\ runtimeError /\ UNCHANGED <<lines, stack, objects>>
  /\ UNCHANGED <<globals, output>>

\* Mutant: the superclass stays on the stack.
SuperInvokeKeepingSuperclass ==
  /\ At("SUPER_INVOKE")
  /\ invokeFromClass(peek(0).object, READ_STRING, READ_BYTE(2), stackTop, 3)
  /\ UNCHANGED <<lines, stack, objects, globals, output>>

\* The superclass is popped before the call, so the receiver is below it.
SuperInvoke ==
  /\ At("SUPER_INVOKE")
  /\ invokeFromClass(peek(0).object, READ_STRING, READ_BYTE(2), stackTop - 1, 3)
  /\ UNCHANGED <<lines, stack, objects, globals, output>>

-----------------------------------------------------------------------------
(* A source. *)

\* interpret compiles the next source; its closure is called, or it failed.
\* Uninitialised parts of the Compiler record read as any garbage.
Interpret ==
  /\ status = "ready" /\ lines # <<>>
  /\ lines' = Tail(lines)
  /\ \E r \in {compile(globals, Head(lines), garbage) : garbage \in Garbage} :
       /\ globals' = r.globals
       /\ \/ /\ r.hadError
             /\ results' = Append(results, "COMPILE_ERROR")
             /\ UNCHANGED <<status, stack, stackTop, frames, objects>>
          \/ /\ ~r.hadError
             /\ objects' = Append(objects, newClosure(r.function, <<>>))
             /\ stack' = Written(stack, stackTop, New)
             /\ stackTop' = stackTop + 1
             /\ frames' = <<CallFrame(New.object, 0, stackTop)>>
             /\ status' = "running" /\ UNCHANGED results
  /\ UNCHANGED <<openUpvalues, output>>

\* The input has ended.
EndOfInput == status = "ready" /\ lines = <<>> /\ UNCHANGED vars

initGlobals == [count |-> 0, values |-> <<>>, identifiers |-> <<>>, names |-> <<>>]

\* The next slot holds a native from the start.
defineNative(g, name, v) ==
  [count |-> g.count + 1, values |-> (g.count :> v) @@ g.values,
   identifiers |-> (g.count :> name) @@ g.identifiers, names |-> (name :> g.count) @@ g.names]

\* initVM, and the native clock in the first global.
Init ==
  /\ results = <<>> /\ status = "ready"
  /\ stack = <<>> /\ stackTop = 0 /\ frames = <<>> /\ openUpvalues = <<>>
  /\ objects = <<newNative(0)>>
  /\ globals = defineNative(initGlobals, "clock", Object(1))
  /\ output = <<>>

run ==
  \/ PushLiteral \/ Pop \/ GetLocal \/ SetLocal \/ GetGlobal \/ GlobalAssignment
  \/ GetUpvalue \/ SetUpvalue \/ Equal \/ BINARY_OP \/ Add \/ Not \/ Negate \/ PrintTop
  \/ Jump \/ NoJump \/ CallOp \/ Invoke \/ Closure \/ CloseUpvalue \/ ReturnOp
  \/ ClassOp \/ Inherit \/ defineMethod \/ GetSuper \/ GetProperty \/ SuperInvoke \/ SetProperty

Next == Interpret \/ run \/ EndOfInput
=============================================================================
