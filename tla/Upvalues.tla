------------------------------ MODULE Upvalues ------------------------------
(***************************************************************************)
(* The value stack, the call frames and the upvalues of clox/vm.c, driven  *)
(* by the instructions the compiler emits for locals, closures and calls.  *)
(*                                                                         *)
(* A closure reaches an enclosing function's variable through an           *)
(* ObjUpvalue, which points into the stack while it is open and holds the  *)
(* value itself once closed.  Three history variables say which source     *)
(* variable each location stands for; no action reads them to decide what  *)
(* the machine does, only which instructions the compiler can have emitted.*)
(***************************************************************************)
EXTENDS Integers, Sequences, FiniteSets

CONSTANTS Data,          \* values that are not closures
          NIL_VAL,
          Global,        \* slots of vm->globals.values
          Interactive,   \* repl (TRUE) or runFile (FALSE)
          FRAMES_MAX,
          StackBound,    \* bounds of the model: values on the stack,
          ClosureBound,  \* closures, upvalues and
          UpvalueBound,
          VariableBound, \* variables ever created,
          CaptureBound   \* upvalues of one closure

ASSUME BoundAssumption ==
    /\ FRAMES_MAX \in Nat \ {0} /\ StackBound \in Nat /\ ClosureBound \in Nat
    /\ UpvalueBound \in Nat /\ VariableBound \in Nat /\ CaptureBound \in Nat
ASSUME InteractiveAssumption == Interactive \in BOOLEAN
ASSUME DataAssumption == NIL_VAL \in Data

VARIABLES stack,         \* stack[1..stackTop], slot 1 is vm->stack[0]
          frames,        \* sequence of [closure, slots]
          openUpvalues,  \* the linked list vm->openUpvalues
          upvalues,      \* ObjUpvalue objects: [location, closed]; location 0 is &closed
          closures,      \* ObjClosure objects: [upvalues, arity]; 0 is the script's
          globals,
          ran,           \* has interpret been called?
          owner,         \* history: the variable that lives in each stack slot, or 0
          captures,      \* history: the variables each closure captured
          declared       \* history: how many variables were ever declared

machine == <<stack, frames, openUpvalues, upvalues, closures, globals>>
vars == <<stack, frames, openUpvalues, upvalues, closures, globals, ran,
          owner, captures, declared>>

-----------------------------------------------------------------------------
Closure == 0..ClosureBound
Variable == 1..VariableBound
Value == Data \cup Closure
Temporary == 0

Top == Len(stack)
Frame == frames[Len(frames)]
PopN(s, n) == SubSeq(s, 1, Len(s) - n)
Running == frames # <<>>

\* The slots of the running frame that hold a variable the compiler knows.
LocalSlots == {s \in Frame.slots..Top : owner[s] # Temporary}

\* The instruction finds an expression's value on top of the frame.
HasTemporary == Running /\ Top > Frame.slots /\ owner[Top] = Temporary

\* A statement starts with nothing but locals in the frame, up to slot top.
OnlyLocals(top) == \A s \in Frame.slots + 1..top : owner[s] # Temporary

Location(u) == upvalues[u].location

\* *upvalue->location.  A location past the top holds whatever was left there.
Deref(u) ==
    IF Location(u) = 0 THEN {upvalues[u].closed}
    ELSE IF Location(u) <= Top THEN {stack[Location(u)]}
    ELSE Data \cup DOMAIN closures

-----------------------------------------------------------------------------
\* Mutant: the new upvalue always becomes the head of the list.
CaptureAtHead(m, local) ==
    LET same == {i \in DOMAIN m.open : m.upvalues[m.open[i]].location = local}
        new == Len(m.upvalues) + 1
    IN  IF same # {}
        THEN [m EXCEPT !.captured = Append(@, m.open[CHOOSE i \in same : TRUE])]
        ELSE [upvalues |-> Append(m.upvalues, [location |-> local, closed |-> NIL_VAL]),
              open |-> <<new>> \o m.open,
              captured |-> Append(m.captured, new)]

\* captureUpvalue on m = [upvalues, open, captured]: the open list is sorted by location,
\* topmost slot first; share the upvalue of the slot or insert a new one.
CaptureUpvalue(m, local) ==
    LET At(i) == m.upvalues[m.open[i]].location
        p == CHOOSE i \in 1..Len(m.open) + 1 :
                 /\ \A j \in 1..i - 1 : At(j) > local
                 /\ i <= Len(m.open) => At(i) <= local
        new == Len(m.upvalues) + 1
    IN  IF p <= Len(m.open) /\ At(p) = local
        THEN [m EXCEPT !.captured = Append(@, m.open[p])]
        ELSE [upvalues |-> Append(m.upvalues,
                                  [location |-> local, closed |-> NIL_VAL]),
              open |-> SubSeq(m.open, 1, p - 1) \o <<new>> \o SubSeq(m.open, p, Len(m.open)),
              captured |-> Append(m.captured, new)]

\* The loop of OP_CLOSURE over the (isLocal, index) operands.
CaptureAll(operands) ==
    LET start == [upvalues |-> upvalues, open |-> openUpvalues, captured |-> <<>>]
        after[i \in 0..Len(operands)] ==
            IF i = 0 THEN start
            ELSE IF operands[i].isLocal
                 THEN CaptureUpvalue(after[i - 1], Frame.slots + operands[i].index)
                 ELSE [after[i - 1] EXCEPT !.captured =
                           Append(@, closures[Frame.closure].upvalues[operands[i].index])]
    IN  after[Len(operands)]

\* Mutant: the slot last itself stays open.
CloseUpvaluesAbove(last) ==
    LET closing == {openUpvalues[j] : j \in {i \in DOMAIN openUpvalues :
                                                Location(openUpvalues[i]) > last}}
    IN  /\ upvalues' = [u \in DOMAIN upvalues |->
                           IF u \in closing
                           THEN [location |-> 0, closed |-> stack[Location(u)]]
                           ELSE upvalues[u]]
        /\ openUpvalues' = SelectSeq(openUpvalues, LAMBDA u : u \notin closing)

\* closeUpvalues(last): the open upvalues at or above last are a prefix of the
\* list; each takes the value of its slot.
CloseUpvalues(last) ==
    LET n == CHOOSE i \in 0..Len(openUpvalues) :
                 /\ \A j \in 1..i : Location(openUpvalues[j]) >= last
                 /\ i < Len(openUpvalues) => Location(openUpvalues[i + 1]) < last
        closing == {openUpvalues[j] : j \in 1..n}
    IN  /\ upvalues' = [u \in DOMAIN upvalues |->
                           IF u \in closing
                           THEN [location |-> 0, closed |-> stack[Location(u)]]
                           ELSE upvalues[u]]
        /\ openUpvalues' = SubSeq(openUpvalues, n + 1, Len(openUpvalues))

\* resetStack: the open upvalues are forgotten, not closed.
ResetStack == stack' = <<>> /\ frames' = <<>> /\ openUpvalues' = <<>> /\ owner' = <<>>

Push(v, x) == /\ Top < StackBound
              /\ stack' = Append(stack, v)
              /\ owner' = Append(owner, x)

-----------------------------------------------------------------------------
ScriptOnly == [c \in {0} |-> [upvalues |-> <<>>, arity |-> 0]]
NoCaptures == [c \in {0} |-> <<>>]

Init == /\ stack = <<>> /\ frames = <<>> /\ openUpvalues = <<>> /\ upvalues = <<>>
        /\ closures = ScriptOnly
        /\ globals = [g \in Global |-> NIL_VAL] /\ ran = FALSE
        /\ owner = <<>> /\ captures = NoCaptures /\ declared = 0

\* interpret: the compiled script becomes a closure in a frame of its own.
Interpret ==
    /\ ~Running /\ (Interactive \/ ~ran)
    /\ Push(0, Temporary)
    /\ frames' = <<[closure |-> 0, slots |-> Top + 1]>>
    /\ ran' = TRUE
    /\ UNCHANGED <<openUpvalues, upvalues, closures, globals, captures, declared>>

\* Any instruction that pushes a value which is not a variable's.
PushValue(v) == /\ Running
                /\ Push(v, Temporary)
                /\ UNCHANGED <<frames, openUpvalues, upvalues, closures, globals, ran,
                               captures, declared>>

GetGlobal(g) == /\ Running
                /\ Push(globals[g], Temporary)
                /\ UNCHANGED <<frames, openUpvalues, upvalues, closures, globals, ran,
                               captures, declared>>

\* Global declarations stand outside every block and function.
DefineGlobal(g) == /\ HasTemporary /\ Len(frames) = 1 /\ Top = Frame.slots + 1
                   /\ globals' = [globals EXCEPT ![g] = stack[Top]]
                   /\ stack' = PopN(stack, 1) /\ owner' = PopN(owner, 1)
                   /\ UNCHANGED <<frames, openUpvalues, upvalues, closures, ran,
                                  captures, declared>>

SetGlobal(g) == /\ HasTemporary
                /\ globals' = [globals EXCEPT ![g] = stack[Top]]
                /\ UNCHANGED <<stack, frames, openUpvalues, upvalues, closures, ran,
                               owner, captures, declared>>

GetLocal(s) == /\ Running /\ s \in LocalSlots
               /\ Push(stack[s], Temporary)
               /\ UNCHANGED <<frames, openUpvalues, upvalues, closures, globals, ran,
                              captures, declared>>

SetLocal(s) == /\ HasTemporary /\ s \in LocalSlots
               /\ stack' = [stack EXCEPT ![s] = stack[Top]]
               /\ UNCHANGED <<frames, openUpvalues, upvalues, closures, globals, ran,
                              owner, captures, declared>>

GetUpvalue(i) == /\ Running /\ i \in DOMAIN closures[Frame.closure].upvalues
                 /\ \E v \in Deref(closures[Frame.closure].upvalues[i]) : Push(v, Temporary)
                 /\ UNCHANGED <<frames, openUpvalues, upvalues, closures, globals, ran,
                                captures, declared>>

SetUpvalue(i) ==
    /\ HasTemporary /\ i \in DOMAIN closures[Frame.closure].upvalues
    /\ LET u == closures[Frame.closure].upvalues[i]
       IN  /\ upvalues' = IF Location(u) = 0
                          THEN [upvalues EXCEPT ![u].closed = stack[Top]] ELSE upvalues
           /\ stack' = IF Location(u) \in DOMAIN stack
                       THEN [stack EXCEPT ![Location(u)] = stack[Top]] ELSE stack
    /\ UNCHANGED <<frames, openUpvalues, closures, globals, ran, owner, captures, declared>>

\* A local declaration emits nothing: the initializer's value on top of the
\* stack becomes the variable (addLocal, markInitialized).
DeclareLocal == /\ HasTemporary /\ OnlyLocals(Top - 1) /\ declared < VariableBound
                /\ owner' = [owner EXCEPT ![Top] = declared + 1]
                /\ declared' = declared + 1
                /\ UNCHANGED <<machine, ran, captures>>

\* OP_POP after an expression statement.
PopTemporary == /\ HasTemporary
                /\ stack' = PopN(stack, 1) /\ owner' = PopN(owner, 1)
                /\ UNCHANGED <<frames, openUpvalues, upvalues, closures, globals, ran,
                               captures, declared>>

\* Did the compiler set isCaptured on the variable?
IsCaptured(x) == \E c \in DOMAIN captures : \E i \in DOMAIN captures[c] : captures[c][i] = x

\* Mutant: a captured local is popped like any other.
EndLocalByPop == /\ Running /\ Top \in LocalSlots
                 /\ Top > Frame.slots + closures[Frame.closure].arity
                 /\ upvalues' = [u \in DOMAIN upvalues |->
                        IF Location(u) = Top THEN [upvalues[u] EXCEPT !.location = 0]
                                             ELSE upvalues[u]]
                 /\ openUpvalues' = SelectSeq(openUpvalues, LAMBDA u : Location(u) # Top)
                 /\ stack' = PopN(stack, 1) /\ owner' = PopN(owner, 1)
                 /\ UNCHANGED <<frames, closures, globals, ran, captures, declared>>

\* endScope, for one local: OP_CLOSE_UPVALUE if it is captured, else OP_POP.
\* Parameters are not popped, they go when the function returns.
EndLocal == /\ Running /\ Top \in LocalSlots
            /\ Top > Frame.slots + closures[Frame.closure].arity
            /\ IF IsCaptured(owner[Top]) THEN CloseUpvalues(Top)
                                         ELSE UNCHANGED <<upvalues, openUpvalues>>
            /\ stack' = PopN(stack, 1) /\ owner' = PopN(owner, 1)
            /\ UNCHANGED <<frames, closures, globals, ran, captures, declared>>

\* What a function body can capture: locals of the running function, with the
\* function's own variable if it declares one, and its upvalues.
Operands(slots) ==
    {[isLocal |-> TRUE, index |-> s - Frame.slots] : s \in slots}
        \cup {[isLocal |-> FALSE, index |-> i] : i \in DOMAIN closures[Frame.closure].upvalues}

OperandLists(slots) ==
    UNION {{ops \in [1..n -> Operands(slots)] :
                \A i, j \in 1..n : ops[i] = ops[j] => i = j} : n \in 0..CaptureBound}

\* OP_CLOSURE: the closure is pushed before its variables are captured, so a
\* local function declaration (asLocal) can capture itself.
MakeClosure(asLocal, arity) ==
    LET new == Cardinality(DOMAIN closures)
        x == IF asLocal THEN declared + 1 ELSE Temporary
        slots == IF asLocal THEN LocalSlots \cup {Top + 1} ELSE LocalSlots
    IN  /\ Running /\ new <= ClosureBound
        /\ asLocal => OnlyLocals(Top) /\ declared < VariableBound
        /\ Push(new, x)
        /\ declared' = IF asLocal THEN declared + 1 ELSE declared
        /\ \E operands \in OperandLists(slots) :
               LET m == CaptureAll(operands)
                   Name(o) == IF o.isLocal THEN owner'[Frame.slots + o.index]
                                           ELSE captures[Frame.closure][o.index]
               IN  /\ Len(m.upvalues) <= UpvalueBound
                   /\ upvalues' = m.upvalues /\ openUpvalues' = m.open
                   /\ closures' = [c \in 0..new |->
                          IF c = new THEN [upvalues |-> m.captured, arity |-> arity]
                                     ELSE closures[c]]
                   /\ captures' = [c \in 0..new |->
                          IF c = new THEN [i \in DOMAIN operands |-> Name(operands[i])]
                                     ELSE captures[c]]
        /\ UNCHANGED <<frames, globals, ran>>

\* runtimeError, and INTERPRET_RUNTIME_ERROR up to main: runFile exits, and the
\* heap is gone with the process; repl reads the next line.
RuntimeError ==
    /\ Running
    /\ ResetStack
    /\ upvalues' = IF Interactive THEN upvalues ELSE <<>>
    /\ globals' = IF Interactive THEN globals ELSE [g \in Global |-> NIL_VAL]
    /\ closures' = IF Interactive THEN closures ELSE ScriptOnly
    /\ captures' = IF Interactive THEN captures ELSE NoCaptures
    /\ UNCHANGED <<ran, declared>>

\* Mutant: the frame starts above the callee.
CallAboveCallee(n) ==
    /\ Running /\ Top - n > Frame.slots
    /\ stack[Top - n] \in DOMAIN closures /\ Len(frames) < FRAMES_MAX
    /\ frames' = Append(frames, [closure |-> stack[Top - n], slots |-> Top - n + 1])
    /\ UNCHANGED <<stack, openUpvalues, upvalues, closures, globals, ran,
                   owner, captures, declared>>

\* OP_CALL n, with the callee and its arguments on top of the stack.
Call(n) ==
    /\ Running /\ Top - n > Frame.slots
    /\ \A s \in Top - n..Top : owner[s] = Temporary
    /\ LET callee == stack[Top - n]
       IN  IF /\ callee \in DOMAIN closures
              /\ n = closures[callee].arity
              /\ Len(frames) < FRAMES_MAX
           THEN /\ declared + n <= VariableBound
                /\ frames' = Append(frames, [closure |-> callee, slots |-> Top - n])
                /\ owner' = [s \in DOMAIN owner |->
                                 IF s > Top - n THEN declared + s - (Top - n) ELSE owner[s]]
                /\ declared' = declared + n
                /\ UNCHANGED <<stack, openUpvalues, upvalues, closures, globals, ran, captures>>
           ELSE RuntimeError

\* OP_RETURN: the upvalues of the whole frame are closed.  A script may return
\* too, with locals on the stack: returnStatement compares a token's type with
\* TYPE_SCRIPT and rejects nothing.
Return ==
    /\ HasTemporary /\ OnlyLocals(Top - 1)
    /\ CloseUpvalues(Frame.slots)
    /\ frames' = PopN(frames, 1)
    /\ IF Len(frames) = 1
       THEN stack' = PopN(stack, 2) /\ owner' = [s \in 1..Top - 2 |-> Temporary]
       ELSE /\ stack' = Append(SubSeq(stack, 1, Frame.slots - 1), stack[Top])
            /\ owner' = Append(SubSeq(owner, 1, Frame.slots - 1), Temporary)
    /\ UNCHANGED <<closures, globals, ran, captures, declared>>

Next == \/ Interpret \/ DeclareLocal \/ PopTemporary \/ EndLocal \/ Return \/ RuntimeError
        \/ \E v \in Data : PushValue(v)
        \/ \E g \in Global : GetGlobal(g) \/ DefineGlobal(g) \/ SetGlobal(g)
        \/ \E s \in 1..StackBound : GetLocal(s) \/ SetLocal(s)
        \/ \E i \in 1..CaptureBound : GetUpvalue(i) \/ SetUpvalue(i)
        \/ \E asLocal \in BOOLEAN, arity \in 0..1 : MakeClosure(asLocal, arity)
        \/ \E n \in 0..1 : Call(n)

Spec == Init /\ [][Next]_vars

-----------------------------------------------------------------------------
TypeOK ==
    /\ stack \in Seq(Value) /\ Len(stack) <= StackBound
    /\ \A i \in DOMAIN frames : /\ frames[i].closure \in DOMAIN closures
                                /\ frames[i].slots \in 1..Top
    /\ \A i \in DOMAIN openUpvalues : openUpvalues[i] \in DOMAIN upvalues
    /\ \A u \in DOMAIN upvalues : /\ Location(u) \in 0..StackBound
                                  /\ upvalues[u].closed \in Value
    /\ \A c \in DOMAIN closures :
           \A i \in DOMAIN closures[c].upvalues : closures[c].upvalues[i] \in DOMAIN upvalues
    /\ globals \in [Global -> Value] /\ ran \in BOOLEAN
    /\ Len(owner) = Top /\ declared \in 0..VariableBound
    /\ DOMAIN captures = DOMAIN closures

\* captureUpvalue and closeUpvalues stop at the first upvalue below the slot
\* they look for, which is right only while the list is strictly sorted and
\* holds open upvalues of slots in use.
OpenListSorted ==
    /\ \A i, j \in DOMAIN openUpvalues :
           i < j => Location(openUpvalues[i]) > Location(openUpvalues[j])
    /\ \A i \in DOMAIN openUpvalues : Location(openUpvalues[i]) \in DOMAIN stack

\* All closures that captured a variable hold the same upvalue; it is open on
\* the slot of the variable as long as there is one, and closed afterwards.
OneLocation ==
    \A c, d \in DOMAIN closures :
        \A i \in DOMAIN captures[c], j \in DOMAIN captures[d] :
            LET u == closures[c].upvalues[i]
                x == captures[c][i]
            IN  /\ captures[d][j] = x <=> closures[d].upvalues[j] = u
                /\ IF \E s \in DOMAIN owner : owner[s] = x
                   THEN /\ Location(u) \in DOMAIN owner /\ owner[Location(u)] = x
                        /\ \E k \in DOMAIN openUpvalues : openUpvalues[k] = u
                   ELSE Location(u) = 0

\* A closure that runs reaches, through each of its upvalues, the variable it
\* captured or that variable's value on the heap, never a slot that was reused.
ClosureReachesItsVariables ==
    Running => \A i \in DOMAIN captures[Frame.closure] :
                   LET at == Location(closures[Frame.closure].upvalues[i])
                   IN  at # 0 => at <= Top /\ owner[at] = captures[Frame.closure][i]

\* The abstract state: names from the history variables, values from the
\* machine.  The variables of a frame are in the slots right above its first.
LastSlot(i) == IF i = Len(frames) THEN Top ELSE frames[i + 1].slots - 1
Names(i) == LET n == Cardinality({s \in frames[i].slots..LastSlot(i) : owner[s] # Temporary})
            IN  [j \in 1..n |-> owner[frames[i].slots + j]]
Activations == [i \in DOMAIN frames |-> [closure |-> frames[i].closure, locals |-> Names(i)]]

ValueOf(x) ==
    IF \E s \in DOMAIN owner : owner[s] = x
    THEN stack[CHOOSE s \in DOMAIN owner : owner[s] = x]
    ELSE LET c == CHOOSE c \in DOMAIN captures : \E i \in DOMAIN captures[c] : captures[c][i] = x
             i == CHOOSE i \in DOMAIN captures[c] : captures[c][i] = x
         IN  upvalues[closures[c].upvalues[i]].closed

Visible == {x \in Variable : \/ \E s \in DOMAIN owner : owner[s] = x
                             \/ IsCaptured(x)}

Store == [x \in Visible |-> ValueOf(x)]

\* Captured variables behave as shared cells, through calls, returns, scope
\* exits and writes from either side.
Scope == INSTANCE LexicalScope WITH activations <- Activations, store <- Store
ImplementsLexicalScope == Scope!Spec
=============================================================================
