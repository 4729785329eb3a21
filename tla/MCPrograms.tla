----------------------------- MODULE MCPrograms -----------------------------
(* The compiler and the virtual machine of clox on whole sessions, with what *)
(* the tree-walking interpreter of jlox does of them as the promise. That is *)
(* what jlox does where its parser builds the trees of the session, as it    *)
(* does all but those of OperatorPrograms.                                   *)
EXTENDS Machine, Programs, Verifier

CONSTANT Sessions     \* sequences of programs, one for each line

Jlox == INSTANCE TreeWalk

VARIABLES session, promise
all == <<vars, session, promise>>

MCInit ==
  /\ Init /\ session \in Sessions
  /\ promise = Jlox!interpret(session)
  /\ lines = [i \in DOMAIN session |-> StatementsTokens(session[i])]
MCNext == Next /\ UNCHANGED <<session, promise>>

\* A line that waits is compiled in the end, and what runs goes on: that is
\* weak fairness of Next, as lines only get shorter.
Waiting == status = "ready" /\ lines # <<>>
MCSpec == MCInit /\ [][MCNext]_all /\ WF_vars(run) /\ []<>~Waiting

\* clox prints what the interpreter of jlox prints for the trees of the session,
\* in the same order, line by line, ends each line as it does, and does not run
\* forever (compile and run of clox, with Resolver, Interpreter and Environment
\* of jlox). It is not about the parser of jlox, which makes other trees of the
\* operators "==", "!=" and "and": of those it says what the interpreter means.
Lox == INSTANCE LoxSemantics
ImplementsLox == Lox!Spec

\* Between two lines nothing is left on the stack, no frame and no open
\* upvalue, however the last line ended (run, runtimeError, interpret).
Neat == status = "ready" => stackTop = 0 /\ openUpvalues = <<>> /\ frames = <<>>

\* The list of open upvalues is sorted by slot, the highest first, each slot
\* once and within the stack, so that captureUpvalue and closeUpvalues may stop
\* at the first one below the slot they are after.
OpenListSorted ==
  \A i \in DOMAIN openUpvalues :
    LET slot == objects[openUpvalues[i]].location
    IN slot \in 0..(stackTop - 1) /\ (i > 1 => slot < objects[openUpvalues[i - 1]].location)

\* When a loop goes back and when a function returns, the stack is as high as
\* every path through the compiled code makes it, with all the calls that came
\* before: the slots of locals mean at run time what compiler.c took them for.
HeightAsCompiled ==
  At("LOOP") \/ At("RETURN") =>
    LET heights == Heights(objects[Frame.closure].function)
    IN Frame.ip \in DOMAIN heights /\ heights[Frame.ip] = stackTop - Frame.slots

-----------------------------------------------------------------------------
(* The sessions of the run: one line only, except at the prompt. *)

\* Of these the parser of jlox builds the trees, of OperatorPrograms it does not.
AsParsed == UNION {ExpressionPrograms, ControlPrograms, ClosurePrograms, ClassPrograms, ErrorPrograms}
OneLine == {<<p>> : p \in AsParsed \cup OperatorPrograms}
Everything == OneLine \cup ReplSessions
=============================================================================
