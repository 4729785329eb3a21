------------------------------ MODULE Verifier ------------------------------
(* What it means for a chunk to be well formed: an abstract interpretation   *)
(* of its code that gives the height of the stack, above the first slot of   *)
(* its frame, before every instruction that can be reached.                  *)
EXTENDS Bytecode

\* The values an instruction takes from the stack, and those it leaves.
Takes(chunk, offset) ==
  LET op == OpAt(chunk, offset)
  IN CASE op \in {"POP", "CLOSE_UPVALUE", "DEFINE_GLOBAL", "PRINT", "NOT", "NEGATE", "RETURN",
                  "SET_GLOBAL", "SET_LOCAL", "SET_UPVALUE", "JUMP_IF_FALSE", "GET_PROPERTY"} -> 1
       [] op \in {"EQUAL", "GREATER", "LESS", "ADD", "SUBTRACT", "MULTIPLY", "DIVIDE",
                  "METHOD", "INHERIT", "GET_SUPER", "SET_PROPERTY"} -> 2
       [] op = "CALL" -> 1 + ByteAt(chunk, offset + 1)
       [] op = "INVOKE" -> 1 + ByteAt(chunk, offset + 2)
       [] op = "SUPER_INVOKE" -> 2 + ByteAt(chunk, offset + 2)
       [] OTHER -> 0
Leaves(op) ==
  IF op \in {"POP", "CLOSE_UPVALUE", "DEFINE_GLOBAL", "PRINT", "RETURN", "JUMP", "LOOP"} THEN 0 ELSE 1

\* The operands of an instruction lie within the tables they index.
CaptureFits(function, offset, height, i) ==
  LET index == ByteAt(function.chunk, offset + 2 * i + 1)
  IN IF ByteAt(function.chunk, offset + 2 * i) = 1 THEN index < height ELSE index < function.upvalueCount

OperandsFit(function, offset, height) ==
  LET chunk == function.chunk
      op == OpAt(chunk, offset)
      indexed == ByteAt(chunk, offset + 1) < Len(chunk.constants)
      constant == Constant(chunk, offset + 1)
  IN CASE op = "CONSTANT" -> indexed /\ constant.type \in {"number", "string"}
       [] op \in (constantInstruction \ {"CONSTANT"}) \cup invokeInstruction ->
            indexed /\ constant.type = "string"
       [] op = "CLOSURE" ->
            /\ indexed /\ constant.type = "function"
            \* A function may capture the local it is about to be the value of.
            /\ \A i \in 1..constant.function.upvalueCount : CaptureFits(function, offset, height + 1, i)
       [] op \in {"GET_LOCAL", "SET_LOCAL"} -> ByteAt(chunk, offset + 1) < height
       [] op \in {"GET_UPVALUE", "SET_UPVALUE"} -> ByteAt(chunk, offset + 1) < function.upvalueCount
       [] OTHER -> TRUE

Successors(chunk, offset) ==
  LET op == OpAt(chunk, offset)
  IN (IF op \in {"RETURN", "JUMP", "LOOP"} THEN {} ELSE {disassembleInstruction(chunk, offset)})
     \cup (IF op \in jumpInstruction THEN {JumpTarget(chunk, offset)} ELSE {})

\* Heights: the height before each offset reached from those in work, a set of
\* offsets that heights already covers. A flaw ends the walk with none.
RECURSIVE Reach(_, _, _, _)
Reach(function, starts, heights, work) ==
  LET chunk == function.chunk
      offset == CHOOSE o \in work : TRUE
      before == heights[offset]
      after == before - Takes(chunk, offset) + Leaves(OpAt(chunk, offset))
      next == Successors(chunk, offset)
      new == next \ DOMAIN heights
  IN IF work = {} THEN heights
     ELSE IF /\ OperandsFit(function, offset, before)
             /\ before > Takes(chunk, offset)    \* slot 0 is never taken
             /\ \A o \in next : o \in starts /\ (o \in DOMAIN heights => heights[o] = after)
     THEN Reach(function, starts, [o \in new |-> after] @@ heights, (work \ {offset}) \cup new)
     ELSE <<>>

Heights(function) ==
  Reach(function, disassembleChunk(function.chunk), (0 :> function.arity + 1), {0})

RECURSIVE Verified(_)
Verified(function) ==
  /\ Heights(function) # <<>>
  /\ \A i \in DOMAIN function.chunk.constants :
       function.chunk.constants[i].type = "function" => Verified(function.chunk.constants[i].function)
=============================================================================
