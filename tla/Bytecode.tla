------------------------------ MODULE Bytecode ------------------------------
(* Chunks of clox: the instruction set, how a chunk is written, and how its  *)
(* instructions are laid out, as the disassembler walks them. A byte is a    *)
(* number below UINT8_COUNT except that an opcode is its place in the enum.  *)
EXTENDS Integers, Sequences, FiniteSets, TLC

CONSTANT UINT8_COUNT      \* 256 in the build; less to meet its limits early

ASSUME ByteAssumption == UINT8_COUNT \in Nat \ {0}

UINT8_MAX == UINT8_COUNT - 1
UINT16_MAX == UINT8_COUNT * UINT8_COUNT - 1

OpCode == <<"CONSTANT", "NIL", "TRUE", "FALSE", "POP", "CLOSE_UPVALUE",
  "GET_GLOBAL", "DEFINE_GLOBAL", "SET_GLOBAL", "GET_LOCAL", "SET_LOCAL",
  "GET_UPVALUE", "SET_UPVALUE", "EQUAL", "GREATER", "LESS", "ADD", "SUBTRACT",
  "MULTIPLY", "DIVIDE", "NOT", "NEGATE", "PRINT", "JUMP", "JUMP_IF_FALSE",
  "LOOP", "RETURN", "CALL", "INVOKE", "CLOSURE", "CLASS", "METHOD", "INHERIT",
  "GET_SUPER", "SUPER_INVOKE", "GET_PROPERTY", "SET_PROPERTY">>

\* The byte of an opcode: OP_CONSTANT is 0 and the others follow it.
Op == [name \in {OpCode[i] : i \in DOMAIN OpCode} |->
         (CHOOSE i \in DOMAIN OpCode : OpCode[i] = name) - 1]

Nil == [type |-> "nil"]
Bool(b) == [type |-> "bool", bool |-> b]
Number(n) == [type |-> "number", number |-> n]
String(s) == [type |-> "string", chars |-> s]

-----------------------------------------------------------------------------
(* Writing. The capacity of the arrays is left to the memory manager. *)

initValueArray == <<>>

initChunk == [code |-> <<>>, constants |-> initValueArray]

writeChunk(chunk, byte) == [chunk EXCEPT !.code = Append(@, byte)]

writeValueArray(values, v) == Append(values, v)

\* addConstant returns the index of the last constant.
addConstant(chunk, v) == [chunk EXCEPT !.constants = writeValueArray(@, v)]
LastConstant(chunk) == Len(chunk.constants) - 1

-----------------------------------------------------------------------------
(* Reading. An offset counts bytes from 0. *)

ByteAt(chunk, offset) == chunk.code[offset + 1]
Constant(chunk, offset) == chunk.constants[ByteAt(chunk, offset) + 1]
ShortAt(chunk, offset) == ByteAt(chunk, offset) * UINT8_COUNT + ByteAt(chunk, offset + 1)

OpAt(chunk, offset) == OpCode[ByteAt(chunk, offset) + 1]

constantInstruction == {"CONSTANT", "CLASS", "METHOD", "SET_PROPERTY", "GET_PROPERTY", "GET_SUPER"}
invokeInstruction == {"INVOKE", "SUPER_INVOKE"}
byteInstruction == {"GET_LOCAL", "SET_LOCAL", "GET_GLOBAL", "DEFINE_GLOBAL", "SET_GLOBAL",
                    "GET_UPVALUE", "SET_UPVALUE", "CALL"}
jumpInstruction == {"JUMP", "JUMP_IF_FALSE", "LOOP"}

\* The offset of the instruction after the one at offset.
disassembleInstruction(chunk, offset) ==
  LET op == OpAt(chunk, offset)
  IN CASE op \in constantInstruction \cup byteInstruction -> offset + 2
       [] op \in invokeInstruction \cup jumpInstruction -> offset + 3
       [] op = "CLOSURE" -> offset + 2 + 2 * Constant(chunk, offset + 1).function.upvalueCount
       [] OTHER -> offset + 1

\* The offsets disassembleChunk prints an instruction at.
disassembleChunk(chunk) ==
  LET count == Len(chunk.code)
      starts[offset \in 0..count] ==
        IF offset = count THEN {}
        ELSE LET next == disassembleInstruction(chunk, offset)
             IN {offset} \cup IF next <= count THEN starts[next] ELSE {}
  IN starts[0]

JumpTarget(chunk, offset) ==
  offset + 3 + (IF OpAt(chunk, offset) = "LOOP" THEN -1 ELSE 1) * ShortAt(chunk, offset + 1)
=============================================================================
