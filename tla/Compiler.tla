------------------------------ MODULE Compiler ------------------------------
(* The single-pass compiler of clox. The state of a compilation is a record, *)
(* and each function of compiler.c is an operator that returns the state     *)
(* after it. A program is a sequence of lexemes; a lexeme that is not a      *)
(* number, a string, a keyword or punctuation is an identifier.              *)
EXTENDS Bytecode

Numerals == [t \in {"0", "1", "2", "3", "4", "5"} |->
               CASE t = "0" -> 0 [] t = "1" -> 1 [] t = "2" -> 2
                 [] t = "3" -> 3 [] t = "4" -> 4 [] t = "5" -> 5]
Quoted == [t \in {"'s'", "'t'", "''"} |->
             CASE t = "'s'" -> <<"s">> [] t = "'t'" -> <<"t">> [] t = "''" -> <<>>]

Punctuation == {"(", ")", "{", "}", ",", ".", "-", "+", ";", "/", "*", "!", "!=",
                "=", "==", ">", ">=", "<", "<="}
Keywords == {"and", "class", "else", "false", "for", "fun", "if", "nil", "or", "print",
             "return", "super", "this", "true", "var", "const", "while"}

TokenType(t) == IF t \in DOMAIN Numerals THEN "number"
                ELSE IF t \in DOMAIN Quoted THEN "string"
                ELSE IF t \in Punctuation \cup Keywords \cup {"EOF", "ERROR"} THEN t
                ELSE "identifier"

\* The ways an uninitialised part of the Compiler record may read: the state of
\* a global of an earlier line, and the class context outside any class.
Uninitialized == [state : {"UNINITIALIZED", "READABLE", "WRITEABLE"},
            classContext : {"NULL", "class", "subclass"}]

-----------------------------------------------------------------------------
(* Tokens and errors. panicMode is never set, so an error is never silent    *)
(* and synchronize never runs.                                               *)

error(c) == [c EXCEPT !.hadError = TRUE]

RECURSIVE scan(_)
scan(c) ==
  IF c.rest = <<>> THEN [c EXCEPT !.current = "EOF"]
  ELSE LET d == [c EXCEPT !.current = Head(c.rest), !.rest = Tail(c.rest)]
       IN IF d.current = "ERROR" THEN scan(error(d)) ELSE d

advance(c) == scan([c EXCEPT !.previous = c.current])

check(c, type) == TokenType(c.current) = type

consume(c, type) == IF check(c, type) THEN advance(c) ELSE error(c)

\* match is check and, in the branch taken, advance.

-----------------------------------------------------------------------------
(* The contexts of the functions being compiled, innermost last. *)

Top(c) == c.contexts[Len(c.contexts)]

Local(name, depth, state) == [name |-> name, depth |-> depth, isCaptured |-> FALSE, state |-> state]

initCompilationContext(name, type) ==
  [type |-> type, name |-> name, arity |-> 0, chunk |-> initChunk,
   locals |-> <<IF type # "FUNCTION" THEN Local("this", 0, "READABLE")
                                     ELSE Local("", 0, "UNINITIALIZED")>>,
   upvalues |-> <<>>, scopeDepth |-> 0]

Count(c) == Len(Top(c).chunk.code)

emitByte(c, byte) == [c EXCEPT !.contexts[Len(c.contexts)].chunk = writeChunk(@, byte)]
emitBytes(c, byte1, byte2) == emitByte(emitByte(c, byte1), byte2)
emitOp(c, op) == emitByte(c, Op[op])

emitShort(c, n) == emitBytes(c, (n \div UINT8_COUNT) % UINT8_COUNT, n % UINT8_COUNT)

emitLoop(c, loopStart) ==
  LET d == emitOp(c, "LOOP")
      offset == Count(d) - loopStart + 2
  IN emitShort(IF offset > UINT16_MAX THEN error(d) ELSE d, offset)

\* The offset emitJump returns is Operand of the state it leaves.
emitJump(c, op) == emitBytes(emitOp(c, op), UINT8_MAX, UINT8_MAX)
Operand(c) == Count(c) - 2

\* Mutant: a jump that is too long is not an error.
PatchJumpUnchecked(c, offset) ==
  LET jump == Count(c) - offset - 2
      code == [Top(c).chunk.code EXCEPT ![offset + 1] = (jump \div UINT8_COUNT) % UINT8_COUNT,
                                        ![offset + 2] = jump % UINT8_COUNT]
  IN [c EXCEPT !.contexts[Len(c.contexts)].chunk.code = code]

patchJump(c, offset) ==
  LET jump == Count(c) - offset - 2
      d == IF jump > UINT16_MAX THEN error(c) ELSE c
      code == [Top(c).chunk.code EXCEPT ![offset + 1] = (jump \div UINT8_COUNT) % UINT8_COUNT,
                                        ![offset + 2] = jump % UINT8_COUNT]
  IN [d EXCEPT !.contexts[Len(c.contexts)].chunk.code = code]

\* makeConstant: the state after it, and the index it returns.
makeConstant(c, v) ==
  LET d == [c EXCEPT !.contexts[Len(c.contexts)].chunk = addConstant(@, v)]
  IN IF LastConstant(Top(d).chunk) > UINT8_MAX THEN error(d) ELSE d
MadeConstant(c) ==
  LET i == LastConstant(Top(c).chunk) IN IF i > UINT8_MAX THEN 0 ELSE i

emitConstant(c, v) ==
  LET d == makeConstant(c, v) IN emitBytes(d, Op["CONSTANT"], MadeConstant(d))

emitReturn(c) ==
  emitOp(IF Top(c).type = "INITIALIZER" THEN emitBytes(c, Op["GET_LOCAL"], 0)
                                        ELSE emitOp(c, "NIL"), "RETURN")

-----------------------------------------------------------------------------
(* Variables. A slot counts from 0, a local's place in its sequence from 1.  *)

isGlobalScope(c) == Top(c).scopeDepth = 0

beginScope(c) == [c EXCEPT !.contexts[Len(c.contexts)].scopeDepth = @ + 1]

RECURSIVE popLocals(_)
popLocals(c) ==
  LET locals == Top(c).locals
      last == locals[Len(locals)]
      d == [c EXCEPT !.contexts[Len(c.contexts)].locals = SubSeq(locals, 1, Len(locals) - 1)]
  IN IF locals = <<>> THEN c
     ELSE IF last.depth <= Top(c).scopeDepth THEN c
     ELSE popLocals(emitOp(d, IF last.isCaptured THEN "CLOSE_UPVALUE" ELSE "POP"))
endScope(c) == popLocals([c EXCEPT !.contexts[Len(c.contexts)].scopeDepth = @ - 1])

addLocal(c, name) ==
  IF Len(Top(c).locals) = UINT8_COUNT THEN error(c)
  ELSE [c EXCEPT !.contexts[Len(c.contexts)].locals =
          Append(@, Local(name, Top(c).scopeDepth, "UNINITIALIZED"))]

declareVariable(c) ==
  LET twice == \E i \in DOMAIN Top(c).locals :
                 /\ Top(c).locals[i].depth >= Top(c).scopeDepth
                 /\ Top(c).locals[i].name = c.previous
  IN IF isGlobalScope(c) THEN c
     ELSE addLocal(IF twice THEN error(c) ELSE c, c.previous)

identifierConstant(c) == makeConstant(c, String(c.previous))

\* globals.count is a byte; the slot given is its value before the call. The
\* name is read back from the constant, whatever that constant is.
computeGlobalSlot(c, constant) ==
  LET slot == c.globals.count
      v == Top(c).chunk.constants[constant + 1]
      name == IF v.type = "string" THEN v.chars ELSE "not a string"
  IN [c EXCEPT !.globals.count = (slot + 1) % UINT8_COUNT,
               !.globals.values = (slot :> Nil) @@ @,
               !.globals.identifiers = (slot :> name) @@ @,
               !.globals.names = (name :> slot) @@ @,
               !.globalStates = (slot :> "READABLE") @@ @]

\* The slot parseVariable returns is SlotOf of the state before it.
parseVariable(c) ==
  LET d == declareVariable(consume(c, "identifier"))
      e == identifierConstant(d)
  IN IF isGlobalScope(d) THEN computeGlobalSlot(e, MadeConstant(e)) ELSE d
SlotOf(c) == IF isGlobalScope(c) THEN c.globals.count ELSE 0

markInitialized(c, state) ==
  IF isGlobalScope(c) THEN c
  ELSE [c EXCEPT !.contexts[Len(c.contexts)].locals[Len(Top(c).locals)].state = state]

defineVariable(c, global, state) ==
  IF isGlobalScope(c)
  THEN emitBytes([c EXCEPT !.globalStates = (global :> state) @@ @], Op["DEFINE_GLOBAL"], global)
  ELSE markInitialized(c, state)

\* resolveLocal returns the last local of that name, 0 here when there is none.
resolveLocal(context, name) ==
  LET found == {i \in DOMAIN context.locals : context.locals[i].name = name}
  IN IF found = {} THEN 0 ELSE CHOOSE i \in found : \A j \in found : j <= i

UninitializedError(c, context, i) ==
  IF context.locals[i].state = "UNINITIALIZED" THEN error(c) ELSE c

\* A variable found: the state after the search, the operand, the VarState.
Found(c, arg, state) == [c |-> c, arg |-> arg, state |-> state]

addUpvalue(c, level, index, isLocal, state) ==
  LET upvalues == c.contexts[level].upvalues
      same == {i \in DOMAIN upvalues : upvalues[i].index = index /\ upvalues[i].isLocal = isLocal}
      new == [index |-> index, isLocal |-> isLocal, state |-> state]
  IN IF same # {} THEN LET i == CHOOSE i \in same : TRUE IN Found(c, i - 1, upvalues[i].state)
     ELSE IF Len(upvalues) = UINT8_COUNT THEN Found(error(c), 0, upvalues[1].state)
     ELSE Found([c EXCEPT !.contexts[level].upvalues = Append(upvalues, new)], Len(upvalues), state)

\* Search the contexts that enclose the one at level; arg is -1 when not found.
RECURSIVE resolveUpvalue(_, _, _)
resolveUpvalue(c, level, name) ==
  IF level = 1 THEN Found(c, -1, "")
  ELSE LET enclosing == c.contexts[level - 1]
           i == resolveLocal(enclosing, name)
           captured == [c EXCEPT !.contexts[level - 1].locals[i].isCaptured = TRUE]
           outer == resolveUpvalue(c, level - 1, name)
       IN IF i # 0 THEN addUpvalue(UninitializedError(captured, enclosing, i), level, i - 1,
                                   TRUE, enclosing.locals[i].state)
          ELSE IF outer.arg # -1 THEN addUpvalue(outer.c, level, outer.arg, FALSE, outer.state)
          ELSE outer

RECURSIVE expression(_), statement(_), declaration(_), parsePrecedence(_, _)

AssignOnce(c, state) == IF state = "READABLE" THEN error(c) ELSE c

Access(found, kind, canAssign) ==
  IF canAssign /\ check(found.c, "=")
  THEN emitBytes(expression(AssignOnce(advance(found.c), found.state)), Op["SET_" \o kind], found.arg)
  ELSE emitBytes(found.c, Op["GET_" \o kind], found.arg)

namedVariable(c, name, canAssign) ==
  LET i == resolveLocal(Top(c), name)
      upvalue == resolveUpvalue(c, Len(c.contexts), name)
      slot == c.globals.names[name]
      state == IF slot \in DOMAIN c.globalStates THEN c.globalStates[slot] ELSE c.garbage.state
      local == Found(UninitializedError(c, Top(c), i), i - 1, Top(c).locals[i].state)
      kind == IF i # 0 THEN "LOCAL" ELSE IF upvalue.arg # -1 THEN "UPVALUE" ELSE "GLOBAL"
  IN IF kind = "GLOBAL" /\ name \notin DOMAIN c.globals.names THEN error(c)
     ELSE Access(CASE kind = "LOCAL" -> local
                   [] kind = "UPVALUE" -> upvalue
                   [] kind = "GLOBAL" -> Found(c, slot, state), kind, canAssign)

-----------------------------------------------------------------------------
(* Expressions. *)

Precedence == <<"NONE", "ASSIGNMENT", "OR", "AND", "EQUALITY", "COMPARISON", "TERM",
                "FACTOR", "UNARY", "CALL", "PRIMARY">>
Prec == [p \in {Precedence[i] : i \in DOMAIN Precedence} |->
           (CHOOSE i \in DOMAIN Precedence : Precedence[i] = p) - 1]

\* The third column of rules, and the tokens with a prefix rule.
RulePrecedence(type) ==
  Prec[CASE type \in {"(", "."} -> "CALL"
         [] type \in {"-", "+"} -> "TERM"
         [] type \in {"/", "*"} -> "FACTOR"
         [] type \in {"!=", "==", ">", ">=", "<", "<="} -> "EQUALITY"
         [] type = "and" -> "AND"
         [] type = "or" -> "OR"
         [] OTHER -> "NONE"]
PrefixTokens == {"(", "-", "!", "identifier", "string", "number", "false", "nil", "super",
                 "this", "true"}

grouping(c) == consume(expression(c), ")")

unary(c) == emitOp(parsePrecedence(c, Prec["UNARY"]), IF c.previous = "!" THEN "NOT" ELSE "NEGATE")

\* The instructions of a binary operator.
BinaryOps == [t \in {"+", "-", "*", "/", "!=", "==", "<", ">", "<=", ">="} |->
  CASE t = "+" -> <<"ADD">>      [] t = "-" -> <<"SUBTRACT">>
    [] t = "*" -> <<"MULTIPLY">> [] t = "/" -> <<"DIVIDE">>
    [] t = "!=" -> <<"EQUAL", "NOT">> [] t = "==" -> <<"EQUAL">>
    [] t = "<" -> <<"LESS">>     [] t = ">" -> <<"GREATER">>
    [] t = "<=" -> <<"GREATER", "NOT">> [] t = ">=" -> <<"LESS", "NOT">>]
binary(c) ==
  LET ops == BinaryOps[c.previous]
      Ended(d) == IF Len(ops) = 2 THEN emitOp(d, ops[2]) ELSE d
  IN Ended(emitOp(parsePrecedence(c, RulePrecedence(c.previous) + 1), ops[1]))

\* The arguments, counted in a byte: [c, argCount].
Counted(c, argCount) ==
  [c |-> IF argCount = UINT8_MAX THEN error(c) ELSE c, argCount |-> (argCount + 1) % UINT8_COUNT]

RECURSIVE arguments(_)
moreArguments(r) == IF check(r.c, ",") THEN arguments([r EXCEPT !.c = advance(r.c)]) ELSE r
arguments(r) == moreArguments(Counted(expression(r.c), r.argCount))

argumentList(c) ==
  LET Closed(r) == [r EXCEPT !.c = consume(r.c, ")")]
      none == [c |-> c, argCount |-> 0]
  IN Closed(IF check(c, ")") THEN none ELSE arguments(none))

emitCall(r) == emitBytes(r.c, Op["CALL"], r.argCount)
call(c) == emitCall(argumentList(c))

\* dot is only called as an infix rule, with canAssign true.
emitInvoke(r, name) == emitByte(emitBytes(r.c, Op["INVOKE"], name), r.argCount)
property(c, name) ==
  IF check(c, "=") THEN emitBytes(expression(advance(c)), Op["SET_PROPERTY"], name)
  ELSE IF check(c, "(") THEN emitInvoke(argumentList(advance(c)), name)
  ELSE emitBytes(c, Op["GET_PROPERTY"], name)
dot(c) ==
  LET d == identifierConstant(consume(c, "identifier")) IN property(d, MadeConstant(d))

literal(c) == emitOp(c, CASE c.previous = "nil" -> "NIL" [] c.previous = "true" -> "TRUE"
                          [] c.previous = "false" -> "FALSE")

variable(c, canAssign) == namedVariable(c, c.previous, canAssign)

\* compiler->classContext is NULL, or points at the class being compiled.
InClass(c) == c.classes # <<>> \/ c.garbage.classContext # "NULL"
HasSuperclass(c) == IF c.classes # <<>> THEN c.classes[Len(c.classes)]
                    ELSE c.garbage.classContext = "subclass"

\* The argument list, if there is one, is compiled before the superclass.
superInvoke(r, name) ==
  emitByte(emitBytes(namedVariable(r.c, "super", FALSE), Op["SUPER_INVOKE"], name), r.argCount)
superProperty(c, name) ==
  IF check(c, "(") THEN superInvoke(argumentList(advance(c)), name)
  ELSE emitBytes(namedVariable(c, "super", FALSE), Op["GET_SUPER"], name)
super_(c) ==
  LET checked == IF InClass(c) /\ HasSuperclass(c) THEN c ELSE error(c)
      d == identifierConstant(consume(consume(checked, "."), "identifier"))
  IN superProperty(namedVariable(d, "this", FALSE), MadeConstant(d))

this_(c) == IF InClass(c) THEN variable(c, FALSE) ELSE error(c)

and_(c) ==
  LET d == emitJump(c, "JUMP_IF_FALSE")
  IN patchJump(parsePrecedence(emitOp(d, "POP"), Prec["AND"]), Operand(d))

or_(c) ==
  LET d == emitJump(c, "JUMP_IF_FALSE")
      e == emitJump(d, "JUMP")
      f == emitOp(patchJump(e, Operand(d)), "POP")
  IN patchJump(parsePrecedence(f, Prec["OR"]), Operand(e))

number(c) == emitConstant(c, Number(Numerals[c.previous]))
string(c) == emitConstant(c, String(Quoted[c.previous]))

prefixRule(c, canAssign) ==
  LET type == TokenType(c.previous)
  IN CASE type = "(" -> grouping(c)
       [] type \in {"-", "!"} -> unary(c)
       [] type = "identifier" -> variable(c, canAssign)
       [] type = "string" -> string(c)
       [] type = "number" -> number(c)
       [] type \in {"false", "nil", "true"} -> literal(c)
       [] type = "super" -> super_(c)
       [] type = "this" -> this_(c)

infixRule(c) ==
  CASE c.previous = "(" -> call(c)
    [] c.previous = "." -> dot(c)
    [] c.previous = "and" -> and_(c)
    [] c.previous = "or" -> or_(c)
    [] OTHER -> binary(c)

RECURSIVE infixRules(_, _)
infixRules(c, precedence) ==
  IF precedence <= RulePrecedence(TokenType(c.current))
  THEN infixRules(infixRule(advance(c)), precedence) ELSE c

parsePrecedence(c, precedence) ==
  LET d == advance(c)
      canAssign == precedence <= Prec["ASSIGNMENT"]
      Parsed(e) == IF canAssign /\ check(e, "=") THEN error(advance(e)) ELSE e
  IN IF TokenType(d.previous) \notin PrefixTokens THEN error(d)
     ELSE Parsed(infixRules(prefixRule(d, canAssign), precedence))

expression(c) == parsePrecedence(c, Prec["ASSIGNMENT"])

-----------------------------------------------------------------------------
(* Statements. *)

printStatement(c) == emitOp(consume(expression(c), ";"), "PRINT")

expressionStatement(c) == emitOp(consume(expression(c), ";"), "POP")

RECURSIVE block(_)
block(c) == IF check(c, "}") \/ check(c, "EOF") THEN consume(c, "}") ELSE block(declaration(c))

condition(c) == consume(expression(consume(c, "(")), ")")

whileBody(exit, loopStart) ==
  emitOp(patchJump(emitLoop(statement(emitOp(exit, "POP")), loopStart), Operand(exit)), "POP")
whileStatement(c) == whileBody(emitJump(condition(c), "JUMP_IF_FALSE"), Count(c))

\* The type of a token is compared with TYPE_SCRIPT (3), and is never equal to
\* it here: token 3 is a right brace.
returnStatement(c) ==
  LET d == IF check(c, "}") THEN error(c) ELSE c
      e == IF Top(d).type = "INITIALIZER" THEN error(d) ELSE d
  IN IF check(d, ";") THEN emitReturn(advance(d))
     ELSE emitOp(consume(expression(e), ";"), "RETURN")

initializer(c) == IF check(c, "=") THEN expression(advance(c)) ELSE emitOp(c, "NIL")
varDeclaration(c, state) ==
  defineVariable(consume(initializer(parseVariable(c)), ";"), SlotOf(c), state)

\* The three clauses of a for statement. loop is the local of its variable (-1
\* if none), start where the body jumps back to, exit the jump to patch (-1).
forInitializer(c) ==
  LET Declared(d) == [c |-> d, loop |-> Len(Top(d).locals) - 1]
  IN IF check(c, ";") THEN [c |-> consume(advance(c), ";"), loop |-> -1]
     ELSE IF check(c, "var") THEN Declared(varDeclaration(advance(c), "WRITEABLE"))
     ELSE [c |-> expressionStatement(c), loop |-> -1]

forCondition(c) ==
  LET Exit(d) == [c |-> emitOp(d, "POP"), exit |-> Operand(d)]
  IN IF check(c, ";") THEN [c |-> consume(advance(c), ";"), exit |-> -1]
     ELSE Exit(emitJump(consume(expression(c), ";"), "JUMP_IF_FALSE"))

forIncrement(c, loopStart) ==
  LET jump == emitJump(c, "JUMP")
      Back(d) == patchJump(emitLoop(d, loopStart), Operand(jump))
  IN IF check(c, ")") THEN [c |-> consume(advance(c), ")"), start |-> loopStart]
     ELSE [c |-> Back(consume(emitOp(expression(jump), "POP"), ")")), start |-> Count(jump)]

\* The body runs with a copy of the loop variable, copied back after it.
copyBack(c, inner, loop) ==
  endScope(emitOp(emitBytes(emitBytes(c, Op["GET_LOCAL"], inner), Op["SET_LOCAL"], loop), "POP"))
forBody(c, loop, name) ==
  LET copy == emitBytes(beginScope(c), Op["GET_LOCAL"], loop)
      d == markInitialized(addLocal(copy, name), "WRITEABLE")
  IN IF loop = -1 THEN statement(c) ELSE copyBack(statement(d), Len(Top(d).locals) - 1, loop)

forExit(c, exit) == endScope(IF exit = -1 THEN c ELSE emitOp(patchJump(c, exit), "POP"))
forLoop(init, exit, increment, name) ==
  forExit(emitLoop(forBody(increment.c, init.loop, name), increment.start), exit)
forClauses(init, cond, name) == forLoop(init, cond.exit, forIncrement(cond.c, Count(init.c)), name)
forStart(init, name) == forClauses(init, forCondition(init.c), name)
\* name is the token after "var", read before varDeclaration.
forStatement(c) ==
  LET open == consume(beginScope(c), "(") IN forStart(forInitializer(open), advance(open).current)

elseBranch(else, c) == patchJump(IF check(c, "else") THEN statement(advance(c)) ELSE c, Operand(else))
elseJump(then, else) == elseBranch(else, emitOp(patchJump(else, Operand(then)), "POP"))
thenBranch(then) == elseJump(then, emitJump(statement(emitOp(then, "POP")), "JUMP"))
ifStatement(c) == thenBranch(emitJump(condition(c), "JUMP_IF_FALSE"))

statement(c) ==
  LET d == advance(c)
  IN CASE check(c, "print") -> printStatement(d)
       [] check(c, "for") -> forStatement(d)
       [] check(c, "if") -> ifStatement(d)
       [] check(c, "return") -> returnStatement(d)
       [] check(c, "while") -> whileStatement(d)
       [] check(c, "{") -> endScope(block(beginScope(d)))
       [] OTHER -> expressionStatement(c)

-----------------------------------------------------------------------------
(* Functions and classes. *)

\* The function of a context, and the context popped.
endCompilation(c) ==
  LET context == Top(emitReturn(c))
  IN [c |-> [c EXCEPT !.contexts = SubSeq(@, 1, Len(@) - 1)],
      function |-> [name |-> context.name, arity |-> context.arity, chunk |-> context.chunk,
                    upvalueCount |-> Len(context.upvalues)],
      upvalues |-> context.upvalues]

RECURSIVE parameters(_)
parameters(c) ==
  LET d == [c EXCEPT !.contexts[Len(c.contexts)].arity = @ + 1]
      e == IF Top(d).arity > UINT8_MAX THEN error(d) ELSE d
      More(f) == IF check(f, ",") THEN parameters(advance(f)) ELSE f
  IN More(defineVariable(parseVariable(e), SlotOf(e), "READABLE"))

RECURSIVE emitUpvalues(_, _)
emitUpvalues(c, upvalues) ==
  IF upvalues = <<>> THEN c
  ELSE emitUpvalues(emitBytes(c, IF Head(upvalues).isLocal THEN 1 ELSE 0, Head(upvalues).index),
                    Tail(upvalues))

emitClosure(c) == emitBytes(c, Op["CLOSURE"], MadeConstant(c))
functionConstant(ended) ==
  emitUpvalues(emitClosure(makeConstant(ended.c, [type |-> "function", function |-> ended.function])),
               ended.upvalues)
function(c, type) ==
  LET new == initCompilationContext(c.previous, type)
      open == consume(beginScope([c EXCEPT !.contexts = Append(@, new)]), "(")
      d == IF check(open, ")") THEN open ELSE parameters(open)
  IN functionConstant(endCompilation(block(consume(consume(d, ")"), "{"))))

funDeclaration(c) ==
  defineVariable(function(markInitialized(parseVariable(c), "READABLE"), "FUNCTION"),
                 SlotOf(c), "WRITEABLE")

method(c) ==
  LET d == identifierConstant(consume(c, "identifier"))
  IN emitBytes(function(d, IF d.previous = "init" THEN "INITIALIZER" ELSE "METHOD"),
               Op["METHOD"], MadeConstant(d))

RECURSIVE methods(_)
methods(c) == IF check(c, "}") \/ check(c, "EOF") THEN c ELSE methods(method(c))

\* A global slot is taken whether or not the class is a global.
classHeader(c) ==
  LET d == consume(c, "identifier")
      e == declareVariable(identifierConstant(d))
      f == computeGlobalSlot(e, MadeConstant(e))
  IN defineVariable(emitBytes(f, Op["CLASS"], MadeConstant(e)), e.globals.count, "WRITEABLE")

inherit(c, className) ==
  LET d == IF c.previous = className THEN error(c) ELSE c
      e == [addLocal(beginScope(d), "super")
              EXCEPT !.classes[Len(c.classes)] = TRUE,
                     !.contexts[Len(c.contexts)].locals[1].state = "WRITEABLE"]
  IN emitOp(namedVariable(defineVariable(e, 0, "READABLE"), className, FALSE), "INHERIT")
superclass(c, className) ==
  IF check(c, "<") THEN inherit(variable(consume(advance(c), "identifier"), FALSE), className) ELSE c

\* The end of a class: the scope of "super", and the class context.
endClass(c) ==
  [IF HasSuperclass(c) THEN endScope(c) ELSE c EXCEPT !.classes = SubSeq(@, 1, Len(@) - 1)]
classBody(c, className) ==
  LET d == namedVariable(superclass([c EXCEPT !.classes = Append(@, FALSE)], className), className, FALSE)
  IN endClass(emitOp(consume(methods(consume(d, "{")), "}"), "POP"))
classDeclaration(c) == LET d == classHeader(c) IN classBody(d, d.previous)

declaration(c) ==
  LET d == advance(c)
  IN CASE check(c, "class") -> classDeclaration(d)
       [] check(c, "fun") -> funDeclaration(d)
       [] check(c, "var") -> varDeclaration(d, "WRITEABLE")
       [] check(c, "const") -> varDeclaration(d, "READABLE")
       [] OTHER -> statement(c)

RECURSIVE declarations(_)
declarations(c) == IF check(c, "EOF") THEN advance(c) ELSE declarations(declaration(c))

\* initCompiler clears the flags; classContext and globalStates stay garbage.
initCompiler(garbage) ==
  [current |-> "", previous |-> "", hadError |-> FALSE, classes |-> <<>>, globalStates |-> <<>>,
   garbage |-> garbage]

\* compile: the function, or no function after an error, and the globals.
compile(globals, source, garbage) ==
  LET script == <<initCompilationContext("script", "SCRIPT")>>
      c == [rest |-> source, contexts |-> script, globals |-> globals] @@ initCompiler(garbage)
      Ended(d) == [function |-> endCompilation(d).function, hadError |-> d.hadError, globals |-> d.globals]
  IN Ended(declarations(advance(c)))
=============================================================================
