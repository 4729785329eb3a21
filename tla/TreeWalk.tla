------------------------------ MODULE TreeWalk ------------------------------
(* The tree-walking interpreter of jlox, with its environments and runtime   *)
(* objects, on the trees the resolver leaves. The state of a run is a record *)
(* and each visit method an operator that returns the state after it, with   *)
(* the value of an expression in value. signal is "none", or what is thrown: *)
(* "return" with its value, or "error" (RuntimeError).                       *)
EXTENDS Resolver

\* Runtime values, as clox has them in Bytecode: objects by their number.
NilValue == [type |-> "nil"]
BoolValue(b) == [type |-> "bool", bool |-> b]
NumberValue(n) == [type |-> "number", number |-> n]
StringValue(s) == [type |-> "string", chars |-> s]
ObjectValue(i) == [type |-> "object", object |-> i]
Unwritten == [type |-> "unwritten"]

\* What the scanner makes of the lexeme of a literal.
LiteralValue(lexeme) ==
  CASE lexeme = "nil" -> NilValue
    [] lexeme \in {"true", "false"} -> BoolValue(lexeme = "true")
    [] lexeme \in {"'s'", "'t'"} -> StringValue(IF lexeme = "'s'" THEN <<"s">> ELSE <<"t">>)
    [] OTHER -> NumberValue(CASE lexeme = "0" -> 0 [] lexeme = "1" -> 1 [] lexeme = "2" -> 2
                              [] lexeme = "3" -> 3 [] lexeme = "4" -> 4 [] lexeme = "5" -> 5)

\* The globals hold the native clock.
NewInterpreter ==
  [environment |-> 1,
   environments |-> <<[enclosing |-> 0, values |-> [clock |-> ObjectValue(1)]]>>,
   objects |-> <<[kind |-> "native"]>>, output |-> <<>>, signal |-> "none", value |-> NilValue]

Throw(s, signal) == [s EXCEPT !.signal = signal]
Value(s, v) == [s EXCEPT !.value = v]

\* Then goes on with the next step unless something was thrown.
Then(s, Step(_)) == IF s.signal = "none" THEN Step(s) ELSE s

-----------------------------------------------------------------------------
(* Environments. *)

\* A new environment within another becomes the current one.
NewEnvironment(s, parent) ==
  [s EXCEPT !.environments = Append(@, [enclosing |-> parent, values |-> <<>>]),
            !.environment = Len(s.environments) + 1]

DefineIn(s, environment, name, v) ==
  [s EXCEPT !.environments[environment].values = (name :> v) @@ @]
defineValue(s, name, v) == DefineIn(s, s.environment, name, v)

RECURSIVE Ancestor(_, _, _)
Ancestor(s, environment, distance) ==
  IF distance = 0 THEN environment
  ELSE Ancestor(s, s.environments[environment].enclosing, distance - 1)
ancestor(s, distance) == s.environments[Ancestor(s, s.environment, distance)]

\* getAt reads the value of a variable whether or not it was written; a name
\* that is not there is a NullPointerException, and ends the run otherwise.
getAt(s, distance, name) ==
  LET values == ancestor(s, distance).values
  IN IF name \notin DOMAIN values THEN Throw(s, "crash")
     ELSE Value(s, IF values[name] = Unwritten THEN NilValue ELSE values[name])

assignAt(s, distance, name, v) == DefineIn(s, Ancestor(s, s.environment, distance), name, v)

\* The innermost environment that has a name, 0 if none.
RECURSIVE Holding(_, _, _)
Holding(s, environment, name) ==
  IF environment = 0 THEN 0
  ELSE IF name \in DOMAIN s.environments[environment].values THEN environment
  ELSE Holding(s, s.environments[environment].enclosing, name)

\* get and assign are only called on the globals, or by a class for its name.
get(s, environment, name) ==
  LET at == Holding(s, environment, name)
  IN IF at = 0 THEN Throw(s, "error")
     ELSE IF s.environments[at].values[name] = Unwritten THEN Throw(s, "error")
     ELSE Value(s, s.environments[at].values[name])
assign(s, environment, name, v) ==
  LET at == Holding(s, environment, name)
  IN IF at = 0 THEN Throw(s, "error") ELSE DefineIn(s, at, name, v)

lookupVariable(s, e) ==
  IF "distance" \in DOMAIN e /\ e.distance # Global THEN getAt(s, e.distance, e.name)
  ELSE get(s, 1, e.name)

-----------------------------------------------------------------------------
(* Runtime objects: functions, classes and instances. *)

NewObject(s, object) ==
  Value([s EXCEPT !.objects = Append(@, object)], ObjectValue(Len(s.objects) + 1))

Is(s, v, kind) == v.type = "object" /\ s.objects[v.object].kind = kind

LoxFunction(declaration, closure, isInitializer) ==
  [kind |-> "function", declaration |-> declaration, closure |-> closure, isInitializer |-> isInitializer]

\* bind: a new environment that holds this, and a function in it.
bind(s, f, instance) ==
  LET a == NewEnvironment(s, f.closure)
      b == defineValue(a, "this", instance)
  IN NewObject([b EXCEPT !.environment = s.environment], [f EXCEPT !.closure = a.environment])

\* The method of a class or of the nearest superclass that has it, 0 if none.
RECURSIVE findMethod(_, _, _)
findMethod(s, class, name) ==
  LET c == s.objects[class]
  IN IF name \in DOMAIN c.methods THEN c.methods[name]
     ELSE IF c.superclass # 0 THEN findMethod(s, c.superclass, name) ELSE 0

getProperty(s, v, name) ==
  LET instance == s.objects[v.object]
      method == findMethod(s, instance.class, name)
  IN IF name \in DOMAIN instance.fields THEN Value(s, instance.fields[name])
     ELSE IF method # 0 THEN bind(s, s.objects[method], v)
     ELSE Throw(s, "error")

RECURSIVE evaluate(_, _), execute(_, _), executeAll(_, _)

\* executeBlock restores the environment whatever is thrown.
executeBlock(s, statements, environment) ==
  [executeAll([s EXCEPT !.environment = environment], statements) EXCEPT !.environment = s.environment]

RECURSIVE DefineParameters(_, _, _)
DefineParameters(s, params, arguments) ==
  IF params = <<>> THEN s
  ELSE DefineParameters(defineValue(s, Head(params), Head(arguments)), Tail(params), Tail(arguments))

Returned(s, f) ==
  IF s.signal \notin {"none", "return"} THEN s
  ELSE [s EXCEPT !.signal = "none",
          !.value = IF f.isInitializer THEN s.environments[f.closure].values["this"]
                    ELSE IF s.signal = "return" THEN s.value ELSE NilValue]
callFunction(s, f, arguments) ==
  LET a == DefineParameters(NewEnvironment(s, f.closure), f.declaration.params, arguments)
  IN Returned(executeBlock([a EXCEPT !.environment = s.environment], f.declaration.body, a.environment), f)

arity(s, object) ==
  LET init == findMethod(s, object, "init")
  IN IF s.objects[object].kind = "function" THEN Len(s.objects[object].declaration.params)
     ELSE IF init = 0 THEN 0 ELSE Len(s.objects[init].declaration.params)

callClass(s, class, arguments) ==
  LET a == NewObject(s, [kind |-> "instance", class |-> class, fields |-> <<>>])
      init == findMethod(s, class, "init")
      b == bind(a, s.objects[init], a.value)
  IN IF init = 0 THEN a
     ELSE Then(callFunction(b, b.objects[b.value.object], arguments), LAMBDA t : Value(t, a.value))

-----------------------------------------------------------------------------
(* Expressions. *)

isTruthy(v) == v.type # "nil" /\ (v.type = "bool" => v.bool)

\* What stands for a value in a string it was added to.
Text(v) == IF v.type = "string" THEN v.chars ELSE <<v>>

\* Division is on doubles; the trees here divide exactly or not at all. "and",
\* of which the parser makes a binary node, is none of the cases: null.
visitBinary(s, op, left, right) ==
  LET numbers == left.type = "number" /\ right.type = "number"
      strings == left.type = "string" \/ right.type = "string"
  IN CASE op = "and" -> Value(s, NilValue)
       [] op = "==" -> Value(s, BoolValue(left = right))
       [] op = "!=" -> Value(s, BoolValue(left # right))
       [] op = "+" /\ strings -> Value(s, StringValue(Text(left) \o Text(right)))
       [] ~numbers \/ (op = "/" /\ right.number = 0) -> Throw(s, "error")
       [] OTHER ->
            LET a == left.number
                b == right.number
            IN Value(s, CASE op = "+" -> NumberValue(a + b) [] op = "-" -> NumberValue(a - b)
                          [] op = "*" -> NumberValue(a * b) [] op = "/" -> NumberValue(a \div b)
                          [] op = "<" -> BoolValue(a < b)   [] op = ">" -> BoolValue(a > b)
                          [] op = "<=" -> BoolValue(a <= b) [] op = ">=" -> BoolValue(a >= b))

visitUnary(s, op, right) ==
  IF op = "!" THEN Value(s, BoolValue(~isTruthy(right)))
  ELSE IF right.type = "number" THEN Value(s, NumberValue(-right.number))
  ELSE Throw(s, "error")

\* Of "==" and "!=" the parser makes logical nodes: as "and" would be here.
visitLogical(s, e) ==
  Then(evaluate(e.left, s), LAMBDA l :
    IF (e.op = "or") = isTruthy(l.value) THEN l ELSE evaluate(e.right, l))

visitAssignment(s, e) ==
  Then(evaluate(e.value, s), LAMBDA a :
    Value(IF "distance" \in DOMAIN e /\ e.distance # Global THEN assignAt(a, e.distance, e.name, a.value)
          ELSE assign(a, 1, e.name, a.value), a.value))

\* Arguments are evaluated in order: the state after them, and their values.
RECURSIVE evaluateAll(_, _, _)
Evaluated(s, es, done) == evaluateAll(s, es, Append(done, s.value))
evaluateAll(s, es, done) ==
  IF es = <<>> \/ s.signal # "none" THEN [s |-> s, values |-> done]
  ELSE Evaluated(evaluate(Head(es), s), Tail(es), done)

callCallable(s, callee, arguments) ==
  IF Is(s, callee, "native") THEN IF arguments = <<>> THEN Value(s, NumberValue(0)) ELSE Throw(s, "error")
  ELSE IF ~Is(s, callee, "function") /\ ~Is(s, callee, "class") THEN Throw(s, "error")
  ELSE IF Len(arguments) # arity(s, callee.object) THEN Throw(s, "error")
  ELSE IF Is(s, callee, "function") THEN callFunction(s, s.objects[callee.object], arguments)
  ELSE callClass(s, callee.object, arguments)

CallWith(callee, a) == Then(a.s, LAMBDA t : callCallable(t, callee, a.values))
visitCallExpr(s, e) ==
  Then(evaluate(e.callee, s), LAMBDA f : CallWith(f.value, evaluateAll(f, e.arguments, <<>>)))

visitGet(s, e) ==
  Then(evaluate(e.object, s), LAMBDA o :
    IF Is(o, o.value, "instance") THEN getProperty(o, o.value, e.name) ELSE Throw(o, "error"))

visitSet(s, e) ==
  Then(evaluate(e.object, s), LAMBDA o :
    IF ~Is(o, o.value, "instance") THEN Throw(o, "error")
    ELSE Then(evaluate(e.value, o), LAMBDA a :
           [a EXCEPT !.objects[o.value.object].fields = (e.name :> a.value) @@ @]))

visitSuperExpr(s, e) ==
  LET superclass == getAt(s, e.distance, "super").value
      object == getAt(s, e.distance - 1, "this").value
      method == findMethod(s, superclass.object, e.method)
  IN IF method = 0 THEN Throw(s, "error") ELSE bind(s, s.objects[method], object)

evaluate(e, s) ==
  CASE e.node = "literal" -> Value(s, LiteralValue(e.lexeme))
    [] e.node \in {"variable", "this"} -> lookupVariable(s, e)
    [] e.node = "assign" -> visitAssignment(s, e)
    [] e.node = "unary" -> Then(evaluate(e.right, s), LAMBDA r : visitUnary(r, e.op, r.value))
    [] e.node = "binary" ->
         Then(evaluate(e.left, s), LAMBDA l :
           Then(evaluate(e.right, l), LAMBDA r : visitBinary(r, e.op, l.value, r.value)))
    [] e.node = "logical" -> visitLogical(s, e)
    [] e.node = "grouping" -> evaluate(e.expression, s)
    [] e.node = "call" -> visitCallExpr(s, e)
    [] e.node = "get" -> visitGet(s, e)
    [] e.node = "set" -> visitSet(s, e)
    [] e.node = "super" -> visitSuperExpr(s, e)
    [] e.node = "lambda" ->
         NewObject(s, LoxFunction(Function("<function>", e.params, e.body), s.environment, FALSE))

-----------------------------------------------------------------------------
(* Statements. *)

\* What a value prints as.
stringify(s, v) ==
  IF v.type # "object" THEN v
  ELSE LET object == s.objects[v.object]
       IN CASE object.kind = "function" -> [fn |-> object.declaration.name]
            [] object.kind = "class" -> [class |-> object.name]
            [] object.kind = "instance" -> [instance |-> s.objects[object.class].name]

visitPrint(s, e) ==
  Then(evaluate(e, s), LAMBDA a : [a EXCEPT !.output = Append(@, stringify(a, a.value))])

visitVarStmt(s, t) ==
  IF t.initializer = None THEN defineValue(s, t.name, Unwritten)
  ELSE Then(evaluate(t.initializer, s), LAMBDA a : defineValue(a, t.name, a.value))

visitFunctionStmt(s, t) ==
  LET a == NewObject(s, LoxFunction(t, s.environment, FALSE)) IN defineValue(a, t.name, a.value)

RECURSIVE DefineMethods(_, _, _)
DefineMethods(s, ms, methods) ==
  IF ms = <<>> THEN [s |-> s, methods |-> methods]
  ELSE LET a == NewObject(s, LoxFunction(Head(ms), s.environment, Head(ms).name = "init"))
       IN DefineMethods(a, Tail(ms), (Head(ms).name :> a.value.object) @@ methods)

\* parent is the state, and the value if there is one, after the superclass.
DeclareClass(s, t, parent) ==
  LET subclass == t.superclass # None
      a == defineValue(parent, t.name, NilValue)
      b == IF subclass THEN defineValue(NewEnvironment(a, a.environment), "super", parent.value) ELSE a
      c == DefineMethods(b, t.methods, <<>>)
      d == NewObject([c.s EXCEPT !.environment = s.environment],
             [kind |-> "class", name |-> t.name, methods |-> c.methods,
              superclass |-> IF subclass THEN parent.value.object ELSE 0])
  IN IF subclass /\ ~Is(parent, parent.value, "class") THEN Throw(parent, "error")
     ELSE assign(d, s.environment, t.name, d.value)
visitClassStmt(s, t) ==
  Then(IF t.superclass = None THEN s ELSE evaluate(t.superclass, s), LAMBDA p : DeclareClass(s, t, p))

visitReturnStmt(s, e) ==
  Then(IF e = None THEN Value(s, NilValue) ELSE evaluate(e, s), LAMBDA t : Throw(t, "return"))

visitIfStmt(s, t) ==
  Then(evaluate(t.condition, s), LAMBDA a :
    IF isTruthy(a.value) THEN execute(t.then, a)
    ELSE IF t.else = None THEN a ELSE execute(t.else, a))

RECURSIVE visitWhile(_, _)
visitWhile(s, t) ==
  Then(evaluate(t.condition, s), LAMBDA a :
    IF isTruthy(a.value) THEN Then(execute(t.body, a), LAMBDA b : visitWhile(b, t)) ELSE a)

execute(t, s) ==
  CASE t.node = "print" -> visitPrint(s, t.expression)
    [] t.node = "expression" -> evaluate(t.expression, s)
    [] t.node = "var" -> visitVarStmt(s, t)
    [] t.node = "block" -> LET a == NewEnvironment(s, s.environment)
                           IN executeBlock([a EXCEPT !.environment = s.environment], t.statements, a.environment)
    [] t.node = "if" -> visitIfStmt(s, t)
    [] t.node = "while" -> visitWhile(s, t)
    [] t.node = "function" -> visitFunctionStmt(s, t)
    [] t.node = "return" -> visitReturnStmt(s, t.value)
    [] t.node = "class" -> visitClassStmt(s, t)

executeAll(s, ts) ==
  IF ts = <<>> \/ s.signal # "none" THEN s ELSE executeAll(execute(Head(ts), s), Tail(ts))

\* run: the output after one more source, and how it ended; what the resolver
\* rejects is not interpreted. The prompt keeps the interpreter from line to line.
Line(s, result) == [s |-> s, line |-> [output |-> s.output, result |-> result]]
Ran(s) == Line(s, IF s.signal = "none" THEN "OK" ELSE "RUNTIME_ERROR")
Execute(s, resolved) ==
  IF resolved.r.hadError THEN Line(s, "COMPILE_ERROR")
  ELSE Ran(executeAll([s EXCEPT !.signal = "none"], resolved.tree))
run(s, program) == Execute(s, resolveAll(NewResolver, program))

RECURSIVE runPrompt(_, _)
Go(r, programs) == <<r.line>> \o runPrompt(r.s, programs)
runPrompt(s, programs) ==
  IF programs = <<>> THEN <<>> ELSE Go(run(s, Head(programs)), Tail(programs))

interpret(programs) == runPrompt(NewInterpreter, programs)
=============================================================================
