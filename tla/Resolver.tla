------------------------------ MODULE Resolver ------------------------------
(* The resolver of jlox. Where the resolver tells the interpreter how many   *)
(* environments lie between a use of a variable and its declaration, the     *)
(* operators here return the tree with that distance in the node; a variable *)
(* found in no scope has no distance and is looked up in the globals.        *)
EXTENDS SyntaxTree, TLC, FiniteSets

Global == -1     \* the distance of a variable that has none

\* scopes is innermost last; function and class as FunctionType and ClassType.
NewResolver == [scopes |-> <<>>, function |-> "NONE", class |-> "NONE", hadError |-> FALSE]

Error(r, wrong) == IF wrong THEN [r EXCEPT !.hadError = TRUE] ELSE r

beginScope(r) == [r EXCEPT !.scopes = Append(@, <<>>)]
endScope(r) == [r EXCEPT !.scopes = SubSeq(@, 1, Len(@) - 1)]

Peek(r) == r.scopes[Len(r.scopes)]
Put(r, name, defined) ==
  IF r.scopes = <<>> THEN r
  ELSE [r EXCEPT !.scopes[Len(r.scopes)] = (name :> defined) @@ @]

declare(r, name) == Put(Error(r, r.scopes # <<>> /\ name \in DOMAIN Peek(r)), name, FALSE)
define(r, name) == Put(r, name, TRUE)

resolveLocal(r, name) ==
  LET holding == {i \in DOMAIN r.scopes : name \in DOMAIN r.scopes[i]}
  IN IF holding = {} THEN Global
     ELSE Len(r.scopes) - (CHOOSE i \in holding : \A j \in holding : j <= i)

\* A resolved tree, and the resolver after it.
Resolved(r, tree) == [tree |-> tree, r |-> r]
Located(r, e) == Resolved(r, e @@ [distance |-> resolveLocal(r, e.name)])

RECURSIVE resolve(_, _), resolveAll(_, _)

\* A node with one and with two children, resolved in order.
One(r, e, field) == LET a == resolve(r, e[field]) IN Resolved(a.r, [e EXCEPT ![field] = a.tree])
Two(r, e, first, second) == LET a == One(r, e, first) IN One(a.r, a.tree, second)

visitAssign(r, e) == LET a == One(r, e, "value") IN Located(a.r, a.tree)
visitCall(r, e) ==
  LET a == One(r, e, "callee")
      b == resolveAll(a.r, e.arguments)
  IN Resolved(b.r, [a.tree EXCEPT !.arguments = b.tree])
visitSuper(r, e) == Located(Error(r, r.class # "SUBCLASS"), e)
visitThis(r, e) == IF r.class = "NONE" THEN Resolved(Error(r, TRUE), e) ELSE Located(r, e)
visitVariable(r, e) ==
  LET uninitialized == r.scopes # <<>> /\ e.name \in DOMAIN Peek(r) /\ ~Peek(r)[e.name]
  IN Located(Error(r, uninitialized), e)

visitBlock(r, s) ==
  LET a == resolveAll(beginScope(r), s.statements)
  IN Resolved(endScope(a.r), [s EXCEPT !.statements = a.tree])

RECURSIVE Parameters(_, _)
Parameters(r, params) ==
  IF params = <<>> THEN r ELSE Parameters(define(declare(r, Head(params)), Head(params)), Tail(params))

resolveFunction(r, f, type) ==
  LET a == resolveAll(Parameters(beginScope([r EXCEPT !.function = type]), f.params), f.body)
  IN Resolved([endScope(a.r) EXCEPT !.function = r.function], [f EXCEPT !.body = a.tree])

visitFunction(r, s) == resolveFunction(define(declare(r, s.name), s.name), s, "FUNCTION")

RECURSIVE resolveMethods(_, _)
resolveMethods(r, ms) ==
  IF ms = <<>> THEN Resolved(r, <<>>)
  ELSE LET a == resolveFunction(r, Head(ms), IF Head(ms).name = "init" THEN "INITIALIZER" ELSE "METHOD")
           b == resolveMethods(a.r, Tail(ms))
       IN Resolved(b.r, <<a.tree>> \o b.tree)

visitClass(r, s) ==
  LET named == [define(declare(r, s.name), s.name) EXCEPT !.class = "CLASS"]
      parent == resolve(Error([named EXCEPT !.class = "SUBCLASS"], s.superclass.name = s.name), s.superclass)
      subclass == s.superclass # None
      outer == IF subclass THEN define(beginScope(parent.r), "super") ELSE named
      a == resolveMethods(define(beginScope(outer), "this"), s.methods)
      inner == endScope(a.r)
  IN Resolved([IF subclass THEN endScope(inner) ELSE inner EXCEPT !.class = r.class],
              [s EXCEPT !.superclass = IF subclass THEN parent.tree ELSE None, !.methods = a.tree])

visitReturn(r, s) ==
  LET a == Error(r, r.function = "NONE")
  IN IF s.value = None THEN Resolved(a, s)
     ELSE One(Error(a, r.function = "INITIALIZER"), s, "value")

visitVar(r, s) ==
  LET a == declare(r, s.name)
      b == IF s.initializer = None THEN Resolved(a, s) ELSE One(a, s, "initializer")
  IN Resolved(define(b.r, s.name), b.tree)

visitIf(r, s) ==
  LET a == Two(r, s, "condition", "then")
  IN IF s.else = None THEN a ELSE One(a.r, a.tree, "else")

\* The parser turns a for statement into a while statement in a block.
desugar(s) ==
  LET body == IF s.increment = None THEN s.body ELSE Block(<<s.body, ExpressionStmt(s.increment)>>)
      loop == While(IF s.condition = None THEN Literal("true") ELSE s.condition, body)
  IN IF s.initializer = None THEN loop ELSE Block(<<s.initializer, loop>>)

\* Nothing in a lambda is resolved.
resolve(r, t) ==
  CASE t.node \in {"literal", "lambda"} -> Resolved(r, t)
    [] t.node = "assign" -> visitAssign(r, t)
    [] t.node \in {"binary", "logical"} -> Two(r, t, "left", "right")
    [] t.node = "unary" -> One(r, t, "right")
    [] t.node = "call" -> visitCall(r, t)
    [] t.node = "get" -> One(r, t, "object")
    [] t.node = "grouping" -> One(r, t, "expression")
    [] t.node = "set" -> Two(r, t, "value", "object")
    [] t.node = "super" -> visitSuper(r, t)
    [] t.node = "this" -> visitThis(r, t)
    [] t.node = "variable" -> visitVariable(r, t)
    [] t.node = "block" -> visitBlock(r, t)
    [] t.node = "class" -> visitClass(r, t)
    [] t.node \in {"expression", "print"} -> One(r, t, "expression")
    [] t.node = "function" -> visitFunction(r, t)
    [] t.node = "if" -> visitIf(r, t)
    [] t.node = "return" -> visitReturn(r, t)
    [] t.node = "var" -> visitVar(r, t)
    [] t.node = "while" -> Two(r, t, "condition", "body")
    [] t.node = "for" -> resolve(r, desugar(t))

resolveAll(r, ts) ==
  IF ts = <<>> THEN Resolved(r, <<>>)
  ELSE LET a == resolve(r, Head(ts))
           b == resolveAll(a.r, Tail(ts))
       IN Resolved(b.r, <<a.tree>> \o b.tree)
=============================================================================
