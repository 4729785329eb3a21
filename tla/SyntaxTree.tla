----------------------------- MODULE SyntaxTree -----------------------------
(* The syntax trees of jlox (Expr.java, Stmt.java), what its parser makes of *)
(* an operator, and the tokens a tree is written with under the grammar of   *)
(* that parser, with no more parentheses than the grammar needs.             *)
EXTENDS Integers, Sequences

Literal(lexeme) == [node |-> "literal", lexeme |-> lexeme]
Variable(name) == [node |-> "variable", name |-> name]
Assign(name, value) == [node |-> "assign", name |-> name, value |-> value]
Unary(op, right) == [node |-> "unary", op |-> op, right |-> right]
Binary(left, op, right) == [node |-> "binary", left |-> left, op |-> op, right |-> right]
Logical(left, op, right) == [node |-> "logical", left |-> left, op |-> op, right |-> right]
Grouping(e) == [node |-> "grouping", expression |-> e]
Call(callee, arguments) == [node |-> "call", callee |-> callee, arguments |-> arguments]
Get(object, name) == [node |-> "get", object |-> object, name |-> name]
SetField(object, name, value) == [node |-> "set", object |-> object, name |-> name, value |-> value]
This == [node |-> "this", name |-> "this"]
Super(method) == [node |-> "super", name |-> "super", method |-> method]
Lambda(params, body) == [node |-> "lambda", params |-> params, body |-> body]

None == [node |-> "none"]
PrintStmt(e) == [node |-> "print", expression |-> e]
ExpressionStmt(e) == [node |-> "expression", expression |-> e]
Var(name, initializer) == [node |-> "var", name |-> name, initializer |-> initializer]
Block(statements) == [node |-> "block", statements |-> statements]
If(condition, then, else) == [node |-> "if", condition |-> condition, then |-> then, else |-> else]
While(condition, body) == [node |-> "while", condition |-> condition, body |-> body]
For(initializer, condition, increment, body) ==
  [node |-> "for", initializer |-> initializer, condition |-> condition,
   increment |-> increment, body |-> body]
Function(name, params, body) == [node |-> "function", name |-> name, params |-> params, body |-> body]
Return(value) == [node |-> "return", value |-> value]
Class(name, superclass, methods) ==
  [node |-> "class", name |-> name, superclass |-> superclass, methods |-> methods]

-----------------------------------------------------------------------------
(* The level of an expression in the grammar, and its tokens where an        *)
(* expression of level at least min is expected.                             *)

\* In jlox "or" binds tighter than "and": the method or() is for "and", whose
\* operands and() parses, and and() is for "or".
OperatorLevel(op) ==
  CASE op = "and" -> 2 [] op = "or" -> 3
    [] op \in {"==", "!="} -> 4 [] op \in {"<", "<=", ">", ">="} -> 5
    [] op \in {"+", "-"} -> 6 [] op \in {"*", "/"} -> 7

\* The node that the method of an operator's level builds.
Infix(left, op, right) ==
  IF op \in {"or", "==", "!="} THEN Logical(left, op, right) ELSE Binary(left, op, right)

Level(e) ==
  CASE e.node \in {"assign", "set"} -> 1
    [] e.node \in {"binary", "logical"} -> OperatorLevel(e.op)
    [] e.node = "unary" -> 8
    [] e.node \in {"call", "get"} -> 9
    [] OTHER -> 10

RECURSIVE Joined(_)
Joined(names) == IF Len(names) <= 1 THEN names ELSE <<Head(names), ",">> \o Joined(Tail(names))

RECURSIVE Tokens(_, _), TokenList(_), StatementTokens(_), StatementsTokens(_)
FunctionTokens(f) == <<f.name, "(">> \o Joined(f.params) \o <<")", "{">> \o StatementsTokens(f.body) \o <<"}">>

Tokens(e, min) ==
  LET l == Level(e)
      bare ==
        CASE e.node = "literal" -> <<e.lexeme>>
          [] e.node \in {"variable", "this"} -> <<e.name>>
          [] e.node = "assign" -> <<e.name, "=">> \o Tokens(e.value, 1)
          [] e.node = "unary" -> <<e.op>> \o Tokens(e.right, 8)
          [] e.node \in {"binary", "logical"} -> Tokens(e.left, l) \o <<e.op>> \o Tokens(e.right, l + 1)
          [] e.node = "grouping" -> <<"(">> \o Tokens(e.expression, 1) \o <<")">>
          [] e.node = "call" -> Tokens(e.callee, 9) \o <<"(">> \o TokenList(e.arguments) \o <<")">>
          [] e.node = "get" -> Tokens(e.object, 9) \o <<".", e.name>>
          [] e.node = "set" -> Tokens(e.object, 9) \o <<".", e.name, "=">> \o Tokens(e.value, 1)
          [] e.node = "super" -> <<"super", ".", e.method>>
          [] e.node = "lambda" -> <<"fun">> \o Tail(FunctionTokens([name |-> "", params |-> e.params, body |-> e.body]))
  IN IF l < min THEN <<"(">> \o bare \o <<")">> ELSE bare

TokenList(es) ==
  IF es = <<>> THEN <<>>
  ELSE Tokens(Head(es), 1) \o (IF Len(es) = 1 THEN <<>> ELSE <<",">> \o TokenList(Tail(es)))

RECURSIVE MethodTokens(_)
MethodTokens(ms) == IF ms = <<>> THEN <<>> ELSE FunctionTokens(Head(ms)) \o MethodTokens(Tail(ms))

StatementTokens(s) ==
  CASE s.node = "none" -> <<>>
    [] s.node = "print" -> <<"print">> \o Tokens(s.expression, 1) \o <<";">>
    [] s.node = "expression" -> Tokens(s.expression, 1) \o <<";">>
    [] s.node = "var" ->
         <<"var", s.name>> \o (IF s.initializer = None THEN <<>> ELSE <<"=">> \o Tokens(s.initializer, 1)) \o <<";">>
    [] s.node = "block" -> <<"{">> \o StatementsTokens(s.statements) \o <<"}">>
    [] s.node = "if" ->
         <<"if", "(">> \o Tokens(s.condition, 1) \o <<")">> \o StatementTokens(s.then)
           \o (IF s.else = None THEN <<>> ELSE <<"else">> \o StatementTokens(s.else))
    [] s.node = "while" -> <<"while", "(">> \o Tokens(s.condition, 1) \o <<")">> \o StatementTokens(s.body)
    [] s.node = "for" ->
         <<"for", "(">> \o (IF s.initializer = None THEN <<";">> ELSE StatementTokens(s.initializer))
           \o (IF s.condition = None THEN <<>> ELSE Tokens(s.condition, 1)) \o <<";">>
           \o (IF s.increment = None THEN <<>> ELSE Tokens(s.increment, 1)) \o <<")">> \o StatementTokens(s.body)
    [] s.node = "function" -> <<"fun">> \o FunctionTokens(s)
    [] s.node = "return" ->
         <<"return">> \o (IF s.value = None THEN <<>> ELSE Tokens(s.value, 1)) \o <<";">>
    [] s.node = "class" ->
         <<"class", s.name>> \o (IF s.superclass = None THEN <<>> ELSE <<"<", s.superclass.name>>)
           \o <<"{">> \o MethodTokens(s.methods) \o <<"}">>

StatementsTokens(ss) ==
  IF ss = <<>> THEN <<>> ELSE StatementTokens(Head(ss)) \o StatementsTokens(Tail(ss))
=============================================================================
