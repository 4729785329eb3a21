------------------------------ MODULE Programs ------------------------------
(* Families of Lox programs, as syntax trees. Every program uses only what   *)
(* clox and jlox both accept and both mean to treat alike, and all but those *)
(* of OperatorPrograms are the trees that the parser of jlox makes of their  *)
(* tokens: they do without "==", "!=" and "and", of which it makes nodes     *)
(* that its interpreter takes for something else.                            *)
EXTENDS SyntaxTree

N(n) == Literal(n)
V(name) == Variable(name)
Do(e) == ExpressionStmt(e)
Plus(a, b) == Infix(a, "+", b)
Less(a, b) == Infix(a, "<", b)
Either(a, b) == Infix(a, "or", b)
Set(name, e) == Do(Assign(name, e))
PlusOne(name) == Assign(name, Plus(V(name), N("1")))
Incr(name) == Do(PlusOne(name))
Run(callee, arguments) == Call(callee, arguments)
Run0(name) == Run(V(name), <<>>)
Method(object, name, arguments) == Call(Get(object, name), arguments)

-----------------------------------------------------------------------------
(* Expressions of two operators over leaves that are falsey, truthy, a       *)
(* number or a string; only strings are added to strings.                   *)

Leaf == {N("1"), N("2"), N("nil")}
Quotes == {N("'s'"), N("'t'")}
BinaryOf(lefts, ops, rights) == {Infix(l, op, r) : l \in lefts, op \in ops, r \in rights}
EitherOf(lefts, rights) == BinaryOf(lefts, {"or"}, rights)
UnaryOf(rights) == {Unary(op, r) : op \in {"-", "!"}, r \in rights}

Plain(ops, leaf) == UnaryOf(leaf) \cup BinaryOf(leaf, ops, leaf) \cup EitherOf(leaf, leaf)
Nested(ops, leaf) ==
  LET plain == Plain(ops, leaf)
  IN UnaryOf(plain) \cup BinaryOf(plain, ops, leaf) \cup BinaryOf(leaf, ops, plain)
       \cup EitherOf(plain, leaf) \cup EitherOf(leaf, plain)
Strings ==
  LET sums == BinaryOf(Quotes, {"+"}, Quotes) \cup EitherOf(Quotes, Quotes)
  IN BinaryOf(sums, {"+"}, Quotes) \cup UnaryOf(sums) \cup EitherOf(Quotes, sums)

ExpressionPrograms ==
  {<<PrintStmt(e)>> : e \in Nested({"+", "-"}, Leaf) \cup Nested({"*", ">="}, Leaf \cup Quotes)
                            \cup Strings \cup BinaryOf(Leaf, {"<", "<=", ">", "/"}, Leaf)}

-----------------------------------------------------------------------------
(* Equality and "and", on the nodes that the interpreter of jlox has cases   *)
(* for. Grouped where the two grammars differ: clox has comparisons at the   *)
(* level of equality, and jlox binds "or" tighter than "and".                *)

Both(a, b) == Logical(a, "and", b)
BothOf(lefts, rights) == {Both(l, r) : l \in lefts, r \in rights}
EqualOf(lefts, rights) == {Binary(l, op, r) : l \in lefts, op \in {"==", "!="}, r \in rights}
Grouped(es) == {Grouping(e) : e \in es}

Ground == Leaf \cup {N("false"), N("'s'")}
\* Some of these fail: whether they do shows what is evaluated.
Partial == BinaryOf({N("1")}, {"+", "-"}, {N("1"), N("nil")}) \cup UnaryOf({N("nil")})
Some == Ground \cup Partial
Compared == BinaryOf({N("1")}, {"<", ">="}, {N("1"), N("2"), N("nil")})
Equalities == EqualOf(Ground, Ground)

OperatorPrograms ==
  LET boths == BothOf(Ground, Ground)
      mixed == Equalities \cup boths \cup EitherOf(Ground, Ground)
  IN {<<PrintStmt(e)>> : e \in
        Equalities \cup boths \cup UnaryOf(Grouped(mixed))
          \cup EqualOf(Equalities \cup Partial, Ground)
          \cup EqualOf(Ground, Grouped(mixed \cup Compared) \cup Partial)
          \cup BothOf(boths \cup Equalities, Some) \cup BothOf(Some, Equalities)
          \cup BothOf(Ground, Grouped(mixed) \cup Compared) \cup BothOf(Grouped(mixed), Partial)
          \cup EitherOf(Grouped(boths) \cup Equalities, Some)}

-----------------------------------------------------------------------------
(* Statements, over two variables that are both globals or both locals.      *)

Conditions == {Less(V("a"), N("2")), Either(Unary("!", V("b")), Less(V("a"), V("b")))}
Simple == {PrintStmt(V("a")), Set("b", Assign("a", N("3"))),
           Block(<<Var("a", V("b")), Incr("a"), PrintStmt(V("a"))>>),
           Block(<<Var("b", None), If(V("b"), PrintStmt(V("a")), PrintStmt(V("b")))>>)}
Branches(ss) == {If(c, s, None) : c \in Conditions, s \in ss}
                  \cup {If(c, s, t) : c \in Conditions, s \in ss, t \in Simple}
WhileLoops(ss) == {While(Less(V("a"), N("3")), Block(<<s, Incr("a")>>)) : s \in ss}
\* Only a for statement with its three clauses compiles.
ForLoops(ss) ==
  {For(Set("b", N("0")), Less(V("b"), N("2")), PlusOne("b"), s) : s \in ss}
    \cup {For(Var("i", N("0")), Less(V("i"), N("2")), Assign("b", V("i")),
               Block(<<Incr("i"), Var("a", V("i")), s>>)) : s \in ss}
Inner == Simple \cup Branches(Simple) \cup WhileLoops(Simple) \cup ForLoops(Simple)
Declared == <<Var("a", N("1")), Var("b", N("2"))>>
Shown == <<PrintStmt(V("a")), PrintStmt(V("b"))>>

ControlPrograms ==
  LET bodies == {Declared \o <<s>> \o Shown :
                   s \in Inner \cup {Block(<<s, Incr("a")>>) : s \in Branches(Simple)}
                         \cup WhileLoops(Inner) \cup ForLoops(Inner)}
  IN bodies \cup {<<Block(b)>> : b \in bodies}

-----------------------------------------------------------------------------
(* Closures. A function f declares variables and a function g that captures  *)
(* some; f goes on after that, perhaps with a function h that captures them   *)
(* too and that z keeps, and returns g, which is called from f and from       *)
(* outside, twice, and from a second call of f.                              *)

Before == {<<>>, <<Var("a", N("3"))>>, <<Var("b", V("a")), Var("a", N("4"))>>}
Captures ==
  {<<Return(V("a"))>>, <<Incr("a"), Return(Plus(V("a"), V("b")))>>,
   <<Var("a", V("b")), Incr("a"), Set("b", V("a")), Return(V("a"))>>,
   <<Function("k", <<>>, <<Incr("a"), Incr("b")>>), Do(Run0("k")), Return(Plus(V("a"), V("b")))>>,
   <<Function("k", <<"b">>, <<Incr("a"), Return(Plus(V("b"), V("a")))>>), Return(Call(V("k"), <<V("a")>>))>>}
After == {<<>>, <<Incr("a")>>, <<PrintStmt(Run0("g")), Incr("b")>>,
          <<Function("h", <<>>, <<Incr("a"), Incr("b")>>), Set("z", V("h"))>>,
          <<Block(<<Var("a", N("5")), Function("h", <<>>, <<Incr("a"), PrintStmt(V("a"))>>),
                    Do(Run0("g")), Do(Run0("h"))>>), PrintStmt(V("a"))>>}
RunZ == If(V("z"), Do(Run0("z")), None)
Calls == <<Var("x", Run0("f")), Var("y", Run0("f")), PrintStmt(Run0("x")), PrintStmt(Run0("x")),
           RunZ, PrintStmt(Run0("y"))>> \o Shown

\* The same with a block in the place of f.
InBlock(before, body, after) ==
  <<Var("x", None), Block(before \o <<Function("g", <<>>, body)>> \o after \o <<Set("x", V("g"))>>),
    PrintStmt(Run0("x")), RunZ, PrintStmt(Run0("x"))>> \o Shown

DeclaredZ == <<Var("z", N("nil"))>> \o Declared
ClosurePrograms ==
  UNION {{DeclaredZ \o <<Function("f", <<>>, before \o <<Function("g", <<>>, body)>> \o after \o <<Return(V("g"))>>)>>
            \o Calls,
          DeclaredZ \o InBlock(before, body, after),
          <<Block(DeclaredZ \o InBlock(before, body, after))>>} :
         before \in Before, body \in Captures, after \in After}

-----------------------------------------------------------------------------
(* Classes. A, its subclass B and the subclass C of B each have or lack the  *)
(* methods m and init; m is called, taken as a value, kept in a field and    *)
(* called through super.                                                     *)

Field == Get(This, "f")
Bodies == [own |-> <<Return(N("1"))>>,
           field |-> <<Return(Field)>>,
           super |-> <<Return(Plus(Call(Super("m"), <<>>), N("1")))>>,
           bound |-> <<Var("s", Super("m")), Return(Run0("s"))>>,
           set |-> <<Do(SetField(This, "f", Plus(Field, N("1")))), Return(Field)>>]
MethodM(kinds) == {<<>>} \cup {<<Function("m", <<>>, Bodies[k])>> : k \in kinds}
Init0 == Function("init", <<>>, <<Do(SetField(This, "f", N("2")))>>)
Init1 == Function("init", <<"f">>, <<Do(SetField(This, "f", V("f"))), Return(None)>>)
InitSuper == Function("init", <<"f">>, <<Do(Call(Super("init"), <<V("f")>>)), Do(SetField(This, "g", Field))>>)

Uses(make) ==
  {<<PrintStmt(Method(make, "m", <<>>))>>,
   <<Var("o", make), Var("m", Get(V("o"), "m")), Do(SetField(V("o"), "f", N("5"))),
     PrintStmt(Run0("m")), PrintStmt(V("o"))>>,
   <<Var("o", make), Do(SetField(V("o"), "k", Get(make, "m"))), PrintStmt(Method(V("o"), "k", <<>>)),
     PrintStmt(V("m"))>>,
   <<Var("o", make), PrintStmt(Get(Method(V("o"), "init", <<N("4")>>), "f"))>>}

Classes(init, a, b, c) ==
  <<Var("m", N("0")), Class("A", None, init \o a), Class("B", V("A"), b), Class("C", V("B"), c)>>

ClassPrograms ==
  {Classes(<<i>>, a, b, c) \o use :
     i \in {Init1}, a \in MethodM({"own", "field", "set"}), b \in MethodM({"super", "field"}),
     c \in MethodM({"bound", "set", "super"}) \cup {<<InitSuper>>},
     use \in Uses(Call(V("C"), <<N("3")>>))}
    \cup {<<Block(Classes(i, a, b, <<>>) \o use)>> :
            i \in {<<>>, <<Init0>>}, a \in MethodM({"own", "set"}), b \in MethodM({"bound"}),
            use \in Uses(Call(V("B"), <<>>))}

-----------------------------------------------------------------------------
(* Runtime errors, at several depths of calls. *)

Wrong == {Do(Plus(N("1"), N("nil"))), Do(Unary("-", N("'s'"))), Do(Less(N("1"), N("'s'"))),
          Do(Call(N("1"), <<>>)), Do(Call(V("clock"), <<N("1")>>)), Do(Call(N("'s'"), <<N("2")>>)),
          Do(Call(V("f"), <<>>)), Do(Call(V("A"), <<N("1")>>)), Do(Method(V("o"), "m", <<N("1")>>)),
          Do(Get(N("nil"), "m")), Do(Get(V("o"), "none")), Do(Method(V("o"), "none", <<>>)),
          Do(Method(N("1"), "m", <<>>)), Do(Method(V("A"), "m", <<>>)), Do(SetField(V("A"), "m", N("1"))),
          Block(<<Class("B", V("o"), <<>>)>>),
          Block(<<Class("B", V("A"), <<Function("m", <<>>, <<Do(Super("none"))>>)>>),
                  Do(Method(Call(V("B"), <<>>), "m", <<>>))>>),
          Block(<<Class("B", V("A"), <<Function("m", <<>>, <<Do(Call(Super("m"), <<N("1")>>))>>)>>),
                  Do(Method(Call(V("B"), <<>>), "m", <<>>))>>),
          Block(<<Do(SetField(V("o"), "k", N("1"))), Do(Method(V("o"), "k", <<>>))>>)}
Preface == <<Function("f", <<"x">>, <<Return(V("x"))>>),
             Class("A", None, <<Function("m", <<>>, <<Return(N("1"))>>)>>), Var("o", Call(V("A"), <<>>)),
             PrintStmt(Call(V("f"), <<Method(V("o"), "m", <<>>)>>))>>
After1(s) == {<<s, PrintStmt(N("1"))>>, <<Function("g", <<"a">>, <<PrintStmt(V("a")), s, PrintStmt(N("2"))>>),
              Do(Call(V("g"), <<N("1")>>)), PrintStmt(N("3"))>>,
              <<Function("g", <<>>, <<Var("c", N("1")), Function("h", <<>>, <<Set("c", N("2")), s>>), Do(Run0("h"))>>),
                Do(Run0("g"))>>}
ErrorPrograms == UNION {{Preface \o t : t \in After1(s)} : s \in Wrong}

-----------------------------------------------------------------------------
(* Sessions at the prompt. The first line declares what the others use; of   *)
(* those, some fail to compile and some fail while they run.                 *)

FirstLine ==
  <<Var("a", N("1")), Var("h", None),
    Function("f", <<>>, <<Return(V("a"))>>), Function("inc", <<>>, <<Incr("a"), Return(V("a"))>>),
    Block(<<Var("x", N("1")), Function("g", <<>>, <<Incr("x"), Return(V("x"))>>), Set("h", V("g"))>>)>>
Lines ==
  {<<PrintStmt(Plus(Run0("f"), V("a")))>>,
   <<PrintStmt(Run0("h"))>>,
   <<Var("b", Run0("inc")), PrintStmt(Less(Run0("clock"), V("b")))>>,
   <<Function("f", <<>>, <<Return(N("5"))>>), PrintStmt(V("f"))>>,
   <<Block(<<Var("x", V("a")), Function("k", <<>>, <<Incr("x"), PrintStmt(V("x"))>>), Do(Run0("k")), Do(Run0("h"))>>)>>,
   <<Class("C", None, <<Function("m", <<>>, <<Return(Run0("inc"))>>)>>),
     PrintStmt(Method(Call(V("C"), <<>>), "m", <<>>))>>,
   <<Block(<<Var("x", N("2")), Do(Run0("h")), Do(Unary("-", N("nil")))>>)>>,
   <<Function("k", <<"x">>, <<PrintStmt(V("x")), Do(Call(V("f"), <<V("x")>>))>>), Do(Call(V("k"), <<N("3")>>))>>,
   <<PrintStmt(V("a")), Block(<<Var("z", V("z"))>>)>>,
   <<Class("D", None, <<Function("init", <<>>, <<Return(N("1"))>>)>>)>>}
ReplSessions == {<<FirstLine, l, m, n>> : l \in Lines, m \in Lines, n \in Lines}
=============================================================================
