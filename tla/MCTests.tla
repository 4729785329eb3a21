------------------------------ MODULE MCTests ------------------------------
(* Tests that come with the book that both implementations follow, each on a *)
(* fresh one: a source for clox, the tree that its parser makes of a source  *)
(* for jlox, what it should print, and how it should end.                    *)
EXTENDS Machine, Programs

Jlox == INSTANCE TreeWalk

VARIABLES test,     \* the number of the test that runs
          failed    \* the names of those that went another way

all == <<vars, test, failed>>

Test(name, source, printed, result) ==
  [name |-> name, source |-> source, printed |-> printed, result |-> result]

Tests == <<
  Test("precedence.lox:14", <<"print", "false", "==", "2", "<", "1", ";">>, <<Bool(TRUE)>>, "OK"),
  Test("for/syntax.lox:2",
       <<"for", "(", "var", "c", "=", "0", ";", "c", "<", "3", ";", ")", "print", "c", "=", "c", "+", "1", ";">>,
       <<Number(1), Number(2), Number(3)>>, "OK"),
  Test("function/mutual_recursion.lox:1",
       <<"fun", "isEven", "(", "n", ")", "{", "if", "(", "n", "==", "0", ")", "return", "true", ";",
           "return", "isOdd", "(", "n", "-", "1", ")", ";", "}",
         "fun", "isOdd", "(", "n", ")", "{", "if", "(", "n", "==", "0", ")", "return", "false", ";",
           "return", "isEven", "(", "n", "-", "1", ")", ";", "}",
         "print", "isEven", "(", "4", ")", ";">>, <<Bool(TRUE)>>, "OK"),
  Test("variable/use_global_in_initializer.lox:3",
       <<"var", "a", "=", "'s'", ";", "var", "a", "=", "a", ";", "print", "a", ";">>, <<String(<<"s">>)>>, "OK"),
  Test("return/at_top_level.lox:1", <<"return", "'s'", ";">>, <<>>, "COMPILE_ERROR"),
  Test("this/this_at_top_level.lox:1", <<"this", ";">>, <<>>, "COMPILE_ERROR")>>

OfOperator(name, left, op, right, printed) ==
  Test("jlox: " \o name, <<PrintStmt(Infix(N(left), op, N(right)))>>, <<printed>>, "OK")

JloxTests == <<
  OfOperator("logical_operator/or.lox:4", "1", "or", "true", Number(1)),
  OfOperator("operator/equals.lox:1", "nil", "==", "nil", Bool(TRUE)),
  OfOperator("operator/equals.lox:7", "1", "==", "2", Bool(FALSE)),
  OfOperator("operator/not_equals.lox:7", "1", "!=", "2", Bool(TRUE)),
  OfOperator("logical_operator/and.lox:5", "true", "and", "1", Number(1))>>

Ended == status = "ready" /\ lines = <<>>

MCInit == Init /\ lines = <<Tests[1].source>> /\ test = 1 /\ failed = {}

\* The next test, on a virtual machine that initVM made anew.
Fresh ==
  /\ Ended /\ test <= Len(Tests)
  /\ test' = test + 1
  /\ lines' = IF test < Len(Tests) THEN <<Tests[test'].source>> ELSE <<>>
  /\ results' = <<>> /\ output' = <<>> /\ globals' = defineNative(initGlobals, "clock", Object(1))
  /\ objects' = <<newNative(0)>> /\ stack' = <<>> /\ stackTop' = 0 /\ frames' = <<>> /\ openUpvalues' = <<>>
  /\ UNCHANGED status
  /\ failed' = IF output = Tests[test].printed /\ results = <<Tests[test].result>> THEN failed
               ELSE failed \cup {Tests[test].name}

\* After those of clox, the tests of jlox.
Total == Len(Tests) + Len(JloxTests)
OnJlox ==
  /\ Ended /\ test \in Len(Tests) + 1..Total
  /\ test' = test + 1
  /\ LET this == JloxTests[test - Len(Tests)]
     IN failed' = IF Jlox!interpret(<<this.source>>) = <<[output |-> this.printed, result |-> this.result]>>
                  THEN failed ELSE failed \cup {this.name}
  /\ UNCHANGED vars

MCNext == Fresh \/ OnJlox \/ (Next /\ UNCHANGED <<test, failed>>)
MCSpec == MCInit /\ [][MCNext]_all

\* Each test prints what its comments expect and ends as they say (compile and
\* run of clox, Parser and Interpreter of jlox): "expect:" and "Error at" in
\* craftinginterpreters/test.
AsTheBookTests == test > Total => failed = {}

\* Uninitialised, compiler->classContext points at something like a class.
AnyGarbage == {[state |-> "READABLE", classContext |-> "class"]}
=============================================================================
