----------------------------- MODULE MCCompiler -----------------------------
(* Sources built phrase by phrase, and compiled after each.                  *)
EXTENDS Compiler, Verifier, SequencesExt

CONSTANT Families       \* [prelude, phrases, most]: how a source starts, what it
                        \* goes on with, and how many phrases it has at most

VARIABLES family, source

Times(n, tokens) == FlattenSeq([i \in 1..n |-> tokens])

\* What closes the braces that are still open.
Opened(tokens) ==
  Cardinality({i \in DOMAIN tokens : tokens[i] = "{"}) - Cardinality({i \in DOMAIN tokens : tokens[i] = "}"})
Complete ==
  LET tokens == family.prelude \o FlattenSeq(source) IN tokens \o Times(Opened(tokens), <<"}">>)

NoGlobals == [count |-> 0, values |-> <<>>, identifiers |-> <<>>, names |-> <<>>]
Compiled == compile(NoGlobals, Complete, [state |-> "READABLE", classContext |-> "NULL"])

\* A source is extended unless it is wrong whatever follows.
Dangling == {<<"if", "(", "a", ")">>, <<"if", "(", "b", ")">>, <<"while", "(", "a", ")">>, <<"else">>,
             <<"for", "(", "var", "i", "=", "a", ";", "i", ";", "i", "=", "a", ")">>}
MCInit == source = <<>> /\ family \in Families
MCNext ==
  /\ Len(source) < family.most
  /\ ~(source # <<>> /\ source[Len(source)] \notin Dangling /\ Compiled.hadError)
  /\ \E phrase \in family.phrases :
       /\ Opened(family.prelude \o FlattenSeq(Append(source, phrase))) >= 0
       /\ source' = Append(source, phrase)
  /\ UNCHANGED family

\* What the compiler accepts is well formed (compile, with every rule and
\* statement of compiler.c, and the functions within): each instruction is
\* reached with one height of the stack whatever the path, its operands lie
\* within the tables they index, a jump lands on an instruction, and nothing
\* below the frame is popped. The compiler keeps the height only in its count
\* of locals, and no code compares the two.
WellFormed(r) == r.hadError \/ Verified(r.function)
AcceptsOnlyVerified == WellFormed(Compiled)

-----------------------------------------------------------------------------
Plain == <<"var", "a", ";">>
Statements ==
  Dangling \cup
  {<<"{">>, <<"}">>, <<"var", "b", "=", "a", ";">>, <<"a", "=", "b", ";">>, <<"print", "a", "and", "!", "b", "or", "1", ";">>,
   <<"fun", "f", "(", "b", ")", "{">>, <<"return", "b", "+", "a", ";">>, <<"f", "(", "a", ",", "b", ")", ";">>}
ClassPhrases ==
  {<<"{">>, <<"}">>, <<"class", "A", "{">>, <<"class", "B", "<", "A", "{">>, <<"m", "(", ")", "{">>, <<"init", "(", "a", ")", "{">>,
   <<"super", ".", "m", ";">>, <<"super", ".", "m", "(", "a", ")", ";">>, <<"this", ".", "a", "=", "this", ";">>,
   <<"return", ";">>, <<"a", "=", "A", "(", ")", ".", "m", "(", ")", ".", "a", ";">>, <<"fun", "f", "(", ")", "{">>}

\* Sources about to run out of globals, locals, constants, upvalues and bytes
\* for a jump, and the phrases that make them.
Letters == <<"c", "d", "e", "g", "h", "j", "k", "l", "n", "o", "p", "q", "r", "s", "t", "u">>
Declared(m, n) == FlattenSeq([i \in 1..(n - m + 1) |-> <<"var", Letters[m + i - 1], ";">>])
Used(n) == FlattenSeq([i \in 1..n |-> <<"print", Letters[i], ";">>])
Brink ==
  {Declared(1, UINT8_COUNT - 3),
   <<"{">> \o Declared(1, UINT8_COUNT - 3),
   Plain \o Times(UINT8_COUNT - 4, <<"print", "1", ";">>),
   <<"{">> \o Plain \o Declared(1, UINT8_COUNT \div 2)
     \o <<"fun", "f", "(", ")", "{">> \o Declared(UINT8_COUNT \div 2 + 1, UINT8_COUNT)
     \o <<"fun", "v", "(", ")", "{">> \o Used(UINT8_COUNT - 1),
   Plain \o <<"if", "(", "a", ")", "{">> \o Times(UINT16_MAX \div 3 - 4, <<"print", "a", ";">>),
   Plain \o <<"while", "(", "a", ")", "{">> \o Times(UINT16_MAX \div 3 - 4, <<"print", "a", ";">>)}
Limits ==
  {<<"{">>, <<"}">>, <<"var", "a", "=", "1", ";">>, <<"var", "b", ";">>, <<"print", "c", "+", "a", ";">>,
   <<"fun", "f", "(", "b", ")", "{">>, <<"while", "(", "a", ")">>, <<"else">>, <<"class", "A", "{">>}

Few == {[prelude |-> Plain, phrases |-> Statements, most |-> 4], [prelude |-> Plain, phrases |-> ClassPhrases, most |-> 6]}
         \cup {[prelude |-> p, phrases |-> Limits, most |-> 3] : p \in Brink}
=============================================================================
