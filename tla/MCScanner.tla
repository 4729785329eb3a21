----------------------------- MODULE MCScanner -----------------------------
(* The scanner on every short text, and on words that are nearly keywords.   *)
EXTENDS Scanner, SequencesExt

Grammar == INSTANCE LexicalGrammar

VARIABLES expected,   \* the tokens of the source under the grammar
          nth         \* which of them was scanned last; the last one stays

all == <<vars, expected, nth>>
MCInit == Init /\ expected = Grammar!Tokens(source) /\ nth = 0
MCNext ==
  /\ scanToken
  /\ nth' = IF nth < Len(expected) THEN nth + 1 ELSE nth
  /\ UNCHANGED expected
\* compile asks for a token until it has the one that ends the text.
MCSpec == MCInit /\ [][MCNext]_all /\ WF_all(MCNext)

\* Call by call, scanToken returns the tokens of the grammar, with their lines,
\* and after them the end of the text however often it is asked.
MatchesGrammar == nth > 0 => token = expected[nth]

\* Every text is scanned to its end, errors and unterminated strings included
\* (scanToken never stays where it is; compile relies on it to stop).
ReachesEnd == <>[](token.type = "EOF")

-----------------------------------------------------------------------------
Characters == {"a", "1", ".", "/", "\"", "\n", " ", "=", "!", "+", "@"}
ShortTexts == UNION {[1..n -> Characters] : n \in 0..4}

Words == {Grammar!Reserved[t] : t \in DOMAIN Grammar!Reserved}
Cut == UNION {{SubSeq(w, 1, n) : n \in DOMAIN w} : w \in Words}
Longer == {w \o <<c>> : w \in Words, c \in {"s", "_", "Z", "9", ";", "(", "<", ">"}}
Changed == UNION {{ReplaceAt(w, i, c) : i \in DOMAIN w, c \in {"e", "o", "A", "0", ".", "{"}} : w \in Words}
Joined ==
  {v \o s \o w : v \in Words, s \in {<<>>, <<" ">>, <<"\t">>, <<"/", "/">>, <<"\"">>, <<"-">>}, w \in Words}
Texts == ShortTexts \cup Cut \cup Longer \cup Changed \cup Joined
=============================================================================
