--------------------------- MODULE LexicalGrammar ---------------------------
(* The lexical grammar of Lox, with the reading the scanners are meant to    *)
(* give a text: at each place, the longest lexeme there is.                  *)
EXTENDS Naturals, Sequences, FiniteSets, TLC

Digit == {"0", "1", "9"}
Letter == {"a", "b", "c", "d", "e", "f", "g", "h", "i", "j", "k", "l", "m", "n", "o", "p", "q", "r", "s",
           "t", "u", "v", "w", "x", "y", "z", "A", "Z", "_"}

Reserved ==
  ("AND" :> <<"a", "n", "d">>) @@ ("CLASS" :> <<"c", "l", "a", "s", "s">>)
    @@ ("CONST" :> <<"c", "o", "n", "s", "t">>) @@ ("ELSE" :> <<"e", "l", "s", "e">>)
    @@ ("FALSE" :> <<"f", "a", "l", "s", "e">>) @@ ("FOR" :> <<"f", "o", "r">>)
    @@ ("FUN" :> <<"f", "u", "n">>) @@ ("IF" :> <<"i", "f">>) @@ ("NIL" :> <<"n", "i", "l">>)
    @@ ("OR" :> <<"o", "r">>) @@ ("PRINT" :> <<"p", "r", "i", "n", "t">>)
    @@ ("RETURN" :> <<"r", "e", "t", "u", "r", "n">>) @@ ("SUPER" :> <<"s", "u", "p", "e", "r">>)
    @@ ("THIS" :> <<"t", "h", "i", "s">>) @@ ("TRUE" :> <<"t", "r", "u", "e">>)
    @@ ("VAR" :> <<"v", "a", "r">>) @@ ("WHILE" :> <<"w", "h", "i", "l", "e">>)

Punctuation ==
  ("LEFT_PAREN" :> <<"(">>) @@ ("RIGHT_PAREN" :> <<")">>) @@ ("LEFT_BRACE" :> <<"{">>)
    @@ ("RIGHT_BRACE" :> <<"}">>) @@ ("COMMA" :> <<",">>) @@ ("DOT" :> <<".">>) @@ ("MINUS" :> <<"-">>)
    @@ ("PLUS" :> <<"+">>) @@ ("SEMICOLON" :> <<";">>) @@ ("SLASH" :> <<"/">>) @@ ("STAR" :> <<"*">>)
    @@ ("BANG" :> <<"!">>) @@ ("BANG_EQUAL" :> <<"!", "=">>) @@ ("EQUAL" :> <<"=">>)
    @@ ("EQUAL_EQUAL" :> <<"=", "=">>) @@ ("GREATER" :> <<">">>) @@ ("GREATER_EQUAL" :> <<">", "=">>)
    @@ ("LESS" :> <<"<">>) @@ ("LESS_EQUAL" :> <<"<", "=">>)

All(w, chars) == \A i \in DOMAIN w : w[i] \in chars

IsIdentifier(w) == w # <<>> /\ w[1] \in Letter /\ All(w, Letter \cup Digit)
IsWhole(w) == w # <<>> /\ All(w, Digit)
IsNumber(w) ==
  \/ IsWhole(w)
  \/ \E i \in DOMAIN w : w[i] = "." /\ IsWhole(SubSeq(w, 1, i - 1)) /\ IsWhole(SubSeq(w, i + 1, Len(w)))
IsString(w) == Len(w) >= 2 /\ {i \in DOMAIN w : w[i] = "\""} = {1, Len(w)}
IsBlank(w) == w \in {<<" ">>, <<"\t">>, <<"\r">>, <<"\n">>}
IsComment(w) == Len(w) >= 2 /\ w[1] = "/" /\ w[2] = "/" /\ \A i \in DOMAIN w : w[i] # "\n"

\* The types a lexeme can have; a reserved word is no identifier.
Types(w) ==
  {t \in DOMAIN Reserved : Reserved[t] = w} \cup {t \in DOMAIN Punctuation : Punctuation[t] = w}
    \cup (IF IsIdentifier(w) /\ \A t \in DOMAIN Reserved : Reserved[t] # w THEN {"IDENTIFIER"} ELSE {})
    \cup (IF IsNumber(w) THEN {"NUMBER"} ELSE {}) \cup (IF IsString(w) THEN {"STRING"} ELSE {})
    \cup (IF IsBlank(w) \/ IsComment(w) THEN {"SKIPPED"} ELSE {})

\* The tokens of a text with the end of the text as the last, each on the line
\* its last character is on.
Tokens(text) ==
  LET LineAt(i) == 1 + Cardinality({k \in 1..(i - 1) : text[k] = "\n"})
      Lexeme(i, j) == SubSeq(text, i, j - 1)
      read[i \in 1..(Len(text) + 1)] ==
        LET ends == {j \in (i + 1)..(Len(text) + 1) : Types(Lexeme(i, j)) # {}}
            end == CHOOSE j \in ends : \A k \in ends : k <= j
            type == CHOOSE t \in Types(Lexeme(i, end)) : TRUE
            wrong == IF text[i] = "\"" THEN [message |-> "Unterminated string.", end |-> Len(text) + 1]
                     ELSE [message |-> "Unexpected character.", end |-> i + 1]
        IN IF i > Len(text) THEN <<[type |-> "EOF", text |-> <<>>, line |-> LineAt(i)]>>
           ELSE IF ends = {}
           THEN <<[type |-> "ERROR", text |-> wrong.message, line |-> LineAt(wrong.end)]>> \o read[wrong.end]
           ELSE IF type = "SKIPPED" THEN read[end]
           ELSE <<[type |-> type, text |-> Lexeme(i, end), line |-> LineAt(end)]>> \o read[end]
  IN read[1]
=============================================================================
