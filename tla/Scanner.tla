------------------------------ MODULE Scanner ------------------------------
(* The scanner of clox: each call of scanToken moves over one token of the   *)
(* source, on demand, and returns it. The source is a sequence of characters *)
(* and positions count from 1; reading at its end gives NUL.                 *)
EXTENDS Naturals, Sequences, TLC

CONSTANT Sources      \* the texts to scan

NUL == "NUL"
NEWLINE == "\n"
QUOTE == "\""

\* Texts are C strings, which NUL ends.
ASSUME SourcesAssumption == \A text \in Sources : text \in Seq(STRING \ {"NUL"})

VARIABLES source,     \* the text that initScanner is given
          start,      \* where the token being scanned starts
          current,    \* the next character to read
          line,       \* the line of that character, or of a token in a string
          token       \* what the last call returned

vars == <<source, start, current, line, token>>

Token(type, text, at) == [type |-> type, text |-> text, line |-> at]

\* The character at a position.
Char(i) == IF i \in DOMAIN source THEN source[i] ELSE NUL
Positions == 1..(Len(source) + 1)
Text(from, to) == SubSeq(source, from, to - 1)

\* The first position from i on whose character is in stops, or the end.
Until(i, stops) ==
  CHOOSE j \in Positions :
    /\ j >= i /\ Char(j) \in stops \cup {NUL}
    /\ \A k \in i..(j - 1) : Char(k) \notin stops

Newlines(from, to) == Len(SelectSeq(Text(from, to), LAMBDA c : c = NEWLINE))

Digits == {"0", "1", "9"}
Lowercase == {"a", "b", "c", "d", "e", "f", "g", "h", "i", "j", "k", "l", "m", "n", "o", "p",
              "q", "r", "s", "t", "u", "v", "w", "x", "y", "z"}
Alphas == Lowercase \cup {"A", "Z", "_"}

\* The first position from i on that is past a run of these characters.
PastRun(i, run) ==
  CHOOSE j \in Positions : j >= i /\ Char(j) \notin run /\ \A k \in i..(j - 1) : Char(k) \in run

-----------------------------------------------------------------------------
(* Where each kind of token that starts at i ends. *)

\* Spaces, newlines and comments: a comment ends before its newline.
skipWhitespace ==
  LET skip[i \in Positions] ==
        IF Char(i) \in {" ", "\r", "\t", NEWLINE} THEN skip[i + 1]
        ELSE IF Char(i) = "/" /\ Char(i + 1) = "/" THEN skip[Until(i, {NEWLINE})]
        ELSE i
  IN skip[current]

\* Mutant: the dot after a number is read without a digit after it.
NumberEndingInDot(i) ==
  LET whole == PastRun(i, Digits)
  IN IF Char(whole) = "." THEN PastRun(whole + 1, Digits) ELSE whole

number(i) ==
  LET whole == PastRun(i, Digits)
  IN IF Char(whole) = "." /\ Char(whole + 1) \in Digits THEN PastRun(whole + 1, Digits) ELSE whole

\* A letter, and the letters and digits after it.
identifier(i) == PastRun(i, Alphas \cup Digits)

\* The keyword that one letter, or the first two, leave possible: the rest of
\* its letters, and its type.
ByFirst ==
  ("a" :> <<"n", "d", "AND">>) @@ ("e" :> <<"l", "s", "e", "ELSE">>) @@ ("i" :> <<"f", "IF">>)
    @@ ("n" :> <<"i", "l", "NIL">>) @@ ("o" :> <<"r", "OR">>) @@ ("p" :> <<"r", "i", "n", "t", "PRINT">>)
    @@ ("r" :> <<"e", "t", "u", "r", "n", "RETURN">>) @@ ("s" :> <<"u", "p", "e", "r", "SUPER">>)
    @@ ("v" :> <<"a", "r", "VAR">>) @@ ("w" :> <<"h", "i", "l", "e", "WHILE">>)
BySecond ==
  (<<"c", "l">> :> <<"a", "s", "s", "CLASS">>) @@ (<<"c", "o">> :> <<"n", "s", "t", "CONST">>)
    @@ (<<"f", "a">> :> <<"l", "s", "e", "FALSE">>) @@ (<<"f", "o">> :> <<"r", "FOR">>)
    @@ (<<"f", "u">> :> <<"n", "FUN">>) @@ (<<"t", "h">> :> <<"i", "s", "THIS">>)
    @@ (<<"t", "r">> :> <<"u", "e", "TRUE">>)

checkKeyword(word, length, entry) ==
  IF SubSeq(word, length + 1, Len(word)) = SubSeq(entry, 1, Len(entry) - 1)
  THEN entry[Len(entry)] ELSE "IDENTIFIER"

identifierType(word) ==
  IF word[1] \in DOMAIN ByFirst THEN checkKeyword(word, 1, ByFirst[word[1]])
  ELSE IF Len(word) > 1 /\ SubSeq(word, 1, 2) \in DOMAIN BySecond
  THEN checkKeyword(word, 2, BySecond[SubSeq(word, 1, 2)])
  ELSE "IDENTIFIER"

Single == ("(" :> "LEFT_PAREN") @@ (")" :> "RIGHT_PAREN") @@ ("{" :> "LEFT_BRACE") @@ ("}" :> "RIGHT_BRACE")
            @@ (";" :> "SEMICOLON") @@ ("," :> "COMMA") @@ ("." :> "DOT") @@ ("-" :> "MINUS")
            @@ ("+" :> "PLUS") @@ ("/" :> "SLASH") @@ ("*" :> "STAR")
match(i, expected) == Char(i) = expected

OrEqual == ("!" :> "BANG") @@ ("=" :> "EQUAL") @@ ("<" :> "LESS") @@ (">" :> "GREATER")

-----------------------------------------------------------------------------
\* initScanner.
Init ==
  /\ source \in Sources
  /\ start = 1 /\ current = 1 /\ line = 1
  /\ token = Token("NONE", <<>>, 0)

\* The token from start to end, on the line reached.
makeToken(type, from, end, at) ==
  /\ current' = end /\ line' = at
  /\ token' = Token(type, Text(from, end), at)
errorToken(message, end, at) ==
  /\ current' = end /\ line' = at
  /\ token' = Token("ERROR", message, at)

\* Mutant: a string that the text ends is passed over like one that a quote ends.
StringPastEnd(i, at) ==
  LET quote == Until(i + 1, {QUOTE})
      reached == at + Newlines(i + 1, quote)
  IN IF Char(quote) = NUL THEN errorToken("Unterminated string.", quote + 1, reached)
     ELSE makeToken("STRING", i, quote + 1, reached)

\* A newline within a string counts before its token is made.
string(i, at) ==
  LET quote == Until(i + 1, {QUOTE})
      reached == at + Newlines(i + 1, quote)
  IN IF Char(quote) = NUL THEN errorToken("Unterminated string.", quote, reached)
     ELSE makeToken("STRING", i, quote + 1, reached)

\* Mutant: an unexpected character is not passed over.
UnexpectedKept(i, at) == errorToken("Unexpected character.", i, at)
Unexpected(i, at) == errorToken("Unexpected character.", i + 1, at)

scanToken ==
  LET i == skipWhitespace
      at == line + Newlines(current, i)
      c == Char(i)
  IN /\ start' = i
     /\ IF c = NUL THEN makeToken("EOF", i, i, at)
        ELSE CASE c \in Alphas -> makeToken(identifierType(Text(i, identifier(i))), i, identifier(i), at)
               [] c \in Digits -> makeToken("NUMBER", i, number(i), at)
               [] c \in DOMAIN Single -> makeToken(Single[c], i, i + 1, at)
               [] c \in DOMAIN OrEqual ->
                    IF match(i + 1, "=") THEN makeToken(OrEqual[c] \o "_EQUAL", i, i + 2, at)
                    ELSE makeToken(OrEqual[c], i, i + 1, at)
               [] c = QUOTE -> string(i, at)
               [] OTHER -> Unexpected(i, at)
     /\ UNCHANGED source

Spec == Init /\ [][scanToken]_vars

-----------------------------------------------------------------------------
\* advance, match and peekNext never move the scanner past the NUL that ends
\* the text, where the memory of another object begins: not after a comment, an
\* unterminated string, a lone "." or an operator that is the last character.
WithinText == /\ start \in Positions /\ current \in Positions
              /\ start <= current

\* Each call reads on from where the last one stopped. It takes something, be
\* it an error, or it is at the end of the text: no character is read twice and
\* the calls that compile makes until it has TOKEN_EOF are finitely many.
ReadsOn == [][/\ start' >= current
              /\ current' > start' \/ (token'.type = "EOF" /\ current' = Len(source) + 1)]_vars
=============================================================================
