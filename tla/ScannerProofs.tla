--------------------------- MODULE ScannerProofs ---------------------------
(* Theorems about the scanner of clox, for every text: it never moves past   *)
(* the end of its text, and each call reads on from where the last stopped.  *)
EXTENDS Scanner, NaturalFacts

-----------------------------------------------------------------------------
(* Characters.                                                               *)

IsText == source \in Seq(STRING \ {NUL})

\* NUL ends the text, and is nowhere before.
LEMMA NulEndsText ==
  ASSUME IsText
  PROVE  /\ Len(source) \in Nat /\ Positions = 1..Len(source) + 1
         /\ \A i \in Positions : Char(i) = NUL <=> i = Len(source) + 1
         /\ \A i \in Positions : Char(i) # NUL => i + 1 \in Positions
<1>1. Len(source) \in Nat /\ DOMAIN source = 1..Len(source)
  BY DEF IsText
<1>2. \A i \in 1..Len(source) : Char(i) # NUL
  BY <1>1 DEF IsText, Char
<1>3. Char(Len(source) + 1) = NUL
  BY <1>1 DEF Char
<1>. QED
  BY <1>1, <1>2, <1>3 DEF Positions

\* No set of characters that the scanner looks for contains NUL.
LEMMA NoNul == /\ NUL \notin Digits /\ NUL \notin Alphas /\ NUL \notin Alphas \cup Digits
               /\ NUL # "." /\ NUL # "/" /\ NUL # "="
               /\ NUL # QUOTE /\ NUL \notin {" ", "\r", "\t", NEWLINE}
<1>1. NUL \notin Digits /\ NUL \notin Alphas /\ NUL \notin Alphas \cup Digits
  BY DEF NUL, Digits, Alphas, Lowercase
<1>2. NUL # "." /\ NUL # "/" /\ NUL # "="
  BY DEF NUL
<1>3. NUL # QUOTE /\ NUL \notin {" ", "\r", "\t", NEWLINE}
  BY Zenon DEF NUL, QUOTE, NEWLINE
<1>. QED
  BY <1>1, <1>2, <1>3

LEMMA NewlineIsNoSlash == NEWLINE # "/"
  BY Zenon DEF NEWLINE

\* The loop "while (p(peek(scanner))) advance(scanner)".
LEMMA PastRunEnds ==
  ASSUME IsText, NEW i \in Positions, NEW run, NUL \notin run
  PROVE  /\ PastRun(i, run) \in Positions /\ PastRun(i, run) >= i
         /\ Char(i) \in run => PastRun(i, run) > i
<1>. DEFINE S == {j \in Positions : j >= i /\ Char(j) \notin run}
<1>1. Positions \subseteq Nat /\ Len(source) + 1 \in S
  BY NulEndsText
<1>2. PICK j \in S : \A m \in S : j <= m
  BY <1>1, LeastNumber
<1>3. \A k \in i..j - 1 : k \in Positions /\ k < j
  BY <1>2, NulEndsText
<1>4. \A k \in i..j - 1 : Char(k) \in run
  <2>1. \A k \in S : ~(k < j)
    <3>1. S \subseteq Nat
      BY <1>1
    <3>. HIDE DEF S
    <3>. QED
      BY <1>2, <3>1
  <2>. QED
    BY <1>3, <2>1
<1>5. /\ PastRun(i, run) \in Positions /\ PastRun(i, run) >= i /\ Char(PastRun(i, run)) \notin run
  BY <1>2, <1>4 DEF PastRun
<1>6. Char(i) \in run => PastRun(i, run) # i
  BY <1>5
<1>7. i \in Nat /\ PastRun(i, run) \in Nat
  BY <1>1, <1>5
<1>. HIDE DEF S
<1>. QED
  BY <1>5, <1>6, <1>7

\* The loops that end at a character or at the end of the text.
LEMMA UntilEnds ==
  ASSUME IsText, NEW i \in Positions, NEW stops
  PROVE  /\ Until(i, stops) \in Positions /\ Until(i, stops) >= i
         /\ Char(i) \notin stops \cup {NUL} => Until(i, stops) > i
<1>. DEFINE S == {j \in Positions : j >= i /\ Char(j) \in stops \cup {NUL}}
<1>1. Positions \subseteq Nat /\ Len(source) + 1 \in S
  BY NulEndsText
<1>2. PICK j \in S : \A m \in S : j <= m
  BY <1>1, LeastNumber
<1>3. \A k \in i..j - 1 : k \in Positions /\ k < j
  BY <1>2, NulEndsText
<1>4. \A k \in i..j - 1 : Char(k) \notin stops
  <2>1. \A k \in S : ~(k < j)
    <3>1. S \subseteq Nat
      BY <1>1
    <3>. HIDE DEF S
    <3>. QED
      BY <1>2, <3>1
  <2>. QED
    BY <1>3, <2>1
<1>5. /\ Until(i, stops) \in Positions /\ Until(i, stops) >= i /\ Char(Until(i, stops)) \in stops \cup {NUL}
  BY <1>2, <1>4 DEF Until
<1>6. Char(i) \notin stops \cup {NUL} => Until(i, stops) # i
  BY <1>5
<1>7. i \in Nat /\ Until(i, stops) \in Nat
  BY <1>1, <1>5
<1>. HIDE DEF S
<1>. QED
  BY <1>5, <1>6, <1>7

-----------------------------------------------------------------------------
(* skipWhitespace.                                                           *)

\* One turn of its loop, with the rest of the loop as f.
Turn(f, i) == IF Char(i) \in {" ", "\r", "\t", NEWLINE} THEN f[i + 1]
              ELSE IF Char(i) = "/" /\ Char(i + 1) = "/" THEN f[Until(i, {NEWLINE})]
              ELSE i

\* A turn that is not the last moves on.
LEMMA TurnsMoveOn ==
  ASSUME IsText, NEW i \in Positions, NEW f
  PROVE  Turn(f, i) = i \/ \E j \in Positions : j > i /\ Turn(f, i) = f[j]
<1>1. CASE Char(i) \in {" ", "\r", "\t", NEWLINE}
  <2>1. i + 1 \in Positions /\ i + 1 > i
    <3>1. Char(i) # NUL
      BY <1>1, NoNul
    <3>. QED
      BY <3>1, NulEndsText
  <2>. QED
    BY <1>1, <2>1 DEF Turn
<1>2. CASE Char(i) \notin {" ", "\r", "\t", NEWLINE} /\ Char(i) = "/" /\ Char(i + 1) = "/"
  <2>1. Until(i, {NEWLINE}) \in Positions /\ Until(i, {NEWLINE}) > i
    BY <1>2, UntilEnds, NoNul
  <2>. QED
    BY <1>2, <2>1 DEF Turn
<1>. QED
  BY <1>1, <1>2 DEF Turn

\* The loop ends, within the text and not before where it started.
LEMMA WhitespaceEnds ==
  ASSUME IsText, current \in Positions
  PROVE  skipWhitespace \in Positions /\ skipWhitespace >= current
<1>. DEFINE N == Len(source)
            Onwards(f, i) == f[i] \in Positions /\ f[i] >= i
            S == {m \in 0..N : \E f \in [Positions -> Nat] :
                                 \A i \in Positions : i >= N + 1 - m => f[i] = Turn(f, i) /\ Onwards(f, i)}
<1>1. N \in Nat /\ Positions = 1..N + 1
  BY NulEndsText
<1>2. 0 \in S
  <2>. DEFINE f == [i \in Positions |-> i]
  <2>1. f \in [Positions -> Nat] /\ \A i \in Positions : f[i] = i
    BY <1>1
  <2>. HIDE DEF f
  <2>2. Turn(f, N + 1) = N + 1
    BY <1>1, TurnsMoveOn
  <2>3. \A i \in Positions : i >= N + 1 - 0 => i = N + 1
    BY <1>1
  <2>. QED
    BY <1>1, <2>1, <2>2, <2>3
<1>3. ASSUME NEW m \in 0..N - 1, m \in S PROVE m + 1 \in S
  <2>1. PICK f \in [Positions -> Nat] :
          \A i \in Positions : i >= N + 1 - m => f[i] = Turn(f, i) /\ Onwards(f, i)
    BY <1>3
  <2>. DEFINE p == N - m
              g == [f EXCEPT ![p] = Turn(f, p)]
  <2>2. p \in Positions /\ \A j \in Positions : j > p => j >= N + 1 - m
    BY <1>1
  <2>3. Turn(f, p) \in Positions /\ Turn(f, p) >= p
    <3>. HIDE DEF p
    <3>1. CASE Turn(f, p) = p
      BY <1>1, <2>2, <3>1
    <3>2. CASE \E j \in Positions : j > p /\ Turn(f, p) = f[j]
      BY <1>1, <2>1, <2>2, <3>2
    <3>. QED
      BY <2>2, <3>1, <3>2, TurnsMoveOn
  <2>4. g \in [Positions -> Nat] /\ g[p] = Turn(f, p) /\ \A i \in Positions : i # p => g[i] = f[i]
    BY <1>1, <2>2, <2>3
  <2>. HIDE DEF g
  <2>5. ASSUME NEW i \in Positions, i >= p PROVE Turn(g, i) = Turn(f, i)
    <3>1. Char(i) \in {" ", "\r", "\t", NEWLINE} => i + 1 \in Positions /\ i + 1 # p
      <4>1. Char(i) \in {" ", "\r", "\t", NEWLINE} => Char(i) # NUL
        BY NoNul
      <4>2. i + 1 # p
        BY <1>1, <2>5
      <4>3. Char(i) # NUL => i + 1 \in Positions
        BY NulEndsText
      <4>. QED
        BY <4>1, <4>2, <4>3, Zenon
    <3>2. Char(i) = "/" => Until(i, {NEWLINE}) \in Positions /\ Until(i, {NEWLINE}) # p
      <4>1. Char(i) = "/" => Char(i) \notin {NEWLINE} \cup {NUL}
        BY NoNul, NewlineIsNoSlash
      <4>2. Char(i) = "/" => Until(i, {NEWLINE}) \in Positions /\ Until(i, {NEWLINE}) > i
        BY <4>1, UntilEnds
      <4>. QED
        BY <1>1, <2>2, <2>5, <4>2
    <3>. QED
      BY <2>4, <3>1, <3>2 DEF Turn
  <2>6. ASSUME NEW i \in Positions, i >= N + 1 - (m + 1) PROVE g[i] = Turn(g, i) /\ Onwards(g, i)
    <3>1. i >= p
      BY <1>1, <2>6
    <3>2. CASE i = p
      BY <2>3, <2>4, <2>5, <3>1, <3>2
    <3>3. CASE i # p
      <4>1. i >= N + 1 - m
        BY <1>1, <2>2, <3>1, <3>3
      <4>. QED
        BY <2>1, <2>4, <2>5, <3>1, <3>3, <4>1
    <3>. QED
      BY <3>2, <3>3
  <2>. HIDE DEF p, Onwards
  <2>. QED
    BY <1>1, <2>4, <2>6
<1>4. N \in S
  <2>1. \A i \in 0..N - 1 : i \in S => i + 1 \in S
    BY <1>3
  <2>. HIDE DEF S, N
  <2>2. 0..N \subseteq S
    BY <1>1, <1>2, <2>1, TurnByTurn
  <2>. QED
    BY <1>1, <2>2
<1>5. PICK f \in [Positions -> Nat] : \A i \in Positions : f[i] = Turn(f, i)
  BY <1>1, <1>4
<1>. DEFINE Recursion(g) == g = [i \in Positions |-> Turn(g, i)]
            skip == CHOOSE g : Recursion(g)
<1>6. Recursion(f)
  BY <1>5
<1>7. Recursion(skip)
  <2>. HIDE DEF Recursion
  <2>. QED
    BY <1>6
<1>8. skipWhitespace = skip[current]
  BY DEF skipWhitespace, Turn
<1>. HIDE DEF skip
<1>9. \A i \in Positions : skip[i] = Turn(skip, i)
  BY <1>7
<1>. DEFINE T == {m \in 0..N : \A i \in Positions : i >= N + 1 - m => Onwards(skip, i)}
<1>10. 0 \in T
  <2>1. skip[N + 1] = N + 1
    BY <1>1, <1>9, TurnsMoveOn
  <2>. QED
    BY <1>1, <2>1
<1>11. ASSUME NEW m \in 0..N - 1, m \in T PROVE m + 1 \in T
  <2>1. ASSUME NEW i \in Positions, i >= N + 1 - (m + 1) PROVE Onwards(skip, i)
    <3>1. CASE skip[i] = i
      BY <1>1, <3>1
    <3>2. CASE \E j \in Positions : j > i /\ skip[i] = skip[j]
      <4>1. PICK j \in Positions : j > i /\ skip[i] = skip[j]
        BY <3>2
      <4>2. j >= N + 1 - m
        BY <1>1, <2>1, <4>1
      <4>. QED
        BY <1>1, <1>11, <4>1, <4>2
    <3>. QED
      BY <1>9, <3>1, <3>2, TurnsMoveOn
  <2>. HIDE DEF Onwards
  <2>. QED
    BY <1>1, <2>1
<1>12. N \in T
  <2>1. \A i \in 0..N - 1 : i \in T => i + 1 \in T
    BY <1>11
  <2>. HIDE DEF T, N
  <2>2. 0..N \subseteq T
    BY <1>1, <1>10, <2>1, TurnByTurn
  <2>. QED
    BY <1>1, <2>2
<1>. QED
  BY <1>1, <1>8, <1>12

-----------------------------------------------------------------------------
(* scanToken.                                                                *)

\* Where each kind of token ends.
LEMMA NumbersEnd ==
  ASSUME IsText, NEW i \in Positions, Char(i) \in Digits
  PROVE  number(i) \in Positions /\ number(i) > i
<1>. DEFINE whole == PastRun(i, Digits)
<1>1. whole \in Positions /\ whole > i
  BY PastRunEnds, NoNul
<1>. HIDE DEF whole
<1>2. CASE Char(whole) = "." /\ Char(whole + 1) \in Digits
  <2>1. whole + 1 \in Positions
    BY <1>1, <1>2, NulEndsText, NoNul
  <2>2. PastRun(whole + 1, Digits) \in Positions /\ PastRun(whole + 1, Digits) >= whole + 1
    BY <2>1, PastRunEnds, NoNul
  <2>. QED
    BY <1>1, <1>2, <2>1, <2>2, NulEndsText DEF number, whole
<1>3. CASE ~(Char(whole) = "." /\ Char(whole + 1) \in Digits)
  BY <1>1, <1>3 DEF number, whole
<1>. QED
  BY <1>2, <1>3

LEMMA IdentifiersEnd ==
  ASSUME IsText, NEW i \in Positions, Char(i) \in Alphas
  PROVE  identifier(i) \in Positions /\ identifier(i) > i
  BY PastRunEnds, NoNul DEF identifier

LEMMA StringsEnd ==
  ASSUME IsText, NEW i \in Positions, Char(i) = QUOTE, NEW at, string(i, at)
  PROVE  current' \in Positions /\ current' > i
<1>. DEFINE quote == Until(i + 1, {QUOTE})
<1>1. i + 1 \in Positions
  BY NulEndsText, NoNul
<1>2. quote \in Positions /\ quote >= i + 1
  BY <1>1, UntilEnds
<1>3. Char(quote) # NUL => quote + 1 \in Positions
  BY <1>2, NulEndsText
<1>4. current' = IF Char(quote) = NUL THEN quote ELSE quote + 1
  BY DEF string, makeToken, errorToken
<1>5. i \in Nat /\ quote \in Nat
  BY <1>2, NulEndsText
<1>. HIDE DEF quote
<1>6. CASE Char(quote) = NUL
  BY <1>2, <1>4, <1>5, <1>6
<1>7. CASE Char(quote) # NUL
  BY <1>2, <1>3, <1>4, <1>5, <1>7
<1>. QED
  BY <1>6, <1>7

LEMMA TokensEnd ==
  ASSUME IsText, current \in Positions, scanToken
  PROVE  /\ start' = skipWhitespace /\ current' \in Positions
         /\ \/ current' > start'
            \/ token'.type = "EOF" /\ current' = start' /\ start' = Len(source) + 1
<1>. DEFINE i == skipWhitespace
            at == line + Newlines(current, i)
<1>1. i \in Positions
  BY WhitespaceEnds
<1>2. start' = i
  BY DEF scanToken
<1>3. \/ Char(i) = NUL /\ makeToken("EOF", i, i, at)
      \/ Char(i) \in Alphas /\ makeToken(identifierType(Text(i, identifier(i))), i, identifier(i), at)
      \/ Char(i) \in Digits /\ makeToken("NUMBER", i, number(i), at)
      \/ Char(i) # NUL /\ makeToken(Single[Char(i)], i, i + 1, at)
      \/ Char(i) # NUL /\ match(i + 1, "=") /\ makeToken(OrEqual[Char(i)] \o "_EQUAL", i, i + 2, at)
      \/ Char(i) # NUL /\ makeToken(OrEqual[Char(i)], i, i + 1, at)
      \/ Char(i) = QUOTE /\ string(i, at)
      \/ Char(i) # NUL /\ Unexpected(i, at)
  BY DEF scanToken
<1>. HIDE DEF i, at
<1>4. CASE Char(i) = NUL /\ makeToken("EOF", i, i, at)
  <2>1. current' = i /\ token'.type = "EOF"
    BY <1>4 DEF makeToken, Token
  <2>2. i = Len(source) + 1
    BY <1>1, <1>4, NulEndsText
  <2>. QED
    BY <1>1, <1>2, <2>1, <2>2 DEF i
<1>5. ASSUME current' \in Positions, current' > i
      PROVE  start' = skipWhitespace /\ current' \in Positions /\ current' > start'
  BY <1>2, <1>5 DEF i
<1>6. CASE Char(i) \in Alphas /\ makeToken(identifierType(Text(i, identifier(i))), i, identifier(i), at)
  <2>1. current' = identifier(i)
    BY <1>6 DEF makeToken
  <2>. QED
    BY <1>1, <1>5, <1>6, <2>1, IdentifiersEnd
<1>7. CASE Char(i) \in Digits /\ makeToken("NUMBER", i, number(i), at)
  <2>1. current' = number(i)
    BY <1>7 DEF makeToken
  <2>. QED
    BY <1>1, <1>5, <1>7, <2>1, NumbersEnd
<1>8. Char(i) # NUL => i + 1 \in Positions /\ i + 1 > i
  BY <1>1, NulEndsText
<1>9. CASE \/ Char(i) # NUL /\ makeToken(Single[Char(i)], i, i + 1, at)
           \/ Char(i) # NUL /\ makeToken(OrEqual[Char(i)], i, i + 1, at)
           \/ Char(i) # NUL /\ Unexpected(i, at)
  <2>1. current' = i + 1
    BY <1>9 DEF makeToken, Unexpected, errorToken
  <2>. QED
    BY <1>5, <1>8, <1>9, <2>1
<1>10. CASE Char(i) # NUL /\ match(i + 1, "=") /\ makeToken(OrEqual[Char(i)] \o "_EQUAL", i, i + 2, at)
  <2>1. i + 1 \in Positions
    BY <1>8, <1>10
  <2>2. Char(i + 1) # NUL
    BY <1>10, NoNul DEF match
  <2>3. (i + 1) + 1 \in Positions
    BY <2>1, <2>2, NulEndsText
  <2>4. current' = i + 2
    BY <1>10 DEF makeToken
  <2>5. (i + 1) + 1 = i + 2 /\ i + 2 > i
    BY <1>1, NulEndsText
  <2>. QED
    BY <1>5, <2>3, <2>4, <2>5
<1>11. CASE Char(i) = QUOTE /\ string(i, at)
  BY <1>1, <1>5, <1>11, StringsEnd
<1>. QED
  BY <1>3, <1>4, <1>6, <1>7, <1>9, <1>10, <1>11

-----------------------------------------------------------------------------
(* The theorems.                                                             *)

IInv == IsText /\ WithinText

LEMMA AlwaysIInv == Spec => []IInv
<1>1. Init => IInv
  <2>. SUFFICES ASSUME Init PROVE IInv
    OBVIOUS
  <2>1. IsText
    BY SourcesAssumption DEF Init, IsText, NUL
  <2>. QED
    BY <2>1, NulEndsText DEF Init, IInv, WithinText
<1>2. IInv /\ [scanToken]_vars => IInv'
  <2>. SUFFICES ASSUME IInv, [scanToken]_vars PROVE IInv'
    OBVIOUS
  <2>1. CASE scanToken
    <3>1. source' = source
      BY <2>1 DEF scanToken
    <3>2. start' \in Positions /\ current' \in Positions /\ start' <= current'
      BY <2>1, TokensEnd, WhitespaceEnds, NulEndsText DEF IInv, WithinText
    <3>. QED
      BY <3>1, <3>2 DEF IInv, IsText, WithinText, Positions
  <2>2. CASE UNCHANGED vars
    BY <2>2 DEF vars, IInv, IsText, WithinText, Positions
  <2>. QED
    BY <2>1, <2>2
<1>. QED
  BY <1>1, <1>2, PTL DEF Spec

\* However the text ends, in a comment, a string or a number, the scanner stays
\* between its first character and the NUL after its last.
THEOREM NeverPastTheEnd == Spec => []WithinText
<1>1. IInv => WithinText
  BY DEF IInv
<1>. QED
  BY <1>1, AlwaysIInv, PTL

\* No call of scanToken reads a character again, and only the end of the text
\* is a token of no characters.
THEOREM CallsReadOn == Spec => ReadsOn
<1>1. IInv /\ [scanToken]_vars
        => [/\ start' >= current
            /\ current' > start' \/ (token'.type = "EOF" /\ current' = Len(source) + 1)]_vars
  BY TokensEnd, WhitespaceEnds DEF IInv, WithinText
<1>. QED
  BY <1>1, AlwaysIInv, PTL DEF Spec, ReadsOn
=============================================================================
