------------------------------- MODULE Values -------------------------------
(* NaN boxing: a value of clox is a word of 64 bits, a double unless its     *)
(* quiet NaN bits are all set. A word is the set of its bits that are 1, so  *)
(* that & is \cap and | is \cup. Beside each word stands the tagged value    *)
(* that value.h uses when NAN_BOXING is off, which is the reference here.    *)
CONSTANTS Bit,         \* 63..0
          Sign,        \* 63
          Exponent,    \* 62..52
          Quiet,       \* 51, which makes a NaN quiet, and 50
          Low, High,   \* the two bits of the tags, 0 and 1
          Double,      \* doubles that literals and arithmetic give
          Address,     \* addresses of objects
          Slot         \* slots of the stack

QNAN == Exponent \cup Quiet
SIGN_BIT == {Sign}

ASSUME LayoutAssumption ==
  /\ Exponent \subseteq Bit /\ Quiet \subseteq Bit /\ {Sign, Low, High} \subseteq Bit
  /\ Low # High /\ {Sign, Low, High} \cap QNAN = {} /\ Sign \notin {Low, High}
\* Arithmetic gives one NaN, without bit 50; addresses have at most 48 bits.
ASSUME DoubleAssumption == \A x \in Double : x \subseteq Bit /\ ~(QNAN \subseteq x)
ASSUME AddressAssumption == \A p \in Address : p \subseteq Bit \ (SIGN_BIT \cup QNAN)

-----------------------------------------------------------------------------
TAG_NIL == {Low}
\* Mutant: false and nil have the same tag.
FalseTaggedAsNil == {Low}
TAG_FALSE == {High}
TAG_TRUE == {Low, High}

NIL_VAL == QNAN \cup TAG_NIL
FALSE_VAL == QNAN \cup TAG_FALSE
TRUE_VAL == QNAN \cup TAG_TRUE
BOOL_VAL(b) == IF b THEN TRUE_VAL ELSE FALSE_VAL
OBJ_VAL(obj) == SIGN_BIT \cup QNAN \cup obj

IS_NUMBER(value) == value \cap QNAN # QNAN
IS_NIL(value) == value = NIL_VAL
IS_BOOL(value) == value \cup {Low} = TRUE_VAL
\* Mutant: the sign bit alone tells an object.
IsObjBySign(value) == value \cap SIGN_BIT = SIGN_BIT
IS_OBJ(value) == value \cap (QNAN \cup SIGN_BIT) = QNAN \cup SIGN_BIT

AS_BOOL(value) == value = TRUE_VAL
AS_OBJ(value) == value \ (SIGN_BIT \cup QNAN)

valuesEqual(a, b) == a = b
isFalsey(value) == IS_NIL(value) \/ (IS_BOOL(value) /\ ~AS_BOOL(value))

-----------------------------------------------------------------------------
(* The tagged values; true is the bit Low alone, false no bit.               *)

True == {Low}
Tagged ==
  [type : {"nil"}, as : {{}}] \cup [type : {"bool"}, as : {{}, True}]
    \cup [type : {"number"}, as : Double] \cup [type : {"obj"}, as : Address]
TaggedBool(b) == [type |-> "bool", as |-> IF b THEN True ELSE {}]

\* The word that the macros make of a tagged value.
Boxed(v) ==
  CASE v.type = "nil" -> NIL_VAL
    [] v.type = "bool" -> BOOL_VAL(v.as = True)
    [] v.type = "number" -> v.as
    [] v.type = "obj" -> OBJ_VAL(v.as)

\* == on doubles: no NaN equals itself, the two zeros are equal.
IsNaN(x) == Exponent \subseteq x /\ x # Exponent /\ x # Exponent \cup SIGN_BIT
IsZero(x) == x \subseteq SIGN_BIT
SameNumber(x, y) == (x = y /\ ~IsNaN(x)) \/ (IsZero(x) /\ IsZero(y))

TaggedEqual(a, b) == a.type = b.type /\ (IF a.type = "number" THEN SameNumber(a.as, b.as) ELSE a.as = b.as)
TaggedFalsey(v) == v.type = "nil" \/ v = TaggedBool(FALSE)

-----------------------------------------------------------------------------
VARIABLES value,       \* the words on the stack
          tagged       \* what the program means by them

vars == <<value, tagged>>

Init == value = [s \in Slot |-> NIL_VAL] /\ tagged = [s \in Slot |-> [type |-> "nil", as |-> {}]]

Put(s, word, v) == value' = [value EXCEPT ![s] = word] /\ tagged' = [tagged EXCEPT ![s] = v]

\* A constant, nil, true, false, the result of arithmetic, a new object.
Push(s) == \E v \in Tagged : Put(s, Boxed(v), v)

\* OP_NOT.
Not(s) == Put(s, BOOL_VAL(isFalsey(value[s])), TaggedBool(TaggedFalsey(tagged[s])))

\* OP_EQUAL; the answer on NaNs and zeros is that of the bits.
Equal(s, t) == Put(s, BOOL_VAL(valuesEqual(value[s], value[t])), TaggedBool(tagged[s] = tagged[t]))

Next == \E s \in Slot : Push(s) \/ Not(s) \/ \E t \in Slot : Equal(s, t)
Spec == Init /\ [][Next]_vars

-----------------------------------------------------------------------------
\* Every word on the stack is read as what was put there: exactly one of the
\* type tests holds, that of its type, and the macros give back what it holds,
\* so that the collector follows the objects and nothing else (value.h,
\* isFalsey, markValue, printValue).
Faithful ==
  \A s \in Slot :
    LET word == value[s]  v == tagged[s]
    IN /\ v \in Tagged
       /\ IS_NIL(word) <=> v.type = "nil"
       /\ IS_BOOL(word) <=> v.type = "bool"
       /\ IS_NUMBER(word) <=> v.type = "number"
       /\ IS_OBJ(word) <=> v.type = "obj"
       /\ IS_BOOL(word) => (AS_BOOL(word) <=> v.as = True)
       /\ IS_NUMBER(word) => word = v.as
       /\ IS_OBJ(word) => AS_OBJ(word) = v.as

\* The two bodies of valuesEqual, with and without NAN_BOXING, agree on all
\* values but NaNs, which then equal themselves, and zeros of opposite signs.
EqualAsTagged ==
  \A s, t \in Slot :
    valuesEqual(value[s], value[t]) # TaggedEqual(tagged[s], tagged[t]) =>
      /\ tagged[s].type = "number" /\ tagged[t].type = "number"
      /\ IsNaN(value[s]) \/ (IsZero(value[s]) /\ IsZero(value[t]))
=============================================================================
