---------------------------- MODULE ValuesProofs ----------------------------
(* NaN boxing loses nothing, whatever the layout of the word, the doubles    *)
(* and the addresses, as long as the assumptions of Values hold of them.     *)
EXTENDS Values, TLAPS

USE DEF TAG_NIL, TAG_FALSE, TAG_TRUE, SIGN_BIT

Read(word, v) ==
  /\ IS_NIL(word) <=> v.type = "nil"
  /\ IS_BOOL(word) <=> v.type = "bool"
  /\ IS_NUMBER(word) <=> v.type = "number"
  /\ IS_OBJ(word) <=> v.type = "obj"
  /\ IS_BOOL(word) => (AS_BOOL(word) <=> v.as = True)
  /\ IS_NUMBER(word) => word = v.as
  /\ IS_OBJ(word) => AS_OBJ(word) = v.as

\* The three words with a tag differ, in the two low bits.
LEMMA TagsDiffer == NIL_VAL # TRUE_VAL /\ NIL_VAL # FALSE_VAL /\ TRUE_VAL # FALSE_VAL
BY LayoutAssumption DEF NIL_VAL, FALSE_VAL, TRUE_VAL

\* A word with all the bits of QNAN is no number; the sign bit then tells an
\* object from a tag.
LEMMA ReadNil == Read(NIL_VAL, [type |-> "nil", as |-> {}])
BY LayoutAssumption, TagsDiffer
  DEF Read, NIL_VAL, FALSE_VAL, TRUE_VAL, IS_NIL, IS_BOOL, IS_NUMBER, IS_OBJ
LEMMA ReadBool == \A b \in BOOLEAN : Read(BOOL_VAL(b), TaggedBool(b))
BY LayoutAssumption, TagsDiffer
  DEF Read, TaggedBool, True, BOOL_VAL, NIL_VAL, FALSE_VAL, TRUE_VAL, IS_NIL, IS_BOOL, IS_NUMBER, IS_OBJ, AS_BOOL
LEMMA ReadNumber == \A x \in Double : Read(x, [type |-> "number", as |-> x])
BY LayoutAssumption, DoubleAssumption
  DEF Read, NIL_VAL, TRUE_VAL, IS_NIL, IS_BOOL, IS_NUMBER, IS_OBJ
LEMMA ReadObject == \A p \in Address : Read(OBJ_VAL(p), [type |-> "obj", as |-> p])
BY LayoutAssumption, AddressAssumption
  DEF Read, OBJ_VAL, NIL_VAL, TRUE_VAL, IS_NIL, IS_BOOL, IS_NUMBER, IS_OBJ, AS_OBJ

LEMMA ReadBoxed == \A v \in Tagged : Read(Boxed(v), v)
<1> SUFFICES ASSUME NEW v \in Tagged PROVE Read(Boxed(v), v)
  OBVIOUS
<1>1. CASE v \in [type : {"nil"}, as : {{}}]
  <2>1. v = [type |-> "nil", as |-> {}]
    BY <1>1
  <2> QED BY <2>1, ReadNil DEF Boxed
<1>2. CASE v \in [type : {"bool"}, as : {{}, True}]
  <2>1. v = TaggedBool(v.as = True)
    BY <1>2 DEF TaggedBool, True
  <2>2. Boxed(v) = BOOL_VAL(v.as = True)
    BY <1>2 DEF Boxed
  <2>3. Read(BOOL_VAL(v.as = True), TaggedBool(v.as = True))
    BY ReadBool
  <2> QED BY <2>1, <2>2, <2>3
<1>3. CASE v \in [type : {"number"}, as : Double]
  <2>1. v = [type |-> "number", as |-> v.as] /\ v.as \in Double
    BY <1>3
  <2>2. Boxed(v) = v.as
    BY <1>3 DEF Boxed
  <2> QED BY <2>1, <2>2, ReadNumber
<1>4. CASE v \in [type : {"obj"}, as : Address]
  <2>1. v = [type |-> "obj", as |-> v.as] /\ v.as \in Address
    BY <1>4
  <2>2. Boxed(v) = OBJ_VAL(v.as)
    BY <1>4 DEF Boxed
  <2> QED BY <2>1, <2>2, ReadObject
<1> QED BY <1>1, <1>2, <1>3, <1>4 DEF Tagged

\* No two values have the same word.
LEMMA BoxedOnce == \A v, w \in Tagged : Boxed(v) = Boxed(w) <=> v = w
<1> SUFFICES ASSUME NEW v \in Tagged, NEW w \in Tagged, Boxed(v) = Boxed(w) PROVE v = w
  OBVIOUS
<1>1. Read(Boxed(v), v) /\ Read(Boxed(v), w)
  BY ReadBoxed
<1>2. v.type = w.type
  BY <1>1 DEF Read, Tagged
<1>3. v.as = w.as
  BY <1>1, <1>2 DEF Read, Tagged
<1> QED BY <1>2, <1>3 DEF Tagged

LEMMA FalseBoxed == \A b \in BOOLEAN : TaggedBool(b) \in Tagged /\ Boxed(TaggedBool(b)) = BOOL_VAL(b)
BY DEF TaggedBool, Tagged, Boxed, True

\* What the proof carries along: each word is the boxed form of its value.
Inv ==
  /\ tagged \in [Slot -> Tagged]
  /\ value = [s \in Slot |-> Boxed(tagged[s])]

LEMMA InvInit == Init => Inv
BY DEF Init, Inv, Tagged, Boxed

LEMMA InvNext == Inv /\ [Next]_vars => Inv'
<1> SUFFICES ASSUME Inv, [Next]_vars PROVE Inv'
  OBVIOUS
<1>1. ASSUME NEW s \in Slot, NEW v \in Tagged, Put(s, Boxed(v), v) PROVE Inv'
  BY <1>1 DEF Inv, Put
<1>2. ASSUME NEW s \in Slot, Push(s) PROVE Inv'
  BY <1>1, <1>2 DEF Push
<1>3. ASSUME NEW s \in Slot, Not(s) PROVE Inv'
  <2>1. tagged[s] \in Tagged /\ Read(value[s], tagged[s])
    BY ReadBoxed DEF Inv
  <2>2. isFalsey(value[s]) <=> TaggedFalsey(tagged[s])
    BY <2>1 DEF Read, isFalsey, TaggedFalsey, TaggedBool, Tagged, True
  <2>3. Boxed(TaggedBool(TaggedFalsey(tagged[s]))) = BOOL_VAL(isFalsey(value[s]))
    BY <2>2, FalseBoxed DEF TaggedFalsey, isFalsey, BOOL_VAL
  <2> QED BY <1>1, <1>3, <2>3, FalseBoxed DEF Not, TaggedFalsey
<1>4. ASSUME NEW s \in Slot, NEW t \in Slot, Equal(s, t) PROVE Inv'
  <2>1. /\ tagged[s] \in Tagged /\ Read(value[s], tagged[s])
        /\ tagged[t] \in Tagged /\ Read(value[t], tagged[t])
        /\ value[s] = Boxed(tagged[s]) /\ value[t] = Boxed(tagged[t])
    BY ReadBoxed DEF Inv
  <2>2. valuesEqual(value[s], value[t]) <=> tagged[s] = tagged[t]
    BY <2>1, BoxedOnce DEF valuesEqual
  <2>3. Boxed(TaggedBool(tagged[s] = tagged[t])) = BOOL_VAL(valuesEqual(value[s], value[t]))
    BY <2>2, FalseBoxed DEF valuesEqual, BOOL_VAL
  <2> QED BY <1>1, <1>4, <2>3, FalseBoxed DEF Equal
<1>5. CASE UNCHANGED vars
  BY <1>5 DEF Inv, vars
<1> QED BY <1>2, <1>3, <1>4, <1>5 DEF Next

\* Every word on the stack is read as what was put there (value.h).
THEOREM FaithfulWords == Spec => []Faithful
<1>1. Inv => Faithful
  BY ReadBoxed DEF Inv, Faithful, Read
<1> QED BY InvInit, InvNext, <1>1, PTL DEF Spec

\* valuesEqual on words is equality of the values, but on NaNs and zeros.
THEOREM WordsEqualAsValues == Spec => []EqualAsTagged
<1>1. Inv => EqualAsTagged
  <2> SUFFICES ASSUME Inv, NEW s \in Slot, NEW t \in Slot,
                      valuesEqual(value[s], value[t]) # TaggedEqual(tagged[s], tagged[t])
               PROVE /\ tagged[s].type = "number" /\ tagged[t].type = "number"
                     /\ IsNaN(value[s]) \/ (IsZero(value[s]) /\ IsZero(value[t]))
    BY DEF EqualAsTagged
  <2>1. /\ tagged[s] \in Tagged /\ tagged[t] \in Tagged
        /\ value[s] = Boxed(tagged[s]) /\ value[t] = Boxed(tagged[t])
    BY DEF Inv
  <2>2. valuesEqual(value[s], value[t]) <=> tagged[s] = tagged[t]
    BY <2>1, BoxedOnce DEF valuesEqual
  <2>3. tagged[s] = tagged[t] <=> tagged[s].type = tagged[t].type /\ tagged[s].as = tagged[t].as
    BY <2>1 DEF Tagged
  <2>4. tagged[s].type = "number" /\ tagged[t].type = "number"
    BY <2>2, <2>3 DEF TaggedEqual, valuesEqual
  <2>5. value[s] = tagged[s].as /\ value[t] = tagged[t].as
    BY <2>1, <2>4 DEF Boxed
  <2> QED BY <2>2, <2>3, <2>4, <2>5 DEF TaggedEqual, SameNumber, valuesEqual
<1> QED BY InvInit, InvNext, <1>1, PTL DEF Spec
=============================================================================
