---------------------------- MODULE NaturalFacts ----------------------------
(* What the proofs of the other modules use of the natural numbers: a set of *)
(* them has a least member, so a loop that looks for the first place where   *)
(* something holds finds one, and what a loop keeps turn by turn it keeps.   *)
EXTENDS Integers, WellFoundedInduction, NaturalsInduction, TLAPS

\* Of the numbers for which something holds, one is the least.
LEMMA LeastNumber ==
    ASSUME NEW S \in SUBSET Nat, S # {}
    PROVE  \E n \in S : \A m \in S : n <= m
<1>1. PICK n \in S : \A m \in S : <<m, n>> \notin OpToRel(<, Nat)
  BY NatLessThanWellFounded, WFMin
<1>2. \A m \in S : ~(m < n)
  BY <1>1 DEF OpToRel
<1>. QED
  BY <1>2

\* Induction up to n, over the set of the turns after which something holds.
LEMMA TurnByTurn ==
    ASSUME NEW n \in Nat, NEW S, 0 \in S,
           \A i \in 0..n - 1 : i \in S => i + 1 \in S
    PROVE  0..n \subseteq S
<1>. SUFFICES ASSUME 0..n \ S # {} PROVE FALSE
  OBVIOUS
<1>1. PICK m \in 0..n \ S : \A k \in 0..n \ S : m <= k
  <2>1. 0..n \ S \in SUBSET Nat
    OBVIOUS
  <2>. QED
    BY <2>1, LeastNumber
<1>2. m # 0 /\ m - 1 \in 0..n - 1
  BY <1>1
<1>3. m - 1 \in S
  BY <1>1, <1>2
<1>4. (m - 1) + 1 \in S /\ (m - 1) + 1 = m
  BY <1>2, <1>3
<1>. QED
  BY <1>1, <1>4
=============================================================================
