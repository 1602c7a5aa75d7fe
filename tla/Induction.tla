------------------------------ MODULE Induction ------------------------------
(***************************************************************************)
(* Induction on the natural numbers, stated of a set where a theorem with  *)
(* a predicate for a parameter would be out of the provers' reach: what    *)
(* the loops of Names and Prompt compute is proved from it.                *)
(***************************************************************************)
EXTENDS Naturals, Sequences, WellFoundedInduction, TLAPS

\* A set of numbers that has a member has a least one.
LEMMA Least ==
    ASSUME NEW S, S \subseteq Nat, S # {}
    PROVE  \E x \in S : \A y \in S : x <= y
PROOF
<1>1. PICK x \in S : \A y \in S : <<y, x>> \notin OpToRel(<, Nat)
    BY NatLessThanWellFounded, WFMin
<1>2. \A y \in S : ~(y < x) BY <1>1 DEF OpToRel
<1> QED BY <1>2

\* And one that is bounded a greatest one.
LEMMA Greatest ==
    ASSUME NEW n \in Nat, NEW S, S \subseteq 0..n, S # {}
    PROVE  \E x \in S : \A y \in S : y <= x
PROOF
<1> DEFINE Below == {n - y : y \in S}
<1>1. Below \subseteq Nat /\ Below # {}
  <2>1. \A y \in S : n - y \in Nat /\ n - y \in Below OBVIOUS
  <2> QED BY <2>1
<1>2. PICK z \in Below : \A y \in Below : z <= y
  <2> HIDE DEF Below
  <2> QED BY <1>1, Least
<1>3. PICK x \in S : z = n - x BY <1>2
<1>4. ASSUME NEW y \in S PROVE y <= x
  <2>1. n - x <= n - y BY <1>2, <1>3
  <2>2. x \in Nat /\ y \in Nat OBVIOUS
  <2> QED BY <2>1, <2>2
<1> QED BY <1>4

\* What holds of 0, and of n + 1 if of n, holds of every number up to k.
LEMMA UpTo ==
    ASSUME NEW k \in Nat, NEW S, 0 \in S, \A n \in 0..(k - 1) : n \in S => n + 1 \in S
    PROVE  0..k \subseteq S
PROOF
<1> SUFFICES ASSUME 0..k \ S # {} PROVE FALSE OBVIOUS
<1>1. PICK x \in 0..k \ S : \A y \in 0..k \ S : x <= y BY Least, 0..k \ S \subseteq Nat
<1>2. x # 0 /\ x - 1 \in 0..(k - 1) BY <1>1
<1>3. x - 1 \notin 0..k \ S BY <1>1, <1>2
<1>4. (x - 1) + 1 \in S BY <1>2, <1>3
<1> QED BY <1>1, <1>4

\* What holds of 0, and of n + 1 if of n, holds of every number.
LEMMA Always ==
    ASSUME NEW S, 0 \in S, \A n \in Nat : n \in S => n + 1 \in S
    PROVE  Nat \subseteq S
PROOF
<1> SUFFICES ASSUME NEW k \in Nat PROVE k \in S OBVIOUS
<1>1. 0..k \subseteq S BY UpTo
<1> QED BY <1>1

\* What holds of the empty sequence, and of s with one more element if of s,
\* holds of every sequence.
LEMMA BySequence ==
    ASSUME NEW S, NEW T, <<>> \in T, \A s \in Seq(S), e \in S : s \in T => Append(s, e) \in T
    PROVE  Seq(S) \subseteq T
PROOF
<1> DEFINE Short == {n \in Nat : \A s \in Seq(S) : Len(s) = n => s \in T}
<1>1. 0 \in Short
  <2>1. \A s \in Seq(S) : Len(s) = 0 => s = <<>> OBVIOUS
  <2> QED BY <2>1
<1>2. ASSUME NEW n \in Nat, n \in Short PROVE n + 1 \in Short
  <2> SUFFICES ASSUME NEW s \in Seq(S), Len(s) = n + 1 PROVE s \in T OBVIOUS
  <2> DEFINE front == SubSeq(s, 1, n)
  <2>1. front \in Seq(S) /\ Len(front) = n OBVIOUS
  <2>2. s[n + 1] \in S OBVIOUS
  <2>3. s = Append(front, s[n + 1]) OBVIOUS
  <2>4. front \in T BY <1>2, <2>1
  <2> QED BY <2>1, <2>2, <2>3, <2>4
<1>3. Nat \subseteq Short BY <1>1, <1>2, Always
<1> QED BY <1>3

\* f is what a loop over members of S has after each of its n turns, from x on.
Turns(f, n, x, g, S) == f[0] = x /\ \A i \in 1..n : f[i - 1] \in S => f[i] = g[i][f[i - 1]]

\* Every loop has them: a function may be given by each value from the one before.
LEMMA Recursion ==
    ASSUME NEW n \in Nat, NEW S, NEW x \in S, NEW g \in [1..n -> [S -> S]]
    PROVE  \E f \in [0..n -> S] : Turns(f, n, x, g, S)
PROOF
<1> DEFINE Have == {m \in 0..n : \E f \in [0..m -> S] :
                      \A i \in 0..m : f[i] = IF i = 0 THEN x ELSE g[i][f[i - 1]]}
<1>1. 0 \in Have
  <2> DEFINE f == [i \in 0..0 |-> x]
  <2>1. f \in [0..0 -> S] OBVIOUS
  <2>2. \A i \in 0..0 : f[i] = IF i = 0 THEN x ELSE g[i][f[i - 1]] OBVIOUS
  <2>3. \E k \in [0..0 -> S] : \A i \in 0..0 : k[i] = IF i = 0 THEN x ELSE g[i][k[i - 1]]
    <3> HIDE DEF f
    <3> QED BY <2>1, <2>2
  <2> QED BY <2>3
<1>2. ASSUME NEW m \in 0..(n - 1), m \in Have PROVE m + 1 \in Have
  <2>1. PICK f \in [0..m -> S] : \A i \in 0..m : f[i] = IF i = 0 THEN x ELSE g[i][f[i - 1]]
      BY <1>2
  <2> DEFINE h == [i \in 0..(m + 1) |-> IF i <= m THEN f[i] ELSE g[m + 1][f[m]]]
  <2>2. h \in [0..(m + 1) -> S] OBVIOUS
  <2>3. ASSUME NEW i \in 0..(m + 1)
        PROVE  h[i] = IF i = 0 THEN x ELSE g[i][h[i - 1]]
    <3>1. CASE i <= m BY <2>1, <3>1
    <3>2. CASE i = m + 1 BY <3>2
    <3> QED BY <3>1, <3>2
  <2>4. \E k \in [0..(m + 1) -> S] :
           \A i \in 0..(m + 1) : k[i] = IF i = 0 THEN x ELSE g[i][k[i - 1]]
    <3> HIDE DEF h
    <3> QED BY <2>2, <2>3
  <2> QED BY <2>4
<1>3. n \in Have
  <2> HIDE DEF Have
  <2>1. 0..n \subseteq Have BY <1>1, <1>2, UpTo
  <2> QED BY <2>1
<1>4. PICK f \in [0..n -> S] : \A i \in 0..n : f[i] = IF i = 0 THEN x ELSE g[i][f[i - 1]]
    BY <1>3
<1> QED BY <1>4 DEF Turns

\* And has them once, whatever else is known of it and if it has fewer turns.
LEMMA SameTurns ==
    ASSUME NEW n \in Nat, NEW k \in 0..n, NEW S, NEW x, NEW g,
           NEW f \in [0..n -> S], Turns(f, n, x, g, S), NEW h, Turns(h, k, x, g, S)
    PROVE  \A i \in 0..k : h[i] = f[i]
PROOF
<1> DEFINE Same == {i \in 0..k : h[i] = f[i]}
<1>1. 0 \in Same BY DEF Turns
<1>2. ASSUME NEW i \in 0..(k - 1), i \in Same PROVE i + 1 \in Same
  <2>1. i + 1 \in 1..k /\ (i + 1) - 1 = i OBVIOUS
  <2>2. h[i] = f[i] /\ h[i] \in S BY <1>2
  <2>3. h[i + 1] = g[i + 1][h[i]] BY <2>1, <2>2 DEF Turns
  <2>4. f[i + 1] = g[i + 1][f[i]] BY <2>1 DEF Turns
  <2> QED BY <2>1, <2>2, <2>3, <2>4
<1>3. 0..k \subseteq Same
  <2>1. k \in Nat OBVIOUS
  <2> HIDE DEF Same
  <2> QED BY <1>1, <1>2, <2>1, UpTo
<1> QED BY <1>3
=============================================================================
