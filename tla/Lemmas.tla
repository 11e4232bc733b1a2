------------------------------- MODULE Lemmas --------------------------------
(***************************************************************************)
(* Facts that the proofs of several components use: induction over the     *)
(* naturals, stated of a set because the provers cannot instantiate an     *)
(* operator (it rests on the least element of a non-empty set of naturals, *)
(* that is, on the well-foundedness of < on Nat); that a function defined  *)
(* by recursion exists; quotients and remainders; and what a FIFO is after *)
(* an enq and after a deq.                                                 *)
(***************************************************************************)
EXTENDS Integers, Sequences, SequenceTheorems, WellFoundedInduction, TLAPS

(* A non-empty set of naturals has a least element.                        *)
LEMMA LeastNatural ==
    ASSUME NEW T, T \subseteq Nat, T # {}
    PROVE  \E x \in T : \A y \in T : x <= y
<1> DEFINE R == OpToRel(<, Nat)
<1>1. \A y, x \in Nat : y < x => <<y, x>> \in R
  BY DEF OpToRel
<1>2. \E x \in T : \A y \in T : ~(<<y, x>> \in R)
  BY NatLessThanWellFounded, WFMin, Zenon
<1> HIDE DEF R
<1>3. PICK x \in T : \A y \in T : ~(<<y, x>> \in R)
  BY <1>2
<1>4. ASSUME NEW y \in T PROVE x <= y
  <2>1. x \in Nat /\ y \in Nat
    OBVIOUS
  <2>2. ~(y < x)
    BY <1>1, <1>3, <2>1
  <2> QED
    BY <2>1, <2>2
<1> QED
  BY <1>4

(* A set that holds zero and, with each natural, the next one, holds every *)
(* natural.                                                                *)
LEMMA InductionOnSet ==
    ASSUME NEW T, 0 \in T, \A n \in Nat : n \in T => n + 1 \in T
    PROVE  \A n \in Nat : n \in T
<1> SUFFICES ASSUME Nat \ T # {} PROVE FALSE
  OBVIOUS
<1>1. PICK x \in Nat \ T : \A y \in Nat \ T : x <= y
  BY LeastNatural
<1>2. x - 1 \in Nat \ T
  BY <1>1
<1> QED
  BY <1>1, <1>2

(* A function defined by recursion over 0 .. n: g[i] is the step that      *)
(* leads to its value at i, over the integers or any set S.                *)
StepsIn(g, n, S) == \A i \in 1 .. n : g[i] \in [S -> S]
Iterates(f, g, n) == \A i \in 1 .. n : f[i] = g[i][f[i - 1]]

(* There is one.                                                           *)
LEMMA RecursionExists ==
    ASSUME NEW S, NEW s0 \in S, NEW n \in Nat, NEW g, StepsIn(g, n, S)
    PROVE  \E f \in [0 .. n -> S] : f[0] = s0 /\ Iterates(f, g, n)
<1> DEFINE T == {l \in Nat : l <= n => \E f \in [0 .. l -> S] : f[0] = s0 /\ Iterates(f, g, l)}
<1>1. 0 \in T
  <2> DEFINE f == [i \in 0 .. 0 |-> s0]
  <2>1. f \in [0 .. 0 -> S] /\ f[0] = s0 /\ Iterates(f, g, 0)
    BY DEF Iterates
  <2> QED
    BY <2>1
<1>2. ASSUME NEW l \in Nat, l \in T PROVE l + 1 \in T
  <2> SUFFICES ASSUME l + 1 <= n
               PROVE  \E f \in [0 .. l + 1 -> S] : f[0] = s0 /\ Iterates(f, g, l + 1)
    OBVIOUS
  <2>1. PICK h \in [0 .. l -> S] : h[0] = s0 /\ \A i \in 1 .. l : h[i] = g[i][h[i - 1]]
    BY <1>2 DEF Iterates
  <2>2. PICK v : v = g[l + 1][h[l]]
    OBVIOUS
  <2>3. v \in S
    <3>1. l + 1 \in 1 .. n /\ h[l] \in S
      OBVIOUS
    <3>2. g[l + 1] \in [S -> S]
      BY <3>1 DEF StepsIn
    <3> QED
      BY <2>2, <3>1, <3>2
  <2> DEFINE f == [i \in 0 .. l + 1 |-> IF i = l + 1 THEN v ELSE h[i]]
  <2>4. f \in [0 .. l + 1 -> S]
    BY <2>3
  <2>5. f[0] = s0
    BY <2>1
  <2>6. ASSUME NEW i \in 1 .. l + 1 PROVE f[i] = g[i][f[i - 1]]
    <3>1. i - 1 \in 0 .. l /\ f[i - 1] = h[i - 1]
      OBVIOUS
    <3>2. CASE i = l + 1
      BY <2>2, <3>1, <3>2
    <3>3. CASE i # l + 1
      BY <2>1, <3>1, <3>3
    <3> QED
      BY <3>2, <3>3
  <2> HIDE DEF f
  <2>7. Iterates(f, g, l + 1)
    BY <2>6 DEF Iterates
  <2> QED
    BY <2>4, <2>5, <2>7
<1> HIDE DEF T
<1>3. n \in T
  BY <1>1, <1>2, InductionOnSet
<1> QED
  BY <1>3 DEF T

(* A division with remainder is unique.                                    *)
LEMMA DivisionUnique ==
    ASSUME NEW m \in Nat \ {0}, NEW k \in Int, NEW r \in 0..(m - 1), NEW n \in Int,
           n = k * m + r
    PROVE  n \div m = k /\ n % m = r
<1>1. PICK q \in Int, s \in 0..(m - 1) : q = n \div m /\ s = n % m /\ n = q * m + s
  BY SMTT(30)
<1>2. (q - k) * m = r - s
  BY <1>1
<1>3. q - k <= 0
  <2> SUFFICES ASSUME q - k >= 1 PROVE FALSE
    BY <1>1
  <2>1. (q - k) * m >= m
    OBVIOUS
  <2> QED
    BY <1>1, <1>2, <2>1
<1>4. q - k >= 0
  <2> SUFFICES ASSUME k - q >= 1 PROVE FALSE
    BY <1>1
  <2>1. (k - q) * m >= m
    OBVIOUS
  <2>2. (k - q) * m = s - r
    BY <1>1
  <2> QED
    BY <1>1, <2>1, <2>2
<1>5. q = k
  BY <1>1, <1>3, <1>4
<1> QED
  BY <1>1, <1>2, <1>5

(* Every integer has a quotient and a remainder.                           *)
LEMMA DivisionExists ==
    ASSUME NEW m \in Nat \ {0}, NEW n \in Int
    PROVE  n \div m \in Int /\ n % m \in 0..(m - 1) /\ n = (n \div m) * m + (n % m)
  BY SMTT(30)

(* What removing the oldest entry of a FIFO leaves.                        *)
LEMMA TailFacts ==
    ASSUME NEW E, NEW s \in Seq(E), s # <<>>
    PROVE  /\ Tail(s) \in Seq(E) /\ Len(s) \in Nat \ {0} /\ Len(Tail(s)) = Len(s) - 1
           /\ \A i \in 1..(Len(s) - 1) : Tail(s)[i] = s[i + 1]
           /\ Head(s) = s[1] /\ s[1] \in E
  BY HeadTailProperties, EmptySeq

(* What adding an entry to a FIFO leaves.                                  *)
LEMMA AppendFacts ==
    ASSUME NEW E, NEW s \in Seq(E), NEW e \in E
    PROVE  /\ Append(s, e) \in Seq(E) /\ Len(s) \in Nat /\ Len(Append(s, e)) = Len(s) + 1
           /\ \A i \in 1..Len(s) : Append(s, e)[i] = s[i]
           /\ Append(s, e)[Len(s) + 1] = e
  BY AppendProperties, LenProperties
=============================================================================
