------------------------------- MODULE Induction -------------------------------
(***************************************************************************)
(* Induction over the natural numbers, as a statement about sets: the form *)
(* in which the provers can use it.                                        *)
(***************************************************************************)
EXTENDS Integers, WellFoundedInduction, TLAPS

\* A set of numbers has a smallest one.
LEMMA NatSmallest ==
  ASSUME NEW S, S \subseteq Nat, S # {}
  PROVE  \E n \in S : \A m \in S : n <= m
<1> DEFINE R == OpToRel(<, Nat)
<1>1. IsWellFoundedOn(R, Nat)
  BY NatLessThanWellFounded
<1> HIDE DEF R
<1>2. PICK n \in S : \A m \in S : ~(<<m, n>> \in R)
  BY <1>1, WFMin
<1>3. ASSUME NEW m \in S, ~(n <= m)
      PROVE  <<m, n>> \in R
  BY <1>3 DEF R, OpToRel
<1> QED
  BY <1>2, <1>3

\* A set that holds 0, and with every number the next, holds all of them: the
\* smallest number it lacks would come after one it has.
LEMMA NatRange ==
  ASSUME NEW S, 0 \in S, \A n \in Nat : n \in S => n + 1 \in S
  PROVE  Nat \subseteq S
<1> SUFFICES ASSUME Nat \ S # {}
             PROVE  FALSE
  OBVIOUS
<1>1. PICK n \in Nat \ S : \A m \in Nat \ S : n <= m
  BY NatSmallest
<1>2. n - 1 \in Nat \ S
  OBVIOUS
<1> QED
  BY <1>1, <1>2

\* A recursive function that counts up from 0.
Recurses(f, n, V, base, Step) ==
  f \in [0 .. n -> V] /\ f[0] = base /\ \A i \in 1 .. n : f[i] = Step[i][f[i - 1]]

\* There is one if its first value is in a set, and so is, after every value in the
\* set, the next.
LEMMA Recursion ==
  ASSUME NEW n \in Nat, NEW V, NEW base \in V, NEW Step \in [1 .. n -> [V -> V]]
  PROVE  \E f : Recurses(f, n, V, base, Step)
<1> DEFINE Fun(f, m) == /\ f \in [0 .. m -> V] /\ f[0] = base
                        /\ \A i \in 1 .. m : f[i] = Step[i][f[i - 1]]
           Fine == {m \in Nat : m <= n => \E f : Fun(f, m)}
<1>1. 0 \in Fine
  <2>1. Fun([i \in 0 .. 0 |-> base], 0)
    OBVIOUS
  <2> QED
    BY <2>1
<1>2. ASSUME NEW m \in Nat, m \in Fine
      PROVE  m + 1 \in Fine
  <2> SUFFICES ASSUME m + 1 <= n
               PROVE  \E f : Fun(f, m + 1)
    OBVIOUS
  <2>1. PICK f : Fun(f, m)
    BY <1>2
  <2> DEFINE x == Step[m + 1][f[m]]
             g == [i \in 0 .. m + 1 |-> IF i = m + 1 THEN x ELSE f[i]]
  <2>2. x \in V /\ m \in 0 .. m /\ m + 1 \in 1 .. n
    BY <2>1
  <2> HIDE DEF x
  <2>3. g \in [0 .. m + 1 -> V] /\ g[0] = base
    BY <2>1, <2>2
  <2>4. ASSUME NEW i \in 1 .. m + 1
        PROVE  g[i] = Step[i][g[i - 1]]
    <3>1. g[i - 1] = f[i - 1] /\ i - 1 \in 0 .. m
      OBVIOUS
    <3>2. CASE i = m + 1
      BY <3>1, <3>2 DEF x
    <3>3. CASE i # m + 1
      <4>1. i \in 1 .. m /\ g[i] = f[i]
        BY <3>3
      <4> HIDE DEF g
      <4> QED
        BY <2>1, <3>1, <4>1
    <3> QED
      BY <3>2, <3>3
  <2> HIDE DEF g
  <2> QED
    BY <2>3, <2>4
<1> HIDE DEF Fine
<1>3. n \in Fine
  BY <1>1, <1>2, NatRange
<1> QED
  BY <1>3 DEF Fine, Recurses

\* Up to a bound it is enough that a set holds 0, and every number that comes after
\* one of its own.
LEMMA Climb ==
  ASSUME NEW n \in Nat, NEW S, 0 \in S, \A i \in 1 .. n : i - 1 \in S => i \in S
  PROVE  \A i \in 0 .. n : i \in S
<1> DEFINE T == {m \in Nat : m <= n => m \in S}
<1>1. 0 \in T
  OBVIOUS
<1>2. ASSUME NEW m \in Nat, m \in T
      PROVE  m + 1 \in T
  <2>1. CASE m + 1 <= n
    <3>1. m + 1 \in 1 .. n /\ (m + 1) - 1 = m /\ m \in S
      BY <1>2, <2>1
    <3> QED
      BY <3>1
  <2> QED
    BY <2>1
<1> HIDE DEF T
<1>3. Nat \subseteq T
  BY <1>1, <1>2, NatRange
<1> QED
  BY <1>3 DEF T

\* The values of such a function are all in the set.
LEMMA RecursionType ==
  ASSUME NEW n \in Nat, NEW V, NEW f, f[0] \in V, \A i \in 1 .. n : f[i - 1] \in V => f[i] \in V
  PROVE  \A i \in 0 .. n : f[i] \in V
<1> DEFINE S == {i \in Nat : f[i] \in V}
<1>1. 0 \in S /\ \A i \in 1 .. n : i - 1 \in S => i \in S
  OBVIOUS
<1> HIDE DEF S
<1>2. \A i \in 0 .. n : i \in S
  BY <1>1, Climb
<1> QED
  BY <1>2 DEF S
=============================================================================
