------------------------------ MODULE SortProofs ------------------------------
(***************************************************************************)
(* Theorems about Sort: SORT answers with the elements that LIMIT asks     *)
(* for, in order, for lists and sets of any length and any window whose    *)
(* end fits an int.                                                        *)
(*                                                                         *)
(* pqsort rearranges the elements among those it is called for             *)
(* (Rearranged). The loops that split them keep those that are equal to    *)
(* the pivot on both ends, and between them the smaller ones before the    *)
(* greater ones (IsSplit); when the equal ones have gone to the middle     *)
(* (IsGathered), an element of the window that is in its place among the   *)
(* smaller or the greater ones is in its place among all (WindowJoins). A  *)
(* part that is left alone has no element of the window (SubIs).           *)
(***************************************************************************)
EXTENDS Algorithms, Induction, SequenceTheorems, FiniteSetTheorems, TLAPS

-----------------------------------------------------------------------------
(* SORT.                                                                   *)

\* The place of an element in the order that is asked for.
Place(d, x) == IF d THEN -x.key ELSE x.key

\* cmp orders elements as their places are ordered.
LEMMA CmpIs ==
  ASSUME NEW d, NEW x, NEW y, x.key \in Int, y.key \in Int
  PROVE  /\ Cmp(d, x, y) \in {-1, 0, 1} /\ Place(d, x) \in Int
         /\ Cmp(d, x, y) > 0 <=> Place(d, x) > Place(d, y)
         /\ Cmp(d, x, y) < 0 <=> Place(d, x) < Place(d, y)
         /\ Cmp(d, x, y) = 0 <=> Place(d, x) = Place(d, y)
         /\ Cmp(d, x, y) <= 0 <=> Place(d, x) <= Place(d, y)
<1>1. CASE d
  <2> DEFINE c == IF x.key > y.key THEN 1 ELSE IF x.key < y.key THEN -1 ELSE 0
  <2>1. Cmp(d, x, y) = -c
    BY <1>1 DEF Cmp
  <2>2. Place(d, x) = -x.key /\ Place(d, y) = -y.key
    BY <1>1 DEF Place
  <2>3. CASE x.key > y.key
    <3>1. Cmp(d, x, y) = -1
      BY <2>1, <2>3
    <3> QED
      BY <2>2, <2>3, <3>1
  <2>4. CASE x.key < y.key
    <3>0. c = -1
      BY <2>4
    <3>1. Cmp(d, x, y) = 1
      <4>1. \A z \in Int : -z = 0 - z
        OBVIOUS
      <4>2. c \in Int
        BY <3>0
      <4> HIDE DEF c
      <4>3. Cmp(d, x, y) = 0 - c
        BY <2>1, <4>1, <4>2
      <4> QED
        BY <3>0, <4>3
    <3> QED
      BY <2>2, <2>4, <3>1
  <2>5. CASE x.key = y.key
    <3>0. c = 0
      BY <2>5
    <3>1. Cmp(d, x, y) = 0
      <4>1. \A z \in Int : -z = 0 - z
        OBVIOUS
      <4>2. c \in Int
        BY <3>0
      <4> HIDE DEF c
      <4>3. Cmp(d, x, y) = 0 - c
        BY <2>1, <4>1, <4>2
      <4> QED
        BY <3>0, <4>3
    <3> QED
      BY <2>2, <2>5, <3>1
  <2> QED
    BY <2>3, <2>4, <2>5
<1>2. CASE ~d
  BY <1>2 DEF Cmp, Place
<1> QED
  BY <1>1, <1>2

\* Elements, which are compared by numbers.
AreKeyed(S) == \A x \in S : x.key \in Int

\* Array b is array a with the elements from lo to hi rearranged.
Moves(f, a, b, N, lo, hi) ==
  /\ f \in [1 .. N -> 1 .. N]
  /\ \A i, j \in 1 .. N : f[i] = f[j] => i = j
  /\ \A i \in 1 .. N : b[i] = a[f[i]]
  /\ \A i \in 1 .. N : IF i \in lo .. hi THEN f[i] \in lo .. hi ELSE f[i] = i

Rearranged(a, b, N, lo, hi) == \E f : Moves(f, a, b, N, lo, hi)

\* What is left alone is rearranged.
LEMMA RearrangedSelf ==
  ASSUME NEW a, NEW N, NEW lo, NEW hi
  PROVE  Rearranged(a, a, N, lo, hi)
<1> DEFINE f == [i \in 1 .. N |-> i]
<1>1. Moves(f, a, a, N, lo, hi)
  BY DEF Moves
<1> QED
  BY <1>1 DEF Rearranged

\* Rearranging twice is rearranging.
LEMMA RearrangedAgain ==
  ASSUME NEW a, NEW b, NEW c, NEW N, NEW lo, NEW hi,
         Rearranged(a, b, N, lo, hi), Rearranged(b, c, N, lo, hi)
  PROVE  Rearranged(a, c, N, lo, hi)
<1> DEFINE D == 1 .. N
           R == lo .. hi
<1>1. PICK f : Moves(f, a, b, N, lo, hi)
  BY DEF Rearranged
<1>2. PICK g : Moves(g, b, c, N, lo, hi)
  BY DEF Rearranged
<1>3. /\ f \in [D -> D] /\ \A i, j \in D : f[i] = f[j] => i = j
      /\ \A i \in D : b[i] = a[f[i]] /\ IF i \in R THEN f[i] \in R ELSE f[i] = i
  BY <1>1 DEF Moves
<1>4. /\ g \in [D -> D] /\ \A i, j \in D : g[i] = g[j] => i = j
      /\ \A i \in D : c[i] = b[g[i]] /\ IF i \in R THEN g[i] \in R ELSE g[i] = i
  BY <1>2 DEF Moves
<1> DEFINE h == [i \in D |-> f[g[i]]]
<1> HIDE DEF D, R
<1>5. /\ h \in [D -> D] /\ \A i, j \in D : h[i] = h[j] => i = j
      /\ \A i \in D : c[i] = a[h[i]] /\ IF i \in R THEN h[i] \in R ELSE h[i] = i
  BY <1>3, <1>4
<1> HIDE DEF h
<1>6. Moves(h, a, c, N, lo, hi)
  BY <1>5 DEF Moves, D, R
<1> QED
  BY <1>6 DEF Rearranged

\* What is rearranged among some places is rearranged among more of them.
LEMMA RearrangedWithin ==
  ASSUME NEW a, NEW b, NEW N, NEW lo \in Int, NEW hi \in Int, NEW l \in Int, NEW h \in Int,
         l <= lo, hi <= h, Rearranged(a, b, N, lo, hi)
  PROVE  Rearranged(a, b, N, l, h)
<1>1. PICK f : Moves(f, a, b, N, lo, hi)
  BY DEF Rearranged
<1>2. lo .. hi \subseteq l .. h
  OBVIOUS
<1>3. Moves(f, a, b, N, l, h)
  BY <1>1, <1>2 DEF Moves
<1> QED
  BY <1>3 DEF Rearranged

\* swapfunc on one element exchanges two of them.
LEMMA SwapIs ==
  ASSUME NEW N \in Nat, NEW S, NEW a \in [1 .. N -> S], NEW i \in 1 .. N, NEW j \in 1 .. N,
         NEW lo, NEW hi, i \in lo .. hi, j \in lo .. hi
  PROVE  /\ Swap(a, i, j) \in [1 .. N -> S]
         /\ \A k \in 1 .. N :
              Swap(a, i, j)[k] = IF k = i THEN a[j] ELSE IF k = j THEN a[i] ELSE a[k]
         /\ Rearranged(a, Swap(a, i, j), N, lo, hi)
<1>1. Swap(a, i, j) \in [1 .. N -> S]
  BY DEF Swap
<1>2. \A k \in 1 .. N : Swap(a, i, j)[k] = IF k = i THEN a[j] ELSE IF k = j THEN a[i] ELSE a[k]
  BY DEF Swap
<1>3. Rearranged(a, Swap(a, i, j), N, lo, hi)
  <2> DEFINE f == [k \in 1 .. N |-> IF k = i THEN j ELSE IF k = j THEN i ELSE k]
             b == Swap(a, i, j)
  <2>1. \A k \in 1 .. N : b[k] = a[f[k]]
    BY <1>2
  <2> HIDE DEF b
  <2>2. Moves(f, a, b, N, lo, hi)
    BY <2>1 DEF Moves
  <2> QED
    BY <2>2 DEF Rearranged, b
<1> QED
  BY <1>1, <1>2, <1>3

AreSwapped(a, b, N, i, j, r) ==
  \A k \in 1 .. N : b[k] = IF k \in i .. i + r - 1 THEN a[k - i + j]
                          ELSE IF k \in j .. j + r - 1 THEN a[k - j + i] ELSE a[k]

\* vecswap exchanges two blocks that do not overlap.
LEMMA SwapBlocksIs ==
  ASSUME NEW N \in Nat, NEW S, NEW a \in [1 .. N -> S], NEW r \in Nat, NEW lo \in 1 .. N + 1,
         NEW hi \in 0 .. N, NEW i \in Int, NEW j \in Int, lo <= i, i + r <= j, j + r - 1 <= hi
  PROVE  /\ SwapBlocks(a, i, j, r) \in [1 .. N -> S]
         /\ AreSwapped(a, SwapBlocks(a, i, j, r), N, i, j, r)
         /\ Rearranged(a, SwapBlocks(a, i, j, r), N, lo, hi)
<1> DEFINE f == [k \in 1 .. N |-> IF k \in i .. i + r - 1 THEN k - i + j
                                  ELSE IF k \in j .. j + r - 1 THEN k - j + i ELSE k]
           b == SwapBlocks(a, i, j, r)
<1>1. \A k \in 1 .. N : f[k] \in 1 .. N
  OBVIOUS
<1>2. b = [k \in 1 .. N |-> IF k \in i .. i + r - 1 THEN a[k - i + j]
                            ELSE IF k \in j .. j + r - 1 THEN a[k - j + i] ELSE a[k]]
  BY DEF SwapBlocks
<1>3. \A k \in 1 .. N : b[k] = IF k \in i .. i + r - 1 THEN a[k - i + j]
                               ELSE IF k \in j .. j + r - 1 THEN a[k - j + i] ELSE a[k]
  BY <1>2
<1>4. \A k \in 1 .. N : b[k] = a[f[k]]
  BY <1>3
<1>5. b \in [1 .. N -> S]
  <2>1. \A k \in 1 .. N : b[k] \in S
    BY <1>1, <1>4
  <2>2. b = [k \in 1 .. N |-> b[k]]
    BY <1>2
  <2> HIDE DEF b
  <2> QED
    BY <2>1, <2>2
<1>6. \A k, m \in 1 .. N : f[k] = f[m] => k = m
  OBVIOUS
<1>7. \A k \in 1 .. N : IF k \in lo .. hi THEN f[k] \in lo .. hi ELSE f[k] = k
  OBVIOUS
<1>8. f \in [1 .. N -> 1 .. N]
  BY <1>1
<1> HIDE DEF b, f
<1>9. Moves(f, a, b, N, lo, hi)
  BY <1>4, <1>6, <1>7, <1>8 DEF Moves
<1> QED
  BY <1>3, <1>5, <1>9 DEF Rearranged, AreSwapped, b

InOrder(b, d, lo, hi) == \A i, j \in lo .. hi : i <= j => Place(d, b[i]) <= Place(d, b[j])

\* Insertion sort.
LEMMA SunkIs ==
  ASSUME NEW N \in Nat, NEW S, AreKeyed(S), NEW a \in [1 .. N -> S], NEW d,
         NEW lo \in 1 .. N, NEW m \in lo .. N
  PROVE  /\ Sunk(a, lo, m, d) \in [1 .. N -> S]
         /\ Rearranged(a, Sunk(a, lo, m, d), N, lo, m)
         /\ InOrder(a, d, lo, m - 1) => InOrder(Sunk(a, lo, m, d), d, lo, m)
<1> DEFINE u(i) == Place(d, a[i])
           SinksTo(p) ==
             /\ \A i \in p .. m - 1 : Cmp(d, a[i], a[m]) > 0
             /\ p = lo \/ Cmp(d, a[p - 1], a[m]) <= 0
           q == CHOOSE p \in lo .. m : SinksTo(p)
           b == Sunk(a, lo, m, d)
           f == [i \in 1 .. N |-> IF i = q THEN m ELSE IF i \in q + 1 .. m THEN i - 1 ELSE i]
<1>0. \A i \in 1 .. N : u(i) \in Int
  <2> TAKE i \in 1 .. N
  <2>1. a[i].key \in Int
    BY DEF AreKeyed
  <2> QED
    BY <2>1, CmpIs
<1>1. \A i, j \in 1 .. N : /\ Cmp(d, a[i], a[j]) > 0 <=> u(i) > u(j)
                           /\ Cmp(d, a[i], a[j]) <= 0 <=> u(i) <= u(j)
  <2> TAKE i, j \in 1 .. N
  <2>1. a[i].key \in Int /\ a[j].key \in Int
    BY DEF AreKeyed
  <2> QED
    BY <2>1, CmpIs
<1> HIDE DEF u
<1>2. \E p \in lo .. m : SinksTo(p)
  <2> DEFINE T == {p \in lo .. m : \A i \in p .. m - 1 : u(i) > u(m)}
  <2>1. m \in T
    OBVIOUS
  <2>2. PICK p \in T : \A z \in T : p <= z
    <3>2. lo .. m \subseteq Nat
      OBVIOUS
    <3>3. T \subseteq lo .. m
      OBVIOUS
    <3>1. T \subseteq Nat /\ T # {}
      <4> HIDE DEF T
      <4> QED
        BY <2>1, <3>2, <3>3
    <3> HIDE DEF T
    <3> QED
      BY <3>1, NatSmallest
  <2>4. p \in lo .. m /\ \A i \in p .. m - 1 : u(i) > u(m)
    OBVIOUS
  <2>3. p = lo \/ u(p - 1) <= u(m)
    <3> SUFFICES ASSUME p # lo, ~(u(p - 1) <= u(m))
                 PROVE  FALSE
      OBVIOUS
    <3>1. p - 1 \in lo .. m /\ \A i \in p - 1 .. m - 1 : i = p - 1 \/ i \in p .. m - 1
      BY <2>4
    <3>2. u(p - 1) > u(m)
      <4>1. p - 1 \in 1 .. N /\ m \in 1 .. N
        BY <3>1
      <4>2. u(p - 1) \in Int /\ u(m) \in Int
        BY <1>0, <4>1
      <4> QED
        BY <4>2
    <3>3. p - 1 \in T
      BY <2>4, <3>1, <3>2
    <3> QED
      BY <2>2, <2>4, <3>3
  <2> HIDE DEF T
  <2>5. \A i \in p .. m - 1 : Cmp(d, a[i], a[m]) > 0
    BY <1>1, <2>4
  <2>6. p = lo \/ Cmp(d, a[p - 1], a[m]) <= 0
    BY <1>1, <2>3, <2>4
  <2> QED
    BY <2>4, <2>5, <2>6
<1>3. q \in lo .. m /\ SinksTo(q)
  <2> HIDE DEF SinksTo
  <2> QED
    BY <1>2
<1>4. b = [i \in 1 .. N |-> IF i = q THEN a[m] ELSE IF i \in q + 1 .. m THEN a[i - 1] ELSE a[i]]
  <2>1. b = [i \in DOMAIN a |-> IF i = q THEN a[m] ELSE IF i \in q + 1 .. m THEN a[i - 1] ELSE a[i]]
    BY DEF Sunk
  <2>2. DOMAIN a = 1 .. N
    OBVIOUS
  <2> HIDE DEF b, q
  <2> QED
    BY <2>1, <2>2
<1> HIDE DEF q
<1>5. (\A i \in q .. m - 1 : u(i) > u(m)) /\ (q = lo \/ u(q - 1) <= u(m))
  <2>1. m \in 1 .. N /\ \A i \in q .. m - 1 : i \in 1 .. N
    BY <1>3
  <2>2. q # lo => q - 1 \in 1 .. N
    BY <1>3
  <2> QED
    BY <1>1, <1>3, <2>1, <2>2
<1> HIDE DEF SinksTo
<1>6. \A i \in 1 .. N : /\ f[i] \in 1 .. N /\ b[i] = a[f[i]]
                        /\ IF i \in lo .. m THEN f[i] \in lo .. m ELSE f[i] = i
  BY <1>3, <1>4
<1>7. \A i, j \in 1 .. N : f[i] = f[j] => i = j
  BY <1>3
<1>8. f \in [1 .. N -> 1 .. N]
  BY <1>6
<1>9. b \in [1 .. N -> S]
  <2>1. \A i \in 1 .. N : b[i] \in S
    BY <1>6
  <2>2. b = [i \in 1 .. N |-> b[i]]
    BY <1>4
  <2> HIDE DEF b
  <2> QED
    BY <2>1, <2>2
<1>10. Rearranged(a, b, N, lo, m)
  <2> HIDE DEF b, f
  <2>1. Moves(f, a, b, N, lo, m)
    BY <1>6, <1>7, <1>8 DEF Moves
  <2> QED
    BY <2>1 DEF Rearranged
<1>11. ASSUME InOrder(a, d, lo, m - 1)
       PROVE  InOrder(b, d, lo, m)
  <2>1. \A i, j \in lo .. m - 1 : i <= j => u(i) <= u(j)
    BY <1>11 DEF InOrder, u
  <2> DEFINE v(i) == Place(d, b[i])
  <2>2. \A i \in lo .. m : v(i) = IF i = q THEN u(m) ELSE IF i \in q + 1 .. m THEN u(i - 1) ELSE u(i)
    BY <1>3, <1>4 DEF u
  <2> HIDE DEF v
  <2>5. \A i \in lo .. m : u(i) \in Int
    BY <1>0
  <2>3. \A i \in lo .. q - 1 : u(i) <= u(m)
    <3> TAKE i \in lo .. q - 1
    <3>1. q # lo /\ q - 1 \in lo .. m - 1 /\ i \in lo .. m - 1 /\ i <= q - 1 /\ m \in lo .. m
      BY <1>3
    <3>2. u(i) <= u(q - 1) /\ u(q - 1) <= u(m)
      BY <1>5, <2>1, <3>1
    <3>3. u(i) \in Int /\ u(q - 1) \in Int /\ u(m) \in Int
      BY <2>5, <3>1
    <3> QED
      BY <3>2, <3>3
  <2>4. ASSUME NEW i \in lo .. m, NEW j \in lo .. m, i <= j
        PROVE  v(i) <= v(j)
    <3>1. u(i) \in Int /\ u(j) \in Int /\ u(m) \in Int /\ m \in lo .. m
      BY <2>5
    <3>2. CASE j < q
      BY <1>3, <2>1, <2>2, <2>4, <3>2
    <3>3. CASE j = q /\ i < q
      BY <1>3, <2>2, <2>3, <3>3
    <3>4. CASE j = q /\ i = q
      BY <2>2, <3>1, <3>4
    <3>5. CASE j > q
      <4>0. j - 1 \in q .. m - 1 /\ j \in q + 1 .. m /\ j - 1 \in lo .. m - 1 /\ j - 1 \in lo .. m /\ v(j) = u(j - 1)
        BY <1>3, <2>2, <3>5
      <4>1. CASE i < q
        <5>1. v(i) = u(i) /\ i \in lo .. m - 1 /\ i <= j - 1
          BY <1>3, <2>2, <4>0, <4>1
        <5> QED
          BY <2>1, <4>0, <5>1
      <4>2. CASE i = q
        <5>1. v(i) = u(m) /\ u(j - 1) > u(m) /\ u(j - 1) \in Int
          BY <1>5, <2>2, <2>5, <4>0, <4>2
        <5> QED
          BY <3>1, <4>0, <5>1
      <4>3. CASE i > q
        <5>1. v(i) = u(i - 1) /\ i - 1 \in lo .. m - 1 /\ i - 1 <= j - 1
          BY <1>3, <2>2, <2>4, <4>3
        <5> QED
          BY <2>1, <4>0, <5>1
      <4> QED
        BY <1>3, <4>1, <4>2, <4>3
    <3> QED
      BY <1>3, <2>4, <3>2, <3>3, <3>4, <3>5
  <2> QED
    BY <2>4 DEF InOrder, v
<1> QED
  BY <1>9, <1>10, <1>11 DEF b

\* Fewer than seven elements are sorted by insertion.
LEMMA InsertionIs ==
  ASSUME NEW N \in Nat, NEW S, AreKeyed(S), NEW a \in [1 .. N -> S], NEW d,
         NEW n \in Nat, NEW lo \in 1 .. N + 1, lo + n - 1 <= N
  PROVE  /\ Insertion(a, lo, n, d) \in [1 .. N -> S]
         /\ Rearranged(a, Insertion(a, lo, n, d), N, lo, lo + n - 1)
         /\ InOrder(Insertion(a, lo, n, d), d, lo, lo + n - 1)
<1> DEFINE V == [1 .. N -> S]
           Step == [k \in 1 .. n |-> [x \in V |-> Sunk(x, lo, lo + k - 1, d)]]
           Fun(f) == f = [k \in 0 .. n |-> IF k = 0 THEN a ELSE Sunk(f[k - 1], lo, lo + k - 1, d)]
           f0 == CHOOSE f : Fun(f)
<1>1. Insertion(a, lo, n, d) = f0[n]
  BY DEF Insertion
<1>2. ASSUME NEW k \in 1 .. n, NEW x \in V
      PROVE  /\ Sunk(x, lo, lo + k - 1, d) \in V
             /\ Rearranged(x, Sunk(x, lo, lo + k - 1, d), N, lo, lo + k - 1)
             /\ InOrder(x, d, lo, lo + k - 2) => InOrder(Sunk(x, lo, lo + k - 1, d), d, lo, lo + k - 1)
  <2> DEFINE m == lo + k - 1
  <2>1. lo \in 1 .. N /\ m \in lo .. N /\ m - 1 = lo + k - 2
    OBVIOUS
  <2> HIDE DEF m
  <2>2. /\ Sunk(x, lo, m, d) \in V /\ Rearranged(x, Sunk(x, lo, m, d), N, lo, m)
        /\ InOrder(x, d, lo, m - 1) => InOrder(Sunk(x, lo, m, d), d, lo, m)
    BY <2>1, SunkIs
  <2> QED
    BY <2>1, <2>2 DEF m
<1>3. Step \in [1 .. n -> [V -> V]]
  <2> HIDE DEF V
  <2> QED
    BY <1>2
<1>4. PICK f : Recurses(f, n, V, a, Step)
  <2> HIDE DEF V, Step
  <2> QED
    BY <1>3, Recursion DEF V
<1>5. /\ f[0] = a /\ f \in [0 .. n -> V]
      /\ \A k \in 1 .. n : f[k - 1] \in V /\ f[k] = Sunk(f[k - 1], lo, lo + k - 1, d)
  <2>1. f \in [0 .. n -> V] /\ f[0] = a /\ \A k \in 1 .. n : f[k] = Step[k][f[k - 1]]
    BY <1>4 DEF Recurses
  <2>2. \A k \in 1 .. n : k - 1 \in 0 .. n
    OBVIOUS
  <2> HIDE DEF V
  <2> QED
    BY <2>1, <2>2
<1>6. Fun(f0)
  <2>1. \A k \in 0 .. n : f[k] = IF k = 0 THEN a ELSE Sunk(f[k - 1], lo, lo + k - 1, d)
    BY <1>5
  <2>2. f = [k \in 0 .. n |-> f[k]]
    BY <1>5
  <2>3. Fun(f)
    BY <2>1, <2>2
  <2> HIDE DEF Fun
  <2> QED
    BY <2>3
<1> HIDE DEF f0
<1>7. f0[0] = a /\ \A k \in 1 .. n : f0[k] = Sunk(f0[k - 1], lo, lo + k - 1, d)
  BY <1>6
<1> DEFINE Good(k) == /\ f0[k] \in V /\ Rearranged(a, f0[k], N, lo, lo + k - 1)
                      /\ InOrder(f0[k], d, lo, lo + k - 1)
           T == {k \in 0 .. n : Good(k)}
<1>8. 0 \in T
  <2>1. InOrder(a, d, lo, lo + 0 - 1)
    <3>1. lo .. lo + 0 - 1 = {}
      OBVIOUS
    <3> QED
      BY <3>1 DEF InOrder
  <2>2. Good(0)
    BY <1>7, <2>1, RearrangedSelf
  <2> HIDE DEF Good
  <2> QED
    BY <2>2
<1>9. ASSUME NEW k \in 1 .. n, k - 1 \in T
      PROVE  k \in T
  <2> DEFINE x == f0[k - 1]
             y == f0[k]
  <2>1. /\ x \in V /\ Rearranged(a, x, N, lo, lo + (k - 1) - 1)
        /\ InOrder(x, d, lo, lo + (k - 1) - 1) /\ y = Sunk(x, lo, lo + k - 1, d)
    BY <1>7, <1>9
  <2>2. lo + (k - 1) - 1 = lo + k - 2 /\ k \in 0 .. n
    OBVIOUS
  <2> HIDE DEF x, y, V
  <2>3. y \in V /\ Rearranged(x, y, N, lo, lo + k - 1) /\ InOrder(y, d, lo, lo + k - 1)
    BY <1>2, <2>1, <2>2
  <2>4. Rearranged(a, x, N, lo, lo + k - 1)
    <3>1. lo + k - 2 \in Int /\ lo + k - 1 \in Int /\ lo <= lo /\ lo + k - 2 <= lo + k - 1 /\ lo \in Int
      OBVIOUS
    <3>2. Rearranged(a, x, N, lo, lo + k - 2)
      BY <2>1, <2>2
    <3> QED
      BY <3>1, <3>2, RearrangedWithin
  <2>5. Rearranged(a, y, N, lo, lo + k - 1)
    BY <2>3, <2>4, RearrangedAgain
  <2> QED
    BY <2>2, <2>3, <2>5 DEF y
<1> HIDE DEF T
<1>10. \A k \in 0 .. n : k \in T
  BY <1>8, <1>9, Climb
<1>11. n \in T
  BY <1>10
<1> QED
  BY <1>1, <1>11 DEF T

\* The pivot is one of the elements.
LEMMA MedianIs ==
  ASSUME NEW a, NEW i, NEW j, NEW k, NEW d
  PROVE  Median(a, i, j, k, d) \in {i, j, k}
BY DEF Median

\* The pivot, a median of three or of three medians, is one of the elements.
LEMMA PivotIs ==
  ASSUME NEW a, NEW lo \in Int, NEW n \in Nat, n >= 7, NEW d
  PROVE  Pivot(a, lo, n, d) \in lo .. lo + n - 1
<1> DEFINE mid == lo + n \div 2
           high == lo + n - 1
           e == n \div 8
           R == lo .. lo + n - 1
<1>1. mid \in R /\ high \in R /\ lo \in R
  OBVIOUS
<1>2. n > 40 => /\ e \in Nat /\ e >= 5 /\ 8 * e <= n
                /\ mid - lo \in Nat /\ 2 * (mid - lo) <= n /\ n <= 2 * (mid - lo) + 1
  OBVIOUS
<1>3. n > 40 => /\ lo + e \in R /\ lo + 2 * e \in R /\ mid - e \in R /\ mid + e \in R
                /\ high - 2 * e \in R /\ high - e \in R
  <2> HIDE DEF e, mid
  <2> QED
    BY <1>1, <1>2
<1> HIDE DEF R, mid, high, e
<1>4. Pivot(a, lo, n, d) =
        IF n = 7 THEN mid
        ELSE IF n <= 40 THEN Median(a, lo, mid, high, d)
        ELSE Median(a, Median(a, lo, lo + e, lo + 2 * e, d),
                       Median(a, mid - e, mid, mid + e, d),
                       Median(a, high - 2 * e, high - e, high, d), d)
  BY DEF Pivot, mid, high, e
<1>5. \A i, j, k \in R : Median(a, i, j, k, d) \in R
  BY MedianIs
<1>6. Pivot(a, lo, n, d) \in R
  <2>1. CASE n <= 40
    BY <1>1, <1>4, <1>5, <2>1
  <2>2. CASE n > 40
    <3>1. n # 7 /\ ~(n <= 40)
      BY <2>2
    <3>2. /\ Median(a, lo, lo + e, lo + 2 * e, d) \in R
          /\ Median(a, mid - e, mid, mid + e, d) \in R
          /\ Median(a, high - 2 * e, high - e, high, d) \in R
      BY <1>1, <1>3, <1>5, <2>2
    <3> QED
      BY <1>4, <1>5, <3>1, <3>2
  <2> QED
    BY <2>1, <2>2
<1> QED
  BY <1>6 DEF R

\* The elements are split around the pivot, at lo, as far as pb and pc have come.
IsSplit(t, a, N, lo, n, d) ==
  /\ t.a[lo] = a[lo] /\ Rearranged(a, t.a, N, lo, lo + n - 1)
  /\ lo + 1 <= t.pa /\ t.pa <= t.pb /\ t.pb <= t.pc + 1 /\ t.pc <= t.pd /\ t.pd <= lo + n - 1
  /\ \A i \in lo .. t.pa - 1          : Place(d, t.a[i]) = Place(d, a[lo])
  /\ \A i \in t.pa .. t.pb - 1        : Place(d, t.a[i]) < Place(d, a[lo])
  /\ \A i \in t.pc + 1 .. t.pd        : Place(d, t.a[i]) > Place(d, a[lo])
  /\ \A i \in t.pd + 1 .. lo + n - 1  : Place(d, t.a[i]) = Place(d, a[lo])

Splitting(N, S) == [a : [1 .. N -> S], pa : Int, pb : Int, pc : Int, pd : Int, swap_cnt : {0, 1}]

\* A turn of the loops that split keeps IsSplit, and closes the gap between pb and pc.
LEMMA SplitStepIs ==
  ASSUME NEW N \in Nat, NEW S, AreKeyed(S), NEW a \in [1 .. N -> S], NEW d,
         NEW n \in Nat, NEW lo \in 1 .. N, n >= 1, lo + n - 1 <= N,
         NEW t \in Splitting(N, S), IsSplit(t, a, N, lo, n, d)
  PROVE  /\ SplitStep(t, lo, d) \in Splitting(N, S)
         /\ IsSplit(SplitStep(t, lo, d), a, N, lo, n, d)
         /\ IF t.pb > t.pc THEN SplitStep(t, lo, d) = t
            ELSE SplitStep(t, lo, d).pc - SplitStep(t, lo, d).pb < t.pc - t.pb
<1> DEFINE b == t.a
           x == Place(d, a[lo])
           u(i) == Place(d, b[i])
           z == SplitStep(t, lo, d)
           end == lo + n - 1
<1>1. /\ b \in [1 .. N -> S] /\ t.pa \in Int /\ t.pb \in Int /\ t.pc \in Int /\ t.pd \in Int
      /\ t.swap_cnt \in {0, 1}
      /\ t = [a |-> t.a, pa |-> t.pa, pb |-> t.pb, pc |-> t.pc, pd |-> t.pd, swap_cnt |-> t.swap_cnt]
  BY DEF Splitting
<1>2. \A i \in 1 .. N : /\ u(i) \in Int /\ x \in Int
                        /\ Cmp(d, b[i], b[lo]) > 0 <=> u(i) > x
                        /\ Cmp(d, b[i], b[lo]) < 0 <=> u(i) < x
                        /\ Cmp(d, b[i], b[lo]) = 0 <=> u(i) = x
                        /\ Cmp(d, b[i], b[lo]) \in {-1, 0, 1}
  <2> TAKE i \in 1 .. N
  <2>1. b[i].key \in Int /\ b[lo].key \in Int /\ b[lo] = a[lo]
    BY <1>1 DEF AreKeyed, IsSplit
  <2> HIDE DEF b
  <2> QED
    BY <2>1, CmpIs
<1>3. CASE t.pb > t.pc
  BY <1>3 DEF SplitStep
<1>4. ASSUME t.pb <= t.pc
      PROVE  /\ t.pa \in lo + 1 .. end /\ t.pb \in lo + 1 .. end /\ t.pc \in lo + 1 .. end
             /\ t.pd \in lo + 1 .. end /\ end <= N /\ ~(t.pb > t.pc)
             /\ t.pa \in 1 .. N /\ t.pb \in 1 .. N /\ t.pc \in 1 .. N /\ t.pd \in 1 .. N
             /\ t.pa # lo /\ t.pb # lo /\ t.pc # lo /\ t.pd # lo
  BY <1>1, <1>4, SMTT(30) DEF IsSplit
<1>5. CASE t.pb <= t.pc /\ u(t.pb) < x
  <2>1. z = [a |-> b, pa |-> t.pa, pb |-> t.pb + 1, pc |-> t.pc, pd |-> t.pd, swap_cnt |-> t.swap_cnt]
    <3>1. z = [t EXCEPT !.pb = @ + 1]
      BY <1>2, <1>4, <1>5 DEF SplitStep
    <3> QED
      BY <1>1, <3>1
  <2>2. z \in Splitting(N, S)
    BY <1>1, <2>1 DEF Splitting
  <2>3. /\ z.a = b /\ z.pa = t.pa /\ z.pb = t.pb + 1 /\ z.pc = t.pc /\ z.pd = t.pd
    BY <2>1
  <2> HIDE DEF z
  <2>4. \A i \in t.pa .. t.pb + 1 - 1 : i \in t.pa .. t.pb - 1 \/ i = t.pb
    BY <1>1
  <2>5. IsSplit(z, a, N, lo, n, d)
    BY <1>1, <1>4, <1>5, <2>3, <2>4 DEF IsSplit
  <2> QED
    BY <1>1, <1>4, <1>5, <2>2, <2>3, <2>5 DEF z
<1>6. CASE t.pb <= t.pc /\ u(t.pb) = x
  <2> DEFINE c == Swap(b, t.pa, t.pb)
  <2>1. z = [a |-> c, pa |-> t.pa + 1, pb |-> t.pb + 1, pc |-> t.pc, pd |-> t.pd, swap_cnt |-> 1]
    <3>1. z = [t EXCEPT !.a = Swap(@, t.pa, t.pb), !.pa = @ + 1, !.pb = @ + 1, !.swap_cnt = 1]
      <4>1. /\ ~(t.pb > t.pc) /\ ~(Cmp(d, t.a[t.pb], t.a[lo]) < 0)
            /\ Cmp(d, t.a[t.pb], t.a[lo]) = 0
        <5>1. t.pb \in 1 .. N /\ t.pc \in 1 .. N /\ ~(t.pb > t.pc)
          BY <1>4, <1>6
        <5> HIDE DEF u, x
        <5> QED
          BY <1>2, <1>6, <5>1
      <4> QED
        BY <4>1 DEF SplitStep
    <3> QED
      BY <1>1, <3>1
  <2>2. /\ c \in [1 .. N -> S]
        /\ \A k \in 1 .. N : c[k] = IF k = t.pa THEN b[t.pb] ELSE IF k = t.pb THEN b[t.pa] ELSE b[k]
        /\ Rearranged(b, c, N, lo, end)
    <3>1. /\ t.pa \in 1 .. N /\ t.pb \in 1 .. N /\ b \in [1 .. N -> S]
          /\ t.pa \in lo .. end /\ t.pb \in lo .. end
      BY <1>1, <1>4, <1>6
    <3> HIDE DEF b, end
    <3> QED
      BY <3>1, SwapIs
  <2> HIDE DEF c
  <2>3. z \in Splitting(N, S)
    BY <1>1, <2>1, <2>2 DEF Splitting
  <2>4. /\ z.a = c /\ z.pa = t.pa + 1 /\ z.pb = t.pb + 1 /\ z.pc = t.pc /\ z.pd = t.pd
    BY <2>1
  <2> HIDE DEF z
  <2>5. c[lo] = a[lo] /\ Rearranged(a, c, N, lo, end)
    BY <1>4, <1>6, <2>2, RearrangedAgain DEF IsSplit
  <2> DEFINE v(i) == Place(d, c[i])
  <2>6. \A k \in 1 .. N : v(k) = IF k = t.pa THEN x ELSE IF k = t.pb THEN u(t.pa) ELSE u(k)
    BY <1>6, <2>2
  <2>7. /\ \A i \in lo .. t.pa - 1     : u(i) = x
        /\ \A i \in t.pa .. t.pb - 1   : u(i) < x
        /\ \A i \in t.pc + 1 .. t.pd   : u(i) > x
        /\ \A i \in t.pd + 1 .. end    : u(i) = x
        /\ t.pa <= t.pb /\ t.pb <= t.pc /\ t.pc <= t.pd /\ t.pd <= end
    BY <1>6 DEF IsSplit
  <2> HIDE DEF u, v, x
  <2>8. /\ \A i \in lo .. t.pa + 1 - 1          : v(i) = x
        /\ \A i \in t.pa + 1 .. t.pb + 1 - 1    : v(i) < x
        /\ \A i \in t.pc + 1 .. t.pd            : v(i) > x
        /\ \A i \in t.pd + 1 .. end             : v(i) = x
    <3>1. /\ lo \in Int /\ end \in Int /\ t.pa \in lo + 1 .. end /\ t.pb \in lo + 1 .. end
          /\ t.pc \in lo + 1 .. end /\ t.pd \in lo + 1 .. end /\ end <= N /\ t.pb <= t.pc /\ lo >= 1
      BY <1>4, <1>6
    <3> HIDE DEF end
    <3>2. ASSUME NEW i \in lo .. t.pa + 1 - 1
          PROVE  v(i) = x
      <4>1. i \in 1 .. N /\ (i = t.pa \/ (i \in lo .. t.pa - 1 /\ i # t.pa /\ i # t.pb))
        BY <2>7, <3>1
      <4> QED
        BY <2>6, <2>7, <4>1
    <3>3. ASSUME NEW i \in t.pa + 1 .. t.pb + 1 - 1
          PROVE  v(i) < x
      <4>1. i \in 1 .. N /\ i # t.pa /\ t.pa \in t.pa .. t.pb - 1
        BY <2>7, <3>1
      <4>2. i # t.pb => i \in t.pa .. t.pb - 1
        BY <3>1
      <4> QED
        BY <2>6, <2>7, <4>1, <4>2
    <3>4. \A i \in t.pc + 1 .. t.pd : v(i) > x
      BY <2>6, <2>7, <3>1
    <3>5. \A i \in t.pd + 1 .. end : v(i) = x
      BY <2>6, <2>7, <3>1
    <3> QED
      BY <3>2, <3>3, <3>4, <3>5
  <2>9. IsSplit(z, a, N, lo, n, d)
    BY <1>1, <1>4, <1>6, <2>4, <2>5, <2>7, <2>8 DEF IsSplit, v, x
  <2> QED
    BY <1>1, <1>4, <1>6, <2>3, <2>4, <2>9 DEF z
<1>7. CASE t.pb <= t.pc /\ u(t.pb) > x /\ u(t.pc) > x
  <2>1. z = [a |-> b, pa |-> t.pa, pb |-> t.pb, pc |-> t.pc - 1, pd |-> t.pd, swap_cnt |-> t.swap_cnt]
    <3>1. z = [t EXCEPT !.pc = @ - 1]
      <4>1. /\ ~(t.pb > t.pc) /\ ~(Cmp(d, t.a[t.pb], t.a[lo]) < 0)
            /\ ~(Cmp(d, t.a[t.pb], t.a[lo]) = 0) /\ Cmp(d, t.a[t.pc], t.a[lo]) > 0
        <5>1. t.pb \in 1 .. N /\ t.pc \in 1 .. N /\ ~(t.pb > t.pc)
          BY <1>4, <1>7
        <5> HIDE DEF u, x
        <5> QED
          BY <1>2, <1>7, <5>1
      <4> QED
        BY <4>1 DEF SplitStep
    <3> QED
      BY <1>1, <3>1
  <2>2. z \in Splitting(N, S)
    BY <1>1, <2>1 DEF Splitting
  <2>3. /\ z.a = b /\ z.pa = t.pa /\ z.pb = t.pb /\ z.pc = t.pc - 1 /\ z.pd = t.pd
    BY <2>1
  <2> HIDE DEF z
  <2>4. \A i \in t.pc - 1 + 1 .. t.pd : i \in t.pc + 1 .. t.pd \/ i = t.pc
    BY <1>1
  <2>5. IsSplit(z, a, N, lo, n, d)
    BY <1>1, <1>4, <1>7, <2>3, <2>4 DEF IsSplit
  <2> QED
    BY <1>1, <1>4, <1>7, <2>2, <2>3, <2>5 DEF z
<1>8. CASE t.pb <= t.pc /\ u(t.pb) > x /\ u(t.pc) = x
  <2> DEFINE c == Swap(b, t.pc, t.pd)
  <2>1. z = [a |-> c, pa |-> t.pa, pb |-> t.pb, pc |-> t.pc - 1, pd |-> t.pd - 1, swap_cnt |-> 1]
    <3>1. z = [t EXCEPT !.a = Swap(@, t.pc, t.pd), !.pc = @ - 1, !.pd = @ - 1, !.swap_cnt = 1]
      <4>1. /\ ~(t.pb > t.pc) /\ ~(Cmp(d, t.a[t.pb], t.a[lo]) < 0)
            /\ ~(Cmp(d, t.a[t.pb], t.a[lo]) = 0) /\ ~(Cmp(d, t.a[t.pc], t.a[lo]) > 0)
            /\ Cmp(d, t.a[t.pc], t.a[lo]) = 0
        <5>1. t.pb \in 1 .. N /\ t.pc \in 1 .. N /\ ~(t.pb > t.pc)
          BY <1>4, <1>8
        <5> HIDE DEF u, x
        <5> QED
          BY <1>2, <1>8, <5>1
      <4> QED
        BY <4>1 DEF SplitStep
    <3> QED
      BY <1>1, <3>1
  <2>2. /\ c \in [1 .. N -> S]
        /\ \A k \in 1 .. N : c[k] = IF k = t.pc THEN b[t.pd] ELSE IF k = t.pd THEN b[t.pc] ELSE b[k]
        /\ Rearranged(b, c, N, lo, end)
    <3>1. /\ t.pc \in 1 .. N /\ t.pd \in 1 .. N /\ b \in [1 .. N -> S]
          /\ t.pc \in lo .. end /\ t.pd \in lo .. end
      BY <1>1, <1>4, <1>8
    <3> HIDE DEF b, end
    <3> QED
      BY <3>1, SwapIs
  <2> HIDE DEF c
  <2>3. z \in Splitting(N, S)
    BY <1>1, <2>1, <2>2 DEF Splitting
  <2>4. /\ z.a = c /\ z.pa = t.pa /\ z.pb = t.pb /\ z.pc = t.pc - 1 /\ z.pd = t.pd - 1
    BY <2>1
  <2> HIDE DEF z
  <2>5. c[lo] = a[lo] /\ Rearranged(a, c, N, lo, end)
    BY <1>4, <1>8, <2>2, RearrangedAgain DEF IsSplit
  <2> DEFINE v(i) == Place(d, c[i])
  <2>6. \A k \in 1 .. N : v(k) = IF k = t.pd THEN x ELSE IF k = t.pc THEN u(t.pd) ELSE u(k)
    BY <1>8, <2>2
  <2>7. /\ \A i \in lo .. t.pa - 1     : u(i) = x
        /\ \A i \in t.pa .. t.pb - 1   : u(i) < x
        /\ \A i \in t.pc + 1 .. t.pd   : u(i) > x
        /\ \A i \in t.pd + 1 .. end    : u(i) = x
        /\ t.pa <= t.pb /\ t.pb <= t.pc /\ t.pc <= t.pd /\ t.pd <= end
    BY <1>8 DEF IsSplit
  <2> HIDE DEF u, v, x
  <2>8. /\ \A i \in lo .. t.pa - 1           : v(i) = x
        /\ \A i \in t.pa .. t.pb - 1         : v(i) < x
        /\ \A i \in t.pc - 1 + 1 .. t.pd - 1 : v(i) > x
        /\ \A i \in t.pd - 1 + 1 .. end      : v(i) = x
    <3>1. /\ lo \in Int /\ end \in Int /\ t.pa \in lo + 1 .. end /\ t.pb \in lo + 1 .. end
          /\ t.pc \in lo + 1 .. end /\ t.pd \in lo + 1 .. end /\ end <= N /\ t.pb <= t.pc /\ lo >= 1
      BY <1>4, <1>8
    <3>0. t.pb # t.pc
      BY <1>2, <1>4, <1>8
    <3> HIDE DEF end
    <3>2. ASSUME NEW i \in lo .. t.pa - 1
          PROVE  v(i) = x
      <4>1. i \in 1 .. N /\ i # t.pc /\ i # t.pd
        BY <2>7, <3>1
      <4> QED
        BY <2>6, <2>7, <4>1
    <3>3. ASSUME NEW i \in t.pa .. t.pb - 1
          PROVE  v(i) < x
      <4>1. i \in 1 .. N /\ i # t.pc /\ i # t.pd
        BY <2>7, <3>1
      <4> QED
        BY <2>6, <2>7, <4>1
    <3>4. ASSUME NEW i \in t.pc - 1 + 1 .. t.pd - 1
          PROVE  v(i) > x
      <4>1. i \in 1 .. N /\ i # t.pd /\ t.pd \in t.pc + 1 .. t.pd
        BY <2>7, <3>1
      <4>2. i # t.pc => i \in t.pc + 1 .. t.pd
        BY <3>1
      <4> QED
        BY <2>6, <2>7, <4>1, <4>2
    <3>5. \A i \in t.pd - 1 + 1 .. end : v(i) = x
      BY <2>6, <2>7, <3>1
    <3> QED
      BY <3>2, <3>3, <3>4, <3>5
  <2>9. IsSplit(z, a, N, lo, n, d)
    BY <1>1, <1>4, <1>8, <2>4, <2>5, <2>7, <2>8 DEF IsSplit, v, x
  <2> QED
    BY <1>1, <1>4, <1>8, <2>3, <2>4, <2>9 DEF z
<1>9. CASE t.pb <= t.pc /\ u(t.pb) > x /\ u(t.pc) < x
  <2> DEFINE c == Swap(b, t.pb, t.pc)
  <2>1. z = [a |-> c, pa |-> t.pa, pb |-> t.pb + 1, pc |-> t.pc - 1, pd |-> t.pd, swap_cnt |-> 1]
    <3>1. z = [t EXCEPT !.a = Swap(@, t.pb, t.pc), !.pb = @ + 1, !.pc = @ - 1, !.swap_cnt = 1]
      <4>1. /\ ~(t.pb > t.pc) /\ ~(Cmp(d, t.a[t.pb], t.a[lo]) < 0)
            /\ ~(Cmp(d, t.a[t.pb], t.a[lo]) = 0) /\ ~(Cmp(d, t.a[t.pc], t.a[lo]) > 0)
            /\ ~(Cmp(d, t.a[t.pc], t.a[lo]) = 0)
        <5>1. t.pb \in 1 .. N /\ t.pc \in 1 .. N /\ ~(t.pb > t.pc)
          BY <1>4, <1>9
        <5> HIDE DEF u, x
        <5> QED
          BY <1>2, <1>9, <5>1
      <4> QED
        BY <4>1 DEF SplitStep
    <3> QED
      BY <1>1, <3>1
  <2>2. /\ c \in [1 .. N -> S]
        /\ \A k \in 1 .. N : c[k] = IF k = t.pb THEN b[t.pc] ELSE IF k = t.pc THEN b[t.pb] ELSE b[k]
        /\ Rearranged(b, c, N, lo, end)
    <3>1. /\ t.pb \in 1 .. N /\ t.pc \in 1 .. N /\ b \in [1 .. N -> S]
          /\ t.pb \in lo .. end /\ t.pc \in lo .. end
      BY <1>1, <1>4, <1>9
    <3> HIDE DEF b, end
    <3> QED
      BY <3>1, SwapIs
  <2> HIDE DEF c
  <2>3. z \in Splitting(N, S)
    BY <1>1, <2>1, <2>2 DEF Splitting
  <2>4. /\ z.a = c /\ z.pa = t.pa /\ z.pb = t.pb + 1 /\ z.pc = t.pc - 1 /\ z.pd = t.pd
    BY <2>1
  <2> HIDE DEF z
  <2>5. c[lo] = a[lo] /\ Rearranged(a, c, N, lo, end)
    BY <1>4, <1>9, <2>2, RearrangedAgain DEF IsSplit
  <2> DEFINE v(i) == Place(d, c[i])
  <2>6. \A k \in 1 .. N : v(k) = IF k = t.pb THEN u(t.pc) ELSE IF k = t.pc THEN u(t.pb) ELSE u(k)
    BY <2>2
  <2>7. /\ \A i \in lo .. t.pa - 1     : u(i) = x
        /\ \A i \in t.pa .. t.pb - 1   : u(i) < x
        /\ \A i \in t.pc + 1 .. t.pd   : u(i) > x
        /\ \A i \in t.pd + 1 .. end    : u(i) = x
        /\ t.pa <= t.pb /\ t.pb <= t.pc /\ t.pc <= t.pd /\ t.pd <= end
    BY <1>9 DEF IsSplit
  <2>10. t.pb < t.pc
    BY <1>1, <1>2, <1>4, <1>9
  <2> HIDE DEF u, v, x
  <2>8. /\ \A i \in lo .. t.pa - 1         : v(i) = x
        /\ \A i \in t.pa .. t.pb + 1 - 1   : v(i) < x
        /\ \A i \in t.pc - 1 + 1 .. t.pd   : v(i) > x
        /\ \A i \in t.pd + 1 .. end        : v(i) = x
    <3>1. /\ lo \in Int /\ end \in Int /\ t.pa \in lo + 1 .. end /\ t.pb \in lo + 1 .. end
          /\ t.pc \in lo + 1 .. end /\ t.pd \in lo + 1 .. end /\ end <= N /\ lo >= 1
      BY <1>4, <1>9
    <3> HIDE DEF end
    <3>2. ASSUME NEW i \in lo .. t.pa - 1
          PROVE  v(i) = x
      <4>1. i \in 1 .. N /\ i # t.pc /\ i # t.pb
        BY <2>7, <2>10, <3>1
      <4> QED
        BY <2>6, <2>7, <4>1
    <3>3. ASSUME NEW i \in t.pa .. t.pb + 1 - 1
          PROVE  v(i) < x
      <4>1. i \in 1 .. N /\ i # t.pc /\ t.pb \in 1 .. N
        BY <2>7, <2>10, <3>1
      <4>2. i # t.pb => i \in t.pa .. t.pb - 1
        BY <3>1
      <4>3. CASE i = t.pb
        BY <1>9, <2>6, <2>10, <4>1, <4>3
      <4>4. CASE i # t.pb
        BY <2>6, <2>7, <4>1, <4>2, <4>4
      <4> QED
        BY <4>3, <4>4
    <3>4. ASSUME NEW i \in t.pc - 1 + 1 .. t.pd
          PROVE  v(i) > x
      <4>1. i \in 1 .. N /\ i # t.pb /\ t.pc \in 1 .. N
        BY <2>7, <2>10, <3>1
      <4>2. i # t.pc => i \in t.pc + 1 .. t.pd
        BY <3>1
      <4>3. CASE i = t.pc
        BY <1>9, <2>6, <2>10, <4>1, <4>3
      <4>4. CASE i # t.pc
        BY <2>6, <2>7, <4>1, <4>2, <4>4
      <4> QED
        BY <4>3, <4>4
    <3>5. ASSUME NEW i \in t.pd + 1 .. end
          PROVE  v(i) = x
      <4>1. i \in 1 .. N /\ i # t.pb /\ i # t.pc
        BY <2>7, <2>10, <3>1
      <4> QED
        BY <2>6, <2>7, <4>1
    <3> QED
      BY <3>2, <3>3, <3>4, <3>5
  <2>9. IsSplit(z, a, N, lo, n, d)
    BY <1>1, <1>4, <1>9, <2>4, <2>5, <2>7, <2>8, <2>10 DEF IsSplit, v, x
  <2> QED
    BY <1>1, <1>4, <1>9, <2>3, <2>4, <2>9 DEF z
<1>10. t.pb <= t.pc => /\ u(t.pb) < x \/ u(t.pb) = x \/ u(t.pb) > x
                       /\ u(t.pc) < x \/ u(t.pc) = x \/ u(t.pc) > x
  <2> SUFFICES ASSUME t.pb <= t.pc
               PROVE  /\ u(t.pb) < x \/ u(t.pb) = x \/ u(t.pb) > x
                      /\ u(t.pc) < x \/ u(t.pc) = x \/ u(t.pc) > x
    OBVIOUS
  <2>1. t.pb \in 1 .. N /\ t.pc \in 1 .. N
    BY <1>4
  <2> HIDE DEF u, x
  <2>2. u(t.pb) \in Int /\ u(t.pc) \in Int /\ x \in Int
    BY <1>2, <2>1
  <2> QED
    BY <2>2
<1>11. t.pb \in Int /\ t.pc \in Int
  BY <1>1
<1> HIDE DEF z, u, x, b, end
<1> QED
  <2>1. CASE t.pb > t.pc
    BY <1>3, <2>1
  <2>2. CASE t.pb <= t.pc /\ u(t.pb) > x
    <3> QED
      BY <1>7, <1>8, <1>9, <1>10, <2>2
  <2>3. CASE t.pb <= t.pc /\ (u(t.pb) < x \/ u(t.pb) = x)
    <3>1. CASE u(t.pb) < x
      BY <1>5, <2>3, <3>1
    <3>2. CASE u(t.pb) = x
      BY <1>6, <2>3, <3>2
    <3> QED
      BY <2>3, <3>1, <3>2
  <2> QED
    BY <1>10, <1>11, <2>1, <2>2, <2>3

\* The split is complete: the elements equal to that at lo are on both ends, between them
\* those before it in the order, then those behind it.
IsPartition(t, a, N, lo, n, d) ==
  /\ Rearranged(a, t.a, N, lo, lo + n - 1)
  /\ lo + 1 <= t.pa /\ t.pa <= t.pb /\ t.pb = t.pc + 1 /\ t.pc <= t.pd /\ t.pd <= lo + n - 1
  /\ \A i \in lo .. t.pa - 1          : Place(d, t.a[i]) = Place(d, t.a[lo])
  /\ \A i \in t.pa .. t.pb - 1        : Place(d, t.a[i]) < Place(d, t.a[lo])
  /\ \A i \in t.pc + 1 .. t.pd        : Place(d, t.a[i]) > Place(d, t.a[lo])
  /\ \A i \in t.pd + 1 .. lo + n - 1  : Place(d, t.a[i]) = Place(d, t.a[lo])

\* When the gap is closed the elements are split.
LEMMA PartitionIs ==
  ASSUME NEW N \in Nat, NEW S, AreKeyed(S), NEW a \in [1 .. N -> S], NEW d,
         NEW n \in Nat, NEW lo \in 1 .. N, n >= 7, lo + n - 1 <= N
  PROVE  /\ Partition(a, lo, n, d) \in Splitting(N, S)
         /\ IsPartition(Partition(a, lo, n, d), a, N, lo, n, d)
<1> DEFINE c == Swap(a, lo, Pivot(a, lo, n, d))
           start == [a |-> c, pa |-> lo + 1, pb |-> lo + 1,
                     pc |-> lo + n - 1, pd |-> lo + n - 1, swap_cnt |-> 0]
           V == {t \in Splitting(N, S) : IsSplit(t, c, N, lo, n, d)}
           Step == [k \in 1 .. n |-> [t \in V |-> SplitStep(t, lo, d)]]
           Fun(f) == f = [k \in 0 .. n |-> IF k = 0 THEN start ELSE SplitStep(f[k - 1], lo, d)]
           f0 == CHOOSE f : Fun(f)
           end == lo + n - 1
<1>1. Partition(a, lo, n, d) = f0[n]
  BY DEF Partition
<1>2. c \in [1 .. N -> S] /\ Rearranged(a, c, N, lo, end)
  <2> DEFINE p == Pivot(a, lo, n, d)
  <2>1. p \in lo .. end
    BY PivotIs
  <2>2. lo \in lo .. end /\ \A i \in lo .. end : i \in 1 .. N
    OBVIOUS
  <2> HIDE DEF p, end
  <2>3. Swap(a, lo, p) \in [1 .. N -> S] /\ Rearranged(a, Swap(a, lo, p), N, lo, end)
    BY <2>1, <2>2, SwapIs
  <2> QED
    BY <2>3 DEF p
<1> HIDE DEF c
<1>3. start \in V
  <2>1. start \in Splitting(N, S)
    BY <1>2 DEF Splitting
  <2>2. /\ start.a = c /\ start.pa = lo + 1 /\ start.pb = lo + 1 /\ start.pc = end /\ start.pd = end
    OBVIOUS
  <2> HIDE DEF start
  <2>3. IsSplit(start, c, N, lo, n, d)
    <3>1. Rearranged(c, c, N, lo, lo + n - 1)
      BY RearrangedSelf
    <3>2. /\ \A i \in lo .. start.pa - 1          : i = lo
          /\ start.pa .. start.pb - 1 = {} /\ start.pc + 1 .. start.pd = {}
          /\ start.pd + 1 .. lo + n - 1 = {}
      BY <2>2
    <3> QED
      BY <2>2, <3>1, <3>2 DEF IsSplit
  <2> QED
    BY <2>1, <2>3
<1>4. ASSUME NEW t \in V
      PROVE  /\ SplitStep(t, lo, d) \in V
             /\ IF t.pb > t.pc THEN SplitStep(t, lo, d) = t
                ELSE SplitStep(t, lo, d).pc - SplitStep(t, lo, d).pb < t.pc - t.pb
  BY <1>2, SplitStepIs
<1>5. Step \in [1 .. n -> [V -> V]]
  <2> HIDE DEF V
  <2> QED
    BY <1>4
<1> HIDE DEF start
<1>6. PICK f : Recurses(f, n, V, start, Step)
  <2> HIDE DEF V, Step
  <2> QED
    BY <1>3, <1>5, Recursion
<1>7. /\ f[0] = start /\ f \in [0 .. n -> V]
      /\ \A k \in 1 .. n : f[k - 1] \in V /\ f[k] = SplitStep(f[k - 1], lo, d)
  <2>1. f \in [0 .. n -> V] /\ f[0] = start /\ \A k \in 1 .. n : f[k] = Step[k][f[k - 1]]
    BY <1>6 DEF Recurses
  <2>2. \A k \in 1 .. n : k - 1 \in 0 .. n
    OBVIOUS
  <2> HIDE DEF V
  <2> QED
    BY <2>1, <2>2
<1>8. Fun(f0)
  <2>1. \A k \in 0 .. n : f[k] = IF k = 0 THEN start ELSE SplitStep(f[k - 1], lo, d)
    BY <1>7
  <2>2. f = [k \in 0 .. n |-> f[k]]
    BY <1>7
  <2>3. Fun(f)
    BY <2>1, <2>2
  <2> HIDE DEF Fun
  <2> QED
    BY <2>3
<1> HIDE DEF f0
<1>9. f0[0] = start /\ \A k \in 1 .. n : f0[k] = SplitStep(f0[k - 1], lo, d)
  BY <1>8
<1> DEFINE T == {k \in 0 .. n : /\ f0[k] \in V
                                /\ f0[k].pb > f0[k].pc \/ f0[k].pc - f0[k].pb <= n - 2 - k}
<1>10. 0 \in T
  BY <1>3, <1>9 DEF start
<1>11. ASSUME NEW t \in V
       PROVE  t.pb \in Int /\ t.pc \in Int
  BY DEF Splitting
<1>12. ASSUME NEW k \in 1 .. n, k - 1 \in T
       PROVE  k \in T
  <2> DEFINE t == f0[k - 1]
             z == f0[k]
  <2>1. t \in V /\ (t.pb > t.pc \/ t.pc - t.pb <= n - 2 - (k - 1))
    BY <1>12
  <2>2. z = SplitStep(t, lo, d)
    BY <1>9
  <2> HIDE DEF V, t, z
  <2>3. /\ z \in V
        /\ IF t.pb > t.pc THEN z = t ELSE z.pc - z.pb < t.pc - t.pb
    BY <1>4, <2>1, <2>2
  <2>4. z.pb > z.pc \/ z.pc - z.pb <= n - 2 - k
    <3>1. t.pb \in Int /\ t.pc \in Int /\ z.pb \in Int /\ z.pc \in Int
      BY <1>11, <2>1, <2>3
    <3> QED
      BY <2>1, <2>3, <3>1
  <2> QED
    BY <2>3, <2>4 DEF z
<1>13. n \in T
  <2>1. \A k \in 1 .. n : k - 1 \in T => k \in T
    BY <1>12
  <2> HIDE DEF T
  <2>2. \A k \in 0 .. n : k \in T
    BY <1>10, <2>1, Climb
  <2> QED
    BY <2>2
<1> DEFINE t == f0[n]
<1>14. t \in V /\ (t.pb > t.pc \/ t.pc - t.pb <= n - 2 - n)
  BY <1>13
<1> HIDE DEF t
<1>15. t \in Splitting(N, S) /\ IsSplit(t, c, N, lo, n, d)
  BY <1>14
<1>16. t.pb = t.pc + 1
  BY <1>11, <1>14, <1>15 DEF IsSplit
<1>17. Rearranged(a, t.a, N, lo, lo + n - 1)
  <2>1. Rearranged(c, t.a, N, lo, lo + n - 1)
    BY <1>15 DEF IsSplit
  <2> QED
    BY <1>2, <2>1, RearrangedAgain
<1>18. IsPartition(t, a, N, lo, n, d)
  BY <1>15, <1>16, <1>17 DEF IsSplit, IsPartition
<1> QED
  BY <1>1, <1>15, <1>18 DEF t

\* Of the elements in E from s to m - 1 and those in L from m to e - 1, the smaller number
\* goes to the other side: then those in L come first.
HavePassed(a, b, N, S, s, m, e, E, L) ==
  /\ b \in [1 .. N -> S] /\ Rearranged(a, b, N, s, e - 1)
  /\ \A i \in s .. s + (e - m) - 1 : b[i] \in L
  /\ \A i \in s + (e - m) .. e - 1 : b[i] \in E

\* Of two neighbouring blocks, vecswap of the shorter length brings the second to the front.
LEMMA BlocksPass ==
  ASSUME NEW N \in Nat, NEW S, NEW a \in [1 .. N -> S], NEW s \in 1 .. N + 1, NEW m \in Int,
         NEW e \in Int, s <= m, m <= e, e - 1 <= N, NEW E, NEW L,
         \A i \in s .. m - 1 : a[i] \in E, \A i \in m .. e - 1 : a[i] \in L
  PROVE  HavePassed(a, SwapBlocks(a, s, e - SmallerOf(m - s, e - m), SmallerOf(m - s, e - m)),
                    N, S, s, m, e, E, L)
<1> DEFINE r == SmallerOf(m - s, e - m)
           j == e - r
           b == SwapBlocks(a, s, j, r)
<1>1. r \in Nat /\ s + r <= m /\ m + r <= e /\ (s + r = m \/ m + r = e)
  BY DEF SmallerOf
<1> HIDE DEF r
<1>2. j \in Int /\ j + r = e
  BY <1>1
<1> HIDE DEF j
<1>3. b \in [1 .. N -> S] /\ Rearranged(a, b, N, s, e - 1) /\ AreSwapped(a, b, N, s, j, r)
  <2>1. e - 1 \in 0 .. N /\ s <= s /\ s + r <= j /\ j + r - 1 <= e - 1 /\ s \in Int
    BY <1>1, <1>2
  <2> QED
    BY <1>1, <1>2, <2>1, SwapBlocksIs
<1> HIDE DEF b
<1>4. \A k \in 1 .. N : b[k] = IF k \in s .. s + r - 1 THEN a[k - s + j]
                                ELSE IF k \in j .. j + r - 1 THEN a[k - j + s] ELSE a[k]
  BY <1>3 DEF AreSwapped
<1>5. ASSUME NEW i \in s .. s + (e - m) - 1
      PROVE  b[i] \in L
  <2>1. i \in 1 .. N
    OBVIOUS
  <2>2. CASE i \in s .. s + r - 1
    <3>1. i - s + j \in m .. e - 1
      BY <1>1, <1>2, <2>2
    <3> QED
      BY <1>4, <2>1, <2>2, <3>1
  <2>3. CASE i \notin s .. s + r - 1
    <3>1. i \in m .. e - 1 /\ i \notin j .. j + r - 1
      BY <1>1, <1>2, <2>3
    <3> QED
      BY <1>4, <2>1, <2>3, <3>1
  <2> QED
    BY <2>2, <2>3
<1>6. ASSUME NEW i \in s + (e - m) .. e - 1
      PROVE  b[i] \in E
  <2>1. i \in 1 .. N /\ i \notin s .. s + r - 1
    BY <1>1
  <2>2. CASE i \in j .. j + r - 1
    <3>1. i - j + s \in s .. m - 1
      BY <1>1, <1>2, <2>2
    <3> QED
      BY <1>4, <2>1, <2>2, <3>1
  <2>3. CASE i \notin j .. j + r - 1
    <3>1. i \in s .. m - 1
      BY <1>1, <1>2, <2>3
    <3> QED
      BY <1>4, <2>1, <2>3, <3>1
  <2> QED
    BY <2>2, <2>3
<1> QED
  BY <1>3, <1>5, <1>6 DEF HavePassed, b, j, r

\* Two such exchanges bring the elements from both ends to the middle.
LEMMA BlocksGather ==
  ASSUME NEW N \in Nat, NEW S, NEW h, NEW b, NEW c, NEW lo \in 1 .. N, NEW pa \in Int,
         NEW pb \in Int, NEW pd \in Int, NEW end \in Int, end <= N + 1, lo <= pa, pa <= pb,
         pb <= pd + 1, pd + 1 <= end, NEW B, NEW E, NEW A,
         HavePassed(h, b, N, S, lo, pa, pb, E, B), HavePassed(b, c, N, S, pb, pd + 1, end, A, E)
  PROVE  /\ c \in [1 .. N -> S] /\ Rearranged(h, c, N, lo, end - 1)
         /\ \A i \in lo .. lo + (pb - pa) - 1 : c[i] \in B
         /\ \A i \in lo + (pb - pa) .. end - (pd - pb + 1) - 1 : c[i] \in E
         /\ \A i \in end - (pd - pb + 1) .. end - 1 : c[i] \in A
<1>1. /\ Rearranged(h, b, N, lo, pb - 1)
      /\ \A i \in lo .. lo + (pb - pa) - 1 : b[i] \in B
      /\ \A i \in lo + (pb - pa) .. pb - 1 : b[i] \in E
  BY DEF HavePassed
<1>3. /\ c \in [1 .. N -> S] /\ Rearranged(b, c, N, pb, end - 1)
      /\ \A i \in pb .. pb + (end - (pd + 1)) - 1 : c[i] \in E
      /\ \A i \in pb + (end - (pd + 1)) .. end - 1 : c[i] \in A
  BY DEF HavePassed
<1>4. \A i \in lo .. pb - 1 : c[i] = b[i]
  <2>1. \A i \in lo .. pb - 1 : i \in 1 .. N /\ i \notin pb .. end - 1
    OBVIOUS
  <2>2. \A i \in 1 .. N : i \notin pb .. end - 1 => c[i] = b[i]
    BY <1>3 DEF Rearranged, Moves
  <2> QED
    BY <2>1, <2>2
<1>5. Rearranged(h, c, N, lo, end - 1)
  <2>1. lo \in Int /\ pb - 1 \in Int /\ end - 1 \in Int /\ lo <= lo /\ pb - 1 <= end - 1
        /\ lo <= pb /\ end - 1 <= end - 1
    OBVIOUS
  <2>2. Rearranged(h, b, N, lo, end - 1)
    BY <1>1, <2>1, RearrangedWithin
  <2>3. Rearranged(b, c, N, lo, end - 1)
    BY <1>3, <2>1, RearrangedWithin
  <2> QED
    BY <2>2, <2>3, RearrangedAgain
<1>6. \A i \in lo .. lo + (pb - pa) - 1 : c[i] \in B
  <2>1. \A i \in lo .. lo + (pb - pa) - 1 : i \in lo .. pb - 1
    OBVIOUS
  <2> QED
    BY <1>1, <1>4, <2>1
<1> DEFINE q == pb + (end - (pd + 1))
           w == lo + (pb - pa)
<1>7. q \in Int /\ q = end - (pd - pb + 1) /\ pb <= q /\ w \in Int /\ lo <= w /\ w <= pb
  OBVIOUS
<1>8. (\A i \in pb .. q - 1 : c[i] \in E) /\ (\A i \in q .. end - 1 : c[i] \in A)
  BY <1>3
<1>9. \A i \in w .. pb - 1 : b[i] \in E
  BY <1>1
<1> HIDE DEF q, w
<1>10. \A i \in w .. q - 1 : c[i] \in E
  <2>1. \A i \in w .. q - 1 : i \in w .. pb - 1 \/ i \in pb .. q - 1
    BY <1>7
  <2>2. \A i \in w .. pb - 1 : i \in lo .. pb - 1
    BY <1>7
  <2> QED
    BY <1>4, <1>8, <1>9, <2>1, <2>2
<1> QED
  BY <1>3, <1>5, <1>6, <1>7, <1>8, <1>10 DEF w

\* Those that are equal to the pivot are in the middle.
IsGathered(b, t, N, lo, n, d) ==
  /\ Rearranged(t.a, b, N, lo, lo + n - 1)
  /\ \A i \in lo .. lo + (t.pb - t.pa) - 1 : Place(d, b[i]) < Place(d, t.a[lo])
  /\ \A i \in lo + (t.pb - t.pa) .. lo + n - (t.pd - t.pc) - 1 : Place(d, b[i]) = Place(d, t.a[lo])
  /\ \A i \in lo + n - (t.pd - t.pc) .. lo + n - 1 : Place(d, b[i]) > Place(d, t.a[lo])

\* The elements equal to the pivot end up between the smaller and the greater ones.
LEMMA GatheredIs ==
  ASSUME NEW N \in Nat, NEW S, AreKeyed(S), NEW t \in Splitting(N, S), NEW a, NEW d,
         NEW n \in Nat, NEW lo \in 1 .. N, lo + n - 1 <= N, IsPartition(t, a, N, lo, n, d)
  PROVE  /\ Gathered(t, lo, n) \in [1 .. N -> S]
         /\ IsGathered(Gathered(t, lo, n), t, N, lo, n, d)
<1> DEFINE x == Place(d, t.a[lo])
           B == {e \in S : Place(d, e) < x}
           E == {e \in S : Place(d, e) = x}
           A == {e \in S : Place(d, e) > x}
           h == t.a
           pa == t.pa
           pb == t.pb
           pc == t.pc
           pd == t.pd
           end == lo + n
           low == SmallerOf(pa - lo, pb - pa)
           m == pd + 1
           high == SmallerOf(m - pb, end - m)
           b == SwapBlocks(h, lo, pb - low, low)
           c == SwapBlocks(b, pb, end - high, high)
<1>1. h \in [1 .. N -> S] /\ pa \in Int /\ pb \in Int /\ pc \in Int /\ pd \in Int /\ end \in Int
  BY DEF Splitting
<1>2. /\ lo + 1 <= pa /\ pa <= pb /\ pb = pc + 1 /\ pc <= pd /\ pd <= lo + n - 1
      /\ \A i \in lo .. pa - 1          : Place(d, h[i]) = x
      /\ \A i \in pa .. pb - 1          : Place(d, h[i]) < x
      /\ \A i \in pc + 1 .. pd          : Place(d, h[i]) > x
      /\ \A i \in pd + 1 .. lo + n - 1  : Place(d, h[i]) = x
  BY DEF IsPartition
<1>3. Gathered(t, lo, n) = c
  <2>1. pd - pc = m - pb /\ end - pd - 1 = end - m
    <3> HIDE DEF pb, pc, pd, end
    <3> QED
      BY <1>1, <1>2
  <2> DEFINE high0 == SmallerOf(pd - pc, end - pd - 1)
  <2>2. Gathered(t, lo, n) = SwapBlocks(b, pb, end - high0, high0)
    <3> HIDE DEF x, A, B, E
    <3> QED
      BY DEF Gathered
  <2>3. high0 = high
    <3> HIDE DEF pa, pb, pc, pd, end, m
    <3> QED
      BY <2>1
  <2> HIDE DEF high0, high, b, pb, end
  <2> QED
    BY <2>2, <2>3
<1> HIDE DEF h, pa, pb, pc, pd, end
<1>4. end - 1 = lo + n - 1 /\ end <= N + 1
  BY DEF end
<1>5. /\ \A i \in lo .. pa - 1          : i \in 1 .. N
      /\ \A i \in pa .. pb - 1          : i \in 1 .. N
      /\ \A i \in pb .. pd              : i \in 1 .. N
      /\ \A i \in pd + 1 .. end - 1     : i \in 1 .. N
  BY <1>1, <1>2, <1>4
<1>6. /\ \A i \in lo .. pa - 1          : h[i] \in E
      /\ \A i \in pa .. pb - 1          : h[i] \in B
      /\ \A i \in pb .. pd              : h[i] \in A
      /\ \A i \in pd + 1 .. end - 1     : h[i] \in E
  BY <1>1, <1>2, <1>4, <1>5
<1>7. lo <= pa /\ pa <= pb /\ pb <= pd + 1 /\ pd + 1 <= end /\ pb - 1 <= N /\ lo \in 1 .. N + 1
      /\ pb \in 1 .. N + 1 /\ end - 1 <= N /\ pd + 1 \in Int /\ pd + 1 - 1 = pd
  BY <1>1, <1>2, <1>4
<1>8. \A i \in S : /\ i \in E <=> Place(d, i) = x
                   /\ i \in B <=> Place(d, i) < x
                   /\ i \in A <=> Place(d, i) > x
  OBVIOUS
<1> HIDE DEF A, B, E, x
<1>9. HavePassed(h, b, N, S, lo, pa, pb, E, B)
  BY <1>1, <1>6, <1>7, BlocksPass
<1> HIDE DEF b
<1>10. HavePassed(b, c, N, S, pb, pd + 1, end, A, E)
  <2>1. b \in [1 .. N -> S]
    BY <1>9 DEF HavePassed
  <2>2. \A i \in pb .. end - 1 : b[i] = h[i]
    <3>1. \A i \in pb .. end - 1 : i \in 1 .. N /\ i \notin lo .. pb - 1
      BY <1>1, <1>7
    <3>2. \A i \in 1 .. N : i \notin lo .. pb - 1 => b[i] = h[i]
      BY <1>9 DEF HavePassed, Rearranged, Moves
    <3> QED
      BY <3>1, <3>2
  <2>3. \A i \in pb .. pd : i \in pb .. end - 1
    BY <1>1, <1>7
  <2>4. \A i \in pd + 1 .. end - 1 : i \in pb .. end - 1
    BY <1>1, <1>7
  <2>8. m - 1 = pd
    BY <1>1
  <2>5. (\A i \in pb .. m - 1 : b[i] \in A) /\ \A i \in m .. end - 1 : b[i] \in E
    <3>1. (\A i \in pb .. pd : b[i] \in A) /\ \A i \in m .. end - 1 : b[i] \in E
      BY <1>6, <2>2, <2>3, <2>4
    <3> HIDE DEF m
    <3> QED
      BY <2>8, <3>1
  <2>6. m \in Int /\ pb <= m /\ m <= end
    BY <1>7
  <2> HIDE DEF m
  <2>7. HavePassed(b, c, N, S, pb, m, end, A, E)
    BY <1>1, <1>7, <2>1, <2>5, <2>6, BlocksPass
  <2> QED
    BY <2>7 DEF m
<1> HIDE DEF c
<1>11. /\ c \in [1 .. N -> S] /\ Rearranged(h, c, N, lo, end - 1)
       /\ \A i \in lo .. lo + (pb - pa) - 1 : c[i] \in B
       /\ \A i \in lo + (pb - pa) .. end - (pd - pb + 1) - 1 : c[i] \in E
       /\ \A i \in end - (pd - pb + 1) .. end - 1 : c[i] \in A
  BY <1>1, <1>4, <1>7, <1>9, <1>10, BlocksGather
<1>12. pd - pb + 1 = pd - pc
  BY <1>1, <1>2
<1>13. /\ Rearranged(h, c, N, lo, lo + n - 1)
       /\ \A i \in lo .. lo + (pb - pa) - 1 : c[i] \in B
       /\ \A i \in lo + (pb - pa) .. lo + n - (pd - pc) - 1 : c[i] \in E
       /\ \A i \in lo + n - (pd - pc) .. lo + n - 1 : c[i] \in A
  <2> DEFINE w == end - (pd - pb + 1)
  <2>1. end - 1 = lo + n - 1 /\ w = lo + n - (pd - pc)
    BY <1>1, <1>12 DEF end
  <2> DEFINE Fine(v, e) == /\ Rearranged(h, c, N, lo, e)
                           /\ \A i \in lo .. lo + (pb - pa) - 1 : c[i] \in B
                           /\ \A i \in lo + (pb - pa) .. v - 1 : c[i] \in E
                           /\ \A i \in v .. e : c[i] \in A
  <2>2. Fine(w, end - 1)
    BY <1>11
  <2>3. Fine(lo + n - (pd - pc), lo + n - 1)
    <3> HIDE DEF w, Fine
    <3> QED
      BY <2>1, <2>2
  <2> HIDE DEF w
  <2>4. Rearranged(h, c, N, lo, lo + n - 1)
    BY <2>3
  <2>5. \A i \in lo .. lo + (pb - pa) - 1 : c[i] \in B
    BY <2>3
  <2>6. \A i \in lo + (pb - pa) .. lo + n - (pd - pc) - 1 : c[i] \in E
    <3>1. lo + n - (pd - pc) - 1 = (lo + n - (pd - pc)) - 1
      BY <1>1
    <3>2. \A i \in lo + (pb - pa) .. (lo + n - (pd - pc)) - 1 : c[i] \in E
      BY <2>3
    <3> QED
      BY <3>1, <3>2
  <2>7. \A i \in lo + n - (pd - pc) .. lo + n - 1 : c[i] \in A
    BY <2>3
  <2> QED
    BY <2>4, <2>5, <2>6, <2>7
<1>14. /\ \A i \in B : Place(d, i) < x
       /\ \A i \in E : Place(d, i) = x
       /\ \A i \in A : Place(d, i) > x
  BY DEF A, B, E
<1>15. IsGathered(c, t, N, lo, n, d)
  BY <1>13, <1>14 DEF IsGathered, h, pa, pb, pc, pd, x
<1> QED
  BY <1>3, <1>11, <1>15

\* The elements of the window, from l to r, that are among those from lo to hi have their
\* places among these.
InWindow(b, d, lo, hi, l, r) ==
  \A q, i \in lo .. hi :
    l <= q /\ q <= r => /\ i <= q => Place(d, b[i]) <= Place(d, b[q])
                        /\ q <= i => Place(d, b[q]) <= Place(d, b[i])

\* What is in its place among the smaller or the greater elements is in its place among all.
LEMMA WindowJoins ==
  ASSUME NEW N \in Nat, NEW S, AreKeyed(S), NEW b \in [1 .. N -> S], NEW d, NEW l \in Int,
         NEW r \in Int, NEW lo \in 1 .. N, NEW hi \in 0 .. N, NEW m1 \in Int, NEW m2 \in Int,
         lo <= m1, m1 <= m2, m2 <= hi + 1, NEW x \in Int,
         \A i \in lo .. m1 - 1 : Place(d, b[i]) < x, \A i \in m1 .. m2 - 1 : Place(d, b[i]) = x,
         \A i \in m2 .. hi : Place(d, b[i]) > x,
         InWindow(b, d, lo, m1 - 1, l, r), InWindow(b, d, m2, hi, l, r)
  PROVE  InWindow(b, d, lo, hi, l, r)
<1> DEFINE u(i) == Place(d, b[i])
<1>1. \A i \in lo .. hi : u(i) \in Int
  <2> TAKE i \in lo .. hi
  <2>1. b[i].key \in Int
    BY DEF AreKeyed
  <2> QED
    BY <2>1, CmpIs
<1>2. /\ \A i \in lo .. m1 - 1 : u(i) < x
      /\ \A i \in m1 .. m2 - 1 : u(i) = x
      /\ \A i \in m2 .. hi : u(i) > x
  OBVIOUS
<1>3. /\ \A q, i \in lo .. m1 - 1 : l <= q /\ q <= r => /\ i <= q => u(i) <= u(q)
                                                        /\ q <= i => u(q) <= u(i)
      /\ \A q, i \in m2 .. hi : l <= q /\ q <= r => /\ i <= q => u(i) <= u(q)
                                                    /\ q <= i => u(q) <= u(i)
  BY DEF InWindow
<1> HIDE DEF u
<1>4. ASSUME NEW q \in lo .. hi, NEW i \in lo .. hi, l <= q, q <= r
      PROVE  /\ i <= q => u(i) <= u(q)
             /\ q <= i => u(q) <= u(i)
  <2>1. u(i) \in Int /\ u(q) \in Int
    BY <1>1
  <2>2. CASE q < m1 /\ i < m1
    BY <1>3, <1>4, <2>2
  <2>3. CASE q >= m2 /\ i >= m2
    BY <1>3, <1>4, <2>3
  <2>4. CASE ~(q < m1 /\ i < m1) /\ ~(q >= m2 /\ i >= m2)
    <3>1. q \in lo .. m1 - 1 \/ q \in m1 .. m2 - 1 \/ q \in m2 .. hi
      OBVIOUS
    <3>2. i \in lo .. m1 - 1 \/ i \in m1 .. m2 - 1 \/ i \in m2 .. hi
      OBVIOUS
    <3>3. CASE q \in lo .. m1 - 1
      BY <1>2, <2>1, <2>4, <3>2, <3>3
    <3>4. CASE q \in m1 .. m2 - 1
      BY <1>2, <2>1, <2>4, <3>2, <3>4
    <3>5. CASE q \in m2 .. hi
      BY <1>2, <2>1, <2>4, <3>2, <3>5
    <3> QED
      BY <3>1, <3>3, <3>4, <3>5
  <2> QED
    BY <2>2, <2>3, <2>4
<1> QED
  BY <1>4 DEF InWindow, u

\* pqsort, with what it does to the n elements of array a from lo on in an operator: Sub
\* is a call of itself for one of the parts.
Sub(f, a, lo, m, l, r) == IF m > 1 /\ Needed(lo, m, l, r) THEN f[m][a][lo] ELSE a

PartSorted(f, n, a, lo, l, r, d) ==
  LET t == Partition(a, lo, n, d)
  IN IF n < 7 THEN Insertion(a, lo, n, d)
     ELSE IF t.swap_cnt = 0 THEN Insertion(t.a, lo, n, d)
     ELSE Sub(f, Sub(f, Gathered(t, lo, n), lo, t.pb - t.pa, l, r),
              lo + n - (t.pd - t.pc), t.pd - t.pc, l, r)

SortBody(f, n, v, l, r, d) ==
  [a \in [DOMAIN v -> Range(v)] |-> [lo \in 1 .. Len(v) - n + 1 |-> PartSorted(f, n, a, lo, l, r, d)]]

IsSorter(f, v, l, r, d) == f = [n \in 0 .. Len(v) |-> SortBody(f, n, v, l, r, d)]

\* PqSort is a function of the number of elements, the array and the place of the first.
LEMMA PqSortIs ==
  ASSUME NEW v, NEW l, NEW r, NEW d
  PROVE  PqSort(v, l, r, d) = (CHOOSE f : IsSorter(f, v, l, r, d))[Len(v)][v][1]
BY DEF PqSort, IsSorter, SortBody, PartSorted, Sub

IsWindowSorted(a, b, N, S, lo, n, l, r, d) ==
  /\ b \in [1 .. N -> S] /\ Rearranged(a, b, N, lo, lo + n - 1)
  /\ InWindow(b, d, lo, lo + n - 1, l, r)

SortsParts(f, k, N, S, l, r, d) ==
  \A m \in 0 .. k - 1 : \A a \in [1 .. N -> S] : \A lo \in 1 .. N - m + 1 :
    IsWindowSorted(a, f[m][a][lo], N, S, lo, m, l, r, d)

\* A part is sorted, or is left alone and then has nothing of the window.
LEMMA SubIs ==
  ASSUME NEW N \in Nat, NEW S, AreKeyed(S), NEW a \in [1 .. N -> S], NEW d, NEW l \in Int,
         NEW r \in Int, NEW k \in Nat, NEW f, SortsParts(f, k, N, S, l, r, d),
         NEW m \in 0 .. k - 1, NEW lo \in 1 .. N + 1, lo + m - 1 <= N
  PROVE  IsWindowSorted(a, Sub(f, a, lo, m, l, r), N, S, lo, m, l, r, d)
<1>1. CASE m > 1 /\ Needed(lo, m, l, r)
  <2>1. lo \in 1 .. N - m + 1
    OBVIOUS
  <2> QED
    BY <1>1, <2>1 DEF SortsParts, Sub
<1>2. CASE ~(m > 1 /\ Needed(lo, m, l, r))
  <2>1. Sub(f, a, lo, m, l, r) = a
    BY <1>2 DEF Sub
  <2>2. InWindow(a, d, lo, lo + m - 1, l, r)
    <3> DEFINE u(i) == Place(d, a[i])
    <3>1. \A i \in lo .. lo + m - 1 : u(i) \in Int
      <4> TAKE i \in lo .. lo + m - 1
      <4>1. a[i].key \in Int
        BY DEF AreKeyed
      <4> QED
        BY <4>1, CmpIs
    <3> HIDE DEF u
    <3>2. ASSUME NEW q \in lo .. lo + m - 1, NEW i \in lo .. lo + m - 1, l <= q, q <= r
          PROVE  u(i) <= u(q) /\ u(q) <= u(i)
      <4>1. Needed(lo, m, l, r)
        BY <3>2 DEF Needed
      <4>2. q = i
        BY <1>2, <4>1
      <4> QED
        BY <3>1, <4>2
    <3> QED
      BY <3>2 DEF InWindow, u
  <2>3. Rearranged(a, a, N, lo, lo + m - 1)
    BY RearrangedSelf
  <2> QED
    BY <2>1, <2>2, <2>3 DEF IsWindowSorted
<1> QED
  BY <1>1, <1>2

\* The parts that pqsort calls itself for are smaller.
LEMMA PartsAreSmaller ==
  ASSUME NEW N \in Nat, NEW S, NEW t \in Splitting(N, S), NEW a, NEW d, NEW n \in Nat,
         NEW lo \in 1 .. N, lo + n - 1 <= N, IsPartition(t, a, N, lo, n, d)
  PROVE  /\ t.pb - t.pa \in 0 .. n - 1 /\ t.pd - t.pc \in 0 .. n - 1
         /\ (t.pb - t.pa) + (t.pd - t.pc) <= n - 1
<1>1. t.pa \in Int /\ t.pb \in Int /\ t.pc \in Int /\ t.pd \in Int
  BY DEF Splitting
<1>2. lo + 1 <= t.pa /\ t.pa <= t.pb /\ t.pb = t.pc + 1 /\ t.pc <= t.pd /\ t.pd <= lo + n - 1
  BY DEF IsPartition
<1> QED
  BY <1>1, <1>2

\* Sorting n elements depends on how fewer are sorted, and on nothing else.
LEMMA PartAgrees ==
  ASSUME NEW N \in Nat, NEW S, AreKeyed(S), NEW a \in [1 .. N -> S], NEW d, NEW l, NEW r,
         NEW n \in Nat, NEW lo \in 1 .. N - n + 1, NEW f, NEW g, \A m \in 0 .. n - 1 : f[m] = g[m]
  PROVE  PartSorted(f, n, a, lo, l, r, d) = PartSorted(g, n, a, lo, l, r, d)
<1>1. CASE n < 7
  BY <1>1 DEF PartSorted
<1>2. CASE n >= 7
  <2> DEFINE t == Partition(a, lo, n, d)
             less == t.pb - t.pa
             more == t.pd - t.pc
             h == Gathered(t, lo, n)
  <2>1. lo \in 1 .. N /\ lo + n - 1 <= N /\ ~(n < 7)
    BY <1>2
  <2>2. t \in Splitting(N, S) /\ IsPartition(t, a, N, lo, n, d)
    BY <1>2, <2>1, PartitionIs
  <2>3. less \in 0 .. n - 1 /\ more \in 0 .. n - 1
    <3> HIDE DEF t
    <3> QED
      BY <2>1, <2>2, PartsAreSmaller
  <2>4. \A z \in {f, g} :
          PartSorted(z, n, a, lo, l, r, d) =
            IF t.swap_cnt = 0 THEN Insertion(t.a, lo, n, d)
            ELSE Sub(z, Sub(z, h, lo, less, l, r), lo + n - more, more, l, r)
    BY <2>1 DEF PartSorted
  <2> HIDE DEF t, h, less, more
  <2>5. \A b, p : Sub(f, b, p, less, l, r) = Sub(g, b, p, less, l, r)
    BY <2>3 DEF Sub
  <2>6. \A b, p : Sub(f, b, p, more, l, r) = Sub(g, b, p, more, l, r)
    BY <2>3 DEF Sub
  <2> QED
    BY <2>4, <2>5, <2>6
<1> QED
  BY <1>1, <1>2

\* ... for all arrays and places.
LEMMA BodyAgrees ==
  ASSUME NEW v, NEW N \in Nat, NEW S, DOMAIN v = 1 .. N, Len(v) = N, Range(v) = S, AreKeyed(S),
         NEW d, NEW l, NEW r, NEW n \in Nat, NEW f, NEW g, \A m \in 0 .. n - 1 : f[m] = g[m]
  PROVE  SortBody(f, n, v, l, r, d) = SortBody(g, n, v, l, r, d)
<1>1. \A a \in [1 .. N -> S] : \A lo \in 1 .. N - n + 1 :
        PartSorted(f, n, a, lo, l, r, d) = PartSorted(g, n, a, lo, l, r, d)
  BY PartAgrees
<1>2. /\ SortBody(f, n, v, l, r, d) =
           [a \in [1 .. N -> S] |-> [lo \in 1 .. N - n + 1 |-> PartSorted(f, n, a, lo, l, r, d)]]
      /\ SortBody(g, n, v, l, r, d) =
           [a \in [1 .. N -> S] |-> [lo \in 1 .. N - n + 1 |-> PartSorted(g, n, a, lo, l, r, d)]]
  BY DEF SortBody
<1> QED
  BY <1>1, <1>2

\* So there is a function that pqsort computes.
LEMMA SortExists ==
  ASSUME NEW v, NEW N \in Nat, NEW S, DOMAIN v = 1 .. N, Len(v) = N, Range(v) = S, AreKeyed(S),
         NEW d, NEW l, NEW r
  PROVE  \E f : IsSorter(f, v, l, r, d)
<1> DEFINE Sofar(f, k) == \A m \in 0 .. k - 1 : f[m] = SortBody(f, m, v, l, r, d)
           T == {k \in Nat : \E f : Sofar(f, k)}
<1>1. 0 \in T
  OBVIOUS
<1>2. ASSUME NEW k \in Nat, k \in T
      PROVE  k + 1 \in T
  <2>1. PICK f : Sofar(f, k)
    BY <1>2
  <2> DEFINE x == SortBody(f, k, v, l, r, d)
             g == [m \in 0 .. k |-> IF m = k THEN x ELSE f[m]]
  <2> HIDE DEF x
  <2>2. g[k] = x /\ \A m \in 0 .. k - 1 : f[m] = g[m]
    OBVIOUS
  <2> HIDE DEF g
  <2>3. ASSUME NEW m \in 0 .. k
        PROVE  g[m] = SortBody(g, m, v, l, r, d)
    <3>1. m \in Nat /\ \A j \in 0 .. m - 1 : f[j] = g[j]
      BY <2>2
    <3>2. SortBody(f, m, v, l, r, d) = SortBody(g, m, v, l, r, d)
      BY <3>1, BodyAgrees
    <3>3. CASE m = k
      BY <2>2, <3>2, <3>3 DEF x
    <3>4. CASE m # k
      <4>1. m \in 0 .. k - 1
        BY <3>4
      <4> QED
        BY <2>1, <2>2, <3>2, <4>1
    <3> QED
      BY <3>3, <3>4
  <2>4. Sofar(g, k + 1)
    BY <2>3
  <2> QED
    BY <2>4
<1>3. N + 1 \in T
  <2> HIDE DEF T
  <2> QED
    BY <1>1, <1>2, NatRange
<1>4. PICK f : Sofar(f, N + 1)
  BY <1>3
<1> DEFINE g == [m \in 0 .. N |-> f[m]]
<1>5. \A m \in 0 .. N : g[m] = f[m] /\ f[m] = SortBody(f, m, v, l, r, d)
  BY <1>4
<1>6. ASSUME NEW m \in 0 .. N
      PROVE  g[m] = SortBody(g, m, v, l, r, d)
  <2> HIDE DEF g
  <2>1. m \in Nat /\ \A j \in 0 .. m - 1 : f[j] = g[j]
    BY <1>5
  <2> HIDE DEF Sofar
  <2>2. SortBody(f, m, v, l, r, d) = SortBody(g, m, v, l, r, d)
    BY <2>1, BodyAgrees
  <2> QED
    BY <1>5, <2>2
<1>7. g = [m \in 0 .. N |-> g[m]]
  OBVIOUS
<1>8. IsSorter(g, v, l, r, d)
  <2> HIDE DEF g
  <2> QED
    BY <1>6, <1>7 DEF IsSorter
<1> QED
  BY <1>8

\* If fewer than n elements are sorted as they should be, so are n.
LEMMA PartSorts ==
  ASSUME NEW N \in Nat, NEW S, AreKeyed(S), NEW a \in [1 .. N -> S], NEW d, NEW l \in Int,
         NEW r \in Int, NEW n \in Nat, NEW lo \in 1 .. N - n + 1, NEW f,
         SortsParts(f, n, N, S, l, r, d)
  PROVE  IsWindowSorted(a, PartSorted(f, n, a, lo, l, r, d), N, S, lo, n, l, r, d)
<1>1. ASSUME NEW b \in [1 .. N -> S], Rearranged(a, b, N, lo, lo + n - 1)
      PROVE  IsWindowSorted(a, Insertion(b, lo, n, d), N, S, lo, n, l, r, d)
  <2> DEFINE c == Insertion(b, lo, n, d)
  <2>1. c \in [1 .. N -> S] /\ Rearranged(b, c, N, lo, lo + n - 1) /\ InOrder(c, d, lo, lo + n - 1)
    BY InsertionIs
  <2> HIDE DEF c
  <2>2. Rearranged(a, c, N, lo, lo + n - 1)
    BY <1>1, <2>1, RearrangedAgain
  <2>3. InWindow(c, d, lo, lo + n - 1, l, r)
    BY <2>1 DEF InWindow, InOrder
  <2> QED
    BY <2>1, <2>2, <2>3 DEF IsWindowSorted, c
<1>2. Rearranged(a, a, N, lo, lo + n - 1)
  BY RearrangedSelf
<1>3. CASE n < 7
  BY <1>1, <1>2, <1>3 DEF PartSorted
<1>4. CASE n >= 7
  <2> DEFINE t == Partition(a, lo, n, d)
             less == t.pb - t.pa
             more == t.pd - t.pc
             h == Gathered(t, lo, n)
             b == Sub(f, h, lo, less, l, r)
             c == Sub(f, b, lo + n - more, more, l, r)
             x == Place(d, t.a[lo])
             hi == lo + n - 1
             m1 == lo + less
             m2 == lo + n - more
  <2>1. lo \in 1 .. N /\ hi \in 0 .. N /\ hi <= N /\ ~(n < 7)
    BY <1>4
  <2>2. t \in Splitting(N, S) /\ IsPartition(t, a, N, lo, n, d)
    BY <1>4, <2>1, PartitionIs
  <2>3. PartSorted(f, n, a, lo, l, r, d) = IF t.swap_cnt = 0 THEN Insertion(t.a, lo, n, d) ELSE c
    BY <2>1 DEF PartSorted
  <2> HIDE DEF t
  <2>4. less \in 0 .. n - 1 /\ more \in 0 .. n - 1 /\ less + more <= n - 1
    BY <2>1, <2>2, PartsAreSmaller
  <2>5. t.a \in [1 .. N -> S] /\ Rearranged(a, t.a, N, lo, hi)
    BY <2>2 DEF Splitting, IsPartition
  <2>6. CASE t.swap_cnt = 0
    BY <1>1, <2>3, <2>5, <2>6
  <2>7. h \in [1 .. N -> S] /\ IsGathered(h, t, N, lo, n, d)
    BY <2>1, <2>2, GatheredIs
  <2>8. /\ Rearranged(t.a, h, N, lo, hi)
        /\ \A i \in lo .. lo + less - 1 : Place(d, h[i]) < x
        /\ \A i \in lo + less .. lo + n - more - 1 : Place(d, h[i]) = x
        /\ \A i \in lo + n - more .. lo + n - 1 : Place(d, h[i]) > x
    BY <2>7 DEF IsGathered
  <2>9. x \in Int
    <3>1. t.a[lo].key \in Int
      BY <2>1, <2>5 DEF AreKeyed
    <3> QED
      BY <3>1, CmpIs
  <2> HIDE DEF less, more, h, x
  <2>10. /\ m1 \in Int /\ m2 \in Int /\ lo <= m1 /\ m1 <= m2 /\ m2 <= hi + 1 /\ lo \in Int /\ hi \in Int
         /\ m2 + more - 1 = hi /\ m2 \in 1 .. N + 1 /\ lo + less - 1 = m1 - 1 /\ lo \in 1 .. N + 1
         /\ lo + n - more - 1 = m2 - 1 /\ m1 - 1 <= N
    BY <2>1, <2>4
  <2>11. IsWindowSorted(h, b, N, S, lo, less, l, r, d)
    BY <2>4, <2>7, <2>10, SubIs
  <2> HIDE DEF m1, m2, hi, b
  <2>12. c = Sub(f, b, m2, more, l, r)
    BY DEF m2
  <2>13. b \in [1 .. N -> S] /\ Rearranged(h, b, N, lo, m1 - 1) /\ InWindow(b, d, lo, m1 - 1, l, r)
    BY <2>10, <2>11 DEF IsWindowSorted
  <2> HIDE DEF c
  <2>14. IsWindowSorted(b, c, N, S, m2, more, l, r, d)
    BY <2>1, <2>4, <2>10, <2>12, <2>13, SubIs
  <2>15. c \in [1 .. N -> S] /\ Rearranged(b, c, N, m2, hi) /\ InWindow(c, d, m2, hi, l, r)
    BY <2>10, <2>14 DEF IsWindowSorted
  <2> DEFINE B == {e \in S : Place(d, e) < x}
             A == {e \in S : Place(d, e) > x}
  <2>16. /\ \A i \in lo .. m1 - 1 : h[i] \in B
         /\ \A i \in m2 .. hi : h[i] \in A
         /\ \A i \in m1 .. m2 - 1 : Place(d, h[i]) = x
    <3>1. /\ \A i \in lo .. m1 - 1 : i \in 1 .. N
          /\ \A i \in m2 .. hi : i \in 1 .. N
      BY <2>1, <2>10
    <3>2. /\ \A i \in lo .. m1 - 1 : Place(d, h[i]) < x
          /\ \A i \in m2 .. hi : Place(d, h[i]) > x
          /\ \A i \in m1 .. m2 - 1 : Place(d, h[i]) = x
      BY <2>8, <2>10 DEF m1, m2, hi
    <3> QED
      BY <2>7, <3>1, <3>2
  <2> HIDE DEF A, B
  <2>17. /\ \A i \in lo .. m1 - 1 : b[i] \in B
         /\ \A i \in 1 .. N : i \notin lo .. m1 - 1 => b[i] = h[i]
    <3>1. lo \in 1 .. N + 1 /\ m1 - 1 \in 0 .. N
      BY <2>1, <2>10
    <3>2. PICK g : Moves(g, h, b, N, lo, m1 - 1)
      BY <2>13 DEF Rearranged
    <3>3. lo .. m1 - 1 \subseteq 1 .. N
      BY <2>10, <3>1
    <3> QED
      BY <2>16, <3>2, <3>3 DEF Moves
  <2>18. \A i \in m1 .. hi : b[i] = h[i]
    <3>1. \A i \in m1 .. hi : i \in 1 .. N /\ i \notin lo .. m1 - 1
      BY <2>1, <2>10
    <3> QED
      BY <2>17, <3>1
  <2>19. \A i \in m2 .. hi : b[i] \in A
    <3>1. \A i \in m2 .. hi : i \in m1 .. hi
      BY <2>1, <2>10
    <3> QED
      BY <2>16, <2>18, <3>1
  <2>20. /\ \A i \in m2 .. hi : c[i] \in A
         /\ \A i \in 1 .. N : i \notin m2 .. hi => c[i] = b[i]
    <3>1. PICK g : Moves(g, b, c, N, m2, hi)
      BY <2>15 DEF Rearranged
    <3>2. m2 .. hi \subseteq 1 .. N
      BY <2>1, <2>10
    <3> QED
      BY <2>19, <3>1, <3>2 DEF Moves
  <2>21. \A i \in lo .. m2 - 1 : c[i] = b[i]
    <3>1. \A i \in lo .. m2 - 1 : i \in 1 .. N /\ i \notin m2 .. hi
      BY <2>1, <2>10
    <3> QED
      BY <2>20, <3>1
  <2>22. InWindow(c, d, lo, m1 - 1, l, r)
    <3>1. \A i \in lo .. m1 - 1 : c[i] = b[i]
      <4>1. \A i \in lo .. m1 - 1 : i \in lo .. m2 - 1
        BY <2>10
      <4> QED
        BY <2>21, <4>1
    <3> QED
      BY <2>13, <3>1 DEF InWindow
  <2>23. /\ \A i \in lo .. m1 - 1 : Place(d, c[i]) < x
         /\ \A i \in m1 .. m2 - 1 : Place(d, c[i]) = x
         /\ \A i \in m2 .. hi : Place(d, c[i]) > x
    <3>1. \A i \in lo .. m1 - 1 : i \in lo .. m2 - 1
      BY <2>10
    <3>2. \A i \in m1 .. m2 - 1 : i \in lo .. m2 - 1 /\ i \in m1 .. hi
      BY <2>10
    <3> QED
      BY <2>16, <2>17, <2>18, <2>20, <2>21, <3>1, <3>2 DEF A, B
  <2>24. InWindow(c, d, lo, hi, l, r)
    BY <2>1, <2>9, <2>10, <2>15, <2>22, <2>23, WindowJoins, ZenonT(60)
  <2>25. Rearranged(a, c, N, lo, hi)
    <3>1. Rearranged(a, h, N, lo, hi)
      BY <2>5, <2>8, RearrangedAgain
    <3>2. Rearranged(h, b, N, lo, hi)
      <4>1. lo <= lo /\ m1 - 1 <= hi /\ m1 - 1 \in Int
        BY <2>10
      <4> QED
        BY <2>10, <2>13, <4>1, RearrangedWithin
    <3>3. Rearranged(b, c, N, lo, hi)
      <4>1. lo <= m2 /\ hi <= hi
        BY <2>10
      <4> QED
        BY <2>10, <2>15, <4>1, RearrangedWithin
    <3>4. Rearranged(a, b, N, lo, hi)
      BY <3>1, <3>2, RearrangedAgain
    <3> QED
      BY <3>3, <3>4, RearrangedAgain
  <2>26. IsWindowSorted(a, c, N, S, lo, n, l, r, d)
    BY <2>15, <2>24, <2>25 DEF IsWindowSorted, hi
  <2> QED
    BY <2>3, <2>6, <2>26
<1> QED
  BY <1>3, <1>4

\* pqsort of all elements.
LEMMA PqSortWorks ==
  ASSUME NEW v, NEW N \in Nat, NEW S, v \in [1 .. N -> S], Len(v) = N, Range(v) = S, AreKeyed(S),
         NEW d, NEW l \in Int, NEW r \in Int
  PROVE  IsWindowSorted(v, PqSort(v, l, r, d), N, S, 1, N, l, r, d)
<1> DEFINE f == CHOOSE f : IsSorter(f, v, l, r, d)
<1>1. DOMAIN v = 1 .. N
  OBVIOUS
<1>2. IsSorter(f, v, l, r, d)
  BY <1>1, SortExists
<1>3. PqSort(v, l, r, d) = f[N][v][1]
  BY PqSortIs
<1> HIDE DEF f
<1>4. ASSUME NEW n \in 0 .. N, NEW a \in [1 .. N -> S], NEW lo \in 1 .. N - n + 1
      PROVE  f[n][a][lo] = PartSorted(f, n, a, lo, l, r, d)
  <2>1. f = [k \in 0 .. N |-> SortBody(f, k, v, l, r, d)]
    BY <1>2 DEF IsSorter
  <2>2. f[n] = SortBody(f, n, v, l, r, d)
    BY <2>1
  <2>3. SortBody(f, n, v, l, r, d) =
          [x \in [1 .. N -> S] |-> [p \in 1 .. N - n + 1 |-> PartSorted(f, n, x, p, l, r, d)]]
    BY <1>1 DEF SortBody
  <2> QED
    BY <2>2, <2>3
<1> DEFINE T == {k \in Nat : k <= N + 1 => SortsParts(f, k, N, S, l, r, d)}
<1>5. 0 \in T
  BY DEF SortsParts
<1>6. ASSUME NEW k \in Nat, k \in T
      PROVE  k + 1 \in T
  <2> SUFFICES ASSUME k + 1 <= N + 1
               PROVE  SortsParts(f, k + 1, N, S, l, r, d)
    OBVIOUS
  <2>1. SortsParts(f, k, N, S, l, r, d)
    BY <1>6
  <2>2. ASSUME NEW m \in 0 .. (k + 1) - 1, NEW a \in [1 .. N -> S], NEW lo \in 1 .. N - m + 1
        PROVE  IsWindowSorted(a, f[m][a][lo], N, S, lo, m, l, r, d)
    <3>1. CASE m = k
      <4>1. k \in 0 .. N /\ lo \in 1 .. N - k + 1
        BY <3>1
      <4>2. IsWindowSorted(a, PartSorted(f, k, a, lo, l, r, d), N, S, lo, k, l, r, d)
        BY <2>1, <4>1, PartSorts
      <4>3. f[k][a][lo] = PartSorted(f, k, a, lo, l, r, d)
        BY <1>4, <4>1
      <4> QED
        BY <3>1, <4>2, <4>3
    <3>2. CASE m # k
      <4>1. m \in 0 .. k - 1
        BY <3>2
      <4> QED
        BY <2>1, <4>1 DEF SortsParts
    <3> QED
      BY <3>1, <3>2
  <2> QED
    BY <2>2 DEF SortsParts
<1>7. SortsParts(f, N + 1, N, S, l, r, d)
  <2>1. N + 1 \in T
    <3> HIDE DEF T
    <3> QED
      BY <1>5, <1>6, NatRange
  <2> QED
    BY <2>1
<1>8. N \in 0 .. (N + 1) - 1 /\ 1 \in 1 .. N - N + 1
  OBVIOUS
<1> QED
  BY <1>3, <1>7, <1>8 DEF SortsParts

-----------------------------------------------------------------------------
(* What is in the reply.                                                   *)

FromOf(start) == IF start < 0 THEN 1 ELSE start + 1

ToOf(n, from, count) == IF count < 0 \/ from + count - 1 > n THEN n ELSE from + count - 1

\* What is asked for is what is shown.
ShowsAsked(w, from, to, n) ==
  /\ w.start \in Int /\ w.end \in Int
  /\ Cardinality(from .. to) = w.end - w.start + 1 /\ Cardinality(from .. to) \in Nat
  /\ Cardinality(from .. to) > 0
       => /\ w.start + 1 = from /\ w.end + 1 = to /\ from \in 1 .. n /\ to \in from .. n

LEMMA LessTimes ==
  ASSUME NEW g \in Nat, NEW k \in Nat, NEW n \in Nat, k <= n
  PROVE  g * k \in Nat /\ g * k <= g * n
<1> DEFINE i == n - k
<1>1. i \in Nat /\ n = k + i
  OBVIOUS
<1> HIDE DEF i
<1>2. g * n = g * k + g * i
  BY <1>1
<1>3. g * k \in Nat /\ g * i \in Nat
  BY <1>1
<1> QED
  BY <1>2, <1>3

\* What fits an int is kept.
LEMMA AsIntIs ==
  ASSUME NEW x \in Ints
  PROVE  AsInt(x) = x
<1> DEFINE y == x + IntMax + 1
           z == 2 * IntMax + 2
<1>1. x \in Int /\ IntMax \in Int /\ 0 <= y /\ y < z
  BY IntMaxAssumption DEF Ints
<1>2. y \in Int /\ z \in Int
  BY <1>1
<1> HIDE DEF y, z
<1>3. y % z = y
  BY <1>1, <1>2
<1> QED
  BY <1>1, <1>3 DEF AsInt, y, z

\* The window LIMIT asks for, as sortCommand computes it.
LEMMA LimitIs ==
  ASSUME NEW n \in Nat, NEW start \in Ints, NEW count \in Ints,
         start + count - 1 <= IntMax
  PROVE  ShowsAsked(Window(n, start, count), FromOf(start), ToOf(n, FromOf(start), count), n)
<1> DEFINE from == IF start < 0 THEN 1 ELSE start + 1
           to == IF count < 0 \/ from + count - 1 > n THEN n ELSE from + count - 1
<1>0. from = FromOf(start) /\ to = ToOf(n, FromOf(start), count)
  BY DEF FromOf, ToOf
<1>9. start \in Int /\ count \in Int /\ count <= IntMax /\ IntMax \in Nat \ {0}
  BY IntMaxAssumption DEF Ints
<1>1. from \in Int /\ to \in Int /\ from >= 1
  BY <1>9
<1>2. Cardinality(from .. to) = IF from > to THEN 0 ELSE to - from + 1
  BY <1>1, FS_Interval
<1> DEFINE begin == IF start < 0 THEN 0 ELSE start
           upto  == IF count < 0 THEN n - 1 ELSE begin + count - 1
           last  == IF begin >= n THEN n - 2 ELSE upto
           w     == Window(n, start, count)
<1>3. /\ w.start = IF begin >= n THEN n - 1 ELSE begin
      /\ w.end   = IF last >= n THEN n - 1 ELSE last
  <2>1. CASE count < 0
    BY <2>1 DEF Window
  <2>2. CASE ~(count < 0)
    <3>1. begin + count - 1 \in Ints
      BY <1>9, <2>2 DEF Ints
    <3>2. AsInt(begin + count - 1) = begin + count - 1
      BY <3>1, AsIntIs
    <3> QED
      BY <2>2, <3>2 DEF Window
  <2> QED
    BY <2>1, <2>2
<1> HIDE DEF w
<1>4. begin = from - 1
  BY <1>9
<1>5. CASE begin >= n
  <2>1. w.start = n - 1 /\ w.end = n - 2 /\ from > to
    BY <1>3, <1>5, <1>9
  <2> HIDE DEF from, to, begin, upto, last
  <2>2. ShowsAsked(w, from, to, n)
    BY <1>1, <1>2, <2>1 DEF ShowsAsked
  <2> QED
    BY <1>0, <2>2 DEF w
<1>6. CASE begin < n
  <2>1. w.start = begin /\ w.end = to - 1 /\ to >= from - 1 /\ to <= n
    BY <1>3, <1>6, <1>9
  <2>2. begin \in Int
    BY <1>9
  <2> HIDE DEF from, to, begin, upto, last
  <2>3. ShowsAsked(w, from, to, n)
    BY <1>1, <1>2, <1>4, <1>6, <2>1, <2>2 DEF ShowsAsked
  <2> QED
    BY <1>0, <2>3 DEF w
<1> QED
  BY <1>4, <1>5, <1>6, <1>9

\* Of the positions in X, which f has moved before q, there are fewer than q ...
LEMMA FewerBefore ==
  ASSUME NEW N \in Nat, NEW f \in [1 .. N -> 1 .. N],
         \A i, j \in 1 .. N : f[i] = f[j] => i = j,
         NEW q \in 1 .. N, NEW X \in SUBSET (1 .. N), \A j \in 1 .. N : f[j] \in X => j < q
  PROVE  Cardinality(X) < q
<1>1. f \in Injection(1 .. N, 1 .. N)
  BY DEF Injection, IsInjective
<1>2. IsFiniteSet(1 .. N) /\ Cardinality(1 .. N) = N
  BY FS_Interval
<1>3. f \in Surjection(1 .. N, 1 .. N)
  BY <1>1, <1>2, FS_Injection
<1>4. \A x \in 1 .. N : \E j \in 1 .. N : f[j] = x
  BY <1>3 DEF Surjection
<1> DEFINE g == [x \in X |-> CHOOSE j \in 1 .. N : f[j] = x]
<1>5. \A x \in X : g[x] \in 1 .. N /\ f[g[x]] = x
  BY <1>4
<1>6. g \in [X -> 1 .. q - 1]
  <2>1. \A x \in X : g[x] \in 1 .. q - 1
    <3> HIDE DEF g
    <3> QED
      BY <1>5
  <2>2. g = [x \in X |-> g[x]]
    OBVIOUS
  <2> HIDE DEF g
  <2> QED
    BY <2>1, <2>2
<1> HIDE DEF g
<1>7. g \in Injection(X, 1 .. q - 1)
  BY <1>5, <1>6 DEF Injection, IsInjective
<1>8. IsFiniteSet(1 .. q - 1) /\ Cardinality(1 .. q - 1) = q - 1
  BY FS_Interval
<1>9. IsFiniteSet(X) /\ Cardinality(X) <= q - 1
  BY <1>7, <1>8, FS_Injection
<1>10. Cardinality(X) \in Nat
  BY <1>9, FS_CardinalityType
<1> QED
  BY <1>9, <1>10

\* ... and if all up to q come from X, at least q.
LEMMA EnoughBefore ==
  ASSUME NEW N \in Nat, NEW f \in [1 .. N -> 1 .. N],
         \A i, j \in 1 .. N : f[i] = f[j] => i = j,
         NEW q \in 1 .. N, NEW X \in SUBSET (1 .. N), \A j \in 1 .. q : f[j] \in X
  PROVE  Cardinality(X) >= q
<1> DEFINE g == [j \in 1 .. q |-> f[j]]
<1>1. 1 .. q \subseteq 1 .. N
  OBVIOUS
<1>2. g \in Injection(1 .. q, X)
  BY <1>1 DEF Injection, IsInjective
<1>3. IsFiniteSet(1 .. N) /\ IsFiniteSet(1 .. q) /\ Cardinality(1 .. q) = q
  BY FS_Interval
<1>4. IsFiniteSet(X)
  BY <1>3, FS_Subset
<1>5. Cardinality(1 .. q) <= Cardinality(X) /\ Cardinality(X) \in Nat
  BY <1>2, <1>4, FS_Injection, FS_CardinalityType
<1> QED
  BY <1>3, <1>5

\* The elements are those of b, which f has moved there.
IsReply(b, f, elems, o, weight, rank) ==
  LET v == Vector(elems, o, weight, rank)
      n == Len(elems)
      w == Window(n, o.start, o.count)
      reply == SortReply(elems, o, weight, rank)
      shown == AsInt(w.end - w.start + 1)
  IN /\ b \in [1 .. n -> Range(v)] /\ Moves(f, v, b, n, 1, n)
     /\ IF o.by = "const" THEN b = v ELSE InWindow(b, o.desc, 1, n, w.start + 1, w.end + 1)
     /\ reply.outputlen = IF o.gets > 0 THEN AsInt(o.gets * shown) ELSE shown
     /\ reply.objs = SubSeq(b, w.start + 1, w.end + 1)

\* What sortCommand replies with are elements of the sorted vector, from the window's start on.
LEMMA ReplyIs ==
  ASSUME NEW elems, elems \in Seq(Range(elems)), NEW o, o.start \in Int, o.count \in Int,
         NEW weight, NEW rank,
         o.by # "const" => \A e \in Range(elems) : SortKey(e, o, weight, rank) \in Int
  PROVE  \E b, f : IsReply(b, f, elems, o, weight, rank)
<1> DEFINE v == Vector(elems, o, weight, rank)
           n == Len(elems)
           S == Range(v)
           w == Window(n, o.start, o.count)
           partial == o.by = "key" /\ (w.start # 0 \/ w.end # n - 1)
           b == IF o.by = "const" THEN v
                ELSE IF partial THEN PqSort(v, w.start + 1, w.end + 1, o.desc)
                ELSE PqSort(v, 1, n, o.desc)
           reply == SortReply(elems, o, weight, rank)
           shown == AsInt(w.end - w.start + 1)
<1>1. /\ reply.outputlen = IF o.gets > 0 THEN AsInt(o.gets * shown) ELSE shown
      /\ reply.objs = SubSeq(b, w.start + 1, w.end + 1)
  BY DEF SortReply
<1>2. n \in Nat /\ DOMAIN elems = 1 .. n
  <2> DEFINE R == Range(elems)
  <2> HIDE DEF R
  <2>1. elems \in Seq(R)
    BY DEF R
  <2> QED
    BY <2>1
<1>3. v = [i \in 1 .. n |-> [obj |-> elems[i], key |-> SortKey(elems[i], o, weight, rank)]]
  BY <1>2 DEF Vector
<1>4. v \in [1 .. n -> S] /\ Len(v) = n
  <2>1. DOMAIN v = 1 .. n
    BY <1>3
  <2>2. v = [i \in 1 .. n |-> v[i]]
    BY <1>3
  <2>3. \A i \in 1 .. n : v[i] \in S
    BY <2>1 DEF Range
  <2>4. Len(v) = n
    BY <1>2, <2>1, LenProperties
  <2> HIDE DEF v, S, n
  <2> QED
    BY <2>2, <2>3, <2>4
<1>5. o.by # "const" => AreKeyed(S)
  <2> SUFFICES ASSUME o.by # "const", NEW x \in S
               PROVE  x.key \in Int
    BY DEF AreKeyed
  <2>1. PICK i \in 1 .. n : x = v[i]
    BY <1>3 DEF Range
  <2>2. x.key = SortKey(elems[i], o, weight, rank)
    BY <1>3, <2>1
  <2>3. elems[i] \in Range(elems)
    BY <1>2 DEF Range
  <2> QED
    BY <2>2, <2>3
<1> HIDE DEF reply, v, S
<1>6. w.start \in Int /\ w.end \in Int
  <2>1. \A x \in Int : AsInt(x) \in Int
    BY IntMaxAssumption DEF AsInt
  <2>2. o.count - 1 \in Int /\ o.start + o.count - 1 \in Int
    OBVIOUS
  <2>3. AsInt(0 + o.count - 1) \in Int /\ AsInt(o.start + o.count - 1) \in Int
    BY <2>1, <2>2
  <2> HIDE DEF n
  <2> QED
    BY <1>2, <2>3 DEF Window
<1> HIDE DEF n, w
<1>7. /\ b \in [1 .. n -> S] /\ Rearranged(v, b, n, 1, n)
      /\ IF o.by = "const" THEN b = v ELSE InWindow(b, o.desc, 1, n, w.start + 1, w.end + 1)
  <2>1. CASE o.by = "const"
    <3>1. b = v
      BY <2>1
    <3> QED
      BY <1>4, <2>1, <3>1, RearrangedSelf
  <2>2. CASE o.by # "const" /\ partial
    <3> DEFINE c == PqSort(v, w.start + 1, w.end + 1, o.desc)
    <3>1. b = c
      BY <2>2
    <3>2. w.start + 1 \in Int /\ w.end + 1 \in Int
      BY <1>6
    <3>3. IsWindowSorted(v, c, n, S, 1, n, w.start + 1, w.end + 1, o.desc)
      BY <1>2, <1>4, <1>5, <2>2, <3>2, PqSortWorks DEF S
    <3>4. 1 + n - 1 = n
      BY <1>2
    <3> HIDE DEF c, b
    <3> QED
      BY <2>2, <3>1, <3>3, <3>4 DEF IsWindowSorted
  <2>3. CASE o.by # "const" /\ ~partial
    <3> DEFINE c == PqSort(v, 1, n, o.desc)
    <3>1. b = c
      BY <2>3
    <3>2. n \in Int
      BY <1>2
    <3>3. IsWindowSorted(v, c, n, S, 1, n, 1, n, o.desc)
      BY <1>2, <1>4, <1>5, <2>3, <3>2, PqSortWorks DEF S
    <3>4. 1 + n - 1 = n
      BY <1>2
    <3> HIDE DEF c, b
    <3>5. InWindow(c, o.desc, 1, n, 1, n)
      BY <3>3, <3>4 DEF IsWindowSorted
    <3>6. InWindow(c, o.desc, 1, n, w.start + 1, w.end + 1)
      BY <1>2, <3>5 DEF InWindow
    <3> QED
      BY <2>3, <3>1, <3>3, <3>4, <3>6 DEF IsWindowSorted
  <2> HIDE DEF b, partial
  <2> QED
    BY <2>1, <2>2, <2>3
<1> HIDE DEF b
<1>8. PICK f : Moves(f, v, b, n, 1, n)
  BY <1>7 DEF Rearranged
<1>9. IsReply(b, f, elems, o, weight, rank)
  BY <1>1, <1>7, <1>8 DEF IsReply, reply, v, n, w, S
<1> QED
  BY <1>9

\* The places of the elements, in terms of what they are compared by.
LEMMA BeforeIs ==
  ASSUME NEW d, NEW x, NEW y, x.key \in Int, y.key \in Int
  PROVE  (IF d THEN x.key > y.key ELSE x.key < y.key) <=> Place(d, x) < Place(d, y)
<1>1. \A z \in Int : -z = 0 - z
  OBVIOUS
<1>2. CASE d
  <2>1. Place(d, x) = 0 - x.key /\ Place(d, y) = 0 - y.key
    BY <1>1, <1>2 DEF Place
  <2>2. x.key > y.key <=> 0 - x.key < 0 - y.key
    OBVIOUS
  <2> QED
    BY <1>2, <2>1, <2>2
<1>3. CASE ~d
  BY <1>3 DEF Place
<1> QED
  BY <1>2, <1>3

\* One SORT is answered as it should be.
LEMMA SortingIsRight ==
  ASSUME NEW s, IsSorting(s), IntsFit(s.o, Len(s.elems))
  PROVE  SortIsRight(s)
<1> DEFINE elems == s.elems
           o == s.o
           R == Range(elems)
           Key(e) == SortKey(e, o, s.weight, Rank)
           Before(x, y) == IF o.desc THEN x > y ELSE x < y
           reply == SortReply(elems, o, s.weight, Rank)
           objs  == [k \in DOMAIN reply.objs |-> reply.objs[k].obj]
           n     == Len(elems)
           from  == IF o.start < 0 THEN 1 ELSE o.start + 1
           to    == IF o.count < 0 \/ from + o.count - 1 > n THEN n ELSE from + o.count - 1
           Count(seq, e) == Cardinality({i \in DOMAIN seq : seq[i] = e})
           v == Vector(elems, o, s.weight, Rank)
           w == Window(n, o.start, o.count)
           m == Cardinality(from .. to)
           S == Range(v)
<1>1. /\ elems \in Seq(R) /\ o.start \in Int /\ o.count \in Int /\ o.gets \in Nat
      /\ o.by # "const" => \A e \in R : Key(e) \in Int
  BY IntMaxAssumption DEF IsSorting, Ints
<1>0. /\ o.start \in Ints /\ o.count \in Ints /\ o.start + o.count - 1 <= IntMax
      /\ n <= IntMax /\ o.gets * n <= IntMax /\ IntMax \in Nat \ {0}
  BY IntMaxAssumption DEF IsSorting, IntsFit
<1>2. PICK b, f : IsReply(b, f, elems, o, s.weight, Rank)
  BY <1>1, ReplyIs
<1>3. /\ b \in [1 .. n -> S] /\ Moves(f, v, b, n, 1, n)
      /\ IF o.by = "const" THEN b = v ELSE InWindow(b, o.desc, 1, n, w.start + 1, w.end + 1)
      /\ reply.outputlen = IF o.gets > 0 THEN AsInt(o.gets * AsInt(w.end - w.start + 1))
                           ELSE AsInt(w.end - w.start + 1)
      /\ reply.objs = SubSeq(b, w.start + 1, w.end + 1)
  BY <1>2 DEF IsReply
<1>4. n \in Nat /\ DOMAIN elems = 1 .. n
  <2> HIDE DEF elems, R
  <2> QED
    BY <1>1
<1>5. /\ DOMAIN v = 1 .. n
      /\ \A i \in 1 .. n : v[i].obj = elems[i] /\ v[i].key = Key(elems[i])
  BY <1>4 DEF Vector
<1>6. /\ w.start \in Int /\ w.end \in Int /\ m = w.end - w.start + 1 /\ m \in Nat
      /\ m > 0 => /\ w.start + 1 = from /\ w.end + 1 = to
                  /\ from \in 1 .. n /\ to \in from .. n
  <2> HIDE DEF n, o
  <2>1. from = FromOf(o.start) /\ to = ToOf(n, from, o.count)
    BY DEF FromOf, ToOf
  <2> HIDE DEF from, to
  <2>2. ShowsAsked(w, from, to, n)
    BY <1>0, <1>4, <2>1, LimitIs
  <2> HIDE DEF w
  <2> QED
    BY <2>2 DEF ShowsAsked
<1>19. m <= n
  <2> HIDE DEF from, to, n, w
  <2> QED
    BY <1>4, <1>6
<1> DEFINE p == w.start
<1>7. /\ p \in Int
      /\ \A k \in 1 .. m : /\ p + k \in 1 .. n /\ p + k = from + k - 1
                          /\ w.start + 1 <= p + k /\ p + k <= w.end + 1
  <2> HIDE DEF from, to, n, w
  <2>1. from \in 1 .. n /\ to \in from .. n => from \in Int /\ to \in Int /\ from >= 1 /\ to <= n
    BY <1>4
  <2> HIDE DEF m
  <2>2. ASSUME NEW k \in 1 .. m
        PROVE  /\ p + k \in 1 .. n /\ p + k = from + k - 1
               /\ w.start + 1 <= p + k /\ p + k <= w.end + 1
    <3> DEFINE e == w.end
    <3>1. m > 0 /\ k \in Int /\ 1 <= k /\ k <= m /\ m \in Int
      BY <1>6
    <3>2. /\ p \in Int /\ e \in Int /\ m = e - p + 1 /\ p + 1 = from /\ e + 1 = to
          /\ from \in Int /\ to \in Int /\ from >= 1 /\ to <= n
      BY <1>6, <2>1, <3>1
    <3> HIDE DEF p, e
    <3>3. p + k \in 1 .. n /\ p + k = from + k - 1 /\ p + 1 <= p + k /\ p + k <= e + 1
      BY <1>4, <3>1, <3>2
    <3> QED
      BY <3>3 DEF p, e
  <2> QED
    BY <1>6, <2>2
<1>8. /\ DOMAIN reply.objs = 1 .. m
      /\ \A k \in 1 .. m : reply.objs[k] = b[p + k]
  <2> HIDE DEF from, to, n, reply, S, w, m
  <2> DEFINE q == SubSeq(b, w.start + 1, w.end + 1)
  <2>1. \A i \in w.start + 1 .. w.end + 1 : b[i] \in S
    <3> SUFFICES ASSUME NEW i \in w.start + 1 .. w.end + 1
                 PROVE  b[i] \in S
      OBVIOUS
    <3>1. i \in Int /\ i - w.start \in 1 .. m /\ w.start + (i - w.start) = i
      BY <1>6
    <3>2. w.start + (i - w.start) \in 1 .. n
      BY <1>7, <3>1
    <3> QED
      BY <1>3, <3>1, <3>2
  <2>2. w.start + 1 \in Int /\ w.end + 1 \in Int
    BY <1>6
  <2>3. /\ q \in Seq(S) /\ Len(q) = IF w.start + 1 <= w.end + 1 THEN (w.end + 1) - (w.start + 1) + 1 ELSE 0
        /\ \A i \in 1 .. (w.end + 1) - (w.start + 1) + 1 : q[i] = b[w.start + 1 + i - 1]
    <3> DEFINE x == w.start + 1
               y == w.end + 1
    <3>1. x \in Int /\ y \in Int /\ \A i \in x .. y : b[i] \in S
      BY <2>1, <2>2
    <3> HIDE DEF x, y
    <3> DEFINE r == SubSeq(b, x, y)
    <3>2. r \in Seq(S) /\ Len(r) = IF x <= y THEN y - x + 1 ELSE 0
      BY <3>1, SubSeqProperties
    <3>3. \A i \in 1 .. y - x + 1 : r[i] = b[x + i - 1]
      BY <3>1, SubSeqProperties
    <3> QED
      BY <3>2, <3>3 DEF x, y
  <2> HIDE DEF q
  <2>4. Len(q) = m /\ (w.end + 1) - (w.start + 1) + 1 = m /\ \A i \in 1 .. m : w.start + 1 + i - 1 = p + i
    BY <1>6, <2>3
  <2>5. DOMAIN q = 1 .. m
    BY <2>3, <2>4, LenProperties
  <2>6. \A i \in 1 .. m : q[i] = b[p + i]
    BY <2>3, <2>4
  <2>7. reply.objs = q
    BY <1>3 DEF q
  <2> QED
    BY <2>5, <2>6, <2>7
<1> HIDE DEF m, p
<1>9. /\ DOMAIN objs = 1 .. m /\ Len(objs) = m
      /\ \A k \in 1 .. m : objs[k] = b[p + k].obj
  <2>1. objs = [k \in 1 .. m |-> reply.objs[k].obj]
    BY <1>8
  <2> HIDE DEF objs, reply
  <2>2. DOMAIN objs = 1 .. m /\ \A k \in 1 .. m : objs[k] = b[p + k].obj
    BY <1>8, <2>1
  <2>3. objs \in Seq({objs[k] : k \in 1 .. m})
    BY <1>6, <2>1, SMTT(30)
  <2>4. Len(objs) = m
    BY <1>6, <2>2, <2>3, LenProperties
  <2> QED
    BY <2>2, <2>4
<1>10. reply.outputlen = Len(objs) * (IF o.gets = 0 THEN 1 ELSE o.gets)
  <2> HIDE DEF objs, reply, w, o
  <2>1. reply.outputlen = IF o.gets > 0 THEN o.gets * m ELSE m
    <3> HIDE DEF n
    <3>1. o.gets * m <= o.gets * n /\ o.gets * m \in Nat
      BY <1>1, <1>4, <1>6, <1>19, LessTimes
    <3>4. o.gets * n \in Int /\ IntMax \in Int /\ m \in Nat /\ n \in Nat
      BY <1>0, <1>1, <1>4, <1>6
    <3>2. m \in Ints /\ o.gets * m \in Ints
      <4> DEFINE y == o.gets * m
                 z == o.gets * n
      <4>1. y \in Nat /\ y <= z /\ z <= IntMax /\ z \in Int /\ m <= IntMax
        BY <1>0, <1>19, <3>1, <3>4
      <4> HIDE DEF y, z
      <4>2. m \in Ints /\ y \in Ints
        BY <1>0, <3>4, <4>1 DEF Ints
      <4> QED
        BY <4>2 DEF y
    <3>3. AsInt(m) = m /\ AsInt(o.gets * m) = o.gets * m
      BY <3>2, AsIntIs
    <3> QED
      BY <1>3, <1>6, <3>3
  <2>2. CASE o.gets > 0
    <3>1. o.gets # 0 /\ o.gets * m = m * o.gets
      BY <1>1, <1>6, <2>2
    <3> QED
      BY <1>9, <2>1, <2>2, <3>1
  <2>3. CASE o.gets = 0
    <3>1. ~(o.gets > 0) /\ m * 1 = m
      BY <1>6, <2>3
    <3> QED
      BY <1>9, <2>1, <2>3, <3>1
  <2> QED
    BY <1>1, <2>2, <2>3
<1>11. /\ f \in [1 .. n -> 1 .. n] /\ \A i, j \in 1 .. n : f[i] = f[j] => i = j
       /\ \A i \in 1 .. n : b[i] = v[f[i]]
  BY <1>3 DEF Moves
<1>12. \A i \in 1 .. n : b[i].obj = elems[f[i]] /\ b[i].key = Key(elems[f[i]])
  <2> HIDE DEF v, n, elems, Key
  <2> QED
    BY <1>5, <1>11
<1>13. ASSUME NEW e \in Range(objs)
       PROVE  Count(objs, e) <= Count(elems, e)
  <2> HIDE DEF objs, v, reply, n, elems
  <2> DEFINE X == {i \in 1 .. m : objs[i] = e}
             Y == {i \in 1 .. n : elems[i] = e}
             g == [i \in X |-> f[p + i]]
  <2>1. Count(objs, e) = Cardinality(X) /\ Count(elems, e) = Cardinality(Y)
    BY <1>4, <1>9
  <2>2. \A i \in X : /\ p + i \in 1 .. n /\ f[p + i] \in Y
    BY <1>7, <1>9, <1>11, <1>12
  <2>3. \A i, j \in X : p + i = p + j => i = j
    BY <1>6, <1>7
  <2>4. g \in Injection(X, Y)
    BY <1>11, <2>2, <2>3 DEF Injection, IsInjective
  <2>5. IsFiniteSet(Y)
    BY <1>4, FS_Interval, FS_Subset
  <2> QED
    BY <2>1, <2>4, <2>5, FS_Injection
<1>14. ASSUME NEW k \in 1 .. m, o.by = "const"
       PROVE  objs[k] = elems[from + k - 1]
  <2> HIDE DEF objs, v, reply, n, elems, from
  <2>1. p + k \in 1 .. n /\ p + k = from + k - 1
    <3> HIDE DEF w
    <3> QED
      BY <1>7
  <2>2. b = v
    BY <1>3, <1>14
  <2> QED
    BY <1>5, <1>9, <2>1, <2>2
<1>15. ASSUME NEW k \in 1 .. m, o.by # "const"
       PROVE  LET x == Key(objs[k])
              IN /\ Cardinality({i \in 1 .. n : Before(Key(elems[i]), x)}) < from + k - 1
                 /\ Cardinality({i \in 1 .. n : ~Before(x, Key(elems[i]))}) >= from + k - 1
  <2> DEFINE q == from + k - 1
             x == Key(objs[k])
             X == {i \in 1 .. n : Before(Key(elems[i]), x)}
             Y == {i \in 1 .. n : ~Before(x, Key(elems[i]))}
             u(i) == Place(o.desc, b[i])
  <2>1. q \in 1 .. n /\ p + k = q /\ w.start + 1 <= q /\ q <= w.end + 1
    <3> HIDE DEF from, w, n
    <3> QED
      BY <1>7
  <2> HIDE DEF q
  <2>2. x = b[q].key
    <3> HIDE DEF objs, elems, n, Key
    <3> QED
      BY <1>9, <1>12, <2>1
  <2>3. \A i \in 1 .. n : b[i].key \in Int
    <3>1. \A i \in 1 .. n : elems[i] \in R
      BY <1>4 DEF Range
    <3> HIDE DEF elems, n, R, Key, o
    <3> QED
      BY <1>1, <1>11, <1>12, <1>15, <3>1
  <2> HIDE DEF x
  <2>4. \A i \in 1 .. n : u(i) \in Int
    <3> TAKE i \in 1 .. n
    <3>1. b[i].key \in Int
      BY <2>3
    <3> HIDE DEF o
    <3> QED
      BY <3>1, CmpIs
  <2>5. \A i \in 1 .. n : /\ Before(b[i].key, x) <=> u(i) < u(q)
                          /\ Before(x, b[i].key) <=> u(q) < u(i)
    <3> TAKE i \in 1 .. n
    <3>1. b[i].key \in Int /\ b[q].key \in Int
      BY <2>1, <2>3
    <3> HIDE DEF o, n
    <3> QED
      BY <2>2, <3>1, BeforeIs
  <2>6. \A i \in 1 .. n : /\ i <= q => u(i) <= u(q)
                          /\ q <= i => u(q) <= u(i)
    <3> HIDE DEF n, w, o
    <3> QED
      BY <1>3, <1>15, <2>1 DEF InWindow
  <2> HIDE DEF u, Before
  <2>7. \A j \in 1 .. n : /\ f[j] \in X => j < q
                          /\ j \in 1 .. q => f[j] \in Y
    <3> TAKE j \in 1 .. n
    <3>1. f[j] \in 1 .. n /\ Key(elems[f[j]]) = b[j].key
      <4> HIDE DEF n, elems, Key
      <4> QED
        BY <1>11, <1>12
    <3>2. u(j) \in Int /\ u(q) \in Int
      BY <2>1, <2>4
    <3>3. f[j] \in X => u(j) < u(q)
      <4> HIDE DEF n, elems, Key
      <4> QED
        BY <2>5, <3>1
    <3>4. u(j) <= u(q) => f[j] \in Y
      <4>1. ~(u(q) < u(j)) => f[j] \in Y
        <5> HIDE DEF n, elems, Key
        <5> QED
          BY <2>5, <3>1
      <4> QED
        BY <3>2, <4>1
    <3>5. q \in Int /\ j \in Int
      BY <1>4, <2>1
    <3>6. f[j] \in X => j < q
      <4> HIDE DEF X
      <4> QED
        BY <2>6, <3>2, <3>3, <3>5
    <3>7. j \in 1 .. q => f[j] \in Y
      <4> HIDE DEF Y
      <4> QED
        BY <2>6, <3>4, <3>5
    <3> QED
      BY <3>6, <3>7
  <2>8. X \in SUBSET (1 .. n) /\ Y \in SUBSET (1 .. n)
    OBVIOUS
  <2> HIDE DEF X, Y, n
  <2>9. Cardinality(X) < q
    BY <1>4, <1>11, <2>1, <2>7, <2>8, FewerBefore
  <2>10. Cardinality(Y) >= q
    <3>1. \A j \in 1 .. q : j \in 1 .. n
      BY <1>4, <2>1
    <3>2. \A j \in 1 .. q : f[j] \in Y
      BY <2>7, <3>1
    <3> QED
      BY <1>4, <1>11, <2>1, <2>8, <3>2, EnoughBefore
  <2> QED
    BY <2>9, <2>10 DEF X, Y, q, x, Before, n
<1>16. Len(objs) = Cardinality(from .. to)
  BY <1>9 DEF m
<1>17. \A k \in DOMAIN objs :
         IF o.by = "const" THEN objs[k] = elems[from + k - 1]
         ELSE LET x == Key(objs[k])
              IN /\ Cardinality({i \in 1 .. n : Before(Key(elems[i]), x)}) < from + k - 1
                 /\ Cardinality({i \in 1 .. n : ~Before(x, Key(elems[i]))}) >= from + k - 1
  <2> TAKE k \in DOMAIN objs
  <2>1. k \in 1 .. m
    BY <1>9
  <2> HIDE DEF objs, elems, Key, Before, n, from, o
  <2>2. CASE o.by = "const"
    BY <1>14, <2>1, <2>2
  <2>3. CASE o.by # "const"
    BY <1>15, <2>1, <2>3
  <2> QED
    BY <2>2, <2>3
<1>18. \A e \in Range(objs) : Count(objs, e) <= Count(elems, e)
  <2> HIDE DEF objs, elems, Count
  <2> QED
    BY <1>13
<1> QED
  BY <1>10, <1>16, <1>17, <1>18 DEF SortIsRight

-----------------------------------------------------------------------------
\* SORT answers with the elements that LIMIT asks for, in order (sortCommand, pqsort):
\* for lists and sets of any length, any numbers to compare by, and any window whose
\* end, and the number of replies it and GET ask for, fit an int.
THEOREM SortsAreRightHolds == Spec => []SortsAreRight
<1>1. Init => SortsAreRight
  BY DEF Init, SortsAreRight
<1>2. ASSUME SortsAreRight, [Next]_input
      PROVE  SortsAreRight'
  <2>1. CASE UNCHANGED input
    BY <1>2, <2>1 DEF SortsAreRight
  <2>2. CASE Next
    <3>1. CASE \E s \in Sorts : Choose([kind |-> "sort", s |-> s])
      <4>1. PICK s \in Sorts : input' = [kind |-> "sort", s |-> s]
        BY <3>1 DEF Choose
      <4>2. input'.s = s
        BY <4>1
      <4>3. IntsFit(s.o, Len(s.elems)) => SortIsRight(s)
        BY SortsAssumption, SortingIsRight
      <4> QED
        BY <4>2, <4>3 DEF SortsAreRight
    <3>2. CASE ~\E s \in Sorts : Choose([kind |-> "sort", s |-> s])
      <4>1. input'.kind # "sort"
        BY <2>2, <3>2 DEF Next, Choose
      <4> QED
        BY <4>1 DEF SortsAreRight
    <3> QED
      BY <3>1, <3>2
  <2> QED
    BY <1>2, <2>1, <2>2
<1> QED
  BY <1>1, <1>2, PTL DEF Spec
===============================================================================
