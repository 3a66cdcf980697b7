------------------------------ MODULE DictProofs ------------------------------
(***************************************************************************)
(* Theorems about Dict, for any keys, values, hash function and sizes: the *)
(* table stays well formed, an iterator whose user deletes what it is      *)
(* given returns every key once, and the table implements a map.           *)
(***************************************************************************)
EXTENDS Dict, Induction, FiniteSetTheorems, SequenceTheorems

-----------------------------------------------------------------------------
(* _dictNextPower.                                                         *)

\* What the loop of _dictNextPower returns when it is entered with i.
Powers(p, n) == p = [i \in Nat |-> IF i >= n THEN i ELSE p[2 * i]]

LEMMA PowersExist ==
  ASSUME NEW n \in Nat
  PROVE  \E p : Powers(p, n)
<1> DEFINE From(p, d) == \A i \in Nat : i >= 1 /\ i >= n - d =>
                           p[i] = IF i >= n THEN i ELSE p[2 * i]
           Fine == {d \in Nat : \E p : From(p, d)}
<1>1. 0 \in Fine
  <2>1. From([i \in Nat |-> i], 0)
    OBVIOUS
  <2> QED
    BY <2>1
<1>2. ASSUME NEW d \in Nat, d \in Fine
      PROVE  d + 1 \in Fine
  <2>1. PICK p : From(p, d)
    BY <1>2
  <2> DEFINE g == [i \in Nat |-> IF i >= n THEN i ELSE IF i >= n - d THEN p[i] ELSE p[2 * i]]
  <2>2. ASSUME NEW i \in Nat, i >= 1, i >= n - (d + 1)
        PROVE  g[i] = IF i >= n THEN i ELSE g[2 * i]
    <3>1. 2 * i \in Nat /\ 2 * i >= 1 /\ 2 * i >= n - d
      BY <2>2
    <3>2. g[2 * i] = IF 2 * i >= n THEN 2 * i ELSE p[2 * i]
      BY <3>1
    <3>3. p[2 * i] = IF 2 * i >= n THEN 2 * i ELSE p[2 * (2 * i)]
      BY <2>1, <3>1
    <3>4. i >= n - d => p[i] = IF i >= n THEN i ELSE p[2 * i]
      BY <2>1, <2>2
    <3>5. g[i] = IF i >= n THEN i ELSE IF i >= n - d THEN p[i] ELSE p[2 * i]
      OBVIOUS
    <3> HIDE DEF g
    <3> QED
      BY <3>2, <3>3, <3>4, <3>5
  <2>3. From(g, d + 1)
    BY <2>2
  <2>4. \E q : From(q, d + 1)
    BY <2>3
  <2> HIDE DEF From
  <2> QED
    BY <2>4
<1>3. n \in Fine
  <2> HIDE DEF Fine
  <2> QED
    BY <1>1, <1>2, NatRange
<1>4. PICK p : From(p, n)
  BY <1>3
<1> DEFINE g == [i \in Nat |-> IF i >= n THEN i ELSE p[i]]
<1>5. ASSUME NEW i \in Nat
      PROVE  g[i] = IF i >= n THEN i ELSE g[2 * i]
  <2>1. CASE i = 0
    BY <2>1
  <2>2. CASE i >= 1
    <3>1. 2 * i \in Nat /\ 2 * i >= 1
      BY <2>2
    <3>2. g[2 * i] = IF 2 * i >= n THEN 2 * i ELSE p[2 * i]
      BY <3>1
    <3>3. p[2 * i] = IF 2 * i >= n THEN 2 * i ELSE p[2 * (2 * i)]
      BY <1>4, <3>1
    <3>4. p[i] = IF i >= n THEN i ELSE p[2 * i]
      BY <1>4, <2>2
    <3> QED
      BY <3>2, <3>3, <3>4
  <2> QED
    BY <2>1, <2>2
<1>6. Powers(g, n)
  BY <1>5 DEF Powers
<1> QED
  BY <1>6

\* It returns the first of Initial, 2 * Initial, ... that is not below n: a number that
\* would be returned for itself.
LEMMA NextPowerIs ==
  ASSUME NEW n \in Nat
  PROVE  /\ NextPower(n) \in Nat /\ NextPower(n) >= n /\ NextPower(n) >= 1
         /\ NextPower(NextPower(n)) = NextPower(n)
<1> DEFINE P(m) == CHOOSE p : Powers(p, m)
<1>1. \A m \in Nat : Powers(P(m), m)
  BY PowersExist
<1>2. \A m : NextPower(m) = P(m)[Initial]
  BY DEF NextPower, Powers
<1> HIDE DEF P
<1>3. \A m, i \in Nat : P(m)[i] = IF i >= m THEN i ELSE P(m)[2 * i]
  BY <1>1 DEF Powers
<1> DEFINE Right(i) == /\ P(n)[i] \in Nat /\ P(n)[i] >= n /\ P(n)[i] >= i
                       /\ P(P(n)[i])[i] = P(n)[i]
           Fine == {d \in Nat : \A i \in Nat : i >= 1 /\ i >= n - d => Right(i)}
<1>4. 0 \in Fine
  BY <1>3
<1>5. ASSUME NEW d \in Nat, d \in Fine
      PROVE  d + 1 \in Fine
  <2>1. ASSUME NEW i \in Nat, i >= 1, i >= n - (d + 1)
        PROVE  Right(i)
    <3>1. CASE i >= n
      BY <1>3, <3>1
    <3>2. CASE ~(i >= n)
      <4>1. Right(2 * i)
        BY <1>5, <2>1
      <4>2. P(n)[i] = P(n)[2 * i]
        BY <1>3, <3>2
      <4>3. P(P(n)[i])[i] = P(P(n)[i])[2 * i]
        <5>1. P(n)[i] \in Nat /\ ~(i >= P(n)[i])
          BY <4>1, <4>2, <2>1
        <5> QED
          BY <1>3, <5>1
      <4> QED
        BY <4>1, <4>2, <4>3, <2>1
    <3> QED
      BY <3>1, <3>2
  <2> QED
    BY <2>1
<1>6. n \in Fine
  <2> HIDE DEF Fine
  <2> QED
    BY <1>4, <1>5, NatRange
<1>7. Initial \in Nat /\ Initial >= 1
  BY DictAssumption
<1>8. Right(Initial)
  BY <1>6, <1>7
<1> QED
  BY <1>2, <1>7, <1>8

-----------------------------------------------------------------------------
(* Tables of chains.                                                       *)

\* c is the chain of slot i, one of n.
Chain(c, i, n) ==
  /\ c \in Seq(Keys \X Vals)
  /\ \A j \in 1 .. Len(c) : Slot(c[j][1], n) = i
  /\ \A j, o \in 1 .. Len(c) : c[j][1] = c[o][1] => j = o

\* t is a table of n slots.
Shaped(t, n) ==
  /\ n \in Nat
  /\ DOMAIN t = 0 .. n - 1
  /\ \A i \in 0 .. n - 1 : Chain(t[i], i, n)

EntriesOf(t) == UNION {Range(t[i]) : i \in DOMAIN t}
KeysOf(entries) == {entry[1] : entry \in entries}

LEMMA SizeIs ==
  ASSUME NEW t, NEW n, Shaped(t, n)
  PROVE  Cardinality(DOMAIN t) = n
BY FS_Interval DEF Shaped

LEMMA SlotIs ==
  ASSUME NEW k \in Keys, NEW n \in Nat, n >= 1
  PROVE  Slot(k, n) \in 0 .. n - 1
BY DictAssumption DEF Slot

\* An entry is at one place of the chain of its slot, and nowhere else.
LEMMA EntriesAre ==
  ASSUME NEW t, NEW n, Shaped(t, n), NEW e
  PROVE  e \in EntriesOf(t) <=>
           \E i \in 0 .. n - 1 : \E j \in 1 .. Len(t[i]) : e = t[i][j]
<1>1. \A i \in 0 .. n - 1 : t[i] \in Seq(Keys \X Vals)
  BY DEF Shaped, Chain
<1>2. \A i \in 0 .. n - 1 : DOMAIN t[i] = 1 .. Len(t[i])
  BY <1>1
<1> QED
  BY <1>2 DEF EntriesOf, Range, Shaped

LEMMA EntryAt ==
  ASSUME NEW t, NEW n, Shaped(t, n), NEW e \in EntriesOf(t)
  PROVE  /\ n >= 1 /\ e \in Keys \X Vals
         /\ \E j \in 1 .. Len(t[Slot(e[1], n)]) : e = t[Slot(e[1], n)][j]
<1>1. PICK i \in 0 .. n - 1 : \E j \in 1 .. Len(t[i]) : e = t[i][j]
  BY EntriesAre
<1>2. Chain(t[i], i, n)
  BY DEF Shaped
<1>3. e \in Keys \X Vals /\ Slot(e[1], n) = i
  BY <1>1, <1>2 DEF Chain
<1>4. n >= 1
  BY <1>1 DEF Shaped
<1> QED
  BY <1>1, <1>3, <1>4

LEMMA EntriesAreMap ==
  ASSUME NEW t, NEW n, Shaped(t, n),
         NEW e \in EntriesOf(t), NEW f \in EntriesOf(t), e[1] = f[1]
  PROVE  e = f
<1> DEFINE i == Slot(e[1], n)
<1>1. PICK j \in 1 .. Len(t[i]) : e = t[i][j]
  BY EntryAt
<1>2. PICK o \in 1 .. Len(t[i]) : f = t[i][o]
  BY EntryAt
<1>3. n >= 1 /\ e[1] \in Keys
  BY EntryAt
<1>4. Chain(t[i], i, n)
  BY <1>3, SlotIs DEF Shaped
<1> QED
  BY <1>1, <1>2, <1>4 DEF Chain

LEMMA FoundIs ==
  ASSUME NEW t, NEW n, Shaped(t, n), NEW k \in Keys
  PROVE  /\ Found(t, k) = {} <=> k \notin KeysOf(EntriesOf(t))
         /\ \A i \in Found(t, k) : /\ n >= 1 /\ i \in 1 .. Len(t[Slot(k, n)])
                                  /\ t[Slot(k, n)][i][1] = k
                                  /\ Found(t, k) = {i}
<1>1. Cardinality(DOMAIN t) = n
  BY SizeIs
<1>2. CASE n = 0
  <2>1. DOMAIN t = {}
    BY <1>2 DEF Shaped
  <2> QED
    BY <2>1 DEF Found, EntriesOf, KeysOf
<1>3. CASE n >= 1
  <2>1. Slot(k, n) \in 0 .. n - 1 /\ DOMAIN t = 0 .. n - 1
    BY <1>3, SlotIs DEF Shaped
  <2> DEFINE c == t[Slot(k, n)]
  <2>2. Chain(c, Slot(k, n), n)
    BY <2>1 DEF Shaped
  <2>3. DOMAIN c = 1 .. Len(c)
    BY <2>2 DEF Chain
  <2>4. Found(t, k) = {i \in 1 .. Len(c) : c[i][1] = k}
    BY <1>1, <2>1, <2>3 DEF Found
  <2>5. ASSUME NEW i \in Found(t, k)
        PROVE  Found(t, k) = {i}
    BY <2>2, <2>4, <2>5 DEF Chain
  <2>6. ASSUME NEW i \in Found(t, k)
        PROVE  k \in KeysOf(EntriesOf(t))
    <3>1. c[i] \in EntriesOf(t) /\ c[i][1] = k
      BY <2>1, <2>4, EntriesAre
    <3> QED
      BY <3>1 DEF KeysOf
  <2>7. ASSUME k \in KeysOf(EntriesOf(t))
        PROVE  Found(t, k) # {}
    <3>1. PICK e \in EntriesOf(t) : e[1] = k
      BY <2>7 DEF KeysOf
    <3>2. PICK j \in 1 .. Len(c) : e = c[j]
      BY <3>1, EntryAt
    <3> QED
      BY <2>4, <3>1, <3>2
  <2> QED
    BY <1>3, <2>4, <2>5, <2>6, <2>7
<1> QED
  BY <1>2, <1>3 DEF Shaped

-----------------------------------------------------------------------------
(* Adding, replacing and deleting.                                         *)

\* u is t with chain c in slot h.
Replaced(t, u, n, h, c) ==
  /\ DOMAIN u = DOMAIN t
  /\ u[h] = c /\ \A i \in 0 .. n - 1 : i # h => u[i] = t[i]

LEMMA ChainReplaced ==
  ASSUME NEW t, NEW u, NEW n, Shaped(t, n), NEW h \in 0 .. n - 1, NEW c, Chain(c, h, n),
         Replaced(t, u, n, h, c)
  PROVE  /\ Shaped(u, n)
         /\ EntriesOf(u) = (EntriesOf(t) \ Range(t[h])) \cup Range(c)
<1>1. DOMAIN u = 0 .. n - 1 /\ h \in DOMAIN t
  BY DEF Shaped, Replaced
<1>2. u[h] = c /\ \A i \in 0 .. n - 1 : i # h => u[i] = t[i]
  BY <1>1 DEF Replaced
<1>3. Shaped(u, n)
  BY <1>1, <1>2 DEF Shaped
<1>4. ASSUME NEW e, e \in Range(t[h]), NEW i \in 0 .. n - 1, i # h
      PROVE  e \notin Range(t[i])
  <2>1. Chain(t[h], h, n) /\ Chain(t[i], i, n)
    BY DEF Shaped
  <2>2. DOMAIN t[h] = 1 .. Len(t[h]) /\ DOMAIN t[i] = 1 .. Len(t[i])
    BY <2>1 DEF Chain
  <2> QED
    BY <1>4, <2>1, <2>2 DEF Chain, Range
<1>5. EntriesOf(u) = (EntriesOf(t) \ Range(t[h])) \cup Range(c)
  BY <1>1, <1>2, <1>4 DEF EntriesOf, Shaped
<1> QED
  BY <1>3, <1>5

LEMMA PushIs ==
  ASSUME NEW t, NEW n, Shaped(t, n), n >= 1, NEW e \in Keys \X Vals,
         e[1] \notin KeysOf(EntriesOf(t))
  PROVE  /\ Shaped(Push(t, e), n)
         /\ EntriesOf(Push(t, e)) = EntriesOf(t) \cup {e}
<1> DEFINE h == Slot(e[1], n)
           c == <<e>> \o t[h]
<1>1. h \in 0 .. n - 1
  BY SlotIs DEF Shaped
<1>2. Chain(t[h], h, n) /\ h \in DOMAIN t
  BY <1>1 DEF Shaped
<1>3. t[h] \in Seq(Keys \X Vals)
  BY <1>2 DEF Chain
<1>4. /\ c \in Seq(Keys \X Vals) /\ Len(c) = Len(t[h]) + 1
      /\ c[1] = e /\ \A j \in 2 .. Len(c) : c[j] = t[h][j - 1] /\ j - 1 \in 1 .. Len(t[h])
  BY <1>3
<1> HIDE DEF c
<1>5. /\ Slot(e[1], n) = h
      /\ \A j \in 1 .. Len(t[h]) : t[h][j] \in EntriesOf(t) /\ t[h][j][1] # e[1]
  BY <1>1, EntriesAre DEF KeysOf
<1>6. Push(t, e) = [t EXCEPT ![h] = c]
  BY <1>2, SizeIs DEF Push, c
<1> HIDE DEF h
<1>7. Chain(c, h, n)
  <2>1. \A j \in 2 .. Len(c) : Slot(c[j][1], n) = h /\ c[j][1] # e[1]
    <3> TAKE j \in 2 .. Len(c)
    <3>1. c[j] = t[h][j - 1] /\ j - 1 \in 1 .. Len(t[h])
      BY <1>4
    <3> QED
      BY <1>2, <1>5, <3>1 DEF Chain
  <2>2. Slot(c[1][1], n) = h /\ c[1][1] = e[1]
    BY <1>4, <1>5
  <2>3. \A j \in 1 .. Len(c) : j = 1 \/ j \in 2 .. Len(c)
    BY <1>3, <1>4
  <2>4. ASSUME NEW j \in 1 .. Len(c), NEW o \in 1 .. Len(c), c[j][1] = c[o][1]
        PROVE  j = o
    <3>1. CASE j = 1 \/ o = 1
      BY <2>1, <2>2, <2>3, <2>4, <3>1
    <3>2. CASE j \in 2 .. Len(c) /\ o \in 2 .. Len(c)
      <4> DEFINE a == j - 1
                 b == o - 1
      <4>1. /\ c[j] = t[h][a] /\ a \in 1 .. Len(t[h])
            /\ c[o] = t[h][b] /\ b \in 1 .. Len(t[h])
        BY <1>4, <3>2
      <4>2. a = b => j = o
        OBVIOUS
      <4> HIDE DEF a, b
      <4> QED
        BY <1>2, <2>4, <4>1, <4>2 DEF Chain
    <3> QED
      BY <2>3, <3>1, <3>2
  <2> QED
    BY <1>4, <2>1, <2>2, <2>3, <2>4 DEF Chain
<1>8. Range(c) = Range(t[h]) \cup {e}
  <2>1. DOMAIN c = 1 .. Len(c) /\ DOMAIN t[h] = 1 .. Len(t[h]) /\ Len(t[h]) \in Nat
    BY <1>3, <1>4
  <2>2. \A j \in 1 .. Len(t[h]) : j + 1 \in 2 .. Len(c) /\ c[j + 1] = t[h][j]
    BY <1>4, <2>1
  <2>3. Range(t[h]) \cup {e} \subseteq Range(c)
    <3>1. 1 \in 1 .. Len(c)
      BY <1>4, <2>1
    <3>2. \A j \in 1 .. Len(t[h]) : t[h][j] \in Range(c)
      <4> TAKE j \in 1 .. Len(t[h])
      <4>1. j + 1 \in 1 .. Len(c) /\ c[j + 1] = t[h][j]
        BY <2>1, <2>2
      <4> QED
        BY <2>1, <4>1 DEF Range
    <3>3. e \in Range(c)
      BY <1>4, <2>1, <3>1 DEF Range
    <3> QED
      BY <2>1, <3>2, <3>3 DEF Range
  <2>4. \A j \in 1 .. Len(c) : c[j] \in Range(t[h]) \cup {e}
    <3> TAKE j \in 1 .. Len(c)
    <3>1. CASE j = 1
      BY <1>4, <3>1
    <3>2. CASE j \in 2 .. Len(c)
      <4>1. c[j] = t[h][j - 1] /\ j - 1 \in DOMAIN t[h]
        BY <1>4, <2>1, <3>2
      <4> QED
        BY <4>1 DEF Range
    <3> QED
      BY <2>1, <3>1, <3>2
  <2>5. Range(c) \subseteq Range(t[h]) \cup {e}
    BY <2>1, <2>4 DEF Range
  <2> QED
    BY <2>3, <2>5
<1>9. Range(t[h]) \subseteq EntriesOf(t)
  BY <1>2 DEF EntriesOf
<1>10. Replaced(t, Push(t, e), n, h, c)
  BY <1>1, <1>6 DEF Replaced, Shaped
<1>11. /\ Shaped(Push(t, e), n)
       /\ EntriesOf(Push(t, e)) = (EntriesOf(t) \ Range(t[h])) \cup Range(c)
  BY <1>1, <1>7, <1>10, ChainReplaced
<1> QED
  BY <1>8, <1>9, <1>11

\* What is left of a table without the entries of k.
Other(entries, k) == {entry \in entries : entry[1] # k}

\* Only the chain of its slot can hold a key.
LEMMA OthersAre ==
  ASSUME NEW t, NEW n, Shaped(t, n), n >= 1, NEW k \in Keys
  PROVE  LET h == Slot(k, n)
         IN Other(EntriesOf(t), k) = (EntriesOf(t) \ Range(t[h])) \cup Other(Range(t[h]), k)
<1> DEFINE h == Slot(k, n)
<1>1. h \in 0 .. n - 1
  BY SlotIs DEF Shaped
<1>2. Chain(t[h], h, n) /\ h \in DOMAIN t
  BY <1>1 DEF Shaped
<1>3. DOMAIN t[h] = 1 .. Len(t[h])
  BY <1>2 DEF Chain
<1>4. Range(t[h]) \subseteq EntriesOf(t)
  BY <1>2 DEF EntriesOf
<1>5. ASSUME NEW e \in EntriesOf(t), e[1] = k
      PROVE  e \in Range(t[h])
  <2>1. PICK j \in 1 .. Len(t[h]) : e = t[h][j]
    BY <1>5, EntryAt
  <2> QED
    BY <1>3, <2>1 DEF Range
<1> QED
  BY <1>4, <1>5 DEF Other

LEMMA SetValIs ==
  ASSUME NEW t, NEW n, Shaped(t, n), NEW k \in Keys, NEW v \in Vals, Found(t, k) # {}
  PROVE  /\ Shaped(SetVal(t, k, v), n)
         /\ EntriesOf(SetVal(t, k, v)) = Other(EntriesOf(t), k) \cup {<<k, v>>}
<1> DEFINE h == Slot(k, n)
           c == [j \in DOMAIN t[h] |-> IF t[h][j][1] = k THEN <<k, v>> ELSE t[h][j]]
<1>1. PICK i \in Found(t, k) : n >= 1 /\ i \in 1 .. Len(t[h]) /\ t[h][i][1] = k
  BY FoundIs
<1>2. h \in 0 .. n - 1
  BY <1>1, SlotIs DEF Shaped
<1>3. Chain(t[h], h, n) /\ h \in DOMAIN t
  BY <1>2 DEF Shaped
<1>4. SetVal(t, k, v) = [t EXCEPT ![h] = c]
  <2>1. Cardinality(DOMAIN t) = n
    BY SizeIs
  <2> QED
    BY <1>3, <2>1, Zenon DEF SetVal
<1>5. Replaced(t, SetVal(t, k, v), n, h, c)
  BY <1>2, <1>3, <1>4 DEF Replaced, Shaped
<1>6. t[h] \in Seq(Keys \X Vals) /\ DOMAIN t[h] = 1 .. Len(t[h]) /\ Slot(k, n) = h
  BY <1>3 DEF Chain
<1>7. /\ c \in Seq(Keys \X Vals) /\ Len(c) = Len(t[h]) /\ DOMAIN c = DOMAIN t[h]
      /\ \A j \in 1 .. Len(c) : c[j] = IF t[h][j][1] = k THEN <<k, v>> ELSE t[h][j]
  BY <1>6
<1>8. Other(EntriesOf(t), k) = (EntriesOf(t) \ Range(t[h])) \cup Other(Range(t[h]), k)
  BY <1>1, OthersAre
<1> HIDE DEF h, c
<1>9. \A j \in 1 .. Len(c) : c[j][1] = t[h][j][1]
  BY <1>7
<1>10. Chain(c, h, n)
  BY <1>3, <1>7, <1>9 DEF Chain
<1>11. Range(c) = Other(Range(t[h]), k) \cup {<<k, v>>}
  <2>1. c[i] = <<k, v>> /\ i \in DOMAIN c
    BY <1>1, <1>6, <1>7
  <2>2. \A j \in DOMAIN c : c[j] = IF t[h][j][1] = k THEN <<k, v>> ELSE t[h][j]
    BY <1>6, <1>7
  <2> QED
    BY <1>7, <2>1, <2>2, SMTT(60) DEF Range, Other
<1>12. /\ Shaped(SetVal(t, k, v), n)
       /\ EntriesOf(SetVal(t, k, v)) = (EntriesOf(t) \ Range(t[h])) \cup Range(c)
  BY <1>2, <1>5, <1>10, ChainReplaced
<1> QED
  BY <1>8, <1>11, <1>12

\* A sequence without its element i.
LEMMA RemovedAt ==
  ASSUME NEW S, NEW c \in Seq(S), NEW i \in 1 .. Len(c)
  PROVE  LET d == RemoveAt(c, i)
         IN /\ d \in Seq(S) /\ Len(d) = Len(c) - 1
            /\ \A j \in 1 .. Len(d) : d[j] = IF j < i THEN c[j] ELSE c[j + 1]
<1> DEFINE p == SubSeq(c, 1, i - 1)
           q == SubSeq(c, i + 1, Len(c))
<1>1. p \in Seq(S) /\ Len(p) = i - 1 /\ \A j \in 1 .. i - 1 : p[j] = c[j]
  OBVIOUS
<1>2. q \in Seq(S) /\ Len(q) = Len(c) - i /\ \A j \in 1 .. Len(c) - i : q[j] = c[i + j]
  OBVIOUS
<1>3. RemoveAt(c, i) = p \o q
  BY DEF RemoveAt
<1> HIDE DEF p, q
<1>4. p \o q \in Seq(S) /\ Len(p \o q) = Len(c) - 1
  BY <1>1, <1>2
<1>5. ASSUME NEW j \in 1 .. Len(c) - 1
      PROVE  (p \o q)[j] = IF j < i THEN c[j] ELSE c[j + 1]
  <2>1. CASE j < i
    BY <1>1, <1>2, <2>1
  <2>2. CASE j >= i
    <3> DEFINE o == j - (i - 1)
    <3>1. o \in 1 .. Len(c) - i /\ i + o = j + 1
      BY <2>2
    <3>2. (p \o q)[j] = q[o]
      BY <1>1, <1>2, <2>2
    <3> HIDE DEF o
    <3>3. q[o] = c[j + 1]
      BY <1>2, <3>1
    <3> QED
      BY <2>2, <3>2, <3>3
  <2>3. j < i \/ j >= i
    OBVIOUS
  <2> QED
    BY <2>1, <2>2, <2>3, Zenon
<1> QED
  BY <1>3, <1>4, <1>5

\* u is t without the entry of k, which is at place i of its chain.
LEMMA UnlinkedIs ==
  ASSUME NEW t, NEW u, NEW n, Shaped(t, n), NEW k \in Keys, NEW i \in Found(t, k),
         Replaced(t, u, n, Slot(k, n), RemoveAt(t[Slot(k, n)], i))
  PROVE  Shaped(u, n) /\ EntriesOf(u) = Other(EntriesOf(t), k)
<1> DEFINE h == Slot(k, n)
           c == t[h]
           d == RemoveAt(c, i)
<1>1. n >= 1 /\ i \in 1 .. Len(c) /\ c[i][1] = k
  BY FoundIs
<1>2. h \in 0 .. n - 1
  BY <1>1, SlotIs DEF Shaped
<1>3. Chain(c, h, n)
  BY <1>2 DEF Shaped
<1>4. c \in Seq(Keys \X Vals) /\ DOMAIN c = 1 .. Len(c)
  BY <1>3 DEF Chain
<1>5. /\ d \in Seq(Keys \X Vals) /\ Len(d) = Len(c) - 1
      /\ \A j \in 1 .. Len(d) : d[j] = IF j < i THEN c[j] ELSE c[j + 1]
  BY <1>1, <1>4, RemovedAt
<1>6. Other(EntriesOf(t), k) = (EntriesOf(t) \ Range(c)) \cup Other(Range(c), k)
  BY <1>1, OthersAre
<1>7. Replaced(t, u, n, h, d)
  OBVIOUS
<1> HIDE DEF h, c, d
<1> DEFINE From(j) == IF j < i THEN j ELSE j + 1
<1>8. \A j \in 1 .. Len(d) : From(j) \in 1 .. Len(c) /\ From(j) # i /\ d[j] = c[From(j)]
  BY <1>1, <1>4, <1>5
<1>9. \A j, o \in 1 .. Len(d) : From(j) = From(o) => j = o
  BY <1>1, <1>5
<1>10. \A l \in 1 .. Len(c) : l # i => \E j \in 1 .. Len(d) : From(j) = l
  <2> TAKE l \in 1 .. Len(c)
  <2> HAVE l # i
  <2>1. CASE l < i
    <3>1. l \in 1 .. Len(d) /\ From(l) = l
      BY <1>1, <1>4, <1>5, <2>1
    <3> QED
      BY <3>1
  <2>2. CASE l > i
    <3>1. l - 1 \in 1 .. Len(d) /\ From(l - 1) = l
      BY <1>1, <1>4, <1>5, <2>2
    <3> QED
      BY <3>1
  <2> QED
    BY <1>1, <2>1, <2>2
<1> HIDE DEF From
<1>11. Chain(d, h, n)
  BY <1>3, <1>5, <1>8, <1>9 DEF Chain
<1>12. Range(d) = Other(Range(c), k)
  <2>1. DOMAIN d = 1 .. Len(d)
    BY <1>5
  <2>2. ASSUME NEW j \in 1 .. Len(d)
        PROVE  d[j] \in Other(Range(c), k)
    <3>1. d[j] \in Range(c)
      BY <1>4, <1>8 DEF Range
    <3>2. d[j][1] # k
      BY <1>1, <1>3, <1>8 DEF Chain
    <3> QED
      BY <3>1, <3>2 DEF Other
  <2>3. ASSUME NEW e \in Other(Range(c), k)
        PROVE  e \in Range(d)
    <3>1. PICK l \in 1 .. Len(c) : e = c[l] /\ e[1] # k
      BY <1>4 DEF Other, Range
    <3>2. l # i
      BY <1>1, <3>1
    <3>3. PICK j \in 1 .. Len(d) : From(j) = l
      BY <1>10, <3>2
    <3> QED
      BY <1>8, <2>1, <3>1, <3>3 DEF Range
  <2>4. Range(d) \subseteq Other(Range(c), k)
    BY <2>1, <2>2 DEF Range
  <2> QED
    BY <2>3, <2>4
<1>13. Shaped(u, n) /\ EntriesOf(u) = (EntriesOf(t) \ Range(t[h])) \cup Range(d)
  BY <1>2, <1>7, <1>11, ChainReplaced
<1> QED
  BY <1>6, <1>12, <1>13 DEF c

-----------------------------------------------------------------------------
(* The two loops of dictExpand.                                            *)

\* The tables after each turn of the inner loop.
Pushes(q, t, chain) ==
  q = [j \in 0 .. Len(chain) |-> IF j = 0 THEN t ELSE Push(q[j - 1], chain[j])]

LEMMA PushesExist ==
  ASSUME NEW t, NEW chain, Len(chain) \in Nat
  PROVE  \E q : Pushes(q, t, chain)
<1> DEFINE Steps(q, m) == q = [j \in 0 .. m |-> IF j = 0 THEN t ELSE Push(q[j - 1], chain[j])]
           Fine == {m \in Nat : \E q : Steps(q, m)}
<1>1. 0 \in Fine
  <2>1. Steps([j \in 0 .. 0 |-> t], 0)
    OBVIOUS
  <2>2. \E q : Steps(q, 0)
    BY <2>1
  <2> HIDE DEF Steps
  <2> QED
    BY <2>2
<1>2. ASSUME NEW m \in Nat, m \in Fine
      PROVE  m + 1 \in Fine
  <2>1. PICK q : Steps(q, m)
    BY <1>2
  <2> DEFINE r == [j \in 0 .. m + 1 |-> IF j = m + 1 THEN Push(q[m], chain[m + 1]) ELSE q[j]]
  <2>2. ASSUME NEW j \in 0 .. m + 1
        PROVE  r[j] = IF j = 0 THEN t ELSE Push(r[j - 1], chain[j])
    <3>1. CASE j = m + 1
      BY <3>1
    <3>2. CASE j \in 0 .. m
      BY <2>1, <3>2
    <3> QED
      BY <3>1, <3>2
  <2>3. Steps(r, m + 1)
    BY <2>2
  <2> HIDE DEF r
  <2>4. \E f : Steps(f, m + 1)
    BY <2>3, Zenon
  <2> HIDE DEF Steps
  <2> QED
    BY <2>4
<1> HIDE DEF Fine
<1>3. Len(chain) \in Fine
  BY <1>1, <1>2, NatRange
<1> QED
  BY <1>3 DEF Fine, Pushes

\* A chain is moved to a table with none of its keys.
LEMMA PushAllIs ==
  ASSUME NEW t, NEW n, Shaped(t, n), n >= 1, NEW h, NEW m, NEW chain, Chain(chain, h, m),
         \A j \in 1 .. Len(chain) : chain[j][1] \notin KeysOf(EntriesOf(t))
  PROVE  /\ Shaped(PushAll(t, chain), n)
         /\ EntriesOf(PushAll(t, chain)) = EntriesOf(t) \cup Range(chain)
<1> DEFINE q == CHOOSE f : Pushes(f, t, chain)
           len == Len(chain)
<1>1. len \in Nat /\ DOMAIN chain = 1 .. len
  BY DEF Chain
<1>2. Pushes(q, t, chain)
  BY <1>1, PushesExist
<1>3. PushAll(t, chain) = q[len]
  BY DEF PushAll, Pushes
<1> HIDE DEF q
<1> DEFINE Moved(j) == {chain[o] : o \in 1 .. j}
           Good(j) == /\ Shaped(q[j], n)
                      /\ EntriesOf(q[j]) = EntriesOf(t) \cup Moved(j)
           Fine == {j \in Nat : j <= len => Good(j)}
<1>4. 0 \in Fine
  <2>1. q[0] = t
    BY <1>1, <1>2 DEF Pushes
  <2>2. Moved(0) = {}
    OBVIOUS
  <2> QED
    BY <2>1, <2>2
<1>5. ASSUME NEW j \in Nat, j \in Fine
      PROVE  j + 1 \in Fine
  <2> SUFFICES ASSUME j + 1 <= len
               PROVE  Good(j + 1)
    OBVIOUS
  <2>1. Good(j) /\ j + 1 \in 1 .. len
    BY <1>1, <1>5
  <2>2. q[j + 1] = Push(q[j], chain[j + 1])
    BY <1>1, <1>2, <2>1 DEF Pushes
  <2>3. chain[j + 1] \in Keys \X Vals
    BY <2>1 DEF Chain
  <2>4. chain[j + 1][1] \notin KeysOf(EntriesOf(q[j]))
    <3>1. \A e \in EntriesOf(t) : e[1] # chain[j + 1][1]
      BY <2>1 DEF KeysOf
    <3>2. \A o \in 1 .. j : chain[o][1] # chain[j + 1][1]
      BY <1>1, <2>1 DEF Chain
    <3> QED
      BY <2>1, <3>1, <3>2 DEF KeysOf
  <2>5. /\ Shaped(q[j + 1], n)
        /\ EntriesOf(q[j + 1]) = EntriesOf(q[j]) \cup {chain[j + 1]}
    <3>1. Shaped(q[j], n)
      BY <2>1
    <3> HIDE DEF Moved
    <3> QED
      BY <2>2, <2>3, <2>4, <3>1, PushIs
  <2>6. Moved(j + 1) = Moved(j) \cup {chain[j + 1]}
    <3>1. \A o : o \in 1 .. j + 1 <=> o \in 1 .. j \/ o = j + 1
      OBVIOUS
    <3> QED
      BY <3>1
  <2> QED
    BY <2>1, <2>5, <2>6
<1>6. len \in Fine
  <2> HIDE DEF Fine
  <2> QED
    BY <1>1, <1>4, <1>5, NatRange
<1>7. Moved(len) = Range(chain)
  BY <1>1 DEF Range
<1> QED
  BY <1>1, <1>3, <1>6, <1>7

\* The tables after each turn of the outer loop.
Moves(q, t, n, m) ==
  q = [i \in 0 .. m |-> IF i = 0 THEN [j \in Slots(n) |-> <<>>]
                        ELSE PushAll(q[i - 1], t[i - 1])]

LEMMA MovesExist ==
  ASSUME NEW t, NEW n, NEW m \in Nat
  PROVE  \E q : Moves(q, t, n, m)
<1> DEFINE Start == [s \in Slots(n) |-> <<>>]
           Steps(q, x) == q = [j \in 0 .. x |-> IF j = 0 THEN Start ELSE PushAll(q[j - 1], t[j - 1])]
           Fine == {x \in Nat : \E q : Steps(q, x)}
<1> HIDE DEF Start
<1>1. 0 \in Fine
  <2>1. Steps([j \in 0 .. 0 |-> Start], 0)
    OBVIOUS
  <2>2. \E q : Steps(q, 0)
    BY <2>1
  <2> HIDE DEF Steps
  <2> QED
    BY <2>2
<1>2. ASSUME NEW x \in Nat, x \in Fine
      PROVE  x + 1 \in Fine
  <2>1. PICK q : Steps(q, x)
    BY <1>2
  <2> DEFINE r == [j \in 0 .. x + 1 |-> IF j = x + 1 THEN PushAll(q[x], t[x]) ELSE q[j]]
  <2>2. ASSUME NEW j \in 0 .. x + 1
        PROVE  r[j] = IF j = 0 THEN Start ELSE PushAll(r[j - 1], t[j - 1])
    <3>1. CASE j = x + 1
      BY <3>1
    <3>2. CASE j \in 0 .. x
      BY <2>1, <3>2
    <3> QED
      BY <3>1, <3>2
  <2>3. Steps(r, x + 1)
    BY <2>2
  <2> HIDE DEF r
  <2>4. \E f : Steps(f, x + 1)
    BY <2>3, Zenon
  <2> HIDE DEF Steps
  <2> QED
    BY <2>4
<1> HIDE DEF Fine
<1>3. m \in Fine
  BY <1>1, <1>2, NatRange
<1> QED
  BY <1>3 DEF Fine, Moves, Start


LEMMA EmptyIs ==
  ASSUME NEW n \in Nat
  PROVE  LET t == [j \in Slots(n) |-> <<>>]
         IN Shaped(t, n) /\ EntriesOf(t) = {}
BY DEF Shaped, Chain, Slots, EntriesOf, Range

\* Every entry is in the new table, in the slot that is now its own.
LEMMA RehashedIs ==
  ASSUME NEW t, NEW m, Shaped(t, m), NEW n \in Nat, n >= 1
  PROVE  /\ Shaped(Rehashed(t, n), n)
         /\ EntriesOf(Rehashed(t, n)) = EntriesOf(t)
<1> DEFINE q == CHOOSE f : Moves(f, t, n, m)
<1>1. m \in Nat /\ DOMAIN t = 0 .. m - 1 /\ Cardinality(DOMAIN t) = m
  BY SizeIs DEF Shaped
<1>2. Moves(q, t, n, m)
  BY <1>1, MovesExist
<1>3. Rehashed(t, n) = q[m]
  BY <1>1 DEF Rehashed, Moves
<1> HIDE DEF q
<1> DEFINE Moved(i) == UNION {Range(t[o]) : o \in 0 .. i - 1}
           Good(i) == Shaped(q[i], n) /\ EntriesOf(q[i]) = Moved(i)
           Fine == {i \in Nat : i <= m => Good(i)}
<1>4. 0 \in Fine
  <2>1. q[0] = [j \in Slots(n) |-> <<>>]
    BY <1>1, <1>2 DEF Moves
  <2>2. Moved(0) = {}
    OBVIOUS
  <2> QED
    BY <2>1, <2>2, EmptyIs
<1>5. ASSUME NEW i \in Nat, i \in Fine
      PROVE  i + 1 \in Fine
  <2> SUFFICES ASSUME i + 1 <= m
               PROVE  Good(i + 1)
    OBVIOUS
  <2>1. Shaped(q[i], n) /\ EntriesOf(q[i]) = Moved(i) /\ i \in 0 .. m - 1
    BY <1>1, <1>5
  <2>2. q[i + 1] = PushAll(q[i], t[i])
    BY <1>1, <1>2, <2>1 DEF Moves
  <2>3. Chain(t[i], i, m)
    BY <2>1 DEF Shaped
  <2>4. ASSUME NEW j \in 1 .. Len(t[i])
        PROVE  t[i][j][1] \notin KeysOf(EntriesOf(q[i]))
    <3>1. ASSUME NEW o \in 0 .. i - 1, NEW e \in Range(t[o])
          PROVE  e[1] # t[i][j][1]
      <4>1. Chain(t[o], o, m)
        BY <1>1, <2>1 DEF Shaped
      <4>2. PICK l \in 1 .. Len(t[o]) : e = t[o][l]
        <5>1. DOMAIN t[o] = 1 .. Len(t[o])
          BY <4>1 DEF Chain
        <5> QED
          BY <5>1 DEF Range
      <4>3. Slot(t[i][j][1], m) = i
        BY <2>3 DEF Chain
      <4>4. Slot(e[1], m) = o
        BY <4>1, <4>2 DEF Chain
      <4> QED
        BY <4>3, <4>4
    <3> QED
      BY <2>1, <3>1 DEF KeysOf
  <2>5. /\ Shaped(q[i + 1], n)
        /\ EntriesOf(q[i + 1]) = EntriesOf(q[i]) \cup Range(t[i])
    <3> HIDE DEF Moved
    <3> QED
      BY <2>1, <2>2, <2>3, <2>4, PushAllIs
  <2>6. Moved(i + 1) = Moved(i) \cup Range(t[i])
    <3>1. \A o : o \in 0 .. (i + 1) - 1 <=> o \in 0 .. i - 1 \/ o = i
      OBVIOUS
    <3> QED
      BY <3>1
  <2> QED
    BY <2>1, <2>5, <2>6
<1>6. m \in Fine
  <2> HIDE DEF Fine
  <2> QED
    BY <1>1, <1>4, <1>5, NatRange
<1>7. Moved(m) = EntriesOf(t)
  BY <1>1, Zenon DEF EntriesOf
<1>8. Good(m)
  BY <1>1, <1>6
<1> QED
  BY <1>3, <1>7, <1>8

-----------------------------------------------------------------------------
(* The table and its count.                                                *)

\* A table with c entries, and room for them.
Fits(t, c) ==
  LET n == Cardinality(DOMAIN t)
  IN /\ Shaped(t, n)
     /\ IsFiniteSet(EntriesOf(t)) /\ c = Cardinality(EntriesOf(t)) /\ c <= n
     /\ n = 0 \/ n = NextPower(n)

Tidy == Fits(table, used)

\* What is put into a table that has room.
LEMMA PushFits ==
  ASSUME NEW t, NEW c, Fits(t, c), c < Cardinality(DOMAIN t),
         NEW e \in Keys \X Vals, e[1] \notin KeysOf(EntriesOf(t))
  PROVE  Fits(Push(t, e), c + 1) /\ EntriesOf(Push(t, e)) = EntriesOf(t) \cup {e}
<1> DEFINE n == Cardinality(DOMAIN t)
           u == Push(t, e)
<1>1. Shaped(t, n) /\ n \in Nat
  BY DEF Fits, Shaped
<1>2. IsFiniteSet(EntriesOf(t)) /\ c = Cardinality(EntriesOf(t)) /\ c < n
      /\ (n = 0 \/ n = NextPower(n))
  BY DEF Fits
<1>3. c \in Nat
  BY <1>2, FS_CardinalityType
<1> HIDE DEF n, u
<1>4. Shaped(u, n) /\ EntriesOf(u) = EntriesOf(t) \cup {e}
  BY <1>1, <1>2, <1>3, PushIs DEF u
<1>5. Cardinality(DOMAIN u) = n
  BY <1>4, SizeIs
<1>6. e \notin EntriesOf(t)
  BY DEF KeysOf
<1>7. IsFiniteSet(EntriesOf(u)) /\ Cardinality(EntriesOf(u)) = c + 1
  BY <1>2, <1>4, <1>6, FS_AddElement
<1>8. c + 1 <= n
  BY <1>1, <1>2, <1>3
<1>9. Fits(u, c + 1)
  BY <1>2, <1>4, <1>5, <1>7, <1>8 DEF Fits
<1> QED
  BY <1>4, <1>9 DEF u

\* A key that is found has one entry.
LEMMA OtherIs ==
  ASSUME NEW t, NEW c, Fits(t, c), NEW k \in Keys, Found(t, k) # {}
  PROVE  /\ IsFiniteSet(Other(EntriesOf(t), k))
         /\ Cardinality(Other(EntriesOf(t), k)) = c - 1
         /\ c \in Nat /\ k \in KeysOf(EntriesOf(t))
<1> DEFINE n == Cardinality(DOMAIN t)
<1>1. Shaped(t, n) /\ IsFiniteSet(EntriesOf(t)) /\ c = Cardinality(EntriesOf(t))
  BY DEF Fits
<1>2. k \in KeysOf(EntriesOf(t))
  BY <1>1, FoundIs
<1>3. PICK e \in EntriesOf(t) : e[1] = k
  BY <1>2 DEF KeysOf
<1>4. Other(EntriesOf(t), k) = EntriesOf(t) \ {e}
  <2>1. \A f \in EntriesOf(t) : f[1] = k => f = e
    BY <1>1, <1>3, EntriesAreMap
  <2> QED
    BY <1>3, <2>1 DEF Other
<1> QED
  BY <1>1, <1>2, <1>3, <1>4, FS_RemoveElement, FS_CardinalityType

LEMMA SetValFits ==
  ASSUME NEW t, NEW c, Fits(t, c), NEW k \in Keys, NEW v \in Vals, Found(t, k) # {}
  PROVE  /\ Fits(SetVal(t, k, v), c)
         /\ EntriesOf(SetVal(t, k, v)) = Other(EntriesOf(t), k) \cup {<<k, v>>}
<1> DEFINE n == Cardinality(DOMAIN t)
           u == SetVal(t, k, v)
<1>1. Shaped(t, n) /\ c <= n /\ (n = 0 \/ n = NextPower(n))
  BY DEF Fits
<1>2. /\ IsFiniteSet(Other(EntriesOf(t), k)) /\ c \in Nat
      /\ Cardinality(Other(EntriesOf(t), k)) = c - 1
  BY OtherIs
<1> HIDE DEF n, u
<1>3. Shaped(u, n) /\ EntriesOf(u) = Other(EntriesOf(t), k) \cup {<<k, v>>}
  BY <1>1, SetValIs DEF u
<1>4. Cardinality(DOMAIN u) = n
  BY <1>3, SizeIs
<1>5. <<k, v>> \notin Other(EntriesOf(t), k)
  BY DEF Other
<1>6. IsFiniteSet(EntriesOf(u)) /\ Cardinality(EntriesOf(u)) = c
  <2> DEFINE O == Other(EntriesOf(t), k)
  <2>1. /\ IsFiniteSet(O \cup {<<k, v>>})
        /\ Cardinality(O \cup {<<k, v>>}) = Cardinality(O) + 1
    <3> HIDE DEF O
    <3> QED
      BY <1>2, <1>5, FS_AddElement DEF O
  <2>2. Cardinality(O) = c - 1
    BY <1>2
  <2> HIDE DEF O
  <2>3. EntriesOf(u) = O \cup {<<k, v>>}
    BY <1>3 DEF O
  <2> QED
    BY <1>2, <2>1, <2>2, <2>3
<1>7. Fits(u, c)
  BY <1>1, <1>3, <1>4, <1>6 DEF Fits
<1> QED
  BY <1>3, <1>7 DEF u

LEMMA ExpandFits ==
  ASSUME Tidy, NEW n \in Nat, n >= 1
  PROVE  /\ Fits(Expand(n), used) /\ EntriesOf(Expand(n)) = Entries
         /\ used <= n => Cardinality(DOMAIN Expand(n)) >= n
<1> DEFINE m == NextPower(n)
           u == Rehashed(table, m)
<1>1. Shaped(table, size) /\ IsFiniteSet(Entries) /\ used = Cardinality(Entries)
  BY DEF Tidy, Fits, size, Entries, EntriesOf
<1>2. m \in Nat /\ m >= n /\ m >= 1 /\ NextPower(m) = m
  BY NextPowerIs
<1>3. used \in Nat
  BY <1>1, FS_CardinalityType
<1>4. Entries = EntriesOf(table)
  BY DEF Entries, EntriesOf
<1> HIDE DEF m
<1>5. Shaped(u, m) /\ EntriesOf(u) = Entries
  BY <1>1, <1>2, <1>4, RehashedIs
<1>6. Cardinality(DOMAIN u) = m
  BY <1>5, SizeIs
<1> HIDE DEF u
<1>7. CASE used > n
  <2>1. Expand(n) = table
    BY <1>7 DEF Expand
  <2> QED
    BY <1>3, <1>4, <1>7, <2>1 DEF Tidy
<1>8. CASE ~(used > n)
  <2>1. Expand(n) = u
    BY <1>8 DEF Expand, u, m
  <2>2. Fits(u, used)
    BY <1>1, <1>2, <1>3, <1>5, <1>6, <1>8 DEF Fits
  <2> QED
    BY <1>2, <1>5, <1>6, <2>1, <2>2
<1> QED
  BY <1>7, <1>8

\* dictAdd finds room for one more.
LEMMA ExpandedFits ==
  ASSUME Tidy
  PROVE  /\ Fits(Expanded, used) /\ EntriesOf(Expanded) = Entries
         /\ used < Cardinality(DOMAIN Expanded)
<1>1. /\ Shaped(table, size) /\ IsFiniteSet(Entries) /\ used = Cardinality(Entries)
      /\ used <= size /\ size \in Nat /\ Entries = EntriesOf(table)
  BY DEF Tidy, Fits, Shaped, size, Entries, EntriesOf
<1>2. used \in Nat
  BY <1>1, FS_CardinalityType
<1>3. Initial \in Nat /\ Initial >= 1
  BY DictAssumption
<1>4. ASSUME NEW n \in Nat, n >= 1, used < n, Expanded = Expand(n)
      PROVE  /\ Fits(Expanded, used) /\ EntriesOf(Expanded) = Entries
             /\ used < Cardinality(DOMAIN Expanded)
  <2>1. Fits(Expanded, used) /\ EntriesOf(Expanded) = Entries
    BY <1>4, ExpandFits
  <2>2. Cardinality(DOMAIN Expanded) >= n
    BY <1>2, <1>4, ExpandFits
  <2>3. Cardinality(DOMAIN Expanded) \in Nat
    BY <2>1 DEF Fits, Shaped
  <2> QED
    BY <1>2, <1>4, <2>1, <2>2, <2>3
<1>5. CASE size = 0
  <2>1. used < Initial /\ Expanded = Expand(Initial)
    BY <1>1, <1>2, <1>3, <1>5 DEF Expanded
  <2> QED
    BY <1>3, <1>4, <2>1
<1>6. CASE size # 0 /\ used = size
  <2>1. size * 2 \in Nat /\ size * 2 >= 1 /\ used < size * 2
    BY <1>1, <1>2, <1>6
  <2>2. Expanded = Expand(size * 2)
    BY <1>6 DEF Expanded
  <2> QED
    BY <1>4, <2>1, <2>2
<1>7. CASE size # 0 /\ used # size
  <2>1. Expanded = table
    BY <1>7 DEF Expanded
  <2>2. used < Cardinality(DOMAIN table)
    BY <1>1, <1>2, <1>7 DEF size
  <2> QED
    BY <1>1, <2>1, <2>2 DEF Tidy
<1> QED
  BY <1>5, <1>6, <1>7

-----------------------------------------------------------------------------
(* What each operation does to the entries.                                *)

\* What dictGenericDelete does.
Unlinked(k) ==
  /\ Tidy' /\ Entries' = Other(Entries, k) /\ k \in KeysOf(Entries)
  /\ \E i \in Found(table, k) :
       Replaced(table, table', size, Slot(k, size), RemoveAt(table[Slot(k, size)], i))

LEMMA UnlinkStep ==
  ASSUME Tidy, NEW k \in Keys, Unlink(k)
  PROVE  Unlinked(k) /\ did' = <<"remove", k>>
<1>1. Shaped(table, size) /\ Entries = EntriesOf(table)
  BY DEF Tidy, Fits, size, Entries, EntriesOf
<1>2. PICK i \in Found(table, k) :
        /\ size >= 1 /\ Found(table, k) = {i} /\ i \in 1 .. Len(table[Slot(k, size)])
  BY <1>1, FoundIs DEF Unlink
<1>3. First({i}) = i
  BY <1>2 DEF First
<1> DEFINE h == Slot(k, size)
           d == RemoveAt(table[h], i)
<1>4. table' = [table EXCEPT ![h] = d] /\ used' = used - 1 /\ did' = <<"remove", k>>
  BY <1>2, <1>3 DEF Unlink
<1>5. h \in 0 .. size - 1 /\ h \in DOMAIN table
  BY <1>1, <1>2, SlotIs DEF Shaped
<1>6. Replaced(table, table', size, h, d)
  BY <1>1, <1>4, <1>5 DEF Replaced, Shaped
<1>7. Shaped(table', size) /\ EntriesOf(table') = Other(EntriesOf(table), k)
  BY <1>1, <1>6, UnlinkedIs
<1>8. Cardinality(DOMAIN table') = size
  BY <1>7, SizeIs
<1>9. /\ IsFiniteSet(Other(Entries, k)) /\ Cardinality(Other(Entries, k)) = used - 1
      /\ used \in Nat /\ k \in KeysOf(Entries)
  BY <1>1, <1>2, OtherIs DEF Tidy
<1>10. Entries' = EntriesOf(table')
  BY DEF Entries, EntriesOf
<1>11. used <= size /\ (size = 0 \/ size = NextPower(size)) /\ size \in Nat
  BY <1>1 DEF Tidy, Fits, size, Shaped
<1>12. Fits(table', used - 1)
  <2> HIDE DEF size
  <2> QED
    BY <1>1, <1>7, <1>8, <1>9, <1>11 DEF Fits
<1> QED
  BY <1>1, <1>2, <1>4, <1>6, <1>7, <1>9, <1>10, <1>12 DEF Tidy, Unlinked

LEMMA AddStep ==
  ASSUME Tidy, NEW k \in Keys, NEW v \in Vals, NEW replace \in BOOLEAN, Add(k, v, replace)
  PROVE  /\ Tidy'
         /\ \/ did' = <<"put", k, v>> /\ Entries' = Other(Entries, k) \cup {<<k, v>>}
            \/ did' = <<"keep">> /\ Entries' = Entries
<1> DEFINE t == Expanded
<1>1. Fits(t, used) /\ EntriesOf(t) = Entries /\ used < Cardinality(DOMAIN t)
  BY ExpandedFits
<1>2. Shaped(t, Cardinality(DOMAIN t))
  BY <1>1 DEF Fits
<1>3. Entries' = EntriesOf(table')
  BY DEF Entries, EntriesOf
<1> HIDE DEF t
<1>4. CASE Found(t, k) = {}
  <2>1. table' = Push(t, <<k, v>>) /\ used' = used + 1 /\ did' = <<"put", k, v>>
    BY <1>4 DEF Add, t
  <2>2. k \notin KeysOf(EntriesOf(t))
    BY <1>2, <1>4, FoundIs
  <2>3. Fits(table', used') /\ EntriesOf(table') = EntriesOf(t) \cup {<<k, v>>}
    BY <1>1, <2>1, <2>2, PushFits
  <2>4. Other(Entries, k) = Entries
    BY <1>1, <2>2 DEF Other, KeysOf
  <2> QED
    BY <1>1, <1>3, <2>1, <2>3, <2>4 DEF Tidy
<1>5. CASE Found(t, k) # {} /\ replace
  <2>1. table' = SetVal(t, k, v) /\ used' = used /\ did' = <<"put", k, v>>
    BY <1>5 DEF Add, t
  <2>2. Fits(table', used') /\ EntriesOf(table') = Other(EntriesOf(t), k) \cup {<<k, v>>}
    BY <1>1, <1>5, <2>1, SetValFits
  <2> QED
    BY <1>1, <1>3, <2>1, <2>2 DEF Tidy
<1>6. CASE Found(t, k) # {} /\ ~replace
  <2>1. table' = t /\ used' = used /\ did' = <<"keep">>
    BY <1>6 DEF Add, t
  <2> QED
    BY <1>1, <1>3, <2>1 DEF Tidy
<1> QED
  BY <1>4, <1>5, <1>6

LEMMA EmptyFits ==
  ASSUME NEW t, t = [i \in Slots(0) |-> <<>>]
  PROVE  Fits(t, 0) /\ EntriesOf(t) = {}
<1>1. Shaped(t, 0) /\ EntriesOf(t) = {}
  BY EmptyIs
<1> QED
  BY <1>1, SizeIs, FS_EmptySet DEF Fits

LEMMA EmptyStep ==
  ASSUME Empty
  PROVE  Tidy' /\ did' = <<"clear">> /\ Entries' = {}
<1>1. Entries' = EntriesOf(table')
  BY DEF Entries, EntriesOf
<1>2. table' = [i \in Slots(0) |-> <<>>] /\ used' = 0 /\ did' = <<"clear">>
  BY DEF Empty
<1> QED
  BY <1>1, <1>2, EmptyFits DEF Tidy

LEMMA TryResizeStep ==
  ASSUME Tidy, TryResize
  PROVE  Tidy' /\ did' = <<"keep">> /\ Entries' = Entries
<1>1. Entries' = EntriesOf(table')
  BY DEF Entries, EntriesOf
<1>2. used \in Nat
  BY FS_CardinalityType DEF Tidy, Fits
<1> DEFINE n == IF used < Initial THEN Initial ELSE used
<1>3. n \in Nat /\ n >= 1
  BY <1>2, DictAssumption
<1>4. table' = Expand(n) /\ used' = used /\ did' = <<"keep">>
  BY DEF TryResize
<1> HIDE DEF n
<1> QED
  BY <1>1, <1>3, <1>4, ExpandFits DEF Tidy

\* A step is an operation of a map, or does not show.
Effect ==
  \/ \E k \in Keys, v \in Vals :
       did' = <<"put", k, v>> /\ Entries' = Other(Entries, k) \cup {<<k, v>>}
  \/ \E k \in KeysOf(Entries) : did' = <<"remove", k>> /\ Entries' = Other(Entries, k)
  \/ did' = <<"clear">> /\ Entries' = {}
  \/ did' = <<"keep">> /\ Entries' = Entries
  \/ did' = did /\ Entries' = Entries

\* An iterator has been given keys.
GivesKeys == ~Closed => iter[1].entry \subseteq Keys

LEMMA TidyStep ==
  ASSUME Tidy, GivesKeys, [Next]_vars
  PROVE  Tidy' /\ Effect
<1>1. \A k : k \in KeysOf(Entries) => k \in Keys
  <2>1. Shaped(table, size) /\ Entries = EntriesOf(table)
    BY DEF Tidy, Fits, size, Entries, EntriesOf
  <2>2. \A e \in Entries : e \in Keys \X Vals
    BY <2>1, EntryAt
  <2> QED
    BY <2>2 DEF KeysOf
<1>2. ASSUME NEW k \in Keys, Unlink(k)
      PROVE  Tidy' /\ Effect
  BY <1>2, UnlinkStep DEF Effect, Unlinked
<1>3. ASSUME NEW k \in Keys, NEW v \in Vals, NEW replace \in BOOLEAN, Add(k, v, replace)
      PROVE  Tidy' /\ Effect
  BY <1>3, AddStep DEF Effect
<1>4. ASSUME UNCHANGED <<table, used>>, did' = <<"keep">> \/ did' = did
      PROVE  Tidy' /\ Effect
  BY <1>4 DEF Tidy, Effect, Entries
<1>5. ASSUME NEW k \in Keys, Delete(k)
      PROVE  Tidy' /\ Effect
  BY <1>2, <1>5 DEF Delete
<1>6. CASE Empty
  BY <1>6, EmptyStep DEF Effect
<1>7. CASE TryResize
  BY <1>7, TryResizeStep DEF Effect
<1>8. CASE DeleteRandom
  BY <1>1, <1>2, <1>8 DEF DeleteRandom, RandomKeys, KeysOf
<1>9. CASE GetIterator
  BY <1>4, <1>9 DEF GetIterator
<1>10. CASE DictNext
  BY <1>4, <1>10 DEF DictNext
<1>11. CASE DeleteGiven
  BY <1>2, <1>11 DEF DeleteGiven, GivesKeys
<1>12. CASE UNCHANGED vars
  BY <1>4, <1>12 DEF vars
<1> QED
  BY <1>3, <1>5, <1>6, <1>7, <1>8, <1>9, <1>10, <1>11, <1>12 DEF Next

-----------------------------------------------------------------------------
(* Iterating.                                                              *)

\* Key x is at place q of chain i of table t or after it, or in a later slot.
Beyond(t, x, i, q) ==
  \/ \E j \in 1 .. Len(t[i]) : j >= q /\ t[i][j][1] = x
  \/ \E l \in DOMAIN t : l > i /\ \E j \in 1 .. Len(t[l]) : t[l][j][1] = x

\* Key x was there when the iterator was opened and has not been returned.
Left(x) == x \in there /\ x \notin Range(given)

\* The iterator has returned k, which was or is in front of place q of its chain: the
\* keys from there on are those that are left.
At(it, t, k, q) ==
  /\ it.entry = {k} /\ it.index \in DOMAIN t /\ it.index = Slot(k, Cardinality(DOMAIN t))
  /\ q \in 1 .. Len(t[it.index]) + 1
  /\ it.nextEntry = IF q > Len(t[it.index]) THEN None ELSE {t[it.index][q][1]}
  /\ \A j \in 1 .. Len(t[it.index]) : t[it.index][j][1] = k => j = q - 1
  /\ k \in Range(given)
  /\ \A x \in Keys : Left(x) <=> Beyond(t, x, it.index, q)

\* The iterator has returned nothing.
AtStart(it) ==
  /\ it.index = -1 /\ it.entry = None /\ it.nextEntry = None
  /\ given = <<>> /\ there = KeysOf(Entries)

Walk ==
  /\ iter = <<>> \/ \E it : iter = <<it>>
  /\ ~Closed =>
       /\ there \subseteq Keys /\ given \in Seq(there)
       /\ \A i, j \in 1 .. Len(given) : given[i] = given[j] => i = j
       /\ AtStart(iter[1]) \/ \E k \in Keys, q \in Nat : At(iter[1], table, k, q)

\* The place after p, where the key is.
LEMMA AfterIs ==
  ASSUME Shaped(table, size), NEW i \in DOMAIN table, NEW p \in 1 .. Len(table[i])
  PROVE  LET k == table[i][p][1]
         IN After(k) = IF p + 1 > Len(table[i]) THEN None ELSE {table[i][p + 1][1]}
<1> DEFINE k == table[i][p][1]
           c == table[i]
           Here == {j \in DOMAIN c : c[j][1] = k}
<1>1. Chain(c, i, size)
  BY DEF Shaped
<1>2. Slot(k, size) = i /\ DOMAIN c = 1 .. Len(c) /\ Len(c) \in Nat
  BY <1>1 DEF Chain
<1>3. \A j \in DOMAIN c : c[j][1] = k <=> j = p
  BY <1>1, <1>2 DEF Chain
<1>4. (CHOOSE j \in DOMAIN c : c[j][1] = k) = p
  BY <1>2, <1>3
<1>5. After(k) = IF p = Len(c) THEN None ELSE {c[p + 1][1]}
  BY <1>2, <1>4, Zenon DEF After
<1>6. p = Len(c) <=> p + 1 > Len(c)
  <2>1. Len(c) \in Nat /\ p \in 1 .. Len(c)
    BY <1>2
  <2> HIDE DEF c
  <2> QED
    BY <2>1
<1> QED
  BY <1>5, <1>6, Zenon

\* Where DictNext goes on when the chain has no more.
LEMMA FirstFromIs ==
  ASSUME Shaped(table, size), NEW index \in -1 .. size - 1
  PROVE  LET step == FirstFrom(index)
         IN \/ step.entry = None /\ \A l \in DOMAIN table : l > index => table[l] = <<>>
            \/ /\ step.index \in DOMAIN table /\ step.index > index
               /\ table[step.index] # <<>>
               /\ step.entry = {table[step.index][1][1]}
               /\ \A l \in DOMAIN table : l > index /\ l < step.index => table[l] = <<>>
<1> DEFINE full == {i \in DOMAIN table : i > index /\ table[i] # <<>>}
<1>1. CASE full = {}
  <2>1. FirstFrom(index) = [index |-> size, entry |-> None]
    BY <1>1 DEF FirstFrom
  <2> QED
    BY <1>1, <2>1
<1>2. CASE full # {}
  <2>1. full \subseteq Nat
    BY DEF Shaped
  <2> DEFINE i == First(full)
  <2>2. i \in full /\ \A j \in full : i <= j
    <3> HIDE DEF full
    <3>1. \E n \in full : \A m \in full : n <= m
      BY <1>2, <2>1, NatSmallest
    <3> QED
      BY <3>1 DEF First
  <2>3. FirstFrom(index) = [index |-> i, entry |-> {table[i][1][1]}]
    BY <1>2 DEF FirstFrom
  <2> HIDE DEF i
  <2>4. \A l \in DOMAIN table : l > index /\ l < i => table[l] = <<>>
    <3>1. \A l \in DOMAIN table : l \in Nat
      BY DEF Shaped
    <3> QED
      BY <2>1, <2>2, <3>1
  <2> QED
    BY <2>2, <2>3, <2>4
<1> QED
  BY <1>1, <1>2

\* The key at place p of chain i is returned, when what is left begins with it.
LEMMA Advance ==
  ASSUME Shaped(table, size), there \subseteq Keys, given \in Seq(there),
         \A n, o \in 1 .. Len(given) : given[n] = given[o] => n = o,
         NEW i \in DOMAIN table, NEW p \in 1 .. Len(table[i]),
         \A x \in Keys : Left(x) <=> Beyond(table, x, i, p),
         NEW k, k = table[i][p][1], NEW after, after = After(k),
         UNCHANGED <<table, there>>, given' = Append(given, k),
         iter' = <<[index |-> i, entry |-> {k}, nextEntry |-> after]>>
  PROVE  Walk'
<1> DEFINE c == table[i]
<1>1. Chain(c, i, size) /\ size = Cardinality(DOMAIN table)
  BY DEF Shaped, size
<1>2. k \in Keys /\ Slot(k, size) = i /\ Len(c) \in Nat
  BY <1>1 DEF Chain
<1>3. Left(k)
  <2>1. Beyond(table, k, i, p)
    BY DEF Beyond
  <2> QED
    BY <1>2, <2>1
<1>4. DOMAIN given = 1 .. Len(given) /\ Len(given) \in Nat
  OBVIOUS
<1>5. k \in there /\ \A n \in 1 .. Len(given) : given[n] # k
  BY <1>3, <1>4 DEF Left, Range
<1>6. there' \subseteq Keys /\ given' \in Seq(there')
  BY <1>5
<1>7. /\ Len(given') = Len(given) + 1 /\ given'[Len(given) + 1] = k
      /\ \A n \in 1 .. Len(given) : given'[n] = given[n]
  BY <1>5
<1>8. \A n, o \in 1 .. Len(given') : given'[n] = given'[o] => n = o
  <2>1. \A n \in 1 .. Len(given') : n \in 1 .. Len(given) \/ n = Len(given) + 1
    BY <1>4, <1>7
  <2> QED
    BY <1>4, <1>5, <1>7, <2>1
<1>9. Range(given') = Range(given) \cup {k}
  <2>1. DOMAIN given' = 1 .. Len(given) + 1
    BY <1>6, <1>7
  <2>2. \A n : n \in 1 .. Len(given) + 1 <=> n \in 1 .. Len(given) \/ n = Len(given) + 1
    BY <1>4
  <2> QED
    BY <1>4, <1>7, <2>1, <2>2 DEF Range
<1>10. \A x \in Keys : Left(x)' <=> Left(x) /\ x # k
  BY <1>9 DEF Left
<1>11. \A x \in Keys : Beyond(table, x, i, p + 1) <=> Beyond(table, x, i, p) /\ x # k
  <2> TAKE x \in Keys
  <2>1. \A j \in 1 .. Len(c) : c[j][1] = k <=> j = p
    BY <1>1 DEF Chain
  <2>2. ASSUME NEW l \in DOMAIN table, l > i, NEW j \in 1 .. Len(table[l])
        PROVE  table[l][j][1] # k
    <3>1. Chain(table[l], l, size)
      BY DEF Shaped
    <3>2. Slot(table[l][j][1], size) = l
      BY <3>1 DEF Chain
    <3>3. l # i
      BY <2>2 DEF Shaped
    <3> QED
      BY <1>2, <3>2, <3>3
  <2>3. \A j \in 1 .. Len(c) : j >= p + 1 <=> j >= p /\ j # p
    BY <1>2
  <2> QED
    BY <2>1, <2>2, <2>3 DEF Beyond
<1>12. after = IF p + 1 > Len(c) THEN None ELSE {c[p + 1][1]}
  BY AfterIs
<1>13. At(iter[1], table, k, p + 1)'
  <2>1. /\ iter'[1].index = i /\ iter'[1].entry = {k} /\ iter'[1].nextEntry = after
        /\ table' = table
    OBVIOUS
  <2>2. p + 1 \in 1 .. Len(c) + 1
    BY <1>2
  <2>3. \A j \in 1 .. Len(c) : c[j][1] = k => j = (p + 1) - 1
    BY <1>1 DEF Chain
  <2>4. \A x \in Keys : Left(x)' <=> Beyond(table, x, i, p + 1)
    BY <1>10, <1>11
  <2>5. k \in Range(given')
    BY <1>9
  <2> QED
    BY <1>1, <1>2, <1>12, <2>1, <2>2, <2>3, <2>4, <2>5 DEF At
<1>14. p + 1 \in Nat
  BY <1>2
<1>15. \E l \in Keys, q \in Nat : At(iter[1], table, l, q)'
  BY <1>2, <1>13, <1>14, Zenon
<1> QED
  BY <1>6, <1>8, <1>15 DEF Walk

LEMMA TidyShape ==
  ASSUME Tidy
  PROVE  /\ Shaped(table, size) /\ Entries = EntriesOf(table)
         /\ size \in Nat /\ DOMAIN table = 0 .. size - 1
         /\ \A e \in Entries : e \in Keys \X Vals
<1>1. Shaped(table, size) /\ Entries = EntriesOf(table)
  BY DEF Tidy, Fits, size, Entries, EntriesOf
<1>2. \A e \in Entries : e \in Keys \X Vals
  BY <1>1, EntryAt
<1> QED
  BY <1>1, <1>2 DEF Shaped

\* Where the iterator is when its chain has no more: all that is left is in later slots.
Later(it) ==
  /\ it.index \in -1 .. size - 1
  /\ \A x \in Keys : Left(x) <=>
       \E l \in DOMAIN table : l > it.index /\ \E j \in 1 .. Len(table[l]) : table[l][j][1] = x

\* The iterator will go on to the next slot, or take the next of its chain.
LEMMA WalkIs ==
  ASSUME Tidy, Walk, ~Closed
  PROVE  LET it == iter[1]
         IN \/ (it.entry = None \/ it.nextEntry = None) /\ Later(it)
            \/ /\ it.entry # None /\ it.nextEntry # None /\ it.index \in DOMAIN table
               /\ \E q \in 1 .. Len(table[it.index]) :
                    /\ it.nextEntry = {table[it.index][q][1]}
                    /\ \A x \in Keys : Left(x) <=> Beyond(table, x, it.index, q)
<1> DEFINE it == iter[1]
<1>1. /\ Shaped(table, size) /\ Entries = EntriesOf(table)
      /\ size \in Nat /\ DOMAIN table = 0 .. size - 1
  BY TidyShape
<1>2. CASE AtStart(it)
  <2>1. it.index = -1 /\ it.entry = None /\ given = <<>> /\ there = KeysOf(Entries)
    BY <1>2 DEF AtStart
  <2>2. Range(given) = {}
    BY <2>1 DEF Range
  <2>3. ASSUME NEW x \in Keys
        PROVE  Left(x) <=> \E l \in DOMAIN table :
                 l > -1 /\ \E j \in 1 .. Len(table[l]) : table[l][j][1] = x
    <3>1. Left(x) <=> \E e \in Entries : e[1] = x
      BY <2>1, <2>2 DEF Left, KeysOf
    <3>2. \A e : e \in Entries <=>
             \E l \in 0 .. size - 1 : \E j \in 1 .. Len(table[l]) : e = table[l][j]
      BY <1>1, EntriesAre
    <3> QED
      BY <1>1, <3>1, <3>2
  <2> HIDE DEF it
  <2>4. Later(it)
    BY <1>1, <2>1, <2>3 DEF Later
  <2> QED
    BY <2>1, <2>4 DEF it
<1>3. ASSUME NEW k \in Keys, NEW q \in Nat, At(it, table, k, q)
      PROVE  \/ it.nextEntry = None /\ Later(it)
             \/ /\ it.entry # None /\ it.nextEntry # None /\ it.index \in DOMAIN table
                /\ q \in 1 .. Len(table[it.index])
                /\ it.nextEntry = {table[it.index][q][1]}
                /\ \A x \in Keys : Left(x) <=> Beyond(table, x, it.index, q)
  <2> DEFINE len == Len(table[it.index])
  <2>1. /\ it.entry = {k} /\ it.index \in DOMAIN table /\ q \in 1 .. len + 1
        /\ it.nextEntry = IF q > len THEN None ELSE {table[it.index][q][1]}
        /\ \A x \in Keys : Left(x) <=> Beyond(table, x, it.index, q)
    BY <1>3 DEF At
  <2>2. Chain(table[it.index], it.index, size)
    BY <1>1, <2>1 DEF Shaped
  <2>3. len \in Nat
    BY <2>2 DEF Chain
  <2> HIDE DEF it
  <2>4. CASE q > len
    <3>1. \A j \in 1 .. len : ~(j >= q)
      BY <2>3, <2>4
    <3>2. it.index \in -1 .. size - 1
      BY <1>1, <2>1
    <3>3. Later(it)
      BY <2>1, <3>1, <3>2 DEF Later, Beyond
    <3> QED
      BY <2>1, <2>4, <3>3
  <2>5. CASE ~(q > len)
    <3>1. q \in 1 .. len
      BY <2>1, <2>3, <2>5
    <3>2. it.nextEntry = {table[it.index][q][1]}
      BY <2>1, <2>5
    <3> QED
      BY <2>1, <3>1, <3>2 DEF None
  <2> QED
    BY <2>4, <2>5
<1>4. AtStart(it) \/ \E k \in Keys, q \in Nat : At(it, table, k, q)
  BY DEF Walk
<1>5. ASSUME NEW k \in Keys, NEW q \in Nat, At(it, table, k, q)
      PROVE  \/ (it.entry = None \/ it.nextEntry = None) /\ Later(it)
             \/ /\ it.entry # None /\ it.nextEntry # None /\ it.index \in DOMAIN table
                /\ \E r \in 1 .. Len(table[it.index]) :
                     /\ it.nextEntry = {table[it.index][r][1]}
                     /\ \A x \in Keys : Left(x) <=> Beyond(table, x, it.index, r)
  BY <1>3, <1>5, Zenon
<1> HIDE DEF it
<1>6. AtStart(it) => (it.entry = None \/ it.nextEntry = None) /\ Later(it)
  BY <1>2, Zenon DEF it, AtStart
<1> QED
  BY <1>4, <1>5, <1>6, Zenon DEF it

LEMMA DictNextStep ==
  ASSUME Tidy, Walk, DictNext
  PROVE  Walk'
<1> DEFINE it == iter[1]
           s == Step(it)
<1>1. ~Closed /\ UNCHANGED table
  BY DEF DictNext
<1>2. /\ Shaped(table, size) /\ size \in Nat /\ DOMAIN table = 0 .. size - 1
  BY TidyShape
<1>3. /\ there \subseteq Keys /\ given \in Seq(there)
      /\ \A n, o \in 1 .. Len(given) : given[n] = given[o] => n = o
  BY <1>1 DEF Walk
<1>4. CASE s.entry = None
  <2>1. iter' = <<>>
    BY <1>4 DEF DictNext
  <2> QED
    BY <2>1 DEF Walk, Closed
<1>5. CASE s.entry # None
  <2> DEFINE key == CHOOSE k \in s.entry : TRUE
  <2>1. /\ iter' = <<[index |-> s.index, entry |-> s.entry, nextEntry |-> After(key)]>>
        /\ given' = Append(given, key) /\ UNCHANGED there
    BY <1>5 DEF DictNext
  <2>2. ASSUME NEW i \in DOMAIN table, NEW p \in 1 .. Len(table[i]),
               s.index = i, s.entry = {table[i][p][1]},
               \A x \in Keys : Left(x) <=> Beyond(table, x, i, p)
        PROVE  Walk'
    <3>1. key = table[i][p][1]
      BY <2>2
    <3> HIDE DEF key, s, it
    <3> QED
      BY <1>1, <1>2, <1>3, <2>1, <2>2, <3>1, Advance
  <2>3. CASE (it.entry = None \/ it.nextEntry = None) /\ Later(it)
    <3>1. s = FirstFrom(it.index) /\ it.index \in -1 .. size - 1
      BY <2>3 DEF Step, Later
    <3> HIDE DEF it
    <3>2. /\ s.index \in DOMAIN table /\ s.index > it.index
          /\ table[s.index] # <<>> /\ s.entry = {table[s.index][1][1]}
          /\ \A l \in DOMAIN table : l > it.index /\ l < s.index => table[l] = <<>>
      BY <1>2, <1>5, <3>1, FirstFromIs
    <3> DEFINE i == s.index
    <3> HIDE DEF s
    <3>3. 1 \in 1 .. Len(table[i])
      <4>1. Chain(table[i], i, size)
        BY <1>2, <3>2 DEF Shaped
      <4> QED
        BY <3>2, <4>1 DEF Chain
    <3>4. ASSUME NEW x \in Keys
          PROVE  Left(x) <=> Beyond(table, x, i, 1)
      <4>1. Left(x) <=> \E l \in DOMAIN table :
              l > it.index /\ \E j \in 1 .. Len(table[l]) : table[l][j][1] = x
        BY <2>3 DEF Later
      <4>2. \A l \in DOMAIN table :
              l > it.index /\ (\E j \in 1 .. Len(table[l]) : table[l][j][1] = x) => l >= i
        BY <1>2, <3>1, <3>2
      <4>3. \A l \in DOMAIN table : l >= i => l > it.index /\ (l = i \/ l > i)
        BY <1>2, <3>1, <3>2
      <4>4. \A j \in 1 .. Len(table[i]) : j >= 1
        OBVIOUS
      <4>5. \A l \in DOMAIN table : l > i => l >= i
        BY <1>2, <3>2
      <4> QED
        BY <3>2, <4>1, <4>2, <4>3, <4>4, <4>5 DEF Beyond
    <3> QED
      BY <2>2, <3>2, <3>3, <3>4
  <2>4. CASE it.entry # None /\ it.nextEntry # None /\ it.index \in DOMAIN table
    <3>1. PICK q \in 1 .. Len(table[it.index]) :
            /\ it.nextEntry = {table[it.index][q][1]}
            /\ \A x \in Keys : Left(x) <=> Beyond(table, x, it.index, q)
      BY <1>1, <2>4, WalkIs
    <3>2. s = [index |-> it.index, entry |-> it.nextEntry]
      BY <2>4 DEF Step
    <3> HIDE DEF it, s
    <3> QED
      BY <2>2, <2>4, <3>1, <3>2
  <2> QED
    BY <1>1, <2>3, <2>4, WalkIs
<1> QED
  BY <1>4, <1>5

\* Deleting the key that was returned moves what follows it one place forward.
LEMMA DeleteGivenStep ==
  ASSUME Tidy, Walk, DeleteGiven
  PROVE  Walk'
<1> DEFINE it == iter[1]
<1>1. ~Closed /\ UNCHANGED <<iter, given, there>>
  BY DEF DeleteGiven, history
<1>2. /\ Shaped(table, size) /\ size \in Nat /\ DOMAIN table = 0 .. size - 1
  BY TidyShape
<1>3. PICK k : k \in it.entry /\ Unlink(k)
  BY DEF DeleteGiven
<1>4. it.entry # None
  BY <1>3 DEF None
<1>5. PICK l \in Keys, q \in Nat : At(it, table, l, q)
  BY <1>1, <1>4 DEF Walk, AtStart
<1>6. k = l /\ k \in Keys
  BY <1>3, <1>5 DEF At
<1> DEFINE i == it.index
           c == table[i]
<1>7. /\ i \in DOMAIN table /\ i = Slot(k, size) /\ q \in 1 .. Len(c) + 1 /\ it.entry = {k}
      /\ it.nextEntry = IF q > Len(c) THEN None ELSE {c[q][1]}
      /\ \A j \in 1 .. Len(c) : c[j][1] = k => j = q - 1
      /\ k \in Range(given)
      /\ \A x \in Keys : Left(x) <=> Beyond(table, x, i, q)
  BY <1>5, <1>6 DEF At, size
<1>8. Unlinked(k)
  BY <1>3, <1>6, UnlinkStep
<1>9. PICK p \in Found(table, k) : Replaced(table, table', size, i, RemoveAt(c, p))
  BY <1>7, <1>8 DEF Unlinked
<1> HIDE DEF it, i
<1>10. p \in 1 .. Len(c) /\ c[p][1] = k
  BY <1>2, <1>6, <1>7, <1>9, FoundIs
<1>11. p = q - 1
  BY <1>7, <1>10
<1>12. Chain(c, i, size)
  BY <1>2, <1>7 DEF Shaped
<1>13. c \in Seq(Keys \X Vals) /\ Len(c) \in Nat
  BY <1>12 DEF Chain
<1> DEFINE d == RemoveAt(c, p)
<1>14. /\ Len(d) = Len(c) - 1
       /\ \A j \in 1 .. Len(d) : d[j] = IF j < p THEN c[j] ELSE c[j + 1]
  BY <1>10, <1>13, RemovedAt
<1>15. /\ DOMAIN table' = DOMAIN table /\ table'[i] = d
       /\ \A o \in DOMAIN table : o # i => table'[o] = table[o]
  BY <1>2, <1>9 DEF Replaced
<1> HIDE DEF c, d
<1>16. p \in 1 .. Len(d) + 1
  BY <1>10, <1>13, <1>14
<1>17. it.nextEntry = IF p > Len(d) THEN None ELSE {d[p][1]}
  <2>1. CASE p > Len(d)
    <3>1. q > Len(c)
      BY <1>7, <1>11, <1>13, <1>14, <2>1
    <3> QED
      BY <1>7, <2>1, <3>1
  <2>2. CASE ~(p > Len(d))
    <3>1. ~(q > Len(c)) /\ p \in 1 .. Len(d) /\ p + 1 = q
      BY <1>7, <1>11, <1>13, <1>14, <1>16, <2>2
    <3>2. d[p] = c[q]
      BY <1>14, <3>1
    <3> QED
      BY <1>7, <2>2, <3>1, <3>2
  <2> QED
    BY <2>1, <2>2
<1>18. \A j \in 1 .. Len(d) : d[j][1] # k
  <2> TAKE j \in 1 .. Len(d)
  <2>1. CASE j < p
    <3>1. d[j] = c[j] /\ j \in 1 .. Len(c) /\ j # q - 1
      BY <1>11, <1>13, <1>14, <2>1
    <3> QED
      BY <1>7, <3>1
  <2>2. CASE ~(j < p)
    <3>1. d[j] = c[j + 1] /\ j + 1 \in 1 .. Len(c) /\ j + 1 # q - 1
      BY <1>10, <1>11, <1>13, <1>14, <2>2
    <3> QED
      BY <1>7, <3>1
  <2> QED
    BY <2>1, <2>2
<1>19. ASSUME NEW x \in Keys
       PROVE  Beyond(table', x, i, p) <=> Beyond(table, x, i, q)
  <2>1. \A o \in DOMAIN table : o > i => table'[o] = table[o]
    BY <1>2, <1>7, <1>15
  <2>2. ASSUME NEW j \in 1 .. Len(d), j >= p
        PROVE  j + 1 \in 1 .. Len(c) /\ j + 1 >= q /\ d[j] = c[j + 1]
    BY <1>10, <1>11, <1>13, <1>14, <2>2
  <2>3. ASSUME NEW j \in 1 .. Len(c), j >= q
        PROVE  j - 1 \in 1 .. Len(d) /\ j - 1 >= p /\ d[j - 1] = c[j]
    <3> DEFINE o == j - 1
    <3>1. o \in 1 .. Len(d) /\ o >= p /\ o + 1 = j
      BY <1>10, <1>11, <1>13, <1>14, <2>3
    <3> HIDE DEF o
    <3>2. d[o] = c[j]
      BY <1>10, <1>14, <3>1
    <3> QED
      BY <3>1, <3>2 DEF o
  <2>4. (\E j \in 1 .. Len(d) : j >= p /\ d[j][1] = x)
          <=> \E j \in 1 .. Len(c) : j >= q /\ c[j][1] = x
    BY <2>2, <2>3
  <2>5. table[i] = c /\ table'[i] = d
    BY <1>15 DEF c
  <2> QED
    BY <1>15, <2>1, <2>4, <2>5 DEF Beyond
<1>20. \A x \in Keys : Left(x)' <=> Left(x)
  BY <1>1 DEF Left
<1>21. /\ iter'[1].index = i /\ iter'[1].entry = {k} /\ iter'[1].nextEntry = it.nextEntry
  BY <1>1, <1>7 DEF it, i
<1>22. Cardinality(DOMAIN table') = size
  BY <1>15 DEF size
<1>23. At(iter[1], table, k, p)'
  <2>1. \A x \in Keys : Left(x)' <=> Beyond(table', x, i, p)
    BY <1>7, <1>19, <1>20
  <2>2. \A j \in 1 .. Len(d) : d[j][1] = k => j = p - 1
    BY <1>18
  <2> QED
    BY <1>1, <1>7, <1>15, <1>16, <1>17, <1>21, <1>22, <2>1, <2>2 DEF At
<1>24. p \in Nat
  BY <1>10
<1>25. \E x \in Keys, r \in Nat : At(iter[1], table, x, r)'
  BY <1>6, <1>23, <1>24, Zenon
<1> QED
  BY <1>1, <1>25 DEF Walk, Closed

LEMMA WalkStep ==
  ASSUME Tidy, Walk, [Next]_vars
  PROVE  Walk'
<1>1. ASSUME Closed, UNCHANGED iter
      PROVE  Walk'
  BY <1>1 DEF Walk, Closed
<1>2. CASE \E k \in Keys, v \in Vals, replace \in BOOLEAN : Add(k, v, replace)
  BY <1>1, <1>2 DEF Add
<1>3. CASE \E k \in Keys : Delete(k)
  BY <1>1, <1>3 DEF Delete
<1>4. CASE Empty
  BY <1>1, <1>4 DEF Empty
<1>5. CASE TryResize
  BY <1>1, <1>5 DEF TryResize
<1>6. CASE DeleteRandom
  BY <1>1, <1>6 DEF DeleteRandom
<1>7. CASE GetIterator
  <2>1. /\ iter' = <<[index |-> -1, entry |-> None, nextEntry |-> None]>>
        /\ given' = <<>> /\ there' = KeysOf(Entries) /\ UNCHANGED table
    BY <1>7 DEF GetIterator, KeysOf
  <2>2. Entries' = Entries
    BY <2>1 DEF Entries
  <2>3. KeysOf(Entries) \subseteq Keys
    BY TidyShape DEF KeysOf
  <2>4. AtStart(iter[1])'
    BY <2>1, <2>2 DEF AtStart
  <2> QED
    BY <2>1, <2>3, <2>4 DEF Walk
<1>8. CASE DictNext
  BY <1>8, DictNextStep
<1>9. CASE DeleteGiven
  BY <1>9, DeleteGivenStep
<1>10. CASE UNCHANGED vars
  <2>1. UNCHANGED <<table, iter, given, there>> /\ Entries' = Entries
    BY <1>10 DEF vars, history, Entries
  <2> QED
    BY <2>1 DEF Walk, Closed, At, AtStart, Left
<1> QED
  BY <1>2, <1>3, <1>4, <1>5, <1>6, <1>7, <1>8, <1>9, <1>10 DEF Next

-----------------------------------------------------------------------------
(* The theorems.                                                           *)

Inv == Tidy /\ Walk

LEMMA InvInit == Init => Inv
<1> SUFFICES ASSUME Init
             PROVE  Inv
  OBVIOUS
<1>1. Tidy
  BY EmptyFits DEF Init, Tidy
<1>2. Walk
  BY DEF Init, Walk, Closed
<1> QED
  BY <1>1, <1>2 DEF Inv

LEMMA InvStep == Inv /\ [Next]_vars => Inv' /\ Effect
<1> SUFFICES ASSUME Inv, [Next]_vars
             PROVE  Inv' /\ Effect
  OBVIOUS
<1>1. GivesKeys
  BY DEF Inv, Walk, GivesKeys, AtStart, At, None
<1> QED
  BY <1>1, TidyStep, WalkStep DEF Inv

LEMMA InvAlways == Spec => []Inv
<1>1. Inv /\ [Next]_vars => Inv'
  BY InvStep
<1> QED
  BY InvInit, <1>1, PTL DEF Spec

\* The table: every entry is in the slot of its hash, once, ht->used of them, and on
\* average one per slot at most, whatever is added, deleted, resized and iterated.
THEOREM DictTypes == Spec => []TypeOK
<1>1. Inv => TypeOK
  <2> SUFFICES ASSUME Inv
               PROVE  TypeOK
    OBVIOUS
  <2>1. Shaped(table, size) /\ DOMAIN table = 0 .. size - 1 /\ Entries = EntriesOf(table)
    BY TidyShape DEF Inv
  <2>2. used = Cardinality(Entries) /\ used <= size /\ (size = 0 \/ size = NextPower(size))
    BY <2>1 DEF Inv, Tidy, Fits, size
  <2>3. ASSUME NEW i \in DOMAIN table
        PROVE  /\ \A n \in DOMAIN table[i] : /\ table[i][n] \in Keys \X Vals
                                              /\ Slot(table[i][n][1], size) = i
               /\ \A n, o \in DOMAIN table[i] : table[i][n][1] = table[i][o][1] => n = o
    <3>1. Chain(table[i], i, size)
      BY <2>1 DEF Shaped
    <3>2. DOMAIN table[i] = 1 .. Len(table[i])
      BY <3>1 DEF Chain
    <3> QED
      BY <3>1, <3>2 DEF Chain
  <2>4. Len(iter) <= 1
    BY DEF Inv, Walk
  <2> QED
    BY <2>2, <2>3, <2>4 DEF TypeOK
<1> QED
  BY InvAlways, <1>1, PTL

\* An iterator, whose user may delete every key it is given, gives each key that was
\* there once.
THEOREM IteratorGivesAllOnce == Spec => []GivenOnce
<1>1. Inv => GivenOnce
  <2> SUFFICES ASSUME Inv, ~Closed
               PROVE  GivenOnce
    BY DEF GivenOnce
  <2> DEFINE it == iter[1]
  <2>1. /\ there \subseteq Keys /\ given \in Seq(there)
        /\ \A n, o \in 1 .. Len(given) : given[n] = given[o] => n = o
    BY DEF Inv, Walk
  <2>2. ASSUME Step(it).entry = None
        PROVE  Range(given) = there
    <3>1. (it.entry = None \/ it.nextEntry = None) /\ Later(it)
      <4>1. ~(it.entry # None /\ it.nextEntry # None)
        BY <2>2 DEF Step
      <4> QED
        BY <4>1, WalkIs DEF Inv
    <3>2. Step(it) = FirstFrom(it.index) /\ it.index \in -1 .. size - 1
      BY <3>1 DEF Step, Later
    <3> HIDE DEF it
    <3>3. Shaped(table, size)
      BY TidyShape DEF Inv
    <3>4. \A l \in DOMAIN table : l > it.index => table[l] = <<>>
      <4>1. \A x : {x} # None
        BY DEF None
      <4> QED
        BY <2>2, <3>2, <3>3, <4>1, FirstFromIs
    <3>5. \A x \in Keys : ~Left(x)
      BY <3>1, <3>4 DEF Later
    <3>6. Range(given) \subseteq there
      BY <2>1 DEF Range
    <3> QED
      BY <2>1, <3>5, <3>6 DEF Left
  <2> QED
    BY <2>1, <2>2 DEF GivenOnce
<1> QED
  BY InvAlways, <1>1, PTL

-----------------------------------------------------------------------------
(* The table is a map.                                                     *)

\* The map that entries make.
ValueIn(entries, k) == CHOOSE v \in Vals : <<k, v>> \in entries
MapOf(entries) == [k \in KeysOf(entries) |-> ValueIn(entries, k)]

LEMMA MapPut ==
  ASSUME NEW E, NEW k, NEW v \in Vals
  PROVE  MapOf(Other(E, k) \cup {<<k, v>>}) =
           [x \in DOMAIN MapOf(E) \cup {k} |-> IF x = k THEN v ELSE MapOf(E)[x]]
<1> DEFINE new == Other(E, k) \cup {<<k, v>>}
<1>1. KeysOf(new) = KeysOf(E) \cup {k}
  <2>1. <<k, v>> \in new /\ <<k, v>>[1] = k
    OBVIOUS
  <2>2. \A e \in new : e \in E \/ e[1] = k
    BY DEF Other
  <2>3. \A e \in E : e \in new \/ e[1] = k
    BY DEF Other
  <2> HIDE DEF new
  <2> QED
    BY <2>1, <2>2, <2>3 DEF KeysOf
<1>2. ValueIn(new, k) = v
  <2>1. \A w : <<k, w>> \in new <=> w = v
    BY DEF Other
  <2> HIDE DEF new
  <2> QED
    BY <2>1 DEF ValueIn
<1>3. ASSUME NEW x, x # k
      PROVE  ValueIn(new, x) = ValueIn(E, x)
  <2>1. \A w : <<x, w>> \in new <=> <<x, w>> \in E
    BY <1>3 DEF Other
  <2> HIDE DEF new
  <2> QED
    BY <2>1, Zenon DEF ValueIn
<1> HIDE DEF new
<1>4. MapOf(new) = [x \in DOMAIN MapOf(E) \cup {k} |-> IF x = k THEN v ELSE MapOf(E)[x]]
  BY <1>1, <1>2, <1>3 DEF MapOf
<1> QED
  BY <1>4 DEF new

LEMMA MapRemove ==
  ASSUME NEW E, NEW k
  PROVE  MapOf(Other(E, k)) = [x \in DOMAIN MapOf(E) \ {k} |-> MapOf(E)[x]]
<1>1. KeysOf(Other(E, k)) = KeysOf(E) \ {k}
  BY DEF KeysOf, Other
<1>2. ASSUME NEW x, x # k
      PROVE  ValueIn(Other(E, k), x) = ValueIn(E, x)
  <2>1. \A w : <<x, w>> \in Other(E, k) <=> <<x, w>> \in E
    BY <1>2 DEF Other
  <2> QED
    BY <2>1, Zenon DEF ValueIn
<1> QED
  BY <1>1, <1>2 DEF MapOf

LEMMA EffectIsMapStep == Effect => [M!Next]_M!vars
<1> SUFFICES ASSUME Effect
             PROVE  [M!Next]_M!vars
  OBVIOUS
<1>1. Contents = MapOf(Entries) /\ Contents' = MapOf(Entries')
  BY DEF Contents, MapOf, ValueIn, KeysOf
<1> HIDE DEF Contents
<1>2. ASSUME NEW k \in Keys, NEW v \in Vals, did' = <<"put", k, v>>,
             Entries' = Other(Entries, k) \cup {<<k, v>>}
      PROVE  M!Put(k, v)
  <2>1. MapOf(Entries') =
          [x \in DOMAIN MapOf(Entries) \cup {k} |-> IF x = k THEN v ELSE MapOf(Entries)[x]]
    BY <1>2, MapPut
  <2>2. Contents' = [x \in DOMAIN Contents \cup {k} |-> IF x = k THEN v ELSE Contents[x]]
    BY <1>1, <2>1, Zenon
  <2> QED
    BY <1>2, <2>2 DEF M!Put
<1>3. ASSUME NEW k \in KeysOf(Entries), did' = <<"remove", k>>, Entries' = Other(Entries, k)
      PROVE  k \in DOMAIN Contents /\ M!Remove(k)
  <2>1. DOMAIN Contents = KeysOf(Entries)
    BY <1>1 DEF MapOf
  <2> QED
    <3>1. MapOf(Entries') =
            [x \in DOMAIN MapOf(Entries) \ {k} |-> MapOf(Entries)[x]]
      BY <1>3, MapRemove
    <3>2. Contents' = [x \in DOMAIN Contents \ {k} |-> Contents[x]]
      BY <1>1, <3>1, Zenon
    <3> QED
      BY <1>3, <2>1, <3>2 DEF M!Remove
<1>4. CASE did' = <<"clear">> /\ Entries' = {}
  <2>1. MapOf({}) = [k \in {} |-> {}]
    BY DEF MapOf, KeysOf
  <2> QED
    BY <1>1, <1>4, <2>1 DEF M!Next, M!Clear
<1>5. CASE did' = <<"keep">> /\ Entries' = Entries
  BY <1>1, <1>5 DEF M!Next, M!Keep
<1>6. CASE did' = did /\ Entries' = Entries
  BY <1>1, <1>6 DEF M!vars
<1> QED
  BY <1>2, <1>3, <1>4, <1>5, <1>6 DEF Effect, M!Next

\* The hash table implements a map: growing, shrinking and iterating do not show, a key
\* that is put is there with its value, and one that is removed is gone.
THEOREM DictIsMap == Spec => IsMap
<1>1. Init => M!Init
  <2> SUFFICES ASSUME Init
               PROVE  M!Init
    OBVIOUS
  <2>1. Entries = {} /\ did = <<"keep">>
    BY EmptyIs DEF Init, Entries, EntriesOf
  <2>2. Contents = [k \in {} |-> {}]
    BY <2>1 DEF Contents
  <2> QED
    BY <2>1, <2>2 DEF M!Init
<1>2. Inv /\ [Next]_vars => [M!Next]_M!vars
  BY InvStep, EffectIsMapStep
<1> QED
  BY InvAlways, <1>1, <1>2, PTL DEF Spec, IsMap, M!Spec

=============================================================================
