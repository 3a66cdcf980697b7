--------------------------- MODULE AlgorithmsProofs ---------------------------
(***************************************************************************)
(* Theorems about the algorithms. For any databases the dump can hold,     *)
(* what rdbLoad reads of the file rdbSave writes is what was saved,        *)
(* without the keys that have expired in between; and a dump that ends     *)
(* early is not read. For any lists, sets and indexes, the list and set    *)
(* commands answer with the elements that are meant. A line is cut into    *)
(* pieces that are the line again when they are joined and that do not     *)
(* hold the separator. A pattern matches the strings that are made of what *)
(* its pieces stand for.                                                   *)
(*                                                                         *)
(* The functions that read give what they read and the bytes behind it.    *)
(* ReadsAs(e, s) and the lemmas that follow it are about one thing written *)
(* with anything behind it: a number in bytes, a length, a number as text, *)
(* a string, a list, an entry, a database. The loop of rdbLoad is a        *)
(* function from the turns to what has been read after them; Advances and  *)
(* Reaches follow it through the entries and the databases. Longer(a, b,   *)
(* g) compares reading a file with reading the same file and more bytes: a *)
(* file that is cut short gives the same, with fewer bytes behind it, or   *)
(* fails. As the whole dump leaves no byte behind, a shorter one fails.    *)
(*                                                                         *)
(* The walk of LREM has taken away, up to every position, the first of the *)
(* equal elements or, as long as its count is not reached, all of them     *)
(* (WalkedTo); from the tail it is the same walk over the list in reverse. *)
(* What is left is a list of the elements at a set of positions, and the   *)
(* set determines it (ListedIs).                                           *)
(*                                                                         *)
(* The loop of sdssplitlen keeps that what it has cut off and what is left *)
(* are the line (Splits), and that the separator is not in what it has     *)
(* gone over since the last cut.                                           *)
(*                                                                         *)
(* stringmatchlen is a function of the position in the pattern, from its   *)
(* end on: where the text of a piece stands (Shows), a turn takes that     *)
(* piece (PieceTurn), and in a class a turn of the inner loop one of its   *)
(* items (ItemTurn).                                                       *)
(***************************************************************************)
EXTENDS Algorithms, Induction, SequenceTheorems, FiniteSetTheorems, TLAPS

Byte == 0 .. 255
Bytes == Seq(Byte)

-----------------------------------------------------------------------------
(* Numbers and their bytes.                                                *)

LEMMA ByteIs == \A x \in Byte : x \in Int /\ 0 <= x /\ x < 256
BY DEF Byte

LEMMA ByteOf ==
  ASSUME NEW b \in Bytes, NEW i \in 1 .. Len(b)
  PROVE  b[i] \in Byte /\ b[i] \in Int
<1>1. b[i] \in Byte
  BY ElementOfSeq DEF Bytes
<1> QED
  BY <1>1, ByteIs

LEMMA Length ==
  ASSUME NEW b \in Bytes
  PROVE  Len(b) \in Nat
BY DEF Bytes

\* A number and its next byte, from the first to the last.
LEMMA FromBytesIs ==
  ASSUME NEW above \in Int, NEW b \in Bytes
  PROVE  \E f : /\ f[0] = above /\ FromBytes(above, b) = f[Len(b)]
                /\ \A i \in 0 .. Len(b) : f[i] \in Int
                /\ \A i \in 1 .. Len(b) : f[i] = f[i - 1] * 256 + b[i]
<1> DEFINE n == Len(b)
           Step == [i \in 1 .. n |-> [v \in Int |-> v * 256 + b[i]]]
           Fun(f) == f = [i \in 0 .. n |-> IF i = 0 THEN above ELSE f[i - 1] * 256 + b[i]]
           g == CHOOSE f : Fun(f)
<1>1. n \in Nat /\ \A i \in 1 .. n : b[i] \in Int
  BY Length, ByteOf
<1>2. \A i \in 1 .. n : \A v \in Int : Step[i][v] = v * 256 + b[i] /\ Step[i][v] \in Int
  BY <1>1
<1> DEFINE V == Int
<1>3. Step \in [1 .. n -> [V -> V]] /\ above \in V
  BY <1>2
<1> HIDE DEF n, V, Step
<1>4. Fun(g)
  <2>1. PICK f : Recurses(f, n, V, above, Step)
    BY <1>1, <1>3, Recursion
  <2>2. ASSUME NEW i \in 1 .. n
        PROVE  f[i] = f[i - 1] * 256 + b[i]
    <3>1. i - 1 \in 0 .. n
      BY <1>1
    <3>2. f[i - 1] \in Int
      BY <2>1, <3>1 DEF V, Recurses
    <3> QED
      BY <1>2, <2>1, <3>2, ZenonT(60) DEF Recurses
  <2>3. Fun(f)
    BY <1>1, <2>1, <2>2 DEF Recurses
  <2> QED
    BY <2>3, ZenonT(60)
<1>6. FromBytes(above, b) = g[n]
  BY DEF FromBytes, n
<1> HIDE DEF g
<1>7. g[0] = above /\ \A i \in 1 .. n : g[i] = g[i - 1] * 256 + b[i]
  BY <1>1, <1>4
<1>8. \A i \in 0 .. n : g[i] \in V
  <2>1. g[0] \in V /\ \A i \in 1 .. n : g[i - 1] \in V => g[i] \in V
    BY <1>1, <1>7 DEF V
  <2> QED
    BY <1>1, <2>1, RecursionType
<1> QED
  BY <1>6, <1>7, <1>8 DEF n, V

LEMMA FromBytesOf ==
  ASSUME NEW above \in Int, NEW b \in Bytes
  PROVE  /\ Len(b) = 1 => FromBytes(above, b) = above * 256 + b[1]
         /\ Len(b) = 2 => FromBytes(above, b) = (above * 256 + b[1]) * 256 + b[2]
         /\ Len(b) = 4 => FromBytes(above, b)
                            = (((above * 256 + b[1]) * 256 + b[2]) * 256 + b[3]) * 256 + b[4]
<1>1. PICK f : /\ f[0] = above /\ FromBytes(above, b) = f[Len(b)]
               /\ \A i \in 1 .. Len(b) : f[i] = f[i - 1] * 256 + b[i]
  BY FromBytesIs
<1>2. Len(b) >= 1 /\ Len(b) \in Nat => f[1] = above * 256 + b[1]
  BY <1>1
<1>3. Len(b) >= 2 /\ Len(b) \in Nat => f[2] = f[1] * 256 + b[2]
  BY <1>1
<1>4. Len(b) >= 4 /\ Len(b) \in Nat => f[3] = f[2] * 256 + b[3] /\ f[4] = f[3] * 256 + b[4]
  BY <1>1
<1> DEFINE n == Len(b)
<1> HIDE DEF n
<1>5. /\ n = 1 => f[n] = f[1]
      /\ n = 2 => f[n] = f[2]
      /\ n = 4 => f[n] = f[4]
  OBVIOUS
<1> QED
  BY <1>1, <1>2, <1>3, <1>4, <1>5 DEF n

-----------------------------------------------------------------------------
(* The bytes of a number, and the number again.                            *)

\* A number without its last byte, its last two, its last three.
Above1(v) == v \div 256
Above2(v) == v \div 65536
Above3(v) == v \div 16777216

\* w, x and y are such.
Shifted(v, w, x, y) ==
  /\ v \in Int /\ w \in Int /\ x \in Int /\ y \in Int
  /\ v = w * 256 + (v % 256) /\ w = x * 256 + (w % 256) /\ x = y * 256 + (x % 256)

LEMMA Shifts ==
  ASSUME NEW v \in Int
  PROVE  Shifted(v, Above1(v), Above2(v), Above3(v))
<1>1. v = (v \div 256) * 256 + (v % 256)
  BY SMT
<1>2. v \div 256 = (v \div 65536) * 256 + ((v \div 256) % 256)
  BY SMT
<1>3. v \div 65536 = (v \div 16777216) * 256 + ((v \div 65536) % 256)
  BY SMT
<1>4. v \div 256 \in Int /\ v \div 65536 \in Int /\ v \div 16777216 \in Int
  BY SMT
<1> QED
  BY <1>1, <1>2, <1>3, <1>4, SMT DEF Shifted, Above1, Above2, Above3

LEMMA IntMod == \A v \in Int : v % 256 \in Byte
BY DEF Byte

\* What is above a byte, seen from the byte, is its sign.
Sign(byte) == IF byte >= 128 THEN -1 ELSE 0

LEMMA SignIs ==
  ASSUME NEW y \in -128 .. 127
  PROVE  Sign(y % 256) * 256 + (y % 256) = y
BY DEF Sign

\* The low bytes of a number.
LEMMA LowBytesIs ==
  ASSUME NEW v \in Int, NEW n \in 1 .. 4
  PROVE  LET b == LowBytes(v, n)
         IN /\ b \in Bytes /\ Len(b) = n /\ b[1] = v % 256
            /\ n >= 2 => b[2] = Above1(v) % 256
            /\ n = 4 => b[3] = Above2(v) % 256 /\ b[4] = Above3(v) % 256
<1> DEFINE x1 == v % 256
           x2 == Above1(v) % 256
           x3 == Above2(v) % 256
           x4 == Above3(v) % 256
           t == <<x1, x2, x3, x4>>
<1>1. x1 \in Byte /\ x2 \in Byte /\ x3 \in Byte /\ x4 \in Byte
  BY IntMod, Shifts DEF Shifted
<1>2. LowBytes(v, n) = SubSeq(t, 1, n)
  BY SMT DEF LowBytes, Above1, Above2, Above3
<1> HIDE DEF x1, x2, x3, x4
<1>3. t[1] = x1 /\ t[2] = x2 /\ t[3] = x3 /\ t[4] = x4
  OBVIOUS
<1> HIDE DEF t
<1>4. \A i \in 1 .. n : t[i] \in Byte
  BY <1>1, <1>3
<1> DEFINE b == SubSeq(t, 1, n)
<1>5. b \in Bytes /\ Len(b) = n /\ \A i \in 1 .. n : b[i] = t[i]
  BY <1>4, SubSeqProperties DEF Bytes
<1> HIDE DEF b
<1>6. b[1] = x1 /\ (n >= 2 => b[2] = x2) /\ (n = 4 => b[3] = x3 /\ b[4] = x4)
  BY <1>3, <1>5
<1> QED
  BY <1>2, <1>5, <1>6 DEF b, x1, x2, x3, x4

LEMMA ReverseIs ==
  ASSUME NEW b \in Bytes
  PROVE  /\ Reverse(b) \in Bytes /\ Len(Reverse(b)) = Len(b)
         /\ \A i \in 1 .. Len(b) : Reverse(b)[i] = b[Len(b) - i + 1]
<1> DEFINE n == Len(b)
           r == [i \in 1 .. n |-> b[(n - i) + 1]]
<1>1. n \in Nat /\ \A i \in 1 .. n : b[i] \in Byte
  BY Length, ByteOf
<1>2. Reverse(b) = r
  BY DEF Reverse
<1> HIDE DEF n
<1>3. \A i \in 1 .. n : (n - i) + 1 \in 1 .. n /\ r[i] = b[(n - i) + 1]
  BY <1>1
<1>4. \A i \in 1 .. n : r[i] \in Byte
  BY <1>1, <1>3
<1>5. r \in Seq(Byte) /\ Len(r) = n
  BY <1>1, <1>4, IsASeq
<1> HIDE DEF r
<1> QED
  BY <1>2, <1>3, <1>5 DEF n, Bytes

\* The last of the low bytes tells the sign.
LEMMA FromLowBytesIs ==
  ASSUME NEW b \in Bytes
  PROVE  /\ Len(b) = 1 => FromLowBytes(b) = Sign(b[1]) * 256 + b[1]
         /\ Len(b) = 2 => FromLowBytes(b) = (Sign(b[2]) * 256 + b[2]) * 256 + b[1]
         /\ Len(b) = 4 => FromLowBytes(b)
              = (((Sign(b[4]) * 256 + b[4]) * 256 + b[3]) * 256 + b[2]) * 256 + b[1]
<1> DEFINE r == Reverse(b)
           n == Len(b)
           sign == Sign(b[n])
<1>1. /\ r \in Bytes /\ Len(r) = n
      /\ \A i \in 1 .. n : r[i] = b[n - i + 1]
  BY ReverseIs
<1>2. sign \in Int
  BY DEF Sign
<1>3. FromLowBytes(b) = FromBytes(sign, r)
  BY DEF FromLowBytes, Sign, Last
<1> HIDE DEF r, sign
<1>4. /\ Len(r) = 1 => FromBytes(sign, r) = sign * 256 + r[1]
      /\ Len(r) = 2 => FromBytes(sign, r) = (sign * 256 + r[1]) * 256 + r[2]
      /\ Len(r) = 4 => FromBytes(sign, r)
                         = (((sign * 256 + r[1]) * 256 + r[2]) * 256 + r[3]) * 256 + r[4]
  BY <1>1, <1>2, FromBytesOf, ZenonT(60)
<1>5. n = 1 => r[1] = b[1] /\ sign = Sign(b[1])
  BY <1>1 DEF sign
<1>6. n = 2 => r[1] = b[2] /\ r[2] = b[1] /\ sign = Sign(b[2])
  BY <1>1 DEF sign
<1>7. n = 4 => r[1] = b[4] /\ r[2] = b[3] /\ r[3] = b[2] /\ r[4] = b[1] /\ sign = Sign(b[4])
  BY <1>1 DEF sign
<1> HIDE DEF n
<1>8. CASE n = 1
  BY <1>1, <1>3, <1>4, <1>5, <1>8 DEF n
<1>9. CASE n = 2
  BY <1>1, <1>3, <1>4, <1>6, <1>9 DEF n
<1>10. CASE n = 4
  BY <1>1, <1>3, <1>4, <1>7, <1>10 DEF n
<1> QED
  BY <1>8, <1>9, <1>10 DEF n

\* A signed number of n bytes is read as it was written.
LEMMA SignedBack ==
  ASSUME NEW v \in Int
  PROVE  /\ v \in -128 .. 127 => FromLowBytes(LowBytes(v, 1)) = v
         /\ Above1(v) \in -128 .. 127 => FromLowBytes(LowBytes(v, 2)) = v
         /\ Above3(v) \in -128 .. 127 => FromLowBytes(LowBytes(v, 4)) = v
<1> DEFINE w == Above1(v)
           x == Above2(v)
           y == Above3(v)
<1>1. Shifted(v, w, x, y)
  BY Shifts
<1>2. LET b == LowBytes(v, 1)
      IN b \in Bytes /\ Len(b) = 1 /\ b[1] = v % 256
  BY LowBytesIs
<1>3. LET b == LowBytes(v, 2)
      IN b \in Bytes /\ Len(b) = 2 /\ b[1] = v % 256 /\ b[2] = w % 256
  BY LowBytesIs
<1>4. LET b == LowBytes(v, 4)
      IN b \in Bytes /\ Len(b) = 4 /\ b[1] = v % 256 /\ b[2] = w % 256 /\ b[3] = x % 256 /\ b[4] = y % 256
  BY LowBytesIs
<1> HIDE DEF w, x, y
<1>5. v \in -128 .. 127 => FromLowBytes(LowBytes(v, 1)) = v
  <2>1. FromLowBytes(LowBytes(v, 1)) = Sign(v % 256) * 256 + (v % 256)
    BY <1>2, FromLowBytesIs
  <2> QED
    BY <2>1, SignIs
<1>6. w \in -128 .. 127 => FromLowBytes(LowBytes(v, 2)) = v
  <2>1. FromLowBytes(LowBytes(v, 2)) = (Sign(w % 256) * 256 + (w % 256)) * 256 + (v % 256)
    BY <1>3, FromLowBytesIs
  <2> QED
    BY <1>1, <2>1, SignIs, ZenonT(60) DEF Shifted
<1>7. y \in -128 .. 127 => FromLowBytes(LowBytes(v, 4)) = v
  <2>1. FromLowBytes(LowBytes(v, 4))
          = (((Sign(y % 256) * 256 + (y % 256)) * 256 + (x % 256)) * 256 + (w % 256)) * 256 + (v % 256)
    BY <1>4, FromLowBytesIs
  <2> SUFFICES ASSUME y \in -128 .. 127
               PROVE  FromLowBytes(LowBytes(v, 4)) = v
    OBVIOUS
  <2>2. Sign(y % 256) * 256 + (y % 256) = y
    BY SignIs
  <2>3. FromLowBytes(LowBytes(v, 4)) = ((y * 256 + (x % 256)) * 256 + (w % 256)) * 256 + (v % 256)
    BY <2>1, <2>2
  <2> QED
    BY <1>1, <2>3 DEF Shifted
<1> QED
  BY <1>5, <1>6, <1>7 DEF w, y

\* A length of four bytes, the highest first, is read as it was written.
LEMMA LengthBack ==
  ASSUME NEW v \in Nat, Above3(v) < 256
  PROVE  /\ Reverse(LowBytes(v, 4)) \in Bytes /\ Len(Reverse(LowBytes(v, 4))) = 4
         /\ FromBytes(0, Reverse(LowBytes(v, 4))) = v
<1> DEFINE w == Above1(v)
           x == Above2(v)
           y == Above3(v)
           b == LowBytes(v, 4)
           r == Reverse(b)
<1>1. Shifted(v, w, x, y)
  BY Shifts
<1>2. b \in Bytes /\ Len(b) = 4 /\ b[1] = v % 256 /\ b[2] = w % 256 /\ b[3] = x % 256 /\ b[4] = y % 256
  BY LowBytesIs
<1>3. y \in 0 .. 255
  BY SMT DEF Above3
<1> HIDE DEF w, x, y, b
<1>4. r \in Bytes /\ Len(r) = 4 /\ r[1] = b[4] /\ r[2] = b[3] /\ r[3] = b[2] /\ r[4] = b[1]
  <2>1. r \in Bytes /\ Len(r) = Len(b) /\ \A i \in 1 .. Len(b) : r[i] = b[Len(b) - i + 1]
    BY <1>2, ReverseIs
  <2> HIDE DEF r
  <2> QED
    BY <1>2, <2>1
<1> HIDE DEF r
<1>5. FromBytes(0, r) = (((0 * 256 + r[1]) * 256 + r[2]) * 256 + r[3]) * 256 + r[4]
  BY <1>4, FromBytesOf
<1>6. y % 256 = y
  BY <1>3
<1>7. FromBytes(0, r) = v
  BY <1>1, <1>2, <1>4, <1>5, <1>6 DEF Shifted
<1> QED
  BY <1>4, <1>7 DEF r, b

-----------------------------------------------------------------------------
(* Reading what was written, with anything behind it.                      *)

LEMMA GotIs ==
  ASSUME NEW v, NEW r
  PROVE  Got(v, r).ok /\ Got(v, r).val = v /\ Got(v, r).rest = r /\ ~Got(v, r).encoded
BY DEF Got

LEMMA EncodingIs ==
  ASSUME NEW v, NEW r
  PROVE  /\ Encoding(v, r).ok /\ Encoding(v, r).val = v
         /\ Encoding(v, r).rest = r /\ Encoding(v, r).encoded
BY DEF Encoding

LEMMA ShortIs == ~Short.ok
BY DEF Short

LEMMA AsIs ==
  ASSUME NEW w
  PROVE  /\ \A v, r : As(Got(v, r), w) = Got(w, r) /\ As(Encoding(v, r), w) = Got(w, r)
         /\ As(Short, w) = Short
BY GotIs, EncodingIs, ShortIs DEF As

LEMMA BytesJoin ==
  ASSUME NEW s \in Bytes, NEW g \in Bytes
  PROVE  s \o g \in Bytes /\ Len(s \o g) = Len(s) + Len(g)
BY ConcatProperties DEF Bytes

LEMMA BytesAssociate ==
  ASSUME NEW s \in Bytes, NEW t \in Bytes, NEW g \in Bytes
  PROVE  (s \o t) \o g = s \o (t \o g)
BY ConcatAssociative DEF Bytes

LEMMA OneByte ==
  ASSUME NEW x \in Byte
  PROVE  <<x>> \in Bytes /\ Len(<<x>>) = 1 /\ <<x>>[1] = x
<1>1. <<>> \in Bytes
  BY EmptySeq DEF Bytes
<1>2. Append(<<>>, x) \in Bytes
  BY <1>1, AppendProperties DEF Bytes
<1>3. Append(<<>>, x) = <<x>>
  OBVIOUS
<1> QED
  BY <1>2, <1>3

\* A string cut in two.
LEMMA Cut ==
  ASSUME NEW f \in Bytes, NEW n \in 0 .. Len(f)
  PROVE  /\ SubSeq(f, 1, n) \in Bytes /\ Len(SubSeq(f, 1, n)) = n
         /\ SubSeq(f, n + 1, Len(f)) \in Bytes /\ Len(SubSeq(f, n + 1, Len(f))) = Len(f) - n
         /\ SubSeq(f, 1, n) \o SubSeq(f, n + 1, Len(f)) = f
<1> DEFINE m == Len(f)
           s == SubSeq(f, 1, n)
           t == SubSeq(f, n + 1, m)
<1>1. m \in Nat /\ n \in Nat /\ n <= m /\ \A i \in 1 .. m : f[i] \in Byte
  BY Length, ByteOf
<1> HIDE DEF m
<1>2. \A i \in 1 .. n : f[i] \in Byte
  BY <1>1
<1>3. s \in Seq(Byte) /\ Len(s) = IF 1 <= n THEN n - 1 + 1 ELSE 0
  BY <1>1, <1>2, SubSeqProperties
<1>4. \A i \in n + 1 .. m : f[i] \in Byte
  BY <1>1
<1>5. n + 1 \in Int /\ m \in Int
  BY <1>1
<1>6. t \in Seq(Byte) /\ Len(t) = IF n + 1 <= m THEN m - (n + 1) + 1 ELSE 0
  BY <1>4, <1>5, SubSeqProperties
<1>7. s \o t = f
  <2>1. 1 \in 1 .. Len(f) + 1 /\ n \in 1 - 1 .. Len(f) /\ Len(f) \in n .. Len(f)
    BY <1>1 DEF m
  <2>2. s \o t = SubSeq(f, 1, Len(f))
    BY <2>1, ConcatAdjacentSubSeq DEF Bytes, m
  <2> QED
    BY <2>2, SubSeqFull DEF Bytes
<1> HIDE DEF s, t
<1>8. Len(s) = n /\ Len(t) = m - n
  BY <1>1, <1>3, <1>6
<1> QED
  BY <1>3, <1>6, <1>7, <1>8 DEF s, t, m, Bytes

\* Where a string ends in two joined ones.
LEMMA CutJoined ==
  ASSUME NEW s \in Bytes, NEW g \in Bytes
  PROVE  SubSeq(s \o g, 1, Len(s)) = s /\ SubSeq(s \o g, Len(s) + 1, Len(s \o g)) = g
<1> DEFINE f == s \o g
           n == Len(s)
           h == SubSeq(f, 1, n)
           t == SubSeq(f, n + 1, Len(f))
<1>1. f \in Bytes /\ Len(f) = n + Len(g) /\ n \in Nat /\ Len(g) \in Nat
  BY BytesJoin, Length
<1>2. \A i \in 1 .. n + Len(g) : f[i] = IF i <= n THEN s[i] ELSE g[i - n]
  BY ConcatProperties DEF Bytes
<1> HIDE DEF f, n
<1>3. n \in 0 .. Len(f)
  BY <1>1
<1>4. /\ h \in Bytes /\ Len(h) = n /\ t \in Bytes /\ Len(t) = Len(f) - n /\ h \o t = f
  BY <1>1, <1>3, Cut
<1> HIDE DEF h, t
<1>5. \A i \in 1 .. n + Len(t) : f[i] = IF i <= n THEN h[i] ELSE t[i - n]
  BY <1>4, ConcatProperties DEF Bytes
<1>6. Len(t) = Len(g)
  BY <1>1, <1>4
<1>7. \A i \in 1 .. n : h[i] = s[i]
  BY <1>1, <1>2, <1>5, <1>6
<1>8. \A i \in 1 .. Len(g) : t[i] = g[i]
  <2> TAKE i \in 1 .. Len(g)
  <2>1. n + i \in 1 .. n + Len(g) /\ ~(n + i <= n) /\ (n + i) - n = i
    BY <1>1
  <2> QED
    BY <1>2, <1>5, <1>6, <2>1
<1>9. h = s
  BY <1>4, <1>7, SeqEqual DEF Bytes, n
<1>10. t = g
  BY <1>4, <1>6, <1>8, SeqEqual DEF Bytes
<1> QED
  BY <1>9, <1>10 DEF h, t, f, n

LEMMA ReadIs ==
  ASSUME NEW s \in Bytes, NEW g \in Bytes
  PROVE  Read(s \o g, Len(s)) = Got(s, g)
<1> DEFINE f == s \o g
           n == Len(s)
<1>1. ~(Len(f) < n)
  BY BytesJoin, Length
<1>2. SubSeq(f, 1, n) = s /\ SubSeq(f, n + 1, Len(f)) = g
  BY CutJoined
<1> HIDE DEF f, n
<1>3. Read(f, n) = Got(s, g)
  BY <1>1, <1>2 DEF Read
<1> QED
  BY <1>3 DEF f, n

\* What a file begins with is read, and nothing of what is behind it, unless the file
\* is too short.
Grows(a, b, g, V) ==
  \/ a = Short
  \/ \E v \in V, r \in Bytes : a = Got(v, r) /\ b = Got(v, r \o g)

Sized(n) == {v \in Bytes : Len(v) = n}

LEMMA ReadGrows ==
  ASSUME NEW f \in Bytes, NEW g \in Bytes, NEW n \in Nat
  PROVE  Grows(Read(f, n), Read(f \o g, n), g, Sized(n))
<1>1. CASE Len(f) < n
  BY <1>1 DEF Read, Grows
<1>2. CASE ~(Len(f) < n)
  <2> DEFINE s == SubSeq(f, 1, n)
             t == SubSeq(f, n + 1, Len(f))
  <2>1. n \in 0 .. Len(f)
    BY <1>2, Length
  <2>2. s \in Bytes /\ Len(s) = n /\ t \in Bytes /\ s \o t = f
    BY <2>1, Cut
  <2> HIDE DEF s, t
  <2>3. f \o g = s \o (t \o g) /\ t \o g \in Bytes
    <3>1. (s \o t) \o g = s \o (t \o g)
      BY <2>2, BytesAssociate, ZenonT(60)
    <3>2. t \o g \in Bytes
      BY <2>2, BytesJoin
    <3> QED
      BY <2>2, <3>1, <3>2
  <2>4. Read(f, n) = Got(s, t)
    BY <2>2, ReadIs
  <2>5. Read(f \o g, n) = Got(s, t \o g)
    BY <2>2, <2>3, ReadIs
  <2>6. s \in Sized(n)
    BY <2>2 DEF Sized
  <2> QED
    BY <2>2, <2>4, <2>5, <2>6 DEF Grows
<1> QED
  BY <1>1, <1>2

-----------------------------------------------------------------------------
(* Lengths.                                                                *)

LEMMA LenBehindIs ==
  ASSUME NEW x \in Byte, NEW g
  PROVE  LET len == LenBehind(Got(<<x>>, g))
         IN /\ x \div 64 = LEN6 => len = Got(x % 64, g)
            /\ x \div 64 = ENCVAL => len = Encoding(x % 64, g)
            /\ x \div 64 = LEN14 => len = As(Read(g, 1), (x % 64) * 256 + Read(g, 1).val[1])
            /\ x \div 64 = LEN32 => len = As(Read(g, 4), FromBytes(0, Read(g, 4).val))
<1> DEFINE first == Got(<<x>>, g)
<1>1. first.val[1] = x /\ first.rest = g
  <2>1. first.val = <<x>> /\ first.rest = g
    BY GotIs
  <2> HIDE DEF first
  <2> QED
    BY <2>1, OneByte
<1>2. LEN6 = 0 /\ LEN14 = 1 /\ LEN32 = 2 /\ ENCVAL = 3
  BY DEF LEN6, LEN14, LEN32, ENCVAL
<1> HIDE DEF first
<1>3. LenBehind(first) =
        LET type == x \div 64
            more == Read(g, IF type = LEN14 THEN 1 ELSE 4)
        IN CASE type = LEN6   -> Got(x % 64, g)
             [] type = ENCVAL -> Encoding(x % 64, g)
             [] type = LEN14  -> As(more, (x % 64) * 256 + more.val[1])
             [] OTHER         -> As(more, FromBytes(0, more.val))
  BY <1>1 DEF LenBehind
<1>4. x \div 64 = LEN6 => LenBehind(first) = Got(x % 64, g)
  BY <1>2, <1>3
<1>5. x \div 64 = ENCVAL => LenBehind(first) = Encoding(x % 64, g)
  BY <1>2, <1>3
<1>6. x \div 64 = LEN14 => LenBehind(first) = As(Read(g, 1), (x % 64) * 256 + Read(g, 1).val[1])
  BY <1>2, <1>3
<1>7. x \div 64 = LEN32 => LenBehind(first) = As(Read(g, 4), FromBytes(0, Read(g, 4).val))
  BY <1>2, <1>3
<1> QED
  BY <1>4, <1>5, <1>6, <1>7 DEF first

LEMMA LoadLenIs ==
  ASSUME NEW x \in Byte, NEW g \in Bytes
  PROVE  LoadLen(<<x>> \o g) = LenBehind(Got(<<x>>, g))
<1>1. Read(<<x>> \o g, 1) = Got(<<x>>, g)
  BY OneByte, ReadIs
<1> QED
  BY <1>1, GotIs DEF LoadLen, Then

\* A length of at most four bytes is read as it was written.
LEMMA LenBack ==
  ASSUME NEW n \in Nat, Above3(n) < 256
  PROVE  /\ SaveLen(n) \in Bytes /\ Len(SaveLen(n)) > 0
         /\ \A g \in Bytes : LoadLen(SaveLen(n) \o g) = Got(n, g)
<1> DEFINE Is(s) == s \in Bytes /\ Len(s) > 0 /\ \A g \in Bytes : LoadLen(s \o g) = Got(n, g)
<1>0. LEN6 = 0 /\ LEN14 = 1 /\ LEN32 = 2
  BY DEF LEN6, LEN14, LEN32
<1>1. ASSUME n < 64
      PROVE  Is(SaveLen(n))
  <2>1. n \in Byte /\ n \div 64 = LEN6 /\ n % 64 = n
    BY <1>0, <1>1 DEF Byte
  <2>2. SaveLen(n) = <<n>>
    BY <1>0, <1>1 DEF SaveLen
  <2>3. <<n>> \in Bytes /\ Len(<<n>>) = 1
    BY <2>1, OneByte
  <2>4. ASSUME NEW g \in Bytes
        PROVE  LoadLen(<<n>> \o g) = Got(n, g)
    BY <2>1, LoadLenIs, LenBehindIs
  <2> QED
    BY <2>2, <2>3, <2>4
<1>2. ASSUME ~(n < 64), n < 16384
      PROVE  Is(SaveLen(n))
  <2> DEFINE x == n \div 256 + 64
             y == n % 256
             s == <<x>> \o <<y>>
  <2>1. x \in Byte /\ y \in Byte /\ x \div 64 = LEN14 /\ (x % 64) * 256 + y = n
    BY <1>0, <1>2 DEF Byte
  <2>2. SaveLen(n) = <<x, y>>
    BY <1>0, <1>2 DEF SaveLen
  <2> HIDE DEF x, y
  <2>4. <<x>> \in Bytes /\ <<y>> \in Bytes /\ Len(<<x>>) = 1 /\ Len(<<y>>) = 1 /\ <<y>>[1] = y
    BY <2>1, OneByte
  <2>3. <<x, y>> = s
    <3>1. <<x, y>> = Append(<<x>>, y)
      OBVIOUS
    <3>2. Append(<<x>>, y) = s
      BY <2>1, <2>4, AppendIsConcat DEF Bytes
    <3> QED
      BY <3>1, <3>2
  <2>5. s \in Bytes /\ Len(s) = 2
    BY <2>4, BytesJoin
  <2>6. ASSUME NEW g \in Bytes
        PROVE  LoadLen(s \o g) = Got(n, g)
    <3> DEFINE t == <<y>> \o g
    <3>1. s \o g = <<x>> \o t /\ t \in Bytes
      BY <2>4, BytesAssociate, BytesJoin
    <3>2. Read(t, 1) = Got(<<y>>, g)
      BY <2>4, ReadIs
    <3> HIDE DEF t, s
    <3>3. LoadLen(<<x>> \o t) = As(Read(t, 1), (x % 64) * 256 + Read(t, 1).val[1])
      BY <2>1, <3>1, LoadLenIs, LenBehindIs
    <3>4. Read(t, 1).val[1] = y
      BY <2>4, <3>2, GotIs
    <3>5. LoadLen(s \o g) = As(Got(<<y>>, g), n)
      BY <2>1, <3>1, <3>2, <3>3, <3>4
    <3> QED
      BY <3>5, AsIs
  <2> HIDE DEF s
  <2> QED
    BY <2>2, <2>3, <2>5, <2>6
<1>3. ASSUME ~(n < 64), ~(n < 16384)
      PROVE  Is(SaveLen(n))
  <2> DEFINE r == Reverse(LowBytes(n, 4))
             s == <<128>> \o r
  <2>1. 128 \in Byte /\ 128 \div 64 = LEN32
    BY <1>0 DEF Byte
  <2>2. SaveLen(n) = s
    BY <1>0, <1>3 DEF SaveLen
  <2>3. r \in Bytes /\ Len(r) = 4 /\ FromBytes(0, r) = n
    BY LengthBack
  <2> HIDE DEF r
  <2>4. <<128>> \in Bytes /\ Len(<<128>>) = 1
    BY <2>1, OneByte
  <2>5. s \in Bytes /\ Len(s) = 5
    <3>1. s \in Bytes /\ Len(s) = Len(<<128>>) + Len(r)
      BY <2>3, <2>4, BytesJoin
    <3> HIDE DEF s
    <3> QED
      BY <2>3, <2>4, <3>1
  <2>6. ASSUME NEW g \in Bytes
        PROVE  LoadLen(s \o g) = Got(n, g)
    <3> DEFINE t == r \o g
    <3>1. s \o g = <<128>> \o t /\ t \in Bytes
      BY <2>3, <2>4, BytesAssociate, BytesJoin
    <3>2. Read(t, 4) = Got(r, g)
      BY <2>3, ReadIs
    <3> HIDE DEF t, s
    <3>3. LoadLen(<<128>> \o t) = As(Read(t, 4), FromBytes(0, Read(t, 4).val))
      BY <2>1, <3>1, LoadLenIs, LenBehindIs
    <3>4. Read(t, 4).val = r
      BY <3>2, GotIs
    <3>5. LoadLen(s \o g) = As(Got(r, g), n)
      BY <2>3, <3>1, <3>2, <3>3, <3>4
    <3> QED
      BY <3>5, AsIs
  <2> HIDE DEF s
  <2> QED
    BY <2>2, <2>5, <2>6
<1> QED
  BY <1>1, <1>2, <1>3

LenGrows(a, b, g) ==
  \/ Grows(a, b, g, Nat)
  \/ \E v \in Nat, r \in Bytes : a = Encoding(v, r) /\ b = Encoding(v, r \o g)

LEMMA LoadLenGrows ==
  ASSUME NEW f \in Bytes, NEW g \in Bytes
  PROVE  LenGrows(LoadLen(f), LoadLen(f \o g), g)
<1>1. CASE Read(f, 1) = Short
  BY <1>1, ShortIs DEF LoadLen, Then, LenGrows, Grows
<1>2. CASE Read(f, 1) # Short
  <2>1. PICK b \in Sized(1), r \in Bytes :
          Read(f, 1) = Got(b, r) /\ Read(f \o g, 1) = Got(b, r \o g)
    <3>1. Grows(Read(f, 1), Read(f \o g, 1), g, Sized(1))
      BY ReadGrows
    <3> QED
      BY <1>2, <3>1 DEF Grows
  <2> DEFINE x == b[1]
  <2>0. b \in Bytes /\ Len(b) = 1
    BY DEF Sized
  <2>2. x \in Byte /\ b = <<x>>
    <3>1. x \in Byte
      BY <2>0, ByteOf
    <3>2. <<x>> \in Bytes /\ Len(<<x>>) = 1 /\ <<x>>[1] = x
      BY <3>1, OneByte
    <3> QED
      BY <2>0, <3>1, <3>2, SeqEqual DEF Bytes
  <2> HIDE DEF x
  <2>4. /\ LoadLen(f) = LenBehind(Got(<<x>>, r))
        /\ LoadLen(f \o g) = LenBehind(Got(<<x>>, r \o g))
    BY <2>1, <2>2, GotIs DEF LoadLen, Then
  <2>5. x \div 64 \in 0 .. 3 /\ x % 64 \in Nat /\ r \o g \in Bytes
    BY <2>2, BytesJoin DEF Byte
  <2>6. CASE x \div 64 = LEN6
    <3>1. LoadLen(f) = Got(x % 64, r) /\ LoadLen(f \o g) = Got(x % 64, r \o g)
      BY <2>2, <2>4, <2>6, LenBehindIs
    <3> QED
      BY <2>5, <3>1 DEF LenGrows, Grows
  <2>7. CASE x \div 64 = ENCVAL
    <3>1. LoadLen(f) = Encoding(x % 64, r) /\ LoadLen(f \o g) = Encoding(x % 64, r \o g)
      BY <2>2, <2>4, <2>7, LenBehindIs
    <3> QED
      BY <2>5, <3>1 DEF LenGrows, Grows
  <2>8. CASE x \div 64 = LEN14
    <3> DEFINE Value(m) == (x % 64) * 256 + m.val[1]
    <3>1. /\ LoadLen(f) = As(Read(r, 1), Value(Read(r, 1)))
          /\ LoadLen(f \o g) = As(Read(r \o g, 1), Value(Read(r \o g, 1)))
      BY <2>2, <2>4, <2>8, LenBehindIs
    <3>2. Grows(Read(r, 1), Read(r \o g, 1), g, Sized(1))
      BY ReadGrows
    <3>3. CASE Read(r, 1) = Short
      BY <3>1, <3>3, AsIs DEF LenGrows, Grows
    <3>4. CASE Read(r, 1) # Short
      <4>1. PICK w \in Sized(1), q \in Bytes :
              Read(r, 1) = Got(w, q) /\ Read(r \o g, 1) = Got(w, q \o g)
        BY <3>2, <3>4 DEF Grows
      <4>2. w[1] \in Nat
        BY ByteOf, ByteIs DEF Sized
      <4>3. Value(Read(r, 1)) = (x % 64) * 256 + w[1] /\ Value(Read(r \o g, 1)) = (x % 64) * 256 + w[1]
        BY <4>1, GotIs
      <4> DEFINE val == (x % 64) * 256 + w[1]
      <4>4. val \in Nat
        BY <2>5, <4>2
      <4>6. Value(Read(r, 1)) = val /\ Value(Read(r \o g, 1)) = val
        BY <4>3
      <4> HIDE DEF val, Value
      <4>5. LoadLen(f) = Got(val, q) /\ LoadLen(f \o g) = Got(val, q \o g)
        BY <3>1, <4>1, <4>6, AsIs
      <4> QED
        BY <4>4, <4>5 DEF LenGrows, Grows
    <3> QED
      BY <3>3, <3>4
  <2>9. CASE x \div 64 = LEN32
    <3> DEFINE Value(m) == FromBytes(0, m.val)
    <3>1. /\ LoadLen(f) = As(Read(r, 4), Value(Read(r, 4)))
          /\ LoadLen(f \o g) = As(Read(r \o g, 4), Value(Read(r \o g, 4)))
      BY <2>2, <2>4, <2>9, LenBehindIs
    <3>2. Grows(Read(r, 4), Read(r \o g, 4), g, Sized(4))
      BY ReadGrows
    <3>3. CASE Read(r, 4) = Short
      BY <3>1, <3>3, AsIs DEF LenGrows, Grows
    <3>4. CASE Read(r, 4) # Short
      <4>1. PICK w \in Sized(4), q \in Bytes :
              Read(r, 4) = Got(w, q) /\ Read(r \o g, 4) = Got(w, q \o g)
        BY <3>2, <3>4 DEF Grows
      <4>2. w[1] \in Byte /\ w[2] \in Byte /\ w[3] \in Byte /\ w[4] \in Byte
        <5>1. w \in Bytes /\ Len(w) = 4
          BY DEF Sized
        <5>2. \A i \in 1 .. Len(w) : w[i] \in Byte
          BY <5>1, ByteOf
        <5> QED
          BY <5>1, <5>2
      <4> DEFINE val == FromBytes(0, w)
      <4>3. Value(Read(r, 4)) = val /\ Value(Read(r \o g, 4)) = val
        BY <4>1, GotIs
      <4>4. val \in Nat
        <5>1. val = (((0 * 256 + w[1]) * 256 + w[2]) * 256 + w[3]) * 256 + w[4]
          BY FromBytesOf DEF Sized
        <5> HIDE DEF val
        <5>2. w[1] \in Nat /\ w[2] \in Nat /\ w[3] \in Nat /\ w[4] \in Nat
          BY <4>2, ByteIs
        <5> QED
          BY <5>1, <5>2
      <4> HIDE DEF val, Value
      <4>5. LoadLen(f) = Got(val, q) /\ LoadLen(f \o g) = Got(val, q \o g)
        BY <3>1, <4>1, <4>3, AsIs
      <4> QED
        BY <4>4, <4>5 DEF LenGrows, Grows
    <3> QED
      BY <3>3, <3>4
  <2> QED
    BY <2>5, <2>6, <2>7, <2>8, <2>9 DEF LEN6, LEN14, LEN32, ENCVAL
<1> QED
  BY <1>1, <1>2

-----------------------------------------------------------------------------
(* Numbers in decimal, and the same digits again.                          *)

DigitString(d) == d \in Bytes /\ d # <<>> /\ \A i \in 1 .. Len(d) : d[i] \in Digit

\* The numbers that the first digits make, with a minus in front.
Values0(m, d) ==
  /\ m[0] = 0 /\ \A i \in 0 .. Len(d) : m[i] \in Int
  /\ \A i \in 1 .. Len(d) : m[i] = m[i - 1] * 10 - (d[i] - 48)

LEMMA DigitOf ==
  ASSUME NEW d, DigitString(d), NEW i \in 1 .. Len(d)
  PROVE  d[i] \in Int /\ d[i] - 48 \in 0 .. 9
BY DEF DigitString, Digit

\* What a string without its sign is.
Unsigned(s) == IF s[1] = Minus THEN Tail(s) ELSE s

LEMMA UnsignedIs ==
  ASSUME NEW s \in Bytes, IsNumber(s)
  PROVE  /\ DigitString(Unsigned(s)) /\ s # <<>>
         /\ Unsigned(s)[1] = 48 => Len(Unsigned(s)) = 1 /\ s[1] # Minus
         /\ s = IF s[1] = Minus THEN <<Minus>> \o Unsigned(s) ELSE Unsigned(s)
<1> DEFINE d == Unsigned(s)
<1>1. s # <<>>
  BY DEF IsNumber
<1>2. d = (IF s # <<>> /\ s[1] = Minus THEN Tail(s) ELSE s)
  BY <1>1 DEF Unsigned
<1>3. d # <<>> /\ (\A i \in DOMAIN d : d[i] \in Digit) /\ (d[1] = 48 => s = <<48>>)
  BY <1>2 DEF IsNumber
<1>4. d \in Bytes
  BY <1>1, HeadTailProperties DEF Unsigned, Bytes
<1>5. DOMAIN d = 1 .. Len(d)
  BY <1>4, LenProperties DEF Bytes
<1>6. DigitString(d)
  BY <1>3, <1>4, <1>5 DEF DigitString
<1>7. ASSUME d[1] = 48
      PROVE  Len(d) = 1 /\ s[1] # Minus
  <2>1. s = <<48>>
    BY <1>3, <1>7
  <2>2. s[1] # Minus
    BY <2>1 DEF Minus
  <2> QED
    BY <2>1, <2>2 DEF Unsigned
<1>8. s[1] = Minus => s = <<Minus>> \o d
  <2> SUFFICES ASSUME s[1] = Minus
               PROVE  s = <<Minus>> \o d
    OBVIOUS
  <2>1. d = Tail(s)
    BY DEF Unsigned
  <2>2. Len(s) \in Nat /\ Len(s) >= 1
    BY <1>1, EmptySeq DEF Bytes
  <2>3. Tail(s) = SubSeq(s, 2, Len(s))
    BY <1>1, TailIsSubSeq DEF Bytes
  <2>4. 1 \in 1 .. Len(s) /\ Len(s) \in 1 .. Len(s)
    BY <2>2
  <2>5. SubSeq(s, 1, Len(s)) = <<s[1]>> \o SubSeq(s, 1 + 1, Len(s))
    BY <2>4, SubSeqRecursiveFirst DEF Bytes
  <2>6. SubSeq(s, 1, Len(s)) = s
    BY SubSeqFull DEF Bytes
  <2> QED
    BY <2>1, <2>3, <2>5, <2>6
<1>9. s[1] # Minus => s = d
  BY DEF Unsigned
<1> QED
  BY <1>1, <1>6, <1>7, <1>8, <1>9

LEMMA ValueIs ==
  ASSUME NEW s \in Bytes, IsNumber(s)
  PROVE  \E m : /\ Values0(m, Unsigned(s))
                /\ ValueOf(s) = IF s[1] = Minus THEN m[Len(Unsigned(s))] ELSE -m[Len(Unsigned(s))]
<1> DEFINE d == Unsigned(s)
           n == Len(d)
           neg == s[1] = Minus
           Digit0(c) == IF neg THEN 48 - c ELSE c - 48
           Step == [i \in 1 .. n |-> [v \in Int |-> v * 10 + Digit0(d[i])]]
           Fun(f) == f = [i \in 0 .. n |-> IF i = 0 THEN 0 ELSE f[i - 1] * 10 + Digit0(d[i])]
           g == CHOOSE f : Fun(f)
           m == [i \in 0 .. n |-> IF neg THEN g[i] ELSE -g[i]]
<1>1. n \in Nat /\ \A i \in 1 .. n : d[i] \in Int /\ Digit0(d[i]) \in Int
  <2>1. DigitString(d)
    BY UnsignedIs
  <2>2. n \in Nat
    BY <2>1, Length DEF DigitString
  <2>3. \A i \in 1 .. n : d[i] \in Int
    BY <2>1, DigitOf
  <2> HIDE DEF d
  <2> QED
    BY <2>2, <2>3
<1>2. ValueOf(s) = g[n]
  BY DEF ValueOf, Unsigned
<1> HIDE DEF d
<1>3. \A i \in 1 .. n : \A v \in Int : Step[i][v] = v * 10 + Digit0(d[i]) /\ Step[i][v] \in Int
  BY <1>1
<1> DEFINE V == Int
<1>4. Step \in [1 .. n -> [V -> V]] /\ 0 \in V
  BY <1>3
<1> HIDE DEF n, V, Step, neg
<1>5. Fun(g)
  <2>1. PICK f : Recurses(f, n, V, 0, Step)
    BY <1>1, <1>4, Recursion
  <2>2. ASSUME NEW i \in 1 .. n
        PROVE  f[i] = f[i - 1] * 10 + Digit0(d[i])
    <3>1. i - 1 \in 0 .. n
      BY <1>1
    <3>2. f[i - 1] \in Int
      BY <2>1, <3>1 DEF V, Recurses
    <3> HIDE DEF Digit0
    <3> QED
      BY <1>3, <2>1, <3>2 DEF Recurses
  <2> HIDE DEF Digit0
  <2>3. Fun(f)
    BY <1>1, <2>1, <2>2 DEF Recurses
  <2> QED
    BY <2>3
<1> HIDE DEF g
<1>6. g[0] = 0 /\ \A i \in 1 .. n : g[i] = g[i - 1] * 10 + Digit0(d[i])
  <2> HIDE DEF Digit0
  <2> QED
    BY <1>1, <1>5
<1>7. \A i \in 0 .. n : g[i] \in V
  <2>1. g[0] \in V /\ \A i \in 1 .. n : g[i - 1] \in V => g[i] \in V
    BY <1>1, <1>6 DEF V
  <2> QED
    BY <1>1, <2>1, RecursionType
<1>8. Values0(m, d)
  <2>1. m[0] = 0 /\ \A i \in 0 .. n : m[i] \in Int
    BY <1>1, <1>6, <1>7 DEF V
  <2>2. ASSUME NEW i \in 1 .. n
        PROVE  m[i] = m[i - 1] * 10 - (d[i] - 48)
    <3>1. i - 1 \in 0 .. n /\ i \in 0 .. n
      BY <1>1
    <3>2. g[i] \in Int /\ g[i - 1] \in Int /\ d[i] \in Int
      BY <1>1, <1>7, <3>1 DEF V
    <3>3. g[i] = g[i - 1] * 10 + Digit0(d[i])
      BY <1>6
    <3>4. m[i] = (IF neg THEN g[i] ELSE -g[i]) /\ m[i - 1] = (IF neg THEN g[i - 1] ELSE -g[i - 1])
      BY <3>1
    <3> HIDE DEF m
    <3> QED
      BY <3>2, <3>3, <3>4
  <2> HIDE DEF m
  <2> QED
    BY <2>1, <2>2 DEF Values0, n
<1>9. g[n] = IF neg THEN m[n] ELSE -m[n]
  BY <1>1, <1>7 DEF V
<1> HIDE DEF m
<1> QED
  BY <1>2, <1>8, <1>9 DEF d, n, neg

\* Each is less than the one before it, from the first digit that is not 0 on.
LEMMA ValuesFall ==
  ASSUME NEW d, DigitString(d), NEW m, Values0(m, d)
  PROVE  /\ \A i \in 1 .. Len(d) : m[i] <= 0 /\ m[Len(d)] <= m[i]
         /\ m[Len(d)] <= 0
         /\ d[1] # 48 => \A i \in 1 .. Len(d) : m[i] <= -1
<1> DEFINE n == Len(d)
           S == {i \in 0 .. n : m[i] <= 0 /\ (\A j \in 0 .. i : m[i] <= m[j])
                                /\ (d[1] # 48 /\ i > 0 => m[i] <= -1)}
<1>1. n \in Nat
  BY Length DEF DigitString
<1>2. 0 \in S
  BY <1>1 DEF Values0
<1>3. ASSUME NEW i \in 1 .. n, i - 1 \in S
      PROVE  i \in S
  <2>1. m[i] = m[i - 1] * 10 - (d[i] - 48) /\ m[i] \in Int /\ m[i - 1] \in Int /\ i - 1 \in 0 .. n
    BY <1>1 DEF Values0
  <2>2. d[i] \in Int /\ d[i] - 48 \in 0 .. 9
    BY DigitOf
  <2>3. m[i - 1] <= 0 /\ \A j \in 0 .. i - 1 : m[i - 1] <= m[j]
    BY <1>3
  <2>4. m[i] <= m[i - 1] /\ m[i] <= 0
    <3>1. \A a \in Int : \A x \in 0 .. 9 : a <= 0 => a * 10 - x <= a /\ a * 10 - x <= 0
      OBVIOUS
    <3> QED
      BY <2>1, <2>2, <2>3, <3>1
  <2>5. ASSUME NEW j \in 0 .. i
        PROVE  m[i] <= m[j]
    <3>1. CASE j = i
      BY <2>1, <3>1
    <3>2. CASE j # i
      <4>1. j \in 0 .. i - 1 /\ j \in 0 .. n
        BY <1>1, <3>2
      <4>2. m[j] \in Int /\ m[i - 1] <= m[j]
        BY <2>3, <4>1 DEF Values0
      <4> QED
        BY <2>1, <2>4, <4>2
    <3> QED
      BY <3>1, <3>2
  <2>6. d[1] # 48 => m[i] <= -1
    <3>1. CASE i = 1
      <4>1. i - 1 = 0 /\ m[0] = 0
        BY <3>1 DEF Values0
      <4>2. m[i] = 0 * 10 - (d[1] - 48) /\ d[1] \in Int /\ d[1] - 48 \in 0 .. 9
        BY <2>1, <2>2, <3>1, <4>1
      <4> QED
        BY <4>2
    <3>2. CASE i # 1
      <4>1. i - 1 > 0
        BY <3>2
      <4>2. d[1] # 48 => m[i - 1] <= -1
        BY <1>3, <4>1
      <4> QED
        BY <2>1, <2>4, <4>2
    <3> QED
      BY <3>1, <3>2
  <2> QED
    BY <1>1, <2>4, <2>5, <2>6
<1> HIDE DEF S
<1>4. \A i \in 0 .. n : i \in S
  BY <1>1, <1>2, <1>3, Climb
<1> HIDE DEF n
<1>5. \A i \in 0 .. n : m[i] <= 0 /\ (\A j \in 0 .. i : m[i] <= m[j]) /\ (d[1] # 48 /\ i > 0 => m[i] <= -1)
  BY <1>4 DEF S
<1>6. n \in 0 .. n /\ \A i \in 1 .. n : i \in 0 .. n /\ i > 0
  BY <1>1
<1> QED
  BY <1>5, <1>6 DEF n

LastDigit(n) == (10 - (n % 10)) % 10

LEMMA LastDigitIs ==
  ASSUME NEW u \in Int, NEW x \in 0 .. 9
  PROVE  LastDigit(u * 10 - x) = x /\ ((u * 10 - x) + x) \div 10 = u
BY DEF LastDigit

LEMMA ShorterIs ==
  ASSUME NEW n \in Int, n <= -10
  PROVE  (n + LastDigit(n)) \div 10 \in n + 1 .. 0
BY DEF LastDigit

\* The digits that are printed.
LEMMA DigitsIs ==
  ASSUME NEW v \in Int, v <= 0
  PROVE  \E f : /\ Digits(v) = f[v]
                /\ \A n \in v .. 0 :
                     f[n] = (IF n > -10 THEN <<>> ELSE f[(n + LastDigit(n)) \div 10]) \o <<48 + LastDigit(n)>>
<1> DEFINE Rest(n) == (n + LastDigit(n)) \div 10
           Fun(f, k) == f = [n \in k .. 0 |->
                               (IF n > -10 THEN <<>> ELSE f[Rest(n)]) \o <<48 + LastDigit(n)>>]
           Fine == {k \in Nat : \E f : Fun(f, 0 - k)}
<1>1. 0 \in Fine
  <2>1. Fun([n \in 0 .. 0 |-> <<>> \o <<48 + LastDigit(n)>>], 0)
    OBVIOUS
  <2>2. 0 - 0 = 0
    OBVIOUS
  <2> HIDE DEF Fun
  <2> QED
    BY <2>1, <2>2
<1>2. ASSUME NEW k \in Nat, k \in Fine
      PROVE  k + 1 \in Fine
  <2>1. PICK f : Fun(f, 0 - k)
    BY <1>2, SMTT(60)
  <2> DEFINE a == 0 - (k + 1)
             x == (IF a > -10 THEN <<>> ELSE f[Rest(a)]) \o <<48 + LastDigit(a)>>
             g == [n \in a .. 0 |-> IF n = a THEN x ELSE f[n]]
  <2>2. \A n \in a .. 0 : n # a => n \in 0 - k .. 0
    OBVIOUS
  <2>3. ASSUME NEW n \in a .. 0, ~(n > -10)
        PROVE  Rest(n) \in 0 - k .. 0 /\ Rest(n) # a /\ Rest(n) \in a .. 0
    <3>1. Rest(n) \in n + 1 .. 0
      BY <2>3, ShorterIs
    <3> HIDE DEF Rest
    <3> QED
      BY <3>1
  <2>4. ASSUME NEW n \in a .. 0
        PROVE  g[n] = (IF n > -10 THEN <<>> ELSE g[Rest(n)]) \o <<48 + LastDigit(n)>>
    <3>1. ~(n > -10) => g[Rest(n)] = f[Rest(n)]
      BY <2>3
    <3>2. CASE n = a
      <4>1. g[n] = x
        BY <3>2
      <4> HIDE DEF g, Rest, a
      <4> QED
        BY <3>1, <3>2, <4>1
    <3>3. CASE n # a
      <4>1. g[n] = f[n] /\ n \in 0 - k .. 0
        BY <2>2, <3>3
      <4>2. f[n] = (IF n > -10 THEN <<>> ELSE f[Rest(n)]) \o <<48 + LastDigit(n)>>
        BY <2>1, <4>1
      <4> HIDE DEF g, Rest, a
      <4> QED
        BY <3>1, <4>1, <4>2
    <3> QED
      BY <3>2, <3>3
  <2>5. Fun(g, a)
    <3>1. g = [n \in a .. 0 |-> g[n]]
      OBVIOUS
    <3> HIDE DEF g
    <3> QED
      BY <2>4, <3>1
  <2> HIDE DEF g, Fun
  <2> QED
    BY <2>5
<1> HIDE DEF Fine
<1>3. Nat \subseteq Fine
  BY <1>1, <1>2, NatRange, SMTT(60)
<1> DEFINE g == CHOOSE f : Fun(f, v)
<1>4. Fun(g, v)
  <2>1. 0 - v \in Fine /\ 0 - (0 - v) = v
    BY <1>3
  <2> QED
    BY <2>1 DEF Fine
<1>5. Digits(v) = g[v]
  BY DEF Digits, LastDigit
<1> HIDE DEF g
<1> QED
  BY <1>4, <1>5, ZenonT(60)

LEMMA DigitsBack ==
  ASSUME NEW d, DigitString(d), NEW m, Values0(m, d), d[1] = 48 => Len(d) = 1
  PROVE  Digits(m[Len(d)]) = d
<1> DEFINE n == Len(d)
           v == m[n]
           p(i) == SubSeq(d, 1, i)
<1>1. n \in Nat /\ n >= 1 /\ d \in Seq(Byte) /\ \A i \in 1 .. n : d[i] \in Int /\ d[i] - 48 \in 0 .. 9
  <2>1. d \in Seq(Byte) /\ d # <<>>
    BY DEF DigitString, Bytes
  <2>2. n \in Nat \ {0}
    BY <2>1, EmptySeq
  <2> QED
    BY <2>1, <2>2, DigitOf
<1>2. v \in Int /\ v <= 0 /\ \A i \in 1 .. n : m[i] \in v .. 0
  <2>1. v \in Int /\ \A i \in 1 .. n : m[i] \in Int
    BY <1>1 DEF Values0
  <2> QED
    BY <2>1, ValuesFall
<1>3. PICK f : /\ Digits(v) = f[v]
               /\ \A k \in v .. 0 :
                    f[k] = (IF k > -10 THEN <<>> ELSE f[(k + LastDigit(k)) \div 10]) \o <<48 + LastDigit(k)>>
  BY <1>2, DigitsIs
<1> DEFINE S == {i \in 0 .. n : i > 0 => f[m[i]] = p(i)}
<1>4. 0 \in S
  BY <1>1
<1>5. ASSUME NEW i \in 1 .. n, i - 1 \in S
      PROVE  i \in S
  <2> DEFINE u == m[i - 1]
             x == d[i] - 48
             k == m[i]
  <2>1. u \in Int /\ x \in 0 .. 9 /\ k = u * 10 - x /\ k \in v .. 0 /\ 48 + x = d[i]
    <3>1. u \in Int
      BY <1>1 DEF Values0
    <3>2. k = u * 10 - x
      BY DEF Values0
    <3> QED
      BY <1>1, <1>2, <3>1, <3>2
  <2>2. p(i) = p(i - 1) \o <<d[i]>>
    <3>1. 1 \in 1 .. Len(d) /\ i \in 1 .. Len(d)
      BY <1>1
    <3> QED
      BY <1>1, <3>1, SubSeqRecursiveSecond
  <2>3. LastDigit(k) = x /\ (k + x) \div 10 = u
    BY <2>1, LastDigitIs, ZenonT(60)
  <2>4. f[k] = (IF k > -10 THEN <<>> ELSE f[(k + LastDigit(k)) \div 10]) \o <<48 + LastDigit(k)>>
    BY <1>3, <2>1
  <2> HIDE DEF u, x, k
  <2>5. f[k] = (IF k > -10 THEN <<>> ELSE f[u]) \o <<d[i]>>
    BY <2>1, <2>3, <2>4
  <2>6. f[k] = p(i)
    <3>1. CASE i = 1
      <4>1. u = 0
        BY <3>1 DEF u, Values0
      <4>2. k > -10
        BY <2>1, <4>1
      <4>3. p(0) = <<>>
        BY SubSeqEmpty
      <4> HIDE DEF p
      <4> QED
        BY <2>2, <2>5, <3>1, <4>2, <4>3
    <3>2. CASE i # 1
      <4>1. i - 1 \in 1 .. n /\ i - 1 > 0
        BY <3>2
      <4>2. d[1] # 48
        BY <1>1, <3>2
      <4>3. u <= -1
        BY <4>1, <4>2, ValuesFall DEF u
      <4>4. ~(k > -10)
        BY <2>1, <4>3
      <4>5. f[u] = p(i - 1)
        BY <1>5, <4>1 DEF u
      <4> HIDE DEF p
      <4> QED
        BY <2>2, <2>5, <4>4, <4>5
    <3> QED
      BY <3>1, <3>2
  <2> HIDE DEF p
  <2> QED
    BY <2>6 DEF k
<1> HIDE DEF S
<1>6. \A i \in 0 .. n : i \in S
  BY <1>1, <1>4, <1>5, Climb
<1>7. n \in S /\ n > 0
  BY <1>1, <1>6
<1>8. f[m[n]] = p(n)
  BY <1>7 DEF S
<1>9. p(n) = d
  BY <1>1, SubSeqFull
<1> QED
  BY <1>3, <1>8, <1>9

\* The numbers that n digits make, with a minus in front, as in Values0.
Sums(n, d, m) ==
  /\ \A i \in 1 .. n : d[i] - 48 \in 0 .. 9 /\ d[i] \in Int
  /\ m[0] = 0 /\ \A i \in 0 .. n : m[i] \in Int
  /\ \A i \in 1 .. n : m[i] = m[i - 1] * 10 - (d[i] - 48)

\* No digit differs, or the first that does is less.
NotAbove(n, d, l) ==
  \/ \A i \in 1 .. n : d[i] = l[i]
  \/ \E i \in 1 .. n : d[i] < l[i] /\ \A j \in 1 .. n : d[j] # l[j] => i <= j

\* Of two numbers with as many digits the one is not greater than the other whose
\* first different digit is less.
LEMMA Lexical ==
  ASSUME NEW n \in Nat, NEW d, NEW md, Sums(n, d, md), NEW l, NEW ml, Sums(n, l, ml), NotAbove(n, d, l)
  PROVE  ml[n] <= md[n]
<1> DEFINE Same(i) == \A j \in 1 .. i : d[j] = l[j]
           S == {i \in 0 .. n : (Same(i) /\ md[i] = ml[i]) \/ md[i] >= ml[i] + 1}
<1>1. 0 \in S
  BY DEF Sums
<1>2. ASSUME NEW i \in 1 .. n, i - 1 \in S
      PROVE  i \in S
  <2> DEFINE a == md[i - 1]
             b == ml[i - 1]
             x == d[i] - 48
             y == l[i] - 48
  <2>1. /\ a \in Int /\ b \in Int /\ x \in 0 .. 9 /\ y \in 0 .. 9
        /\ md[i] = a * 10 - x /\ ml[i] = b * 10 - y /\ d[i] \in Int /\ l[i] \in Int
    <3>1. i - 1 \in 0 .. n
      OBVIOUS
    <3> QED
      BY <3>1 DEF Sums
  <2>2. \/ Same(i - 1) /\ a = b
        \/ a >= b + 1
    BY <1>2
  <2>3. d[i] < l[i] => x < y
    BY <2>1
  <2> HIDE DEF a, b, x, y
  <2>4. CASE a >= b + 1
    <3>1. md[i] >= ml[i] + 1
      BY <2>1, <2>4
    <3> QED
      BY <3>1
  <2>5. CASE Same(i - 1) /\ a = b /\ d[i] = l[i]
    <3>1. Same(i)
      BY <2>5
    <3>2. x = y
      BY <2>5 DEF x, y
    <3>3. md[i] = ml[i]
      BY <2>1, <2>5, <3>2
    <3> QED
      BY <3>1, <3>3
  <2>6. CASE Same(i - 1) /\ a = b /\ d[i] # l[i]
    <3>1. PICK k \in 1 .. n : d[k] < l[k] /\ \A j \in 1 .. n : d[j] # l[j] => k <= j
      BY <2>6 DEF NotAbove
    <3>2. k <= i
      BY <2>6, <3>1
    <3>3. k \in 1 .. i - 1 => d[k] = l[k]
      BY <2>6
    <3>4. k = i
      <4>1. d[k] # l[k]
        <5>1. d[k] < l[k] /\ d[k] \in Int /\ l[k] \in Int
          BY <3>1 DEF Sums
        <5> QED
          BY <5>1
      <4> QED
        BY <3>2, <3>3, <4>1
    <3>5. x < y
      BY <2>3, <3>1, <3>4
    <3>6. md[i] >= ml[i] + 1
      BY <2>1, <2>6, <3>5
    <3> QED
      BY <3>6
  <2> QED
    BY <2>2, <2>4, <2>5, <2>6
<1> HIDE DEF S
<1>3. \A i \in 0 .. n : i \in S
  BY <1>1, <1>2, Climb
<1>4. n \in S
  BY <1>3
<1>5. ml[n] = md[n] \/ md[n] >= ml[n] + 1
  BY <1>4 DEF S
<1>6. md[n] \in Int /\ ml[n] \in Int
  BY DEF Sums
<1> QED
  BY <1>5, <1>6

\* The limits of 32 bits.
Least == -2147483647 - 1

\* A number with less than ten digits has 32 bits.
LEMMA NineDigits ==
  ASSUME NEW d, DigitString(d), NEW m, Values0(m, d), Len(d) < 10
  PROVE  m[Len(d)] \in Int /\ m[Len(d)] >= -999999999 /\ m[Len(d)] <= 0
<1> DEFINE n == Len(d)
           Low(i, b) == i <= n => m[i] >= b
<1>0. n \in 0 .. 9
  <2>1. n \in Nat /\ n < 10
    BY Length DEF DigitString
  <2> HIDE DEF n
  <2> QED
    BY <2>1
<1>1. n \in Nat /\ \A i \in 1 .. n : d[i] \in Int /\ d[i] - 48 \in 0 .. 9
  BY Length, DigitOf DEF DigitString
<1>2. \A i \in 1 .. n : m[i] = m[i - 1] * 10 - (d[i] - 48) /\ m[i] \in Int /\ m[i - 1] \in Int
  <2>1. \A i \in 1 .. n : i \in 0 .. n /\ i - 1 \in 0 .. n
    BY <1>1
  <2> QED
    BY <2>1 DEF Values0
<1>3. \A i \in 1 .. n : m[i] >= m[i - 1] * 10 - 9
  <2>1. \A a \in Int : \A x \in 0 .. 9 : a * 10 - x >= a * 10 - 9
    OBVIOUS
  <2> QED
    BY <1>1, <1>2, <2>1
<1>4. Low(0, 0)
  BY DEF Values0
<1> HIDE DEF n
<1>5. ASSUME NEW i \in 1 .. 9, NEW b \in Int, Low(i - 1, b)
      PROVE  Low(i, b * 10 - 9)
  <2> SUFFICES ASSUME i <= n
               PROVE  m[i] >= b * 10 - 9
    OBVIOUS
  <2>1. i \in 1 .. n /\ i - 1 <= n
    BY <1>1
  <2>2. m[i - 1] >= b /\ m[i - 1] \in Int /\ m[i] \in Int /\ m[i] >= m[i - 1] * 10 - 9
    BY <1>2, <1>3, <1>5, <2>1
  <2> QED
    BY <2>2
<1> HIDE DEF Low
<1>6. /\ Low(1, -9) /\ Low(2, -99) /\ Low(3, -999) /\ Low(4, -9999) /\ Low(5, -99999)
  <2>1. Low(1, -9)
    BY <1>4, <1>5
  <2>2. Low(2, -99)
    BY <1>5, <2>1
  <2>3. Low(3, -999)
    BY <1>5, <2>2
  <2>4. Low(4, -9999)
    BY <1>5, <2>3
  <2>5. Low(5, -99999)
    BY <1>5, <2>4, SMT
  <2> QED
    BY <2>1, <2>2, <2>3, <2>4, <2>5, SMT
<1>7. Low(6, -999999) /\ Low(7, -9999999) /\ Low(8, -99999999) /\ Low(9, -999999999)
  <2>1. Low(6, -999999)
    BY <1>5, <1>6, SMT
  <2>2. Low(7, -9999999)
    BY <1>5, <2>1, SMT
  <2>3. Low(8, -99999999)
    BY <1>5, <2>2, SMT
  <2>4. Low(9, -999999999)
    BY <1>5, <2>3, SMT
  <2> QED
    BY <2>1, <2>2, <2>3, <2>4, SMT
<1>8. m[n] \in Int /\ m[n] <= 0
  <2>1. m[n] <= 0
    BY ValuesFall DEF n
  <2>2. m[n] \in Int
    BY DEF Values0, n
  <2> QED
    BY <2>1, <2>2
<1>9. m[n] >= -999999999
  <2>1. \A i \in 0 .. 9 : i = n => m[n] >= -999999999
    <3>1. \A i \in {0, 1, 2, 3, 4} : i = n => m[n] >= -999999999
      BY <1>4, <1>6, <1>8, SMT DEF Low
    <3>2. \A i \in {5, 6, 7, 8, 9} : i = n => m[n] >= -999999999
      BY <1>6, <1>7, <1>8, SMT DEF Low
    <3> QED
      BY <3>1, <3>2, SMT
  <2> QED
    BY <1>0, <2>1, SMT
<1> QED
  BY <1>8, <1>9, SMT DEF n

\* A number with ten digits is compared with a limit of 32 bits.
LEMMA TenDigits ==
  ASSUME NEW d, DigitString(d), NEW m, Values0(m, d), Len(d) = 10, NEW last \in {55, 56},
         NotAbove(10, d, <<50, 49, 52, 55, 52, 56, 51, 54, 52, last>>)
  PROVE  m[10] \in Int /\ m[10] <= 0 /\ m[10] >= -2147483592 - last
<1> DEFINE l == <<50, 49, 52, 55, 52, 56, 51, 54, 52, last>>
           t == <<-2, -21, -214, -2147, -21474, -214748, -2147483, -21474836, -214748364,
                  -2147483592 - last>>
           ml == [i \in 0 .. 10 |-> IF i = 0 THEN 0 ELSE t[i]]
<1>1. \A i \in 1 .. 10 : d[i] - 48 \in 0 .. 9 /\ d[i] \in Int
  BY DigitOf
<1>2. \A i \in 1 .. 10 : l[i] - 48 \in 0 .. 9 /\ l[i] \in Int
  BY SMT
<1>3. m[0] = 0 /\ \A i \in 0 .. 10 : m[i] \in Int
  BY DEF Values0
<1>4. \A i \in 1 .. 10 : m[i] = m[i - 1] * 10 - (d[i] - 48)
  BY DEF Values0
<1>5. NotAbove(10, d, l)
  OBVIOUS
<1>6. ml[0] = 0 /\ ml[10] = -2147483592 - last
  BY SMT
<1>7. \A i \in 0 .. 10 : ml[i] \in Int
  BY SMT
<1>8. \A i \in 1 .. 10 : ml[i] = ml[i - 1] * 10 - (l[i] - 48)
  <2>1. \A i \in {1, 2, 3, 4, 5} : ml[i] = ml[i - 1] * 10 - (l[i] - 48)
    BY SMT
  <2>2. \A i \in {6, 7, 8, 9, 10} : ml[i] = ml[i - 1] * 10 - (l[i] - 48)
    BY SMT
  <2> HIDE DEF ml, l
  <2> QED
    BY <2>1, <2>2, SMT
<1> HIDE DEF ml, l
<1>9. ml[10] <= m[10]
  <2>1. 10 \in Nat
    OBVIOUS
  <2>2. Sums(10, d, m)
    BY <1>1, <1>3, <1>4 DEF Sums
  <2>3. Sums(10, l, ml)
    BY <1>2, <1>6, <1>7, <1>8, SMT DEF Sums
  <2> QED
    BY <1>5, <2>1, <2>2, <2>3, Lexical
<1>10. m[10] <= 0
  BY ValuesFall
<1> QED
  BY <1>3, <1>6, <1>9, <1>10, SMT

\* The value of a number that is written as one is of 32 bits, and printed as it was.
LEMMA IntegerBack ==
  ASSUME NEW s \in Bytes, IsNumber(s), Fits32(s)
  PROVE  /\ ValueOf(s) \in Int /\ Above3(ValueOf(s)) \in -128 .. 127
         /\ Printed(ValueOf(s)) = s
<1> DEFINE d == Unsigned(s)
           n == Len(d)
           neg == s[1] = Minus
           v == ValueOf(s)
           last == IF neg THEN 56 ELSE 55
           limit == <<50, 49, 52, 55, 52, 56, 51, 54, 52, last>>
<1>1. /\ DigitString(d) /\ s # <<>> /\ (d[1] = 48 => n = 1 /\ s[1] # Minus)
      /\ s = IF neg THEN <<Minus>> \o d ELSE d
  BY UnsignedIs
<1>2. PICK m : Values0(m, d) /\ v = IF neg THEN m[n] ELSE -m[n]
  BY ValueIs
<1>3. n < 10 \/ (n = 10 /\ NotAbove(10, d, limit))
  <2> DEFINE higher == {i \in 1 .. 10 : d[i] # limit[i]}
  <2>1. \/ n < 10
        \/ n = 10 /\ (higher = {} \/ \E i \in higher : d[i] < limit[i] /\ \A j \in higher : i <= j)
    BY DEF Fits32, Unsigned
  <2> HIDE DEF limit, d, n
  <2>2. higher = {} => \A i \in 1 .. 10 : d[i] = limit[i]
    OBVIOUS
  <2>3. ASSUME NEW i \in higher, d[i] < limit[i], \A j \in higher : i <= j
        PROVE  NotAbove(10, d, limit)
    BY <2>3 DEF NotAbove
  <2> QED
    BY <2>1, <2>2, <2>3 DEF NotAbove
<1> HIDE DEF limit
<1>4. m[n] \in Int /\ m[n] <= 0 /\ m[n] >= -2147483592 - last
  <2>1. CASE n < 10
    <3>1. m[n] \in Int /\ m[n] >= -999999999 /\ m[n] <= 0
      BY <1>1, <1>2, <2>1, NineDigits
    <3> HIDE DEF n, d
    <3> QED
      BY <3>1, SMT
  <2>2. CASE n = 10 /\ NotAbove(10, d, limit)
    <3>1. last \in {55, 56}
      OBVIOUS
    <3>2. DigitString(d) /\ Values0(m, d) /\ Len(d) = 10
      BY <1>1, <1>2, <2>2
    <3>3. NotAbove(10, d, <<50, 49, 52, 55, 52, 56, 51, 54, 52, last>>)
      BY <2>2 DEF limit
    <3> HIDE DEF last, d
    <3>4. m[10] \in Int /\ m[10] <= 0 /\ m[10] >= -2147483592 - last
      BY <3>1, <3>2, <3>3, TenDigits, SMT
    <3> QED
      BY <2>2, <3>4, SMT
  <2> QED
    BY <1>3, <2>1, <2>2, SMT
<1>5. v \in Int /\ Above3(v) \in -128 .. 127
  <2> HIDE DEF v, n, d, neg
  <2>1. v \in Int /\ v >= -2147483592 - 56 /\ v <= 2147483592 + 55
    BY <1>2, <1>4, SMT
  <2> QED
    BY <2>1, SMT DEF Above3
<1>6. Digits(m[n]) = d
  BY <1>1, <1>2, DigitsBack
<1>7. CASE neg
  <2>1. v = m[n] /\ d[1] # 48
    BY <1>1, <1>2, <1>7
  <2>2. m[n] <= -1
    <3>1. n \in Nat \ {0}
      BY <1>1, EmptySeq DEF DigitString, Bytes
    <3>2. \A i \in 1 .. n : m[i] <= -1
      BY <1>1, <1>2, <2>1, ValuesFall
    <3> HIDE DEF n
    <3>3. n \in 1 .. n
      BY <3>1
    <3> QED
      BY <3>2, <3>3
  <2> HIDE DEF n, d, v
  <2>3. v < 0
    BY <1>4, <2>1, <2>2
  <2> QED
    BY <1>1, <1>5, <1>6, <1>7, <2>1, <2>3 DEF Printed, v
<1>8. CASE ~neg
  <2>1. v = -m[n] /\ s = d
    BY <1>1, <1>2, <1>8
  <2> HIDE DEF n, d, v
  <2>2. ~(v < 0) /\ -v = m[n]
    BY <1>4, <2>1
  <2> QED
    BY <1>1, <1>5, <1>6, <2>1, <2>2 DEF Printed, v
<1> QED
  BY <1>5, <1>7, <1>8

-----------------------------------------------------------------------------
(* A sequence of sequences, joined.                                        *)

\* The joined sequences grow from the left.
Joins(p, ss, n, W) ==
  /\ p[0] = <<>> /\ \A i \in 0 .. n : p[i] \in W
  /\ \A i \in 1 .. n : p[i] = p[i - 1] \o ss[i]

\* And what is still to be joined falls from the left.
Leaves(q, ss, n, W) ==
  /\ q[n] = <<>> /\ \A i \in 0 .. n : q[i] \in W
  /\ \A i \in 1 .. n : q[i - 1] = ss[i] \o q[i]

LEMMA FlattenJoins ==
  ASSUME NEW T, NEW ss \in Seq(Seq(T))
  PROVE  \E p : Joins(p, ss, Len(ss), Seq(T)) /\ FlattenSeq(ss) = p[Len(ss)]
<1> DEFINE n == Len(ss)
           V == Seq(T)
           Step == [i \in 1 .. n |-> [v \in V |-> v \o ss[i]]]
           Fun(f) == f = [i \in 1 .. n |-> IF i = 1 THEN ss[i] ELSE f[i - 1] \o ss[i]]
           g == CHOOSE f : Fun(f)
           p == [i \in 0 .. n |-> IF i = 0 THEN <<>> ELSE g[i]]
<1>1. n \in Nat /\ \A i \in 1 .. n : ss[i] \in V
  BY ElementOfSeq
<1>2. <<>> \in V
  BY EmptySeq
<1>3. \A i \in 1 .. n : \A v \in V : v \o ss[i] \in V
  BY <1>1, ConcatProperties
<1>4. \A v \in V : <<>> \o v = v
  BY ConcatEmptySeq
<1>5. FlattenSeq(ss) = IF n = 0 THEN ss ELSE g[n]
  BY DEF FlattenSeq
<1>6. n = 0 => ss = <<>>
  BY EmptySeq
<1> HIDE DEF V, n
<1>7. Step \in [1 .. n -> [V -> V]]
  BY <1>3
<1>8. \A i \in 1 .. n : \A v \in V : Step[i][v] = v \o ss[i]
  OBVIOUS
<1> HIDE DEF Step
<1>9. Fun(g)
  <2>1. PICK f : Recurses(f, n, V, <<>>, Step)
    BY <1>1, <1>2, <1>7, Recursion
  <2>2. \A i \in 1 .. n : f[i] = f[i - 1] \o ss[i]
    <3>1. \A i \in 1 .. n : i - 1 \in 0 .. n
      BY <1>1
    <3> QED
      BY <1>8, <2>1, <3>1 DEF Recurses
  <2> DEFINE h == [i \in 1 .. n |-> f[i]]
  <2>3. ASSUME NEW i \in 1 .. n
        PROVE  h[i] = IF i = 1 THEN ss[i] ELSE h[i - 1] \o ss[i]
    <3>1. CASE i = 1
      <4>0. i - 1 = 0 /\ f[0] = <<>>
        BY <2>1, <3>1 DEF Recurses
      <4>1. h[i] = f[i - 1] \o ss[i] /\ f[i - 1] = <<>>
        BY <2>2, <4>0
      <4> HIDE DEF h
      <4> QED
        BY <1>1, <1>4, <3>1, <4>1
    <3>2. CASE i # 1
      <4>1. i - 1 \in 1 .. n
        BY <1>1, <3>2
      <4>2. h[i - 1] = f[i - 1] /\ h[i] = f[i]
        BY <4>1
      <4> HIDE DEF h
      <4> QED
        BY <2>2, <3>2, <4>2
    <3> QED
      BY <3>1, <3>2
  <2>4. Fun(h)
    <3>1. h = [i \in 1 .. n |-> h[i]]
      OBVIOUS
    <3> HIDE DEF h
    <3> QED
      BY <2>3, <3>1
  <2> HIDE DEF h, Fun
  <2> QED
    BY <2>4
<1> HIDE DEF g
<1>10. \A i \in 1 .. n : p[i] = p[i - 1] \o ss[i]
  <2> TAKE i \in 1 .. n
  <2>1. g[i] = IF i = 1 THEN ss[i] ELSE g[i - 1] \o ss[i]
    BY <1>9
  <2>2. p[i] = g[i] /\ (i = 1 => p[i - 1] = <<>>) /\ (i # 1 => p[i - 1] = g[i - 1])
    BY <1>1
  <2> HIDE DEF p
  <2> QED
    BY <1>1, <1>4, <2>1, <2>2
<1>11. p[0] = <<>>
  BY <1>1
<1>12. n # 0 => p[n] = g[n]
  BY <1>1
<1> HIDE DEF p
<1>13. \A i \in 0 .. n : p[i] \in V
  <2>1. p[0] \in V /\ \A i \in 1 .. n : p[i - 1] \in V => p[i] \in V
    BY <1>2, <1>3, <1>10, <1>11
  <2> QED
    BY <1>1, <2>1, RecursionType
<1>14. FlattenSeq(ss) = p[n]
  BY <1>5, <1>6, <1>11, <1>12
<1> QED
  BY <1>10, <1>11, <1>13, <1>14 DEF Joins, n, V

LEMMA FlattenLeaves ==
  ASSUME NEW T, NEW ss \in Seq(Seq(T))
  PROVE  \E q : Leaves(q, ss, Len(ss), Seq(T)) /\ FlattenSeq(ss) = q[0]
<1> DEFINE n == Len(ss)
           V == Seq(T)
           Step == [k \in 1 .. n |-> [v \in V |-> ss[n - k + 1] \o v]]
<1>1. n \in Nat /\ \A i \in 1 .. n : ss[i] \in V
  BY ElementOfSeq
<1>2. <<>> \in V
  BY EmptySeq
<1>3. \A v, w \in V : v \o w \in V
  BY ConcatProperties
<1>4. \A v \in V : <<>> \o v = v /\ v \o <<>> = v
  BY ConcatEmptySeq
<1>5. \A u, v, w \in V : (u \o v) \o w = u \o (v \o w)
  BY ConcatAssociative
<1>6. PICK p : Joins(p, ss, n, V) /\ FlattenSeq(ss) = p[n]
  BY FlattenJoins
<1> HIDE DEF V, n
<1>7. \A k \in 1 .. n : n - k + 1 \in 1 .. n
  BY <1>1
<1>8. Step \in [1 .. n -> [V -> V]] /\ \A k \in 1 .. n : \A v \in V : Step[k][v] = ss[n - k + 1] \o v
  BY <1>1, <1>3, <1>7
<1> HIDE DEF Step
<1>9. PICK f : Recurses(f, n, V, <<>>, Step)
  BY <1>1, <1>2, <1>8, Recursion
<1> DEFINE q == [i \in 0 .. n |-> f[n - i]]
<1>10. \A i \in 0 .. n : n - i \in 0 .. n
  BY <1>1
<1>11. q[n] = <<>> /\ \A i \in 0 .. n : q[i] \in V
  <2>1. n \in 0 .. n /\ n - n = 0
    BY <1>1
  <2> QED
    BY <1>9, <1>10, <2>1 DEF Recurses
<1>12. \A i \in 1 .. n : q[i - 1] = ss[i] \o q[i]
  <2> TAKE i \in 1 .. n
  <2> DEFINE k == n - i + 1
  <2>1. k \in 1 .. n /\ n - (i - 1) = k /\ n - i = k - 1 /\ n - k + 1 = i /\ i \in 0 .. n /\ i - 1 \in 0 .. n
    BY <1>1
  <2>2. q[i - 1] = f[k] /\ q[i] = f[k - 1]
    BY <2>1
  <2> HIDE DEF q, k
  <2>3. f[k - 1] \in V
    BY <1>11, <2>1, <2>2
  <2>4. f[k] = Step[k][f[k - 1]]
    BY <1>9, <2>1 DEF Recurses
  <2> QED
    BY <1>8, <2>1, <2>2, <2>3, <2>4
<1> HIDE DEF q
<1> DEFINE S == {i \in 0 .. n : p[i] \o q[i] = q[0]}
<1>13. 0 \in S
  <2>1. 0 \in 0 .. n
    BY <1>1
  <2> QED
    BY <1>4, <1>6, <1>11, <2>1 DEF Joins
<1>14. ASSUME NEW i \in 1 .. n, i - 1 \in S
       PROVE  i \in S
  <2>1. i \in 0 .. n /\ i - 1 \in 0 .. n
    BY <1>1
  <2>2. p[i] = p[i - 1] \o ss[i] /\ p[i - 1] \in V
    BY <1>6, <2>1 DEF Joins
  <2>3. p[i] \o q[i] = p[i - 1] \o (ss[i] \o q[i])
    <3>1. ss[i] \in V /\ q[i] \in V
      BY <1>1, <1>11, <2>1
    <3>2. (p[i - 1] \o ss[i]) \o q[i] = p[i - 1] \o (ss[i] \o q[i])
      BY <1>5, <2>2, <3>1
    <3> QED
      BY <2>2, <3>2
  <2>4. p[i] \o q[i] = p[i - 1] \o q[i - 1]
    BY <1>12, <2>3
  <2> QED
    BY <1>14, <2>1, <2>4
<1> HIDE DEF S
<1>15. \A i \in 0 .. n : i \in S
  BY <1>1, <1>13, <1>14, Climb
<1>16. n \in S /\ n \in 0 .. n
  BY <1>1, <1>15
<1>17. p[n] \o q[n] = q[0]
  BY <1>16 DEF S
<1>18. p[n] = q[0]
  BY <1>4, <1>6, <1>11, <1>16, <1>17 DEF Joins
<1> QED
  BY <1>6, <1>11, <1>12, <1>18 DEF Leaves, n, V

-----------------------------------------------------------------------------
(* Strings.                                                                *)

\* What the dump can hold: as many as four bytes count.
Counts == {n \in Nat : Above3(n) < 256}
Texts == {s \in Bytes : Len(s) \in Counts}

\* What was written is read, with anything behind it.
ReadsAs(e, s) ==
  e \in Bytes /\ Len(e) > 0 /\ \A g \in Bytes : LoadString(e \o g) = Got(s, g)

LEMMA CountsAre ==
  ASSUME NEW n \in Counts
  PROVE  n \in Nat /\ Above3(n) < 256
BY DEF Counts

LEMMA EncodingRead ==
  ASSUME NEW enc \in {INT8, INT16, INT32, LZF}, NEW t \in Bytes
  PROVE  /\ EncodingByte(enc) \in Bytes /\ Len(EncodingByte(enc)) = 1
         /\ LoadString(EncodingByte(enc) \o t) = IF enc = LZF THEN LoadLzf(t) ELSE LoadInteger(t, enc)
<1> DEFINE x == 64 * ENCVAL + enc
<1>1. x \in Byte /\ x \div 64 = ENCVAL /\ x % 64 = enc
  BY DEF Byte, ENCVAL, INT8, INT16, INT32, LZF
<1> HIDE DEF x
<1>2. LoadLen(<<x>> \o t) = Encoding(enc, t)
  BY <1>1, LoadLenIs, LenBehindIs
<1>3. LoadString(<<x>> \o t) = IF enc = LZF THEN LoadLzf(t) ELSE LoadInteger(t, enc)
  BY <1>2, EncodingIs DEF LoadString, Then
<1>4. <<x>> \in Bytes /\ Len(<<x>>) = 1
  BY <1>1, OneByte
<1> QED
  BY <1>3, <1>4 DEF x, EncodingByte

SizeOf(enc) == IF enc = INT8 THEN 1 ELSE IF enc = INT16 THEN 2 ELSE 4

LEMMA IntegerRead ==
  ASSUME NEW enc \in {INT8, INT16, INT32}, NEW b \in Bytes, Len(b) = SizeOf(enc)
  PROVE  ReadsAs(EncodingByte(enc) \o b, Printed(FromLowBytes(b)))
<1> DEFINE e == EncodingByte(enc)
           s == Printed(FromLowBytes(b))
<1>1. e \in Bytes /\ Len(e) = 1
  BY EncodingRead, EmptySeq DEF Bytes
<1>2. e \o b \in Bytes /\ Len(e \o b) > 0
  <2> HIDE DEF e
  <2>1. e \o b \in Bytes /\ Len(e \o b) = 1 + Len(b) /\ Len(b) \in Nat
    BY <1>1, BytesJoin, Length
  <2> QED
    BY <2>1
<1>3. ASSUME NEW g \in Bytes
      PROVE  LoadString((e \o b) \o g) = Got(s, g)
  <2> DEFINE t == b \o g
  <2>1. (e \o b) \o g = e \o t /\ t \in Bytes
    <3>1. t \in Bytes
      BY BytesJoin
    <3>2. (e \o b) \o g = e \o t
      BY <1>1, BytesAssociate
    <3> QED
      BY <3>1, <3>2
  <2>2. Read(t, SizeOf(enc)) = Got(b, g)
    BY ReadIs
  <2> HIDE DEF t
  <2>3. enc # LZF /\ enc \in {INT8, INT16, INT32, LZF}
    BY DEF LZF, INT8, INT16, INT32
  <2>4. LoadString(e \o t) = LoadInteger(t, enc)
    BY <2>1, <2>3, EncodingRead
  <2>5. LoadInteger(t, enc) = As(Got(b, g), s)
    <3>1. LoadInteger(t, enc) = As(Read(t, SizeOf(enc)), Printed(FromLowBytes(Read(t, SizeOf(enc)).val)))
      BY <2>3 DEF LoadInteger, SizeOf
    <3> QED
      BY <2>2, <3>1, GotIs
  <2> HIDE DEF e, s
  <2> QED
    BY <2>1, <2>4, <2>5, AsIs
<1> QED
  BY <1>2, <1>3 DEF ReadsAs

\* A number is read as the string it was.
LEMMA IntegerEncodingBack ==
  ASSUME NEW s \in Bytes, IntegerEncoding(s) # <<>>
  PROVE  ReadsAs(IntegerEncoding(s), s)
<1> DEFINE v == ValueOf(s)
           fits8 == Has8Bits(v)
           fits16 == Has16Bits(v)
           Written(enc, n) == EncodingByte(enc) \o LowBytes(v, n)
<1>1. IsNumber(s) /\ Fits32(s)
  <2>1. ASSUME ~IsNumber(s) \/ ~Fits32(s)
        PROVE  FALSE
    BY <2>1 DEF IntegerEncoding
  <2> QED
    BY <2>1
<1>2. v \in Int /\ Above3(v) \in -128 .. 127 /\ Printed(v) = s
  BY <1>1, IntegerBack
<1>3. /\ fits8 => IntegerEncoding(s) = Written(INT8, 1)
      /\ ~fits8 /\ fits16 => IntegerEncoding(s) = Written(INT16, 2)
      /\ ~fits8 /\ ~fits16 => IntegerEncoding(s) = Written(INT32, 4)
  <2>1. ~(~IsNumber(s) \/ ~Fits32(s))
    BY <1>1
  <2> HIDE DEF fits8, fits16
  <2>2. IntegerEncoding(s) = IF fits8 THEN Written(INT8, 1)
                             ELSE IF fits16 THEN Written(INT16, 2) ELSE Written(INT32, 4)
    BY <2>1 DEF IntegerEncoding, fits8, fits16
  <2> QED
    BY <2>2
<1>4. SizeOf(INT8) = 1 /\ SizeOf(INT16) = 2 /\ SizeOf(INT32) = 4
  BY DEF SizeOf, INT8, INT16, INT32
<1>5. ASSUME NEW enc \in {INT8, INT16, INT32}, FromLowBytes(LowBytes(v, SizeOf(enc))) = v
      PROVE  ReadsAs(Written(enc, SizeOf(enc)), s)
  <2> DEFINE b == LowBytes(v, SizeOf(enc))
  <2>1. SizeOf(enc) \in 1 .. 4
    BY <1>4
  <2>2. b \in Bytes /\ Len(b) = SizeOf(enc)
    BY <1>2, <2>1, LowBytesIs, ZenonT(60)
  <2> HIDE DEF b, v
  <2>3. ReadsAs(EncodingByte(enc) \o b, Printed(FromLowBytes(b)))
    BY <2>2, IntegerRead
  <2>4. Printed(FromLowBytes(b)) = s
    BY <1>2, <1>5 DEF b
  <2> QED
    BY <2>3, <2>4 DEF b
<1>6. ASSUME fits8
      PROVE  ReadsAs(IntegerEncoding(s), s)
  <2>1. FromLowBytes(LowBytes(v, SizeOf(INT8))) = v
    BY <1>2, <1>4, <1>6, SignedBack DEF Has8Bits
  <2> HIDE DEF Written, v
  <2>3. ReadsAs(Written(INT8, SizeOf(INT8)), s)
    BY <1>5, <2>1
  <2>4. IntegerEncoding(s) = Written(INT8, SizeOf(INT8))
    BY <1>3, <1>4, <1>6
  <2> QED
    BY <2>3, <2>4
<1>7. ASSUME ~fits8, fits16
      PROVE  ReadsAs(IntegerEncoding(s), s)
  <2>1. Above1(v) \in -128 .. 127
    <3>1. v >= -32768 /\ v <= 32767
      BY <1>2, <1>7, SMT DEF Has16Bits
    <3> HIDE DEF v, fits8, fits16
    <3>2. v \in Int
      BY <1>2
    <3> QED
      BY <3>1, <3>2, SMT DEF Above1
  <2>2. FromLowBytes(LowBytes(v, SizeOf(INT16))) = v
    BY <1>2, <1>4, <2>1, SignedBack
  <2> HIDE DEF Written, v
  <2>3. ReadsAs(Written(INT16, SizeOf(INT16)), s)
    BY <1>5, <2>2
  <2>4. IntegerEncoding(s) = Written(INT16, SizeOf(INT16))
    BY <1>3, <1>4, <1>7
  <2> QED
    BY <2>3, <2>4
<1>8. ASSUME ~fits8, ~fits16
      PROVE  ReadsAs(IntegerEncoding(s), s)
  <2>1. FromLowBytes(LowBytes(v, SizeOf(INT32))) = v
    BY <1>2, <1>4, SignedBack
  <2> HIDE DEF Written, v
  <2>3. ReadsAs(Written(INT32, SizeOf(INT32)), s)
    BY <1>5, <2>1
  <2>4. IntegerEncoding(s) = Written(INT32, SizeOf(INT32))
    BY <1>3, <1>4, <1>8
  <2> QED
    BY <2>3, <2>4
<1> HIDE DEF fits8, fits16
<1> QED
  BY <1>6, <1>7, <1>8

\* A string of one byte again and again is read as the string it was.
LEMMA LzfBack ==
  ASSUME NEW s \in Texts, LzfEncoding(s) # <<>>
  PROVE  ReadsAs(LzfEncoding(s), s)
<1> DEFINE x == s[1]
           c == <<x>>
           n == Len(s)
           k == EncodingByte(LZF)
           l1 == SaveLen(1)
           ln == SaveLen(n)
           e == ((k \o l1) \o ln) \o c
<1>1. s \in Bytes /\ n \in Counts
  BY DEF Texts
<1>2. Compressed(s) # <<>> /\ ~(Len(Compressed(s)) > n - 4)
  BY DEF LzfEncoding
<1>3. (\A i \in DOMAIN s : s[i] = x) /\ Compressed(s) = c
  BY <1>2 DEF Compressed
<1>4. n \in Nat /\ n >= 1 /\ DOMAIN s = 1 .. n
  <2>1. n \in Nat /\ DOMAIN s = 1 .. n
    BY <1>1, LenProperties DEF Bytes
  <2>2. Len(c) = 1
    OBVIOUS
  <2>3. ~(1 > n - 4)
    BY <1>2, <1>3, <2>2
  <2> HIDE DEF n
  <2> QED
    BY <2>1, <2>3
<1>5. x \in Byte /\ c \in Bytes /\ Len(c) = 1 /\ c[1] = x
  <2>1. 1 \in 1 .. n
    BY <1>4
  <2>2. x \in Byte
    BY <1>1, <2>1, ByteOf
  <2> QED
    BY <2>2, OneByte
<1>6. LzfEncoding(s) = EncodingByte(LZF) \o SaveLen(1) \o SaveLen(n) \o c
  <2> HIDE DEF c, n
  <2> QED
    BY <1>2, <1>3, <1>5 DEF LzfEncoding, n
<1>7. LzfEncoding(s) = e
  BY <1>6
<1>8. k \in Bytes /\ Len(k) = 1
  BY EncodingRead, EmptySeq DEF Bytes
<1>9. l1 \in Bytes /\ \A g \in Bytes : LoadLen(l1 \o g) = Got(1, g)
  <2>1. 1 \in Nat /\ Above3(1) < 256
    BY SMT DEF Above3
  <2> QED
    BY <2>1, LenBack
<1>10. ln \in Bytes /\ \A g \in Bytes : LoadLen(ln \o g) = Got(n, g)
  BY <1>1, CountsAre, LenBack
<1>11. Decompressed(c, n) = s
  <2>1. \A i \in 1 .. n : s[i] = x
    BY <1>3, <1>4
  <2>2. s = [i \in 1 .. n |-> s[i]]
    BY <1>1, <1>4, LenProperties DEF Bytes
  <2> HIDE DEF x, c, n
  <2> QED
    BY <1>5, <2>1, <2>2 DEF Decompressed
<1> HIDE DEF x, c, k, l1, ln
<1>12. k \o l1 \in Bytes /\ (k \o l1) \o ln \in Bytes /\ e \in Bytes
  <2>1. k \o l1 \in Bytes
    BY <1>8, <1>9, BytesJoin
  <2>2. (k \o l1) \o ln \in Bytes
    BY <1>10, <2>1, BytesJoin
  <2>3. e \in Bytes
    BY <1>5, <2>2, BytesJoin
  <2> QED
    BY <2>1, <2>2, <2>3
<1>13. Len(e) > 0
  <2>1. Len(e) = Len((k \o l1) \o ln) + Len(c)
    BY <1>5, <1>12, BytesJoin
  <2>2. Len((k \o l1) \o ln) \in Nat
    BY <1>12, Length
  <2> HIDE DEF e
  <2> QED
    BY <1>5, <2>1, <2>2
<1>14. ASSUME NEW g \in Bytes
       PROVE  LoadString(e \o g) = Got(s, g)
  <2> DEFINE g1 == c \o g
             g2 == ln \o g1
             g3 == l1 \o g2
  <2>1. g1 \in Bytes
    BY <1>5, BytesJoin
  <2>2. g2 \in Bytes
    BY <1>10, <2>1, BytesJoin
  <2>3. g3 \in Bytes
    BY <1>9, <2>2, BytesJoin
  <2>4. e \o g = k \o g3
    <3>1. e \o g = ((k \o l1) \o ln) \o g1
      BY <1>5, <1>12, BytesAssociate, ZenonT(60)
    <3>2. ((k \o l1) \o ln) \o g1 = (k \o l1) \o g2
      <4> HIDE DEF g1
      <4> QED
        BY <1>10, <1>12, <2>1, BytesAssociate, SMTT(60)
    <3>3. (k \o l1) \o g2 = k \o g3
      <4> HIDE DEF g2
      <4> QED
        BY <1>8, <1>9, <2>2, BytesAssociate
    <3> HIDE DEF e, g1, g2, g3
    <3> QED
      BY <3>1, <3>2, <3>3
  <2>5. Read(g1, 1) = Got(c, g)
    BY <1>5, ReadIs
  <2>6. LoadLen(g2) = Got(n, g1)
    BY <1>10, <2>1
  <2>7. LoadLen(g3) = Got(1, g2)
    BY <1>9, <2>2
  <2> HIDE DEF e, g1, g2, g3
  <2>8. LoadString(k \o g3) = LoadLzf(g3)
    BY <2>3, EncodingRead DEF k
  <2>9. LoadLzf(g3) = As(Got(c, g), Decompressed(c, n))
    <3> HIDE DEF n
    <3> QED
      BY <2>5, <2>6, <2>7, GotIs DEF LoadLzf, Then
  <2> QED
    BY <1>11, <2>4, <2>8, <2>9, AsIs
<1> HIDE DEF e
<1> QED
  BY <1>7, <1>12, <1>13, <1>14 DEF ReadsAs

\* Any other string is read behind its length.
LEMMA PlainBack ==
  ASSUME NEW s \in Texts
  PROVE  ReadsAs(SaveLen(Len(s)) \o s, s)
<1> DEFINE n == Len(s)
           l == SaveLen(n)
           e == l \o s
<1>1. s \in Bytes /\ n \in Counts
  BY DEF Texts
<1>2. l \in Bytes /\ Len(l) > 0 /\ \A g \in Bytes : LoadLen(l \o g) = Got(n, g)
  BY <1>1, CountsAre, LenBack
<1> HIDE DEF l
<1>3. e \in Bytes /\ Len(e) > 0
  <2>1. e \in Bytes /\ Len(e) = Len(l) + Len(s) /\ Len(l) \in Nat /\ Len(s) \in Nat
    BY <1>1, <1>2, BytesJoin, Length
  <2> HIDE DEF e
  <2> QED
    BY <1>2, <2>1
<1>4. ASSUME NEW g \in Bytes
      PROVE  LoadString(e \o g) = Got(s, g)
  <2> DEFINE t == s \o g
  <2>1. e \o g = l \o t
    BY <1>1, <1>2, BytesAssociate
  <2>2. t \in Bytes
    BY <1>1, BytesJoin
  <2>3. LoadLen(l \o t) = Got(n, t)
    BY <1>2, <2>2
  <2>4. Read(t, n) = Got(s, g)
    BY <1>1, ReadIs
  <2> HIDE DEF e, t, n
  <2> QED
    BY <2>1, <2>3, <2>4, GotIs DEF LoadString, Then
<1> QED
  BY <1>3, <1>4 DEF ReadsAs, l

\* Whatever a string looks like, it is read as it was.
LEMMA StringBack ==
  ASSUME NEW s \in Texts
  PROVE  ReadsAs(SaveString(s), s)
<1>1. s \in Bytes
  BY DEF Texts
<1>2. CASE Len(s) <= 11 /\ IntegerEncoding(s) # <<>>
  BY <1>1, <1>2, IntegerEncodingBack DEF SaveString
<1>3. CASE ~(Len(s) <= 11 /\ IntegerEncoding(s) # <<>>) /\ Len(s) > 20 /\ LzfEncoding(s) # <<>>
  BY <1>3, LzfBack DEF SaveString
<1>4. CASE ~(Len(s) <= 11 /\ IntegerEncoding(s) # <<>>) /\ ~(Len(s) > 20 /\ LzfEncoding(s) # <<>>)
  BY <1>4, PlainBack DEF SaveString
<1> QED
  BY <1>2, <1>3, <1>4

-----------------------------------------------------------------------------
(* Lists and sets.                                                         *)

NextElement(read) ==
  IF read.ok THEN As(LoadString(read.rest), Append(read.val, LoadString(read.rest).val)) ELSE Short

\* Element after element.
LEMMA StringsAre ==
  ASSUME NEW f, LoadLen(f).ok, LoadLen(f).val \in Nat
  PROVE  \E h : /\ h[0] = As(LoadLen(f), <<>>)
                /\ \A i \in 1 .. LoadLen(f).val : h[i] = NextElement(h[i - 1])
                /\ LoadStrings(f) = h[LoadLen(f).val]
<1> DEFINE n == LoadLen(f).val
           start == As(LoadLen(f), <<>>)
           Fun(h, m) == h = [i \in 0 .. m |-> IF i = 0 THEN start ELSE NextElement(h[i - 1])]
           Fine == {m \in Nat : \E h : Fun(h, m)}
           g == CHOOSE h : Fun(h, n)
<1>1. LoadStrings(f) = g[n]
  BY DEF LoadStrings, Then, NextElement
<1> HIDE DEF n, start
<1>2. 0 \in Fine
  <2>1. Fun([i \in 0 .. 0 |-> start], 0)
    OBVIOUS
  <2> HIDE DEF Fun
  <2> QED
    BY <2>1
<1>3. ASSUME NEW m \in Nat, m \in Fine
      PROVE  m + 1 \in Fine
  <2>1. PICK h : Fun(h, m)
    BY <1>3
  <2> DEFINE x == NextElement(h[m])
             k == [i \in 0 .. m + 1 |-> IF i = m + 1 THEN x ELSE h[i]]
  <2>2. ASSUME NEW i \in 0 .. m + 1
        PROVE  k[i] = IF i = 0 THEN start ELSE NextElement(k[i - 1])
    <3>1. CASE i = m + 1
      <4>1. k[i] = x /\ k[i - 1] = h[m] /\ i # 0
        BY <3>1
      <4> HIDE DEF k
      <4> QED
        BY <4>1
    <3>2. CASE i # m + 1
      <4>1. i \in 0 .. m /\ k[i] = h[i] /\ (i # 0 => k[i - 1] = h[i - 1])
        BY <3>2
      <4>2. h[i] = IF i = 0 THEN start ELSE NextElement(h[i - 1])
        BY <2>1, <4>1
      <4> HIDE DEF k
      <4> QED
        BY <4>1, <4>2
    <3> QED
      BY <3>1, <3>2
  <2>3. Fun(k, m + 1)
    <3>1. k = [i \in 0 .. m + 1 |-> k[i]]
      OBVIOUS
    <3> HIDE DEF k
    <3> QED
      BY <2>2, <3>1
  <2> HIDE DEF k, Fun
  <2> QED
    BY <2>3
<1>4. n \in Nat
  BY DEF n
<1> HIDE DEF Fine
<1>5. n \in Fine
  BY <1>2, <1>3, <1>4, NatRange
<1>6. Fun(g, n)
  <2> HIDE DEF Fun
  <2> QED
    BY <1>5 DEF Fine
<1> HIDE DEF g
<1>7. g[0] = start
  BY <1>4, <1>6
<1>8. \A i \in 1 .. n : g[i] = NextElement(g[i - 1])
  <2>1. \A i \in 1 .. n : i \in 0 .. n /\ i # 0
    BY <1>4
  <2> QED
    BY <1>6, <2>1
<1> HIDE DEF Fun
<1> QED
  BY <1>1, <1>7, <1>8 DEF n, start

\* A list that a dump can hold.
TextLists == {l \in Seq(Texts) : Len(l) \in Counts}

SavedElements(l) == [i \in DOMAIN l |-> SaveString(l[i])]

\* A list, or a set, is read as it was.
LEMMA StringsBack ==
  ASSUME NEW l \in TextLists
  PROVE  /\ SaveStrings(l) \in Bytes
         /\ \A g \in Bytes : LoadStrings(SaveStrings(l) \o g) = Got(l, g)
<1> DEFINE n == Len(l)
           ss == SavedElements(l)
           c == SaveLen(n)
           all == FlattenSeq(ss)
<1>1. l \in Seq(Texts) /\ n \in Counts /\ n \in Nat /\ DOMAIN l = 1 .. n
  <2>1. l \in Seq(Texts) /\ n \in Counts
    BY DEF TextLists
  <2> QED
    BY <2>1, LenProperties
<1>2. \A i \in 1 .. n : l[i] \in Texts
  BY <1>1, ElementOfSeq
<1>3. \A i \in 1 .. n : ReadsAs(SaveString(l[i]), l[i])
  BY <1>2, StringBack
<1>4. ss \in Seq(Bytes) /\ Len(ss) = n /\ \A i \in 1 .. n : ss[i] = SaveString(l[i])
  <2> HIDE DEF n
  <2>1. ss = [i \in 1 .. n |-> SaveString(l[i])]
    BY <1>1 DEF SavedElements
  <2>2. \A i \in 1 .. n : SaveString(l[i]) \in Bytes
    BY <1>3 DEF ReadsAs
  <2> HIDE DEF ss
  <2>3. ss \in Seq(Bytes)
    BY <1>1, <2>1, <2>2, IsASeq
  <2> QED
    BY <1>1, <2>1, <2>3
<1> HIDE DEF ss
<1>5. PICK q : Leaves(q, ss, n, Bytes) /\ all = q[0]
  BY <1>4, FlattenLeaves DEF Bytes
<1>6. c \in Bytes /\ \A g \in Bytes : LoadLen(c \o g) = Got(n, g)
  BY <1>1, CountsAre, LenBack
<1>7. SaveStrings(l) = c \o all
  BY DEF SaveStrings, ss, SavedElements
<1>8. all \in Bytes
  BY <1>1, <1>5 DEF Leaves
<1> HIDE DEF n, c, all
<1>9. SaveStrings(l) \in Bytes
  BY <1>6, <1>7, <1>8, BytesJoin
<1>10. ASSUME NEW g \in Bytes
       PROVE  LoadStrings(SaveStrings(l) \o g) = Got(l, g)
  <2> DEFINE f == SaveStrings(l) \o g
             t == all \o g
  <2>1. f = c \o t
    BY <1>6, <1>7, <1>8, BytesAssociate
  <2>2. t \in Bytes
    BY <1>8, BytesJoin
  <2> HIDE DEF f, t
  <2>3. LoadLen(f) = Got(n, t)
    BY <1>6, <2>1, <2>2
  <2>4. LoadLen(f).ok /\ LoadLen(f).val = n /\ As(LoadLen(f), <<>>) = Got(<<>>, t)
    BY <2>3, GotIs, AsIs
  <2>5. PICK h : /\ h[0] = Got(<<>>, t) /\ LoadStrings(f) = h[n]
                 /\ \A i \in 1 .. n : h[i] = NextElement(h[i - 1])
    BY <1>1, <2>4, StringsAre
  <2> DEFINE p(i) == SubSeq(l, 1, i)
             S == {i \in 0 .. n : h[i] = Got(p(i), q[i] \o g)}
  <2>6. 0 \in S
    <3>1. p(0) = <<>>
      BY SubSeqEmpty
    <3>2. q[0] \o g = t
      BY <1>5 DEF t
    <3> HIDE DEF p
    <3>3. h[0] = Got(p(0), q[0] \o g)
      BY <2>5, <3>1, <3>2
    <3>4. 0 \in 0 .. n
      BY <1>1
    <3> QED
      BY <3>3, <3>4
  <2>7. ASSUME NEW i \in 1 .. n, i - 1 \in S
        PROVE  i \in S
    <3> DEFINE rest == q[i - 1] \o g
               a == p(i - 1)
               e == SaveString(l[i])
               u == q[i] \o g
    <3>1. i \in 0 .. n /\ q[i] \in Bytes /\ q[i - 1] = e \o q[i] /\ e \in Bytes
      <4>1. i \in 0 .. n /\ e \in Bytes
        BY <1>1, <1>3 DEF ReadsAs
      <4>2. q[i] \in Bytes
        BY <1>5, <4>1 DEF Leaves, Bytes
      <4>3. q[i - 1] = ss[i] \o q[i] /\ ss[i] = e
        BY <1>4, <1>5 DEF Leaves
      <4> QED
        BY <4>1, <4>2, <4>3
    <3>2. rest = e \o u
      <4> HIDE DEF e
      <4>1. (e \o q[i]) \o g = e \o (q[i] \o g)
        BY <3>1, BytesAssociate
      <4> QED
        BY <3>1, <4>1
    <3>3. u \in Bytes
      BY <3>1, BytesJoin
    <3> HIDE DEF u, rest
    <3>4. LoadString(rest) = Got(l[i], u)
      BY <1>3, <3>2, <3>3 DEF ReadsAs
    <3>5. h[i - 1] = Got(a, rest)
      BY <2>7 DEF rest
    <3>6. Append(a, l[i]) = p(i)
      <4>1. 1 \in 1 .. Len(l) /\ i \in 1 .. Len(l)
        BY <1>1 DEF n
      <4>2. p(i) = a \o <<l[i]>>
        BY <1>1, <4>1, SubSeqRecursiveSecond
      <4>3. a \in Seq(Texts)
        <5>1. \A j \in 1 .. i - 1 : l[j] \in Texts
          BY <1>1, <1>2
        <5>2. 1 \in Int /\ i - 1 \in Int
          BY <1>1
        <5> QED
          BY <5>1, <5>2, SubSeqProperties
      <4>4. l[i] \in Texts
        BY <1>2
      <4> HIDE DEF a, p
      <4> QED
        BY <4>2, <4>3, <4>4, AppendIsConcat
    <3> HIDE DEF p
    <3>7. h[i] = As(Got(l[i], u), Append(a, l[i]))
      <4> HIDE DEF a
      <4> QED
        BY <2>5, <3>4, <3>5, GotIs DEF NextElement
    <3>8. h[i] = Got(p(i), u)
      BY <3>6, <3>7, AsIs
    <3> QED
      BY <3>1, <3>8 DEF u
  <2> HIDE DEF S
  <2>8. \A i \in 0 .. n : i \in S
    BY <1>1, <2>6, <2>7, Climb
  <2>9. n \in S
    BY <1>1, <2>8
  <2>10. q[n] \o g = g
    <3>1. q[n] = <<>>
      BY <1>5 DEF Leaves
    <3>2. <<>> \o g = g
      BY ConcatEmptySeq DEF Bytes
    <3> QED
      BY <3>1, <3>2
  <2>11. p(n) = l
    BY <1>1, SubSeqFull DEF n
  <2> HIDE DEF p
  <2>12. h[n] = Got(p(n), q[n] \o g)
    BY <2>9 DEF S
  <2> QED
    BY <2>5, <2>10, <2>11, <2>12 DEF f
<1> QED
  BY <1>9, <1>10

-----------------------------------------------------------------------------
(* Entries.                                                                *)

\* A time of four bytes.
Times == {t \in Int : Above3(t) >= -128 /\ Above3(t) <= 127}

Types == {REDIS_STRING, REDIS_LIST, REDIS_SET}

TypedValue(type, val) == IF type = REDIS_STRING THEN val \in Texts ELSE val \in TextLists

\* An entry that a dump can hold.
IsEntry(e) ==
  /\ e = [key |-> e.key, type |-> e.type, val |-> e.val, expire |-> e.expire]
  /\ e.key \in Texts /\ e.type \in Types /\ TypedValue(e.type, e.val) /\ e.expire \in Times

TypeAndTime(type, expire) == [type |-> type, expire |-> expire]

LEMMA TypeAndTimeIs ==
  ASSUME NEW type, NEW expire
  PROVE  TypeAndTime(type, expire).type = type /\ TypeAndTime(type, expire).expire = expire
BY DEF TypeAndTime

SavedTime(expire) == IF expire = Never THEN <<>> ELSE <<EXPIRETIME>> \o LowBytes(expire, 4)

LEMMA TypesAre ==
  /\ EXPIRETIME \in Byte /\ SELECTDB \in Byte /\ EOF \in Byte
  /\ EXPIRETIME # SELECTDB /\ EXPIRETIME # EOF /\ SELECTDB # EOF
  /\ \A t \in Types : t \in Byte /\ t # EXPIRETIME /\ t # SELECTDB /\ t # EOF
BY DEF EXPIRETIME, SELECTDB, EOF, Types, REDIS_STRING, REDIS_LIST, REDIS_SET, Byte

\* A byte that says what comes next.
LEMMA CodeRead ==
  ASSUME NEW x \in Byte, NEW g \in Bytes
  PROVE  Read(<<x>> \o g, 1) = Got(<<x>>, g) /\ <<x>>[1] = x
BY OneByte, ReadIs

LEMMA TypeRead ==
  ASSUME NEW x \in Byte, x # EXPIRETIME, NEW g \in Bytes
  PROVE  LoadType(<<x>> \o g) = Got(TypeAndTime(x, Never), g)
<1> DEFINE op == Got(<<x>>, g)
<1>1. Read(<<x>> \o g, 1) = op /\ op.ok /\ op.val[1] = x
  BY CodeRead, GotIs
<1>2. As(op, TypeAndTime(x, Never)) = Got(TypeAndTime(x, Never), g)
  BY AsIs
<1> HIDE DEF op
<1> QED
  BY <1>1, <1>2 DEF LoadType, Then, TypeAndTime

LEMMA TimeRead ==
  ASSUME NEW t \in Times, t # Never, NEW x \in Byte, NEW g \in Bytes
  PROVE  LoadType((<<EXPIRETIME>> \o LowBytes(t, 4)) \o (<<x>> \o g)) = Got(TypeAndTime(x, t), g)
<1> DEFINE c == <<EXPIRETIME>>
           b == LowBytes(t, 4)
           h == <<x>> \o g
           f == (c \o b) \o h
<1>1. b \in Bytes /\ Len(b) = 4 /\ FromLowBytes(b) = t
  <2>1. t \in Int /\ Above3(t) >= -128 /\ Above3(t) <= 127
    BY DEF Times
  <2>2. Above3(t) \in Int
    BY <2>1 DEF Above3, Above2, Above1
  <2>3. Above3(t) \in -128 .. 127
    BY <2>1, <2>2
  <2> QED
    BY <2>1, <2>3, LowBytesIs, SignedBack
<1>2. h \in Bytes
  BY OneByte, BytesJoin
<1>3. EXPIRETIME \in Byte /\ c \in Bytes /\ c[1] = EXPIRETIME
  BY TypesAre, OneByte
<1> DEFINE op == Got(c, b \o h)
           time == Got(b, h)
           code == Got(<<x>>, g)
<1>4. Read(f, 1) = op /\ op.ok /\ op.val = c /\ op.rest = b \o h
  <2>1. f = c \o (b \o h)
    <3> HIDE DEF b, c, h
    <3> QED
      BY <1>1, <1>2, <1>3, BytesAssociate
  <2>2. b \o h \in Bytes
    <3> HIDE DEF b, h
    <3> QED
      BY <1>1, <1>2, BytesJoin
  <2>3. Read(c \o (b \o h), 1) = op
    <3> DEFINE t0 == b \o h
    <3>1. t0 \in Bytes
      BY <2>2
    <3> HIDE DEF t0
    <3>2. Read(<<EXPIRETIME>> \o t0, 1) = Got(<<EXPIRETIME>>, t0)
      BY <1>3, <3>1, CodeRead
    <3> QED
      BY <3>2 DEF t0
  <2>4. op.ok /\ op.val = c /\ op.rest = b \o h
    <3> HIDE DEF b, c, h
    <3> QED
      BY GotIs, ZenonT(60)
  <2> HIDE DEF f, op
  <2> QED
    BY <2>1, <2>3, <2>4
<1>5. Read(b \o h, 4) = time /\ time.ok /\ time.val = b /\ time.rest = h
  <2> HIDE DEF b, h
  <2>1. time.ok /\ time.val = b /\ time.rest = h
    BY GotIs, ZenonT(60)
  <2>2. Read(b \o h, Len(b)) = time
    BY <1>1, <1>2, ReadIs
  <2> QED
    BY <1>1, <2>1, <2>2
<1>6. Read(h, 1) = code /\ code.ok /\ code.val[1] = x
  BY CodeRead, GotIs
<1>7. As(code, TypeAndTime(x, t)) = Got(TypeAndTime(x, t), g)
  BY AsIs
<1> HIDE DEF f, op, time, code, b, c, h
<1>8. LoadType(f) = As(code, [type |-> x, expire |-> t])
  <2>1. LoadType(f) = IF FromLowBytes(b) = Never THEN Short
                      ELSE As(code, [type |-> x, expire |-> FromLowBytes(b)])
    BY <1>3, <1>4, <1>5, <1>6 DEF LoadType, Then
  <2> QED
    BY <1>1, <2>1
<1> QED
  BY <1>7, <1>8 DEF f, b, c, h, TypeAndTime

LEMMA TypeBack ==
  ASSUME NEW x \in Types, NEW t \in Times
  PROVE  /\ SavedTime(t) \in Bytes
         /\ \A g \in Bytes : LoadType(SavedTime(t) \o (<<x>> \o g)) = Got(TypeAndTime(x, t), g)
<1>1. x \in Byte /\ x # EXPIRETIME /\ EXPIRETIME \in Byte
  BY TypesAre
<1>2. CASE t = Never
  <2>1. SavedTime(t) = <<>>
    BY <1>2 DEF SavedTime
  <2>2. <<>> \in Bytes
    BY EmptySeq DEF Bytes
  <2>3. ASSUME NEW g \in Bytes
        PROVE  LoadType(<<>> \o (<<x>> \o g)) = Got(TypeAndTime(x, t), g)
    <3> DEFINE h == <<x>> \o g
    <3>1. h \in Bytes
      BY <1>1, OneByte, BytesJoin
    <3>2. LoadType(h) = Got(TypeAndTime(x, t), g)
      BY <1>1, <1>2, TypeRead
    <3> HIDE DEF h
    <3>3. <<>> \o h = h
      BY <3>1, ConcatEmptySeq DEF Bytes
    <3>4. LoadType(<<>> \o h) = Got(TypeAndTime(x, t), g)
      BY <3>2, <3>3
    <3> QED
      BY <3>4 DEF h
  <2> QED
    BY <2>1, <2>2, <2>3
<1>3. CASE t # Never
  <2>1. SavedTime(t) = <<EXPIRETIME>> \o LowBytes(t, 4)
    BY <1>3 DEF SavedTime
  <2>2. SavedTime(t) \in Bytes
    <3>1. <<EXPIRETIME>> \in Bytes
      BY <1>1, OneByte
    <3>2. LowBytes(t, 4) \in Bytes
      BY LowBytesIs DEF Times
    <3> QED
      BY <2>1, <3>1, <3>2, BytesJoin
  <2> QED
    BY <1>1, <1>3, <2>1, <2>2, TimeRead
<1> QED
  BY <1>2, <1>3

KeyVal(key, val) == [key |-> key, val |-> val]

LEMMA KeyValIs ==
  ASSUME NEW key, NEW val
  PROVE  KeyVal(key, val).key = key /\ KeyVal(key, val).val = val
BY DEF KeyVal

SavedValue(type, val) == IF type = REDIS_STRING THEN SaveString(val) ELSE SaveStrings(val)

LEMMA ValueBack ==
  ASSUME NEW type \in Types, NEW val, TypedValue(type, val)
  PROVE  /\ SavedValue(type, val) \in Bytes
         /\ type = REDIS_STRING => \A g \in Bytes : LoadString(SavedValue(type, val) \o g) = Got(val, g)
         /\ type # REDIS_STRING => \A g \in Bytes : LoadStrings(SavedValue(type, val) \o g) = Got(val, g)
<1>1. CASE type = REDIS_STRING
  <2>1. val \in Texts /\ SavedValue(type, val) = SaveString(val)
    BY <1>1 DEF TypedValue, SavedValue
  <2>2. ReadsAs(SaveString(val), val)
    BY <2>1, StringBack
  <2> QED
    BY <1>1, <2>1, <2>2 DEF ReadsAs
<1>2. CASE type # REDIS_STRING
  <2>1. val \in TextLists /\ SavedValue(type, val) = SaveStrings(val)
    BY <1>2 DEF TypedValue, SavedValue
  <2> QED
    BY <1>2, <2>1, StringsBack
<1> QED
  BY <1>1, <1>2

LEMMA KeyValBack ==
  ASSUME NEW type \in Types, NEW key \in Texts, NEW val, TypedValue(type, val), NEW g \in Bytes
  PROVE  LoadKeyVal(SaveString(key) \o (SavedValue(type, val) \o g), type) = Got(KeyVal(key, val), g)
<1> DEFINE k == SaveString(key)
           v == SavedValue(type, val)
           h == v \o g
           f == k \o h
<1>1. ReadsAs(k, key)
  BY StringBack
<1>2. v \in Bytes
  BY ValueBack
<1>3. h \in Bytes
  <2> HIDE DEF v
  <2> QED
    BY <1>2, BytesJoin
<1>4. LoadString(f) = Got(key, h)
  <2> HIDE DEF h
  <2> QED
    BY <1>1, <1>3 DEF ReadsAs
<1>5. (IF type = REDIS_STRING THEN LoadString(h)
       ELSE IF type \in {REDIS_LIST, REDIS_SET} THEN LoadStrings(h) ELSE Short) = Got(val, g)
  BY ValueBack DEF Types
<1>6. As(Got(val, g), KeyVal(key, val)) = Got(KeyVal(key, val), g)
  BY AsIs
<1>7. Got(key, h).ok /\ Got(key, h).val = key /\ Got(key, h).rest = h /\ Got(val, g).val = val
  <2> HIDE DEF h
  <2> QED
    BY GotIs
<1> HIDE DEF f, h, v, k
<1>8. LoadKeyVal(f, type) = As(Got(val, g), [key |-> key, val |-> val])
  BY <1>4, <1>5, <1>7, SMTT(60) DEF LoadKeyVal, Then
<1> QED
  BY <1>6, <1>8 DEF KeyVal, f, h, v, k

\* What is written of an entry that has not expired is the four parts, read one after
\* the other.
LEMMA EntryParts ==
  ASSUME NEW e, IsEntry(e), NEW now, ~(e.expire # Never /\ e.expire < now), NEW g \in Bytes
  PROVE  /\ SaveEntry(e, now) \in Bytes
         /\ SaveEntry(e, now) \o g =
              SavedTime(e.expire) \o (<<e.type>> \o (SaveString(e.key) \o (SavedValue(e.type, e.val) \o g)))
<1> DEFINE p == SavedTime(e.expire)
           t == <<e.type>>
           k == SaveString(e.key)
           v == SavedValue(e.type, e.val)
<1>1. p \in Bytes /\ t \in Bytes /\ k \in Bytes /\ v \in Bytes
  <2>1. e.type \in Byte
    BY TypesAre DEF IsEntry
  <2> QED
    BY <2>1, TypeBack, OneByte, StringBack, ValueBack DEF IsEntry, ReadsAs
<1>2. SaveEntry(e, now) = ((p \o t) \o k) \o v
  BY DEF SaveEntry, SavedTime, SavedValue
<1> HIDE DEF p, t, k, v
<1>3. p \o t \in Bytes
  BY <1>1, BytesJoin
<1>4. (p \o t) \o k \in Bytes
  BY <1>1, <1>3, BytesJoin
<1>5. SaveEntry(e, now) \in Bytes
  BY <1>1, <1>2, <1>4, BytesJoin
<1>6. v \o g \in Bytes
  BY <1>1, BytesJoin
<1>7. k \o (v \o g) \in Bytes
  BY <1>1, <1>6, BytesJoin
<1>8. (((p \o t) \o k) \o v) \o g = ((p \o t) \o k) \o (v \o g)
  BY <1>1, <1>4, BytesAssociate, ZenonT(60)
<1>9. ((p \o t) \o k) \o (v \o g) = (p \o t) \o (k \o (v \o g))
  BY <1>1, <1>3, <1>6, BytesAssociate, ZenonT(60)
<1>10. (p \o t) \o (k \o (v \o g)) = p \o (t \o (k \o (v \o g)))
  <2> DEFINE h == k \o (v \o g)
  <2>1. h \in Bytes
    BY <1>7
  <2> HIDE DEF h
  <2>2. (p \o t) \o h = p \o (t \o h)
    BY <1>1, <2>1, BytesAssociate, SMTT(60)
  <2> QED
    BY <2>2 DEF h
<1> QED
  BY <1>2, <1>5, <1>8, <1>9, <1>10 DEF p, t, k, v

\* Which is not nothing.
LEMMA EntrySize ==
  ASSUME NEW e, IsEntry(e), NEW now, ~(e.expire # Never /\ e.expire < now)
  PROVE  Len(SaveEntry(e, now)) > 0
<1> DEFINE p == SavedTime(e.expire)
           t == <<e.type>>
           k == SaveString(e.key)
           v == SavedValue(e.type, e.val)
<1>1. p \in Bytes /\ t \in Bytes /\ Len(t) = 1 /\ k \in Bytes /\ v \in Bytes
  <2>1. e.type \in Byte
    BY TypesAre DEF IsEntry
  <2> QED
    BY <2>1, TypeBack, OneByte, StringBack, ValueBack DEF IsEntry, ReadsAs
<1>2. SaveEntry(e, now) = ((p \o t) \o k) \o v
  BY DEF SaveEntry, SavedTime, SavedValue
<1> HIDE DEF p, t, k, v
<1>3. p \o t \in Bytes /\ Len(p \o t) = Len(p) + 1
  BY <1>1, BytesJoin, ZenonT(60)
<1>4. (p \o t) \o k \in Bytes /\ Len((p \o t) \o k) = Len(p \o t) + Len(k)
  BY <1>1, <1>3, BytesJoin
<1>5. Len(((p \o t) \o k) \o v) = Len((p \o t) \o k) + Len(v)
  BY <1>1, <1>4, BytesJoin
<1>6. Len(p) \in Nat /\ Len(k) \in Nat /\ Len(v) \in Nat
  BY <1>1, Length
<1> QED
  BY <1>2, <1>3, <1>4, <1>5, <1>6

-----------------------------------------------------------------------------
(* The loop.                                                               *)

LEMMA ReadingIs ==
  ASSUME NEW dbs, NEW db
  PROVE  /\ Reading(dbs, db).dbs = dbs /\ Reading(dbs, db).db = db /\ ~Reading(dbs, db).eof
         /\ Complete(dbs).dbs = dbs /\ Complete(dbs).eof
BY DEF Reading, Complete

NextTurn(read, now) == IF read.ok THEN LoadTurn(read, now) ELSE Short

\* What there is after each of n turns.
Turns(after, n, start, now) ==
  after[0] = start /\ \A i \in 1 .. n : after[i] = NextTurn(after[i - 1], now)

LEMMA LoopIs ==
  ASSUME NEW f \in Bytes, NEW dbs, NEW now
  PROVE  \E after : /\ Turns(after, Len(f), Got(Reading(dbs, 1), f), now)
                    /\ LoadLoop(f, dbs, now) = after[Len(f)]
<1> DEFINE n == Len(f)
           start == Got(Reading(dbs, 1), f)
           Fun(h, m) == h = [i \in 0 .. m |-> IF i = 0 THEN start ELSE NextTurn(h[i - 1], now)]
           Fine == {m \in Nat : \E h : Fun(h, m)}
           g == CHOOSE h : Fun(h, n)
<1>1. LoadLoop(f, dbs, now) = g[n]
  BY DEF LoadLoop, Then, NextTurn
<1>4. n \in Nat
  BY Length
<1> HIDE DEF n, start
<1>2. 0 \in Fine
  <2>1. Fun([i \in 0 .. 0 |-> start], 0)
    OBVIOUS
  <2> HIDE DEF Fun
  <2> QED
    BY <2>1
<1>3. ASSUME NEW m \in Nat, m \in Fine
      PROVE  m + 1 \in Fine
  <2>1. PICK h : Fun(h, m)
    BY <1>3
  <2> DEFINE x == NextTurn(h[m], now)
             k == [i \in 0 .. m + 1 |-> IF i = m + 1 THEN x ELSE h[i]]
  <2>2. ASSUME NEW i \in 0 .. m + 1
        PROVE  k[i] = IF i = 0 THEN start ELSE NextTurn(k[i - 1], now)
    <3>1. CASE i = m + 1
      <4>1. k[i] = x /\ k[i - 1] = h[m] /\ i # 0
        BY <3>1
      <4> HIDE DEF k
      <4> QED
        BY <4>1
    <3>2. CASE i # m + 1
      <4>1. i \in 0 .. m /\ k[i] = h[i] /\ (i # 0 => k[i - 1] = h[i - 1])
        BY <3>2
      <4>2. h[i] = IF i = 0 THEN start ELSE NextTurn(h[i - 1], now)
        BY <2>1, <4>1
      <4> HIDE DEF k
      <4> QED
        BY <4>1, <4>2
    <3> QED
      BY <3>1, <3>2
  <2>3. Fun(k, m + 1)
    <3>1. k = [i \in 0 .. m + 1 |-> k[i]]
      OBVIOUS
    <3> HIDE DEF k
    <3> QED
      BY <2>2, <3>1
  <2> HIDE DEF k, Fun
  <2> QED
    BY <2>3
<1> HIDE DEF Fine
<1>5. n \in Fine
  BY <1>2, <1>3, <1>4, NatRange
<1>6. Fun(g, n)
  <2> HIDE DEF Fun
  <2> QED
    BY <1>5 DEF Fine
<1> HIDE DEF g
<1>7. g[0] = start
  BY <1>4, <1>6
<1>8. \A i \in 1 .. n : g[i] = NextTurn(g[i - 1], now)
  <2>1. \A i \in 1 .. n : i \in 0 .. n /\ i # 0
    BY <1>4
  <2> QED
    BY <1>6, <2>1
<1> HIDE DEF Fun
<1> QED
  BY <1>1, <1>7, <1>8 DEF n, start, Turns

\* A turn that finds an entry adds it.
LEMMA TurnAdds ==
  ASSUME NEW dbs, NEW db, NEW e, IsEntry(e), NEW saved, NEW loaded, NEW g \in Bytes,
         ~(e.expire # Never /\ e.expire < saved), ~Duplicate(dbs, db, e.key)
  PROVE  NextTurn(Got(Reading(dbs, db), SaveEntry(e, saved) \o g), loaded)
           = Got(Reading(Added(dbs, db, KeyVal(e.key, e.val), e.type, e.expire, loaded), db), g)
<1> DEFINE f == SaveEntry(e, saved) \o g
           h == SaveString(e.key) \o (SavedValue(e.type, e.val) \o g)
           tt == TypeAndTime(e.type, e.expire)
           kv == KeyVal(e.key, e.val)
           at == Reading(dbs, db)
           sum == Reading(Added(dbs, db, kv, e.type, e.expire, loaded), db)
<1>1. e.key \in Texts /\ e.type \in Types /\ TypedValue(e.type, e.val) /\ e.expire \in Times
  BY DEF IsEntry
<1>2. h \in Bytes
  <2>1. SaveString(e.key) \in Bytes /\ SavedValue(e.type, e.val) \in Bytes
    BY <1>1, StringBack, ValueBack DEF ReadsAs
  <2>2. SavedValue(e.type, e.val) \o g \in Bytes
    BY <2>1, BytesJoin
  <2> QED
    BY <2>1, <2>2, BytesJoin
<1>3. f = SavedTime(e.expire) \o (<<e.type>> \o h)
  BY EntryParts, ZenonT(60)
<1>4. LoadKeyVal(h, e.type) = Got(kv, g)
  BY <1>1, KeyValBack
<1> HIDE DEF f, h
<1>5. LoadType(f) = Got(tt, h)
  BY <1>1, <1>2, <1>3, TypeBack
<1>6. tt.type = e.type /\ tt.expire = e.expire /\ kv.key = e.key
  BY TypeAndTimeIs, KeyValIs
<1>7. e.type # EOF /\ e.type # SELECTDB
  BY <1>1, TypesAre
<1>8. at.dbs = dbs /\ at.db = db /\ ~at.eof
  BY ReadingIs
<1> HIDE DEF tt, kv, at, sum
<1>9. /\ Got(at, f).ok /\ Got(at, f).val = at /\ Got(at, f).rest = f
      /\ Got(tt, h).ok /\ Got(tt, h).val = tt /\ Got(tt, h).rest = h
      /\ Got(kv, g).ok /\ Got(kv, g).val = kv
  BY GotIs
<1>10. As(Got(kv, g), sum) = Got(sum, g)
  BY AsIs
<1>11. LoadTurn(Got(at, f), loaded) = As(Got(kv, g), Reading(Added(dbs, db, kv, e.type, e.expire, loaded), db))
  BY <1>4, <1>5, <1>6, <1>7, <1>8, <1>9 DEF LoadTurn, Then
<1> QED
  BY <1>9, <1>10, <1>11 DEF NextTurn, f, kv, at, sum

\* One that finds the number of a database selects it.
LEMMA TurnSelects ==
  ASSUME NEW dbs, NEW db, NEW j \in Counts, j < Len(dbs), NEW now, NEW g \in Bytes
  PROVE  NextTurn(Got(Reading(dbs, db), (<<SELECTDB>> \o SaveLen(j)) \o g), now)
           = Got(Reading(dbs, j + 1), g)
<1> DEFINE h == SaveLen(j) \o g
           f == (<<SELECTDB>> \o SaveLen(j)) \o g
           tt == TypeAndTime(SELECTDB, Never)
           at == Reading(dbs, db)
<1>1. SELECTDB \in Byte /\ SELECTDB # EXPIRETIME /\ SELECTDB # EOF
  BY TypesAre
<1>2. SaveLen(j) \in Bytes /\ LoadLen(h) = Got(j, g)
  BY CountsAre, LenBack
<1>3. h \in Bytes
  BY <1>2, BytesJoin
<1>4. f = <<SELECTDB>> \o h
  BY <1>1, <1>2, OneByte, BytesAssociate
<1> HIDE DEF h, f
<1>5. LoadType(f) = Got(tt, h)
  BY <1>1, <1>3, <1>4, TypeRead
<1>6. tt.type = SELECTDB
  BY TypeAndTimeIs
<1>7. at.dbs = dbs /\ ~at.eof
  BY ReadingIs
<1> HIDE DEF tt, at
<1>8. /\ Got(at, f).ok /\ Got(at, f).val = at /\ Got(at, f).rest = f
      /\ Got(tt, h).ok /\ Got(tt, h).val = tt /\ Got(tt, h).rest = h
      /\ Got(j, g).ok /\ Got(j, g).val = j
  BY GotIs
<1>9. As(Got(j, g), Reading(dbs, j + 1)) = Got(Reading(dbs, j + 1), g)
  BY AsIs
<1>10. ~(j >= Len(dbs))
  BY CountsAre
<1>11. LoadTurn(Got(at, f), now) = As(Got(j, g), Reading(dbs, j + 1))
  BY <1>1, <1>2, <1>5, <1>6, <1>7, <1>8, <1>10 DEF LoadTurn, Then
<1> QED
  BY <1>8, <1>9, <1>11 DEF NextTurn, f, at

\* And one that finds the end is the last that reads.
LEMMA TurnEnds ==
  ASSUME NEW dbs, NEW db, NEW now, NEW g \in Bytes
  PROVE  NextTurn(Got(Reading(dbs, db), <<EOF>> \o g), now) = Got(Complete(dbs), g)
<1> DEFINE f == <<EOF>> \o g
           tt == TypeAndTime(EOF, Never)
           at == Reading(dbs, db)
<1>1. EOF \in Byte /\ EOF # EXPIRETIME /\ SELECTDB # EOF
  BY TypesAre
<1>2. LoadType(f) = Got(tt, g)
  BY <1>1, TypeRead
<1>3. tt.type = EOF
  BY TypeAndTimeIs
<1>4. at.dbs = dbs /\ ~at.eof
  BY ReadingIs
<1> HIDE DEF f, tt, at
<1>5. /\ Got(at, f).ok /\ Got(at, f).val = at /\ Got(at, f).rest = f
      /\ Got(tt, g).ok /\ Got(tt, g).val = tt /\ Got(tt, g).rest = g
  BY GotIs
<1>6. As(Got(tt, g), Complete(dbs)) = Got(Complete(dbs), g)
  BY AsIs
<1>7. LoadTurn(Got(at, f), now) = As(Got(tt, g), Complete(dbs))
  BY <1>1, <1>2, <1>3, <1>4, <1>5 DEF LoadTurn, Then
<1> QED
  BY <1>5, <1>6, <1>7 DEF NextTurn, f, at

LEMMA TurnStays ==
  ASSUME NEW dbs, NEW g, NEW now
  PROVE  NextTurn(Got(Complete(dbs), g), now) = Got(Complete(dbs), g)
<1> DEFINE at == Complete(dbs)
<1>1. at.eof
  BY ReadingIs
<1> HIDE DEF at
<1>2. Got(at, g).ok /\ Got(at, g).val = at
  BY GotIs
<1>3. LoadTurn(Got(at, g), now) = Got(at, g)
  BY <1>1, <1>2 DEF LoadTurn
<1> QED
  BY <1>2, <1>3 DEF NextTurn, at

-----------------------------------------------------------------------------
(* A dump is loaded.                                                       *)

\* The loop comes to where these databases are read, and r is still to be.
Reaches(after, n, dbs, db, r) ==
  r \in Bytes /\ \E m \in 0 .. n : after[m] = Got(Reading(dbs, db), r) /\ m + Len(r) <= n

LEMMA Advances ==
  ASSUME NEW n \in Nat, NEW after, NEW start, NEW now, Turns(after, n, start, now),
         NEW dbs1, NEW db1, NEW r1, Reaches(after, n, dbs1, db1, r1),
         NEW dbs2, NEW db2, NEW r2 \in Bytes, Len(r2) < Len(r1),
         NextTurn(Got(Reading(dbs1, db1), r1), now) = Got(Reading(dbs2, db2), r2)
  PROVE  Reaches(after, n, dbs2, db2, r2)
<1>1. PICK m \in 0 .. n : after[m] = Got(Reading(dbs1, db1), r1) /\ m + Len(r1) <= n
  BY DEF Reaches
<1>2. Len(r1) \in Nat /\ Len(r2) \in Nat
  BY Length DEF Reaches
<1>3. m + 1 \in 1 .. n /\ (m + 1) - 1 = m /\ m + 1 \in 0 .. n /\ (m + 1) + Len(r2) <= n
  BY <1>1, <1>2
<1>4. after[m + 1] = NextTurn(after[(m + 1) - 1], now)
  BY <1>3 DEF Turns
<1>5. after[m + 1] = Got(Reading(dbs2, db2), r2)
  BY <1>1, <1>3, <1>4
<1> QED
  BY <1>3, <1>5 DEF Reaches

Entries == {e \in [key : Texts, type : Types, val : Texts \cup TextLists, expire : Times] : IsEntry(e)}

LEMMA EntryIs ==
  ASSUME NEW e \in Entries
  PROVE  IsEntry(e) /\ e.expire \in Int /\ Never \in Int
BY DEF Entries, IsEntry, Times, Never

Kept(e, saved, loaded) == IF Lasts(e, saved, loaded) THEN <<e>> ELSE <<>>

LEMMA KeptIs ==
  ASSUME NEW e \in Entries, NEW saved, NEW loaded
  PROVE  Kept(e, saved, loaded) \in Seq(Entries)
<1>1. <<e>> \in Seq(Entries) /\ <<>> \in Seq(Entries)
  OBVIOUS
<1> QED
  BY <1>1 DEF Kept

DbsOf(c) == [1 .. c -> Seq(Entries)]

\* The databases, when database db is l.
With(dbs, db, l) == [dbs EXCEPT ![db] = l]

LEMMA WithIs ==
  ASSUME NEW c \in Nat, NEW dbs \in DbsOf(c), NEW db \in 1 .. c, NEW l \in Seq(Entries)
  PROVE  /\ With(dbs, db, l) \in DbsOf(c)
         /\ \A j \in 1 .. c : With(dbs, db, l)[j] = IF j = db THEN l ELSE dbs[j]
         /\ dbs[db] = l => With(dbs, db, l) = dbs
BY DEF With, DbsOf

LEMMA WithTwice ==
  ASSUME NEW c \in Nat, NEW dbs \in DbsOf(c), NEW db \in 1 .. c, NEW l, NEW k
  PROVE  With(With(dbs, db, l), db, k) = With(dbs, db, k)
BY DEF With, DbsOf

LEMMA AddedIs ==
  ASSUME NEW c \in Nat, NEW dbs \in DbsOf(c), NEW db \in 1 .. c, NEW e \in Entries,
         NEW saved \in Int, NEW loaded \in Int, ~(e.expire # Never /\ e.expire < saved)
  PROVE  Added(dbs, db, KeyVal(e.key, e.val), e.type, e.expire, loaded)
           = With(dbs, db, dbs[db] \o Kept(e, saved, loaded))
<1> DEFINE l == dbs[db]
           kv == KeyVal(e.key, e.val)
<1>1. IsEntry(e) /\ e.expire \in Int /\ Never \in Int
  BY EntryIs
<1>2. l \in Seq(Entries)
  BY DEF DbsOf
<1>3. kv.key = e.key /\ kv.val = e.val
  BY KeyValIs
<1>4. [key |-> e.key, type |-> e.type, val |-> e.val, expire |-> e.expire] = e
  BY <1>1 DEF IsEntry
<1> HIDE DEF kv
<1>5. CASE e.expire # Never /\ e.expire < loaded
  <2>1. Kept(e, saved, loaded) = <<>>
    BY <1>1, <1>5 DEF Kept, Lasts
  <2>2. l \o <<>> = l
    BY <1>2, ConcatEmptySeq
  <2>3. Added(dbs, db, kv, e.type, e.expire, loaded) = dbs
    BY <1>5 DEF Added
  <2> QED
    BY <2>1, <2>2, <2>3 DEF kv, With, DbsOf
<1>6. CASE ~(e.expire # Never /\ e.expire < loaded)
  <2>1. Kept(e, saved, loaded) = <<e>>
    BY <1>1, <1>6 DEF Kept, Lasts
  <2>2. l \o <<e>> = Append(l, e)
    BY <1>2, AppendIsConcat
  <2>3. Added(dbs, db, kv, e.type, e.expire, loaded) =
          [dbs EXCEPT ![db] =
             Append(@, [key |-> kv.key, type |-> e.type, val |-> kv.val, expire |-> e.expire])]
    BY <1>6 DEF Added
  <2>4. [key |-> kv.key, type |-> e.type, val |-> kv.val, expire |-> e.expire] = e
    BY <1>3, <1>4
  <2>5. Added(dbs, db, kv, e.type, e.expire, loaded) = [dbs EXCEPT ![db] = Append(l, e)]
    BY <2>3, <2>4
  <2> QED
    BY <2>1, <2>2, <2>5 DEF kv, With
<1> QED
  BY <1>5, <1>6

\* The turn that reads an entry, or none if it had expired when the dump was written.
LEMMA EntryRestored ==
  ASSUME NEW n \in Nat, NEW after, NEW start, NEW saved \in Int, NEW loaded \in Int,
         Turns(after, n, start, loaded),
         NEW c \in Nat, NEW dbs \in DbsOf(c), NEW db \in 1 .. c, NEW e \in Entries,
         ~Duplicate(dbs, db, e.key), NEW g \in Bytes,
         Reaches(after, n, dbs, db, SaveEntry(e, saved) \o g)
  PROVE  Reaches(after, n, With(dbs, db, dbs[db] \o Kept(e, saved, loaded)), db, g)
<1> DEFINE l == dbs[db]
           s == SaveEntry(e, saved)
           new == With(dbs, db, l \o Kept(e, saved, loaded))
<1>1. IsEntry(e) /\ e.expire \in Int /\ Never \in Int /\ l \in Seq(Entries)
  BY EntryIs DEF DbsOf
<1>2. CASE e.expire # Never /\ e.expire < saved
  <2>1. Kept(e, saved, loaded) = <<>>
    BY <1>1, <1>2 DEF Kept, Lasts
  <2>2. s = <<>>
    BY <1>2 DEF SaveEntry
  <2>3. l \o <<>> = l
    BY <1>1, ConcatEmptySeq
  <2>4. <<>> \o g = g
    BY ConcatEmptySeq DEF Bytes
  <2>5. With(dbs, db, l) = dbs
    BY <1>1, WithIs
  <2>6. new = dbs
    BY <2>1, <2>3, <2>5
  <2> HIDE DEF s, new
  <2> QED
    BY <2>2, <2>4, <2>6 DEF s, new
<1>3. CASE ~(e.expire # Never /\ e.expire < saved)
  <2>1. new = Added(dbs, db, KeyVal(e.key, e.val), e.type, e.expire, loaded)
    BY <1>3, AddedIs
  <2> HIDE DEF new
  <2>2. NextTurn(Got(Reading(dbs, db), s \o g), loaded) = Got(Reading(new, db), g)
    BY <1>1, <1>3, <2>1, TurnAdds
  <2>3. Len(g) < Len(s \o g)
    <3>1. s \in Bytes /\ Len(s) > 0
      BY <1>1, <1>3, EntryParts, EntrySize
    <3> HIDE DEF s
    <3> QED
      BY <3>1, BytesJoin, Length
  <2>4. Reaches(after, n, new, db, g)
    <3> HIDE DEF s
    <3> QED
      BY <2>2, <2>3, Advances DEF s
  <2> QED
    BY <2>4 DEF new
<1> QED
  BY <1>2, <1>3

SavedEntries(l, saved) == [i \in DOMAIN l |-> SaveEntry(l[i], saved)]
KeptEntries(l, saved, loaded) == [i \in DOMAIN l |-> Kept(l[i], saved, loaded)]

\* A database that a dictionary can be: no key twice.
Databases == {l \in Seq(Entries) : \A i, k \in 1 .. Len(l) : l[i].key = l[k].key => i = k}

LEMMA SavedEntryIs ==
  ASSUME NEW e \in Entries, NEW now
  PROVE  SaveEntry(e, now) \in Bytes
<1>1. CASE e.expire # Never /\ e.expire < now
  <2>1. SaveEntry(e, now) = <<>>
    BY <1>1 DEF SaveEntry
  <2>2. <<>> \in Bytes
    BY EmptySeq DEF Bytes
  <2> QED
    BY <2>1, <2>2
<1>2. CASE ~(e.expire # Never /\ e.expire < now)
  <2>1. IsEntry(e)
    BY EntryIs
  <2>2. <<>> \in Bytes
    BY EmptySeq DEF Bytes
  <2> QED
    BY <1>2, <2>1, <2>2, EntryParts
<1> QED
  BY <1>1, <1>2

ComeFrom(p, l) == \A i \in 0 .. Len(l) : \A x \in 1 .. Len(p[i]) : \E h \in 1 .. i : p[i][x] = l[h]

\* What was kept of the first entries came from them.
LEMMA KeptFrom ==
  ASSUME NEW l \in Seq(Entries), NEW saved, NEW loaded, NEW p,
         Joins(p, KeptEntries(l, saved, loaded), Len(l), Seq(Entries))
  PROVE  ComeFrom(p, l)
<1> DEFINE n == Len(l)
           From(i) == \A x \in 1 .. Len(p[i]) : \E h \in 1 .. i : p[i][x] = l[h]
           S == {i \in 0 .. n : From(i)}
<1>1. n \in Nat /\ DOMAIN l = 1 .. n
  BY LenProperties
<1>2. 0 \in S
  <2>1. p[0] = <<>> /\ Len(p[0]) = 0
    BY DEF Joins
  <2>2. From(0)
    BY <2>1
  <2> HIDE DEF From
  <2> QED
    BY <1>1, <2>2
<1>3. ASSUME NEW i \in 1 .. n, i - 1 \in S
      PROVE  i \in S
  <2> DEFINE k == Kept(l[i], saved, loaded)
             a == p[i - 1]
  <2>1. i - 1 \in 0 .. n /\ i \in 0 .. n /\ \A h \in 1 .. i - 1 : h \in 1 .. i
    BY <1>1
  <2>2. l[i] \in Entries
    BY ElementOfSeq
  <2>3. k \in Seq(Entries) /\ (k = <<>> \/ k = <<l[i]>>)
    BY <2>2, KeptIs DEF Kept
  <2>4. KeptEntries(l, saved, loaded)[i] = k
    BY <1>1 DEF KeptEntries
  <2>5. p[i] = a \o k /\ a \in Seq(Entries)
    BY <2>1, <2>4 DEF Joins
  <2>6. From(i - 1)
    <3> HIDE DEF From
    <3> QED
      BY <1>3
  <2> HIDE DEF k
  <2>7. From(i)
    <3> SUFFICES ASSUME NEW x \in 1 .. Len(p[i])
                 PROVE  \E h \in 1 .. i : p[i][x] = l[h]
      OBVIOUS
    <3>1. Len(a) \in Nat /\ Len(k) \in Nat /\ Len(p[i]) = Len(a) + Len(k)
      BY <2>3, <2>5, ConcatProperties, LenProperties
    <3>2. CASE x <= Len(a)
      <4>1. x \in 1 .. Len(a) /\ p[i][x] = a[x]
        BY <2>3, <2>5, <3>1, <3>2, ConcatProperties
      <4>2. \E h \in 1 .. i - 1 : a[x] = l[h]
        BY <2>6, <4>1
      <4> QED
        BY <2>1, <4>1, <4>2
    <3>3. CASE ~(x <= Len(a))
      <4>1. k # <<>>
        BY <2>3, <3>1, <3>3
      <4>2. k = <<l[i]>> /\ Len(k) = 1 /\ k[1] = l[i]
        BY <2>3, <4>1
      <4>3. x - Len(a) = 1
        BY <3>1, <3>3, <4>2
      <4>4. p[i][x] = k[x - Len(a)]
        BY <2>3, <2>5, <3>1, <3>3, ConcatProperties
      <4>5. p[i][x] = l[i] /\ i \in 1 .. i
        BY <1>1, <4>2, <4>3, <4>4
      <4> QED
        BY <4>5
    <3> QED
      BY <3>2, <3>3
  <2> HIDE DEF From
  <2> QED
    BY <2>1, <2>7
<1> HIDE DEF From
<1>4. \A i \in 0 .. n : i \in S
  <2> HIDE DEF S
  <2> QED
    BY <1>1, <1>2, <1>3, Climb
<1> QED
  BY <1>4 DEF From, ComeFrom

\* A database, entry by entry.
LEMMA EntriesRestored ==
  ASSUME NEW n \in Nat, NEW after, NEW start, NEW saved \in Int, NEW loaded \in Int,
         Turns(after, n, start, loaded),
         NEW c \in Nat, NEW dbs \in DbsOf(c), NEW db \in 1 .. c, dbs[db] = <<>>,
         NEW l \in Databases, NEW g \in Bytes,
         Reaches(after, n, dbs, db, FlattenSeq(SavedEntries(l, saved)) \o g)
  PROVE  /\ FlattenSeq(KeptEntries(l, saved, loaded)) \in Seq(Entries)
         /\ Reaches(after, n, With(dbs, db, FlattenSeq(KeptEntries(l, saved, loaded))), db, g)
<1> DEFINE m == Len(l)
           ss == SavedEntries(l, saved)
           ks == KeptEntries(l, saved, loaded)
<1>1. l \in Seq(Entries) /\ m \in Nat /\ DOMAIN l = 1 .. m /\ \A i \in 1 .. m : l[i] \in Entries
  <2>1. l \in Seq(Entries)
    BY DEF Databases
  <2> QED
    BY <2>1, ElementOfSeq, LenProperties
<1>2. ss \in Seq(Bytes) /\ Len(ss) = m /\ \A i \in 1 .. m : ss[i] = SaveEntry(l[i], saved)
  <2> HIDE DEF m
  <2>1. ss = [i \in 1 .. m |-> SaveEntry(l[i], saved)]
    BY <1>1 DEF SavedEntries
  <2>2. \A i \in 1 .. m : SaveEntry(l[i], saved) \in Bytes
    BY <1>1, SavedEntryIs
  <2> HIDE DEF ss
  <2>3. ss \in Seq(Bytes)
    BY <1>1, <2>1, <2>2, IsASeq
  <2> QED
    BY <1>1, <2>1, <2>3
<1>3. ks \in Seq(Seq(Entries)) /\ Len(ks) = m /\ \A i \in 1 .. m : ks[i] = Kept(l[i], saved, loaded)
  <2> HIDE DEF m
  <2>1. ks = [i \in 1 .. m |-> Kept(l[i], saved, loaded)]
    BY <1>1 DEF KeptEntries
  <2>2. \A i \in 1 .. m : Kept(l[i], saved, loaded) \in Seq(Entries)
    BY <1>1, KeptIs
  <2> HIDE DEF ks
  <2>3. ks \in Seq(Seq(Entries))
    BY <1>1, <2>1, <2>2, IsASeq
  <2> QED
    BY <1>1, <2>1, <2>3
<1>4. PICK q : Leaves(q, ss, m, Bytes) /\ FlattenSeq(ss) = q[0]
  <2> HIDE DEF ss, m
  <2> QED
    BY <1>2, FlattenLeaves DEF Bytes
<1>5. PICK p : Joins(p, ks, m, Seq(Entries)) /\ FlattenSeq(ks) = p[m]
  <2> HIDE DEF ks, m
  <2> QED
    BY <1>3, FlattenJoins
<1>6. ComeFrom(p, l)
  BY <1>1, <1>5, KeptFrom
<1> HIDE DEF ss, ks
<1>7. Reaches(after, n, dbs, db, q[0] \o g)
  BY <1>4 DEF ss
<1> DEFINE There(i) == Reaches(after, n, With(dbs, db, p[i]), db, q[i] \o g)
           S == {i \in 0 .. m : There(i)}
<1>8. 0 \in S
  <2>1. With(dbs, db, p[0]) = dbs
    <3> DEFINE none == p[0]
    <3>1. none = dbs[db]
      BY <1>5 DEF Joins
    <3>2. none \in Seq(Entries)
      BY <3>1 DEF DbsOf
    <3> HIDE DEF none
    <3>3. With(dbs, db, none) = dbs
      BY <3>1 DEF With, DbsOf
    <3> QED
      BY <3>3 DEF none
  <2>2. There(0)
    BY <1>7, <2>1
  <2> HIDE DEF There
  <2> QED
    BY <1>1, <2>2
<1>9. ASSUME NEW i \in 1 .. m, i - 1 \in S
      PROVE  i \in S
  <2> DEFINE a == p[i - 1]
             old == With(dbs, db, a)
             k == Kept(l[i], saved, loaded)
             u == q[i] \o g
             e == l[i]
  <2>1. i - 1 \in 0 .. m /\ i \in 0 .. m
    BY <1>1
  <2>2. a \in Seq(Entries) /\ p[i] = a \o k /\ p[i] \in Seq(Entries)
    BY <1>3, <1>5, <2>1 DEF Joins
  <2>3. q[i] \in Bytes /\ q[i - 1] = SaveEntry(e, saved) \o q[i]
    <3>1. q[i] \in Bytes
      BY <1>4, <2>1 DEF Leaves, Bytes
    <3>2. q[i - 1] = ss[i] \o q[i] /\ ss[i] = SaveEntry(e, saved)
      BY <1>2, <1>4 DEF Leaves
    <3> QED
      BY <3>1, <3>2
  <2>4. e \in Entries /\ SaveEntry(e, saved) \in Bytes
    BY <1>1, SavedEntryIs
  <2> HIDE DEF k, e
  <2>5. u \in Bytes /\ q[i - 1] \o g = SaveEntry(e, saved) \o u
    <3>1. u \in Bytes
      BY <2>3, BytesJoin
    <3>2. (SaveEntry(e, saved) \o q[i]) \o g = SaveEntry(e, saved) \o (q[i] \o g)
      BY <2>3, <2>4, BytesAssociate
    <3> QED
      BY <2>3, <3>1, <3>2
  <2>6. There(i - 1)
    <3> HIDE DEF There
    <3> QED
      BY <1>9
  <2> HIDE DEF u
  <2>7. Reaches(after, n, old, db, SaveEntry(e, saved) \o u)
    BY <2>5, <2>6
  <2>0. \A x \in 1 .. Len(a) : \E h \in 1 .. i - 1 : a[x] = l[h]
    BY <1>6, <2>1 DEF ComeFrom
  <2> HIDE DEF a
  <2>8. old \in DbsOf(c) /\ old[db] = a
    BY <2>2, WithIs
  <2>9. ~Duplicate(old, db, e.key)
    <3> SUFFICES ASSUME Duplicate(old, db, e.key)
                 PROVE  FALSE
      OBVIOUS
    <3>1. PICK x \in DOMAIN a : a[x].key = e.key
      BY <2>8 DEF Duplicate
    <3>2. x \in 1 .. Len(a)
      BY <2>2, LenProperties
    <3>3. PICK h \in 1 .. i - 1 : a[x] = l[h]
      BY <2>0, <3>2
    <3>4. h \in 1 .. m /\ l[h].key = l[i].key /\ h # i
      BY <1>1, <3>1, <3>3 DEF e
    <3> QED
      BY <3>4 DEF Databases
  <2>10. Reaches(after, n, With(old, db, old[db] \o k), db, u)
    <3> HIDE DEF old
    <3> QED
      BY <2>4, <2>5, <2>7, <2>8, <2>9, EntryRestored DEF k, e
  <2>11. With(old, db, old[db] \o k) = With(dbs, db, p[i])
    <3>1. old[db] \o k = p[i]
      BY <2>2, <2>8
    <3>2. With(With(dbs, db, a), db, p[i]) = With(dbs, db, p[i])
      BY WithTwice
    <3> QED
      BY <3>1, <3>2
  <2>12. There(i)
    BY <2>10, <2>11 DEF u
  <2> HIDE DEF There
  <2> QED
    BY <2>1, <2>12
<1> HIDE DEF S
<1>10. \A i \in 0 .. m : i \in S
  BY <1>1, <1>8, <1>9, Climb
<1>11. There(m)
  <2> HIDE DEF There
  <2>1. m \in S
    BY <1>1, <1>10
  <2> QED
    BY <2>1 DEF S
<1>12. q[m] \o g = g
  <2>1. q[m] = <<>>
    BY <1>4 DEF Leaves
  <2>2. <<>> \o g = g
    BY ConcatEmptySeq DEF Bytes
  <2> QED
    BY <2>1, <2>2
<1>13. p[m] \in Seq(Entries)
  BY <1>1, <1>5 DEF Joins
<1>14. Reaches(after, n, With(dbs, db, p[m]), db, g)
  BY <1>11, <1>12
<1> QED
  BY <1>5, <1>13, <1>14 DEF ks

KeptDb(l, saved, loaded) == FlattenSeq(KeptEntries(l, saved, loaded))

LEMMA CountsBelow ==
  ASSUME NEW n \in Counts, NEW m \in Nat, m <= n
  PROVE  m \in Counts
BY DEF Counts, Above3

LEMMA DbsLength ==
  ASSUME NEW c \in Nat, NEW dbs \in DbsOf(c)
  PROVE  Len(dbs) = c /\ dbs \in Seq(Seq(Entries)) /\ \A j \in 1 .. c : dbs[j] \in Seq(Entries)
<1>1. dbs \in [1 .. c -> Seq(Entries)]
  BY DEF DbsOf
<1>2. dbs \in Seq(Seq(Entries)) /\ DOMAIN dbs = 1 .. c
  BY <1>1
<1>3. Len(dbs) = c
  BY <1>2, LenProperties
<1> QED
  BY <1>1, <1>2, <1>3

LEMMA KeptNone ==
  ASSUME NEW saved, NEW loaded
  PROVE  KeptDb(<<>>, saved, loaded) = <<>>
<1>1. KeptEntries(<<>>, saved, loaded) = <<>>
  BY DEF KeptEntries
<1>2. FlattenSeq(<<>>) = <<>>
  BY DEF FlattenSeq
<1> QED
  BY <1>1, <1>2 DEF KeptDb

LEMMA SavedEntriesAre ==
  ASSUME NEW l \in Databases, NEW saved
  PROVE  FlattenSeq(SavedEntries(l, saved)) \in Bytes
<1> DEFINE m == Len(l)
           ss == SavedEntries(l, saved)
<1>1. l \in Seq(Entries) /\ m \in Nat /\ DOMAIN l = 1 .. m /\ \A i \in 1 .. m : l[i] \in Entries
  <2>1. l \in Seq(Entries)
    BY DEF Databases
  <2> QED
    BY <2>1, ElementOfSeq, LenProperties
<1> HIDE DEF m
<1>2. ss = [i \in 1 .. m |-> SaveEntry(l[i], saved)]
  BY <1>1 DEF SavedEntries
<1>3. \A i \in 1 .. m : SaveEntry(l[i], saved) \in Bytes
  BY <1>1, SavedEntryIs
<1> HIDE DEF ss
<1>4. ss \in Seq(Bytes) /\ Len(ss) = m
  BY <1>1, <1>2, <1>3, IsASeq
<1>5. PICK q : Leaves(q, ss, m, Bytes) /\ FlattenSeq(ss) = q[0]
  BY <1>4, FlattenLeaves DEF Bytes
<1>6. q[0] \in Bytes
  BY <1>1, <1>5 DEF Leaves
<1> QED
  BY <1>5, <1>6 DEF ss

\* Which has a number, unless it has no entries and is not written at all.
LEMMA DbRestored ==
  ASSUME NEW n \in Nat, NEW after, NEW start, NEW saved \in Int, NEW loaded \in Int,
         Turns(after, n, start, loaded),
         NEW c \in Counts, NEW dbs \in DbsOf(c), NEW j \in 1 .. c, dbs[j] = <<>>, NEW db,
         NEW l \in Databases, NEW g \in Bytes,
         Reaches(after, n, dbs, db, SaveDb(j - 1, l, saved) \o g)
  PROVE  \E d : Reaches(after, n, With(dbs, j, KeptDb(l, saved, loaded)), d, g)
<1>0. c \in Nat
  BY CountsAre
<1>1. CASE l = <<>>
  <2>1. SaveDb(j - 1, l, saved) = <<>>
    BY <1>1 DEF SaveDb
  <2>2. <<>> \o g = g
    BY ConcatEmptySeq DEF Bytes
  <2>3. KeptDb(l, saved, loaded) = <<>>
    BY <1>1, KeptNone
  <2>4. With(dbs, j, <<>>) = dbs
    BY DEF With, DbsOf
  <2>5. Reaches(after, n, dbs, db, g)
    BY <2>1, <2>2
  <2> QED
    BY <2>3, <2>4, <2>5
<1>2. CASE l # <<>>
  <2> DEFINE h == <<SELECTDB>> \o SaveLen(j - 1)
             e == FlattenSeq(SavedEntries(l, saved))
             u == e \o g
  <2>1. SaveDb(j - 1, l, saved) = h \o e
    BY <1>2 DEF SaveDb, SavedEntries
  <2>2. j - 1 \in Counts /\ j - 1 < Len(dbs) /\ (j - 1) + 1 = j
    <3>1. j - 1 \in Nat /\ j - 1 <= c /\ j - 1 < c /\ (j - 1) + 1 = j
      BY <1>0
    <3> QED
      BY <1>0, <3>1, CountsBelow, DbsLength
  <2>3. h \in Bytes /\ Len(h) > 0
    <3> DEFINE x == SaveLen(j - 1)
    <3>1. x \in Bytes
      BY <2>2, CountsAre, LenBack
    <3>2. <<SELECTDB>> \in Bytes /\ Len(<<SELECTDB>>) = 1
      BY TypesAre, OneByte
    <3> HIDE DEF x
    <3>3. <<SELECTDB>> \o x \in Bytes /\ Len(<<SELECTDB>> \o x) = 1 + Len(x) /\ Len(x) \in Nat
      BY <3>1, <3>2, BytesJoin, Length
    <3> QED
      BY <3>3 DEF x
  <2>4. e \in Bytes
    BY SavedEntriesAre
  <2>5. u \in Bytes /\ (h \o e) \o g = h \o u
    <3> HIDE DEF h, e
    <3> QED
      BY <2>3, <2>4, BytesJoin, BytesAssociate, SMTT(60)
  <2> HIDE DEF e, u
  <2>6. NextTurn(Got(Reading(dbs, db), h \o u), loaded) = Got(Reading(dbs, j), u)
    <3>1. NextTurn(Got(Reading(dbs, db), h \o u), loaded) = Got(Reading(dbs, (j - 1) + 1), u)
      <4> DEFINE i == j - 1
      <4>1. i \in Counts /\ i < Len(dbs)
        BY <2>2
      <4> HIDE DEF i
      <4>2. NextTurn(Got(Reading(dbs, db), (<<SELECTDB>> \o SaveLen(i)) \o u), loaded)
              = Got(Reading(dbs, i + 1), u)
        BY <2>5, <4>1, TurnSelects
      <4> QED
        BY <4>2 DEF i
    <3> QED
      BY <2>2, <3>1
  <2>7. Len(u) < Len(h \o u)
    <3> HIDE DEF h
    <3> QED
      BY <2>3, <2>5, BytesJoin, Length
  <2> HIDE DEF h
  <2>8. Reaches(after, n, dbs, db, h \o u)
    BY <2>1, <2>5
  <2>9. Reaches(after, n, dbs, j, u)
    BY <2>5, <2>6, <2>7, <2>8, Advances
  <2>10. Reaches(after, n, With(dbs, j, FlattenSeq(KeptEntries(l, saved, loaded))), j, g)
    BY <1>0, <2>9, EntriesRestored DEF u, e
  <2> QED
    BY <2>10 DEF KeptDb
<1> QED
  BY <1>1, <1>2

\* The databases of which the first m are read.
Partly(dbs, c, m, saved, loaded) ==
  [k \in 1 .. c |-> IF k <= m THEN KeptDb(dbs[k], saved, loaded) ELSE <<>>]

LEMMA KeptDbIs ==
  ASSUME NEW l \in Databases, NEW saved, NEW loaded
  PROVE  KeptDb(l, saved, loaded) \in Seq(Entries)
<1> DEFINE m == Len(l)
           ks == KeptEntries(l, saved, loaded)
<1>1. l \in Seq(Entries) /\ m \in Nat /\ DOMAIN l = 1 .. m /\ \A i \in 1 .. m : l[i] \in Entries
  <2>1. l \in Seq(Entries)
    BY DEF Databases
  <2> QED
    BY <2>1, ElementOfSeq, LenProperties
<1> HIDE DEF m
<1>2. ks = [i \in 1 .. m |-> Kept(l[i], saved, loaded)]
  BY <1>1 DEF KeptEntries
<1>3. \A i \in 1 .. m : Kept(l[i], saved, loaded) \in Seq(Entries)
  BY <1>1, KeptIs
<1> HIDE DEF ks
<1>4. ks \in Seq(Seq(Entries)) /\ Len(ks) = m
  BY <1>1, <1>2, <1>3, IsASeq
<1>5. PICK p : Joins(p, ks, m, Seq(Entries)) /\ FlattenSeq(ks) = p[m]
  BY <1>4, FlattenJoins
<1>6. p[m] \in Seq(Entries)
  BY <1>1, <1>5 DEF Joins
<1> QED
  BY <1>5, <1>6 DEF ks, KeptDb

LEMMA PartlyIs ==
  ASSUME NEW c \in Nat, NEW dbs, \A k \in 1 .. c : dbs[k] \in Databases, NEW saved, NEW loaded
  PROVE  /\ \A m \in 0 .. c : Partly(dbs, c, m, saved, loaded) \in DbsOf(c)
         /\ \A m \in 1 .. c : /\ Partly(dbs, c, m - 1, saved, loaded)[m] = <<>>
                              /\ With(Partly(dbs, c, m - 1, saved, loaded), m, KeptDb(dbs[m], saved, loaded))
                                   = Partly(dbs, c, m, saved, loaded)
         /\ Partly(dbs, c, 0, saved, loaded) = [k \in 1 .. c |-> <<>>]
         /\ Partly(dbs, c, c, saved, loaded) = [k \in 1 .. c |-> KeptDb(dbs[k], saved, loaded)]
<1> DEFINE F(k) == KeptDb(dbs[k], saved, loaded)
<1>1. \A k \in 1 .. c : F(k) \in Seq(Entries)
  BY KeptDbIs
<1>2. <<>> \in Seq(Entries)
  BY EmptySeq
<1> HIDE DEF F
<1>3. \A m : Partly(dbs, c, m, saved, loaded) = [k \in 1 .. c |-> IF k <= m THEN F(k) ELSE <<>>]
  BY DEF Partly, F
<1>4. \A m \in 0 .. c : Partly(dbs, c, m, saved, loaded) \in DbsOf(c)
  BY <1>1, <1>2, <1>3 DEF DbsOf
<1>5. ASSUME NEW m \in 1 .. c
      PROVE  /\ Partly(dbs, c, m - 1, saved, loaded)[m] = <<>>
             /\ With(Partly(dbs, c, m - 1, saved, loaded), m, F(m)) = Partly(dbs, c, m, saved, loaded)
  BY <1>3 DEF With
<1>6. Partly(dbs, c, 0, saved, loaded) = [k \in 1 .. c |-> <<>>]
  BY <1>3
<1>7. Partly(dbs, c, c, saved, loaded) = [k \in 1 .. c |-> F(k)]
  BY <1>3
<1> QED
  BY <1>4, <1>5, <1>6, <1>7 DEF F

SavedDbs(dbs, saved) == [j \in DOMAIN dbs |-> SaveDb(j - 1, dbs[j], saved)]

\* What a dump can hold.
Dumpable == {dbs \in Seq(Databases) : Len(dbs) \in Counts}

LEMMA DumpableIs ==
  ASSUME NEW dbs \in Dumpable
  PROVE  /\ Len(dbs) \in Counts /\ Len(dbs) \in Nat /\ DOMAIN dbs = 1 .. Len(dbs)
         /\ \A j \in 1 .. Len(dbs) : dbs[j] \in Databases
<1>1. dbs \in Seq(Databases) /\ Len(dbs) \in Counts
  BY DEF Dumpable
<1> QED
  BY <1>1, ElementOfSeq, LenProperties

LEMMA SavedDbIs ==
  ASSUME NEW j \in Counts, NEW l \in Databases, NEW saved
  PROVE  SaveDb(j, l, saved) \in Bytes
<1>1. CASE l = <<>>
  <2>1. SaveDb(j, l, saved) = <<>>
    BY <1>1 DEF SaveDb
  <2>2. <<>> \in Bytes
    BY EmptySeq DEF Bytes
  <2> QED
    BY <2>1, <2>2
<1>2. CASE l # <<>>
  <2> DEFINE x == SaveLen(j)
             e == FlattenSeq(SavedEntries(l, saved))
  <2>1. SaveDb(j, l, saved) = (<<SELECTDB>> \o x) \o e
    BY <1>2 DEF SaveDb, SavedEntries
  <2>2. x \in Bytes /\ e \in Bytes /\ <<SELECTDB>> \in Bytes
    BY CountsAre, LenBack, SavedEntriesAre, TypesAre, OneByte
  <2> HIDE DEF x, e
  <2>3. <<SELECTDB>> \o x \in Bytes
    BY <2>2, BytesJoin
  <2> QED
    BY <2>1, <2>2, <2>3, BytesJoin
<1> QED
  BY <1>1, <1>2

LEMMA SavedDbsAre ==
  ASSUME NEW dbs \in Dumpable, NEW saved
  PROVE  \E q : /\ Leaves(q, SavedDbs(dbs, saved), Len(dbs), Bytes)
                /\ FlattenSeq(SavedDbs(dbs, saved)) = q[0]
                /\ \A j \in 1 .. Len(dbs) : /\ SavedDbs(dbs, saved)[j] = SaveDb(j - 1, dbs[j], saved)
                                            /\ SaveDb(j - 1, dbs[j], saved) \in Bytes
<1> DEFINE c == Len(dbs)
           ss == SavedDbs(dbs, saved)
<1>1. c \in Counts /\ c \in Nat /\ DOMAIN dbs = 1 .. c /\ \A j \in 1 .. c : dbs[j] \in Databases
  BY DumpableIs
<1> HIDE DEF c
<1>2. ss = [j \in 1 .. c |-> SaveDb(j - 1, dbs[j], saved)]
  BY <1>1 DEF SavedDbs
<1>3. ASSUME NEW j \in 1 .. c
      PROVE  SaveDb(j - 1, dbs[j], saved) \in Bytes
  <2>1. j - 1 \in Nat /\ j - 1 <= c
    BY <1>1
  <2>2. j - 1 \in Counts
    BY <1>1, <2>1, CountsBelow
  <2> QED
    BY <1>1, <2>2, SavedDbIs
<1> HIDE DEF ss
<1>4. ss \in Seq(Bytes) /\ Len(ss) = c
  BY <1>1, <1>2, <1>3, IsASeq
<1>5. PICK q : Leaves(q, ss, c, Bytes) /\ FlattenSeq(ss) = q[0]
  BY <1>4, FlattenLeaves DEF Bytes
<1>6. \A j \in 1 .. c : ss[j] = SaveDb(j - 1, dbs[j], saved)
  BY <1>2
<1> QED
  BY <1>3, <1>5, <1>6 DEF ss, c

\* After the last turn all that did not expire is there, and nothing is left to read.
LEMMA DbsRestored ==
  ASSUME NEW n \in Nat, NEW after, NEW start, NEW saved \in Int, NEW loaded \in Int,
         Turns(after, n, start, loaded), NEW dbs \in Dumpable,
         Reaches(after, n, [k \in 1 .. Len(dbs) |-> <<>>], 1, FlattenSeq(SavedDbs(dbs, saved)) \o <<EOF>>)
  PROVE  after[n] = Got(Complete([k \in 1 .. Len(dbs) |-> KeptDb(dbs[k], saved, loaded)]), <<>>)
<1> DEFINE c == Len(dbs)
           P(m) == Partly(dbs, c, m, saved, loaded)
           tail == <<EOF>>
<1>1. c \in Counts /\ c \in Nat /\ \A j \in 1 .. c : dbs[j] \in Databases
  BY DumpableIs
<1>2. PICK q : /\ Leaves(q, SavedDbs(dbs, saved), c, Bytes)
               /\ FlattenSeq(SavedDbs(dbs, saved)) = q[0]
               /\ \A j \in 1 .. c : /\ SavedDbs(dbs, saved)[j] = SaveDb(j - 1, dbs[j], saved)
                                    /\ SaveDb(j - 1, dbs[j], saved) \in Bytes
  BY SavedDbsAre
<1>3. tail \in Bytes /\ Len(tail) = 1
  BY TypesAre, OneByte
<1> HIDE DEF c, tail
<1>4. /\ \A m \in 0 .. c : P(m) \in DbsOf(c)
      /\ \A m \in 1 .. c : P(m - 1)[m] = <<>> /\ With(P(m - 1), m, KeptDb(dbs[m], saved, loaded)) = P(m)
      /\ P(0) = [k \in 1 .. c |-> <<>>]
      /\ P(c) = [k \in 1 .. c |-> KeptDb(dbs[k], saved, loaded)]
  BY <1>1, PartlyIs
<1> HIDE DEF P
<1> DEFINE There(m) == \E db : Reaches(after, n, P(m), db, q[m] \o tail)
           S == {m \in 0 .. c : There(m)}
<1>5. 0 \in S
  <2>1. Reaches(after, n, P(0), 1, q[0] \o tail)
    BY <1>2, <1>4 DEF c, tail
  <2>2. 0 \in 0 .. c
    BY <1>1
  <2> QED
    BY <2>1, <2>2
<1>6. ASSUME NEW m \in 1 .. c, m - 1 \in S
      PROVE  m \in S
  <2> DEFINE old == P(m - 1)
             w == SaveDb(m - 1, dbs[m], saved)
             u == q[m] \o tail
             l == dbs[m]
  <2>1. m - 1 \in 0 .. c /\ m \in 0 .. c /\ l \in Databases
    BY <1>1
  <2>2. PICK db : Reaches(after, n, old, db, q[m - 1] \o tail)
    BY <1>6
  <2>3. q[m] \in Bytes
    BY <1>2, <2>1 DEF Leaves, Bytes
  <2>4. q[m - 1] = w \o q[m] /\ w \in Bytes
    BY <1>2 DEF Leaves
  <2>5. u \in Bytes
    BY <1>3, <2>3, BytesJoin
  <2>6. q[m - 1] \o tail = w \o u
    <3> HIDE DEF w
    <3>1. (w \o q[m]) \o tail = w \o (q[m] \o tail)
      BY <1>3, <2>3, <2>4, BytesAssociate
    <3> QED
      BY <2>4, <3>1
  <2>7. old \in DbsOf(c) /\ old[m] = <<>> /\ With(old, m, KeptDb(l, saved, loaded)) = P(m)
    BY <1>4, <2>1
  <2> HIDE DEF old, u, l
  <2>8. Reaches(after, n, old, db, SaveDb(m - 1, l, saved) \o u)
    BY <2>2, <2>6 DEF l
  <2>9. \E d : Reaches(after, n, With(old, m, KeptDb(l, saved, loaded)), d, u)
    BY <1>1, <2>1, <2>5, <2>7, <2>8, DbRestored
  <2>10. \E d : Reaches(after, n, P(m), d, u)
    BY <2>7, <2>9
  <2>11. There(m)
    BY <2>10 DEF u
  <2> HIDE DEF There
  <2> QED
    BY <2>1, <2>11
<1> HIDE DEF S
<1>7. \A m \in 0 .. c : m \in S
  BY <1>1, <1>5, <1>6, Climb
<1>8. There(c)
  <2> HIDE DEF There
  <2>1. c \in S
    BY <1>1, <1>7
  <2> QED
    BY <2>1 DEF S
<1>9. q[c] \o tail = tail \o <<>>
  <2>1. q[c] = <<>>
    BY <1>2 DEF Leaves
  <2>2. <<>> \o tail = tail /\ tail \o <<>> = tail
    BY <1>3, ConcatEmptySeq DEF Bytes
  <2> QED
    BY <2>1, <2>2
<1>10. PICK db : Reaches(after, n, P(c), db, tail \o <<>>)
  BY <1>8, <1>9
<1>11. tail \o <<>> = tail
  BY <1>3, ConcatEmptySeq DEF Bytes
<1>12. PICK m \in 0 .. n : after[m] = Got(Reading(P(c), db), tail \o <<>>) /\ m + 1 <= n
  BY <1>3, <1>10, <1>11 DEF Reaches
<1>13. <<>> \in Bytes
  BY EmptySeq DEF Bytes
<1> DEFINE end == Got(Complete(P(c)), <<>>)
<1>14. after[m + 1] = end
  <2>1. m + 1 \in 1 .. n /\ (m + 1) - 1 = m
    BY <1>12
  <2>2. after[m + 1] = NextTurn(after[(m + 1) - 1], loaded)
    BY <2>1 DEF Turns
  <2>3. NextTurn(Got(Reading(P(c), db), <<EOF>> \o <<>>), loaded) = end
    BY <1>13, TurnEnds
  <2> HIDE DEF end
  <2> QED
    BY <1>12, <2>1, <2>2, <2>3 DEF tail
<1>15. NextTurn(end, loaded) = end
  BY TurnStays
<1> HIDE DEF end
<1>16. after[n] = end
  <2> DEFINE T == {i \in 0 .. n : i >= m + 1 => after[i] = end}
  <2>1. 0 \in T
    BY <1>12
  <2>2. ASSUME NEW i \in 1 .. n, i - 1 \in T
        PROVE  i \in T
    <3>1. CASE i - 1 >= m + 1
      <4>1. after[i - 1] = end
        BY <2>2, <3>1
      <4>2. after[i] = NextTurn(after[i - 1], loaded)
        BY DEF Turns
      <4> QED
        BY <1>15, <4>1, <4>2
    <3>2. CASE ~(i - 1 >= m + 1)
      <4>1. i >= m + 1 => i = m + 1
        BY <1>12, <3>2
      <4> QED
        BY <1>14, <4>1
    <3> QED
      BY <3>1, <3>2
  <2> HIDE DEF T
  <2>3. \A i \in 0 .. n : i \in T
    BY <2>1, <2>2, Climb
  <2>4. n \in T /\ n >= m + 1
    BY <1>12, <2>3
  <2> QED
    BY <2>4 DEF T
<1> QED
  BY <1>4, <1>16 DEF end, c

LEMMA SignatureIs == Signature \in Bytes /\ Len(Signature) = 9
<1> DEFINE b == <<82, 69, 68, 73, 83, 48, 48, 48, 49>>
<1>1. b \in Seq(Byte) /\ Len(b) = 9
  BY DEF Byte
<1> QED
  BY <1>1 DEF Signature, Bytes

\* A whole dump.
LEMMA DumpLoaded ==
  ASSUME NEW dbs \in Dumpable, NEW saved \in Int, NEW loaded \in Int
  PROVE  LET body == FlattenSeq(SavedDbs(dbs, saved)) \o <<EOF>>
             all  == [k \in 1 .. Len(dbs) |-> KeptDb(dbs[k], saved, loaded)]
         IN /\ body \in Bytes
            /\ SaveDump(dbs, saved) = Signature \o body
            /\ LoadLoop(body, [j \in 1 .. Len(dbs) |-> <<>>], loaded) = Got(Complete(all), <<>>)
<1> DEFINE c == Len(dbs)
           flat == FlattenSeq(SavedDbs(dbs, saved))
           tail == <<EOF>>
           body == flat \o tail
           none == [j \in 1 .. c |-> <<>>]
<1>1. PICK q : Leaves(q, SavedDbs(dbs, saved), c, Bytes) /\ flat = q[0]
  BY SavedDbsAre
<1>2. c \in Nat
  BY DumpableIs
<1>3. flat \in Bytes /\ tail \in Bytes /\ Len(tail) = 1
  BY <1>1, <1>2, TypesAre, OneByte DEF Leaves
<1>4. SaveDump(dbs, saved) = (Signature \o flat) \o tail
  BY DEF SaveDump, SavedDbs
<1>5. Signature \in Bytes
  BY SignatureIs
<1> HIDE DEF flat, tail
<1>6. body \in Bytes /\ (Signature \o flat) \o tail = Signature \o body
  BY <1>3, <1>5, BytesJoin, BytesAssociate
<1> HIDE DEF body, none
<1>7. PICK after : /\ Turns(after, Len(body), Got(Reading(none, 1), body), loaded)
                   /\ LoadLoop(body, none, loaded) = after[Len(body)]
  BY <1>6, LoopIs
<1>8. Reaches(after, Len(body), none, 1, body)
  <2>1. Len(body) \in Nat
    BY <1>6, Length
  <2>2. after[0] = Got(Reading(none, 1), body)
    BY <1>7 DEF Turns
  <2>3. 0 \in 0 .. Len(body) /\ 0 + Len(body) <= Len(body)
    BY <2>1
  <2> QED
    BY <1>6, <2>2, <2>3 DEF Reaches
<1>9. after[Len(body)] = Got(Complete([k \in 1 .. Len(dbs) |-> KeptDb(dbs[k], saved, loaded)]), <<>>)
  <2>1. Len(body) \in Nat
    BY <1>6, Length
  <2> DEFINE n == Len(body)
             start == Got(Reading(none, 1), body)
  <2>2. Turns(after, n, start, loaded)
    BY <1>7
  <2>3. Reaches(after, n, [k \in 1 .. Len(dbs) |-> <<>>], 1, FlattenSeq(SavedDbs(dbs, saved)) \o <<EOF>>)
    BY <1>8 DEF none, c, body, flat, tail
  <2> HIDE DEF n, start
  <2>4. n \in Nat
    BY <2>1 DEF n
  <2>5. after[n] = Got(Complete([k \in 1 .. Len(dbs) |-> KeptDb(dbs[k], saved, loaded)]), <<>>)
    BY <2>2, <2>3, <2>4, DbsRestored
  <2> QED
    BY <2>5 DEF n
<1> QED
  BY <1>4, <1>6, <1>7, <1>9 DEF body, flat, tail, none, c

-----------------------------------------------------------------------------
(* A dump that is cut short.                                               *)

\* What a shorter file gives a longer one gives, with g still to be read; or it was
\* too short.
Longer(a, b, g) ==
  \/ a = Short
  \/ \E v : \E r \in Bytes : a = Got(v, r) /\ b = Got(v, r \o g)

LEMMA ReadLonger ==
  ASSUME NEW f \in Bytes, NEW g \in Bytes, NEW n \in Nat
  PROVE  Longer(Read(f, n), Read(f \o g, n), g)
<1>1. Grows(Read(f, n), Read(f \o g, n), g, Sized(n))
  BY ReadGrows
<1> QED
  BY <1>1 DEF Grows, Longer

LEMMA LenLonger ==
  ASSUME NEW f \in Bytes, NEW g \in Bytes
  PROVE  \/ LoadLen(f) = Short
         \/ \E v \in Nat, r \in Bytes :
              \/ LoadLen(f) = Got(v, r) /\ LoadLen(f \o g) = Got(v, r \o g)
              \/ LoadLen(f) = Encoding(v, r) /\ LoadLen(f \o g) = Encoding(v, r \o g)
BY LoadLenGrows DEF LenGrows, Grows

Holds(a, v, r) == a.ok /\ a.val = v /\ a.rest = r /\ As(a, <<>>) = Got(<<>>, r)

LEMMA LenHolds ==
  ASSUME NEW f \in Bytes, NEW g \in Bytes, LoadLen(f) # Short
  PROVE  \E v \in Nat, r \in Bytes : Holds(LoadLen(f), v, r) /\ Holds(LoadLen(f \o g), v, r \o g)
<1>1. PICK v \in Nat, r \in Bytes :
        \/ LoadLen(f) = Got(v, r) /\ LoadLen(f \o g) = Got(v, r \o g)
        \/ LoadLen(f) = Encoding(v, r) /\ LoadLen(f \o g) = Encoding(v, r \o g)
  BY LenLonger
<1>2. ASSUME NEW q
      PROVE  Holds(Got(v, q), v, q) /\ Holds(Encoding(v, q), v, q)
  <2> DEFINE a == Got(v, q)
             b == Encoding(v, q)
  <2>1. a.ok /\ a.val = v /\ a.rest = q /\ b.ok /\ b.val = v /\ b.rest = q
    BY GotIs, EncodingIs
  <2>2. As(a, <<>>) = Got(<<>>, q) /\ As(b, <<>>) = Got(<<>>, q)
    BY AsIs
  <2> HIDE DEF a, b
  <2>3. Holds(a, v, q) /\ Holds(b, v, q)
    BY <2>1, <2>2 DEF Holds
  <2> QED
    BY <2>3 DEF a, b
<1> QED
  BY <1>1, <1>2

LEMMA IntegerLonger ==
  ASSUME NEW f \in Bytes, NEW g \in Bytes, NEW enc
  PROVE  Longer(LoadInteger(f, enc), LoadInteger(f \o g, enc), g)
<1> DEFINE n == IF enc = INT8 THEN 1 ELSE IF enc = INT16 THEN 2 ELSE 4
           known == enc \in {INT8, INT16, INT32}
           Value(m) == Printed(FromLowBytes(m.val))
           a == Read(f, n)
           b == Read(f \o g, n)
<1>1. /\ LoadInteger(f, enc) = IF known THEN As(a, Value(a)) ELSE Short
      /\ LoadInteger(f \o g, enc) = IF known THEN As(b, Value(b)) ELSE Short
  BY DEF LoadInteger
<1>2. Longer(a, b, g)
  <2>1. n \in Nat
    OBVIOUS
  <2> HIDE DEF n
  <2> QED
    BY <2>1, ReadLonger
<1> HIDE DEF a, b, n, known
<1>3. CASE ~known \/ a = Short
  <2>1. As(Short, Value(Short)) = Short
    BY AsIs
  <2> HIDE DEF Value
  <2>2. LoadInteger(f, enc) = Short
    BY <1>1, <1>3, <2>1
  <2> QED
    BY <2>2 DEF Longer
<1>4. CASE known /\ a # Short
  <2>1. PICK v, r : r \in Bytes /\ a = Got(v, r) /\ b = Got(v, r \o g)
    BY <1>2, <1>4 DEF Longer
  <2> DEFINE w == Printed(FromLowBytes(v))
  <2>2. Value(a) = w /\ Value(b) = w
    BY <2>1, GotIs
  <2> HIDE DEF Value, w
  <2>3. LoadInteger(f, enc) = Got(w, r) /\ LoadInteger(f \o g, enc) = Got(w, r \o g)
    BY <1>1, <1>4, <2>1, <2>2, AsIs
  <2> QED
    BY <2>1, <2>3 DEF Longer
<1> QED
  BY <1>3, <1>4

LEMMA LzfLonger ==
  ASSUME NEW f \in Bytes, NEW g \in Bytes
  PROVE  Longer(LoadLzf(f), LoadLzf(f \o g), g)
<1>1. CASE LoadLen(f) = Short
  BY <1>1, ShortIs DEF LoadLzf, Then, Longer
<1>2. CASE LoadLen(f) # Short
  <2>1. PICK n \in Nat, r \in Bytes : Holds(LoadLen(f), n, r) /\ Holds(LoadLen(f \o g), n, r \o g)
    BY <1>2, LenHolds
  <2>2. /\ LoadLen(f).ok /\ LoadLen(f).val = n /\ LoadLen(f).rest = r
        /\ LoadLen(f \o g).ok /\ LoadLen(f \o g).val = n /\ LoadLen(f \o g).rest = r \o g
    BY <2>1 DEF Holds
  <2>3. CASE LoadLen(r) = Short
    BY <2>2, <2>3, ShortIs DEF LoadLzf, Then, Longer
  <2>4. CASE LoadLen(r) # Short
    <3>1. PICK m \in Nat, q \in Bytes : Holds(LoadLen(r), m, q) /\ Holds(LoadLen(r \o g), m, q \o g)
      BY <2>4, LenHolds
    <3>2. /\ LoadLen(r).ok /\ LoadLen(r).val = m /\ LoadLen(r).rest = q
          /\ LoadLen(r \o g).ok /\ LoadLen(r \o g).val = m /\ LoadLen(r \o g).rest = q \o g
      BY <3>1 DEF Holds
    <3> DEFINE a == Read(q, n)
               b == Read(q \o g, n)
    <3>3. /\ LoadLzf(f) = IF n = 0 THEN Short ELSE As(a, Decompressed(a.val, m))
          /\ LoadLzf(f \o g) = IF n = 0 THEN Short ELSE As(b, Decompressed(b.val, m))
      BY <2>2, <3>2 DEF LoadLzf, Then
    <3>4. Longer(a, b, g)
      BY ReadLonger
    <3> HIDE DEF a, b
    <3>5. CASE n = 0 \/ a = Short
      <4>1. As(Short, Decompressed(Short.val, m)) = Short
        BY AsIs
      <4>2. LoadLzf(f) = Short
        BY <3>3, <3>5, <4>1
      <4> QED
        BY <4>2 DEF Longer
    <3>6. CASE n # 0 /\ a # Short
      <4>1. PICK v, p : p \in Bytes /\ a = Got(v, p) /\ b = Got(v, p \o g)
        BY <3>4, <3>6 DEF Longer
      <4> DEFINE w == Decompressed(v, m)
      <4>2. Decompressed(a.val, m) = w /\ Decompressed(b.val, m) = w
        BY <4>1, GotIs
      <4> HIDE DEF w
      <4>3. LoadLzf(f) = Got(w, p) /\ LoadLzf(f \o g) = Got(w, p \o g)
        BY <3>3, <3>6, <4>1, <4>2, AsIs
      <4> QED
        BY <4>1, <4>3 DEF Longer
    <3> QED
      BY <3>5, <3>6
  <2> QED
    BY <2>3, <2>4
<1> QED
  BY <1>1, <1>2

LEMMA StringLonger ==
  ASSUME NEW f \in Bytes, NEW g \in Bytes
  PROVE  Longer(LoadString(f), LoadString(f \o g), g)
<1>1. CASE LoadLen(f) = Short
  BY <1>1, ShortIs DEF LoadString, Then, Longer
<1>2. ASSUME NEW n \in Nat, NEW r \in Bytes,
             LoadLen(f) = Got(n, r), LoadLen(f \o g) = Got(n, r \o g)
      PROVE  Longer(LoadString(f), LoadString(f \o g), g)
  <2>1. LoadString(f) = Read(r, n) /\ LoadString(f \o g) = Read(r \o g, n)
    BY <1>2, GotIs DEF LoadString, Then
  <2> QED
    BY <2>1, ReadLonger
<1>3. ASSUME NEW enc \in Nat, NEW r \in Bytes,
             LoadLen(f) = Encoding(enc, r), LoadLen(f \o g) = Encoding(enc, r \o g)
      PROVE  Longer(LoadString(f), LoadString(f \o g), g)
  <2>1. /\ LoadString(f) = IF enc = LZF THEN LoadLzf(r) ELSE LoadInteger(r, enc)
        /\ LoadString(f \o g) = IF enc = LZF THEN LoadLzf(r \o g) ELSE LoadInteger(r \o g, enc)
    BY <1>3, EncodingIs DEF LoadString, Then
  <2> QED
    BY <2>1, LzfLonger, IntegerLonger
<1> QED
  BY <1>1, <1>2, <1>3, LenLonger

LEMMA NextElementLonger ==
  ASSUME NEW a, NEW b, NEW g \in Bytes, Longer(a, b, g)
  PROVE  Longer(NextElement(a), NextElement(b), g)
<1>1. CASE a = Short
  BY <1>1, ShortIs DEF NextElement, Longer
<1>2. CASE a # Short
  <2>1. PICK v, r : r \in Bytes /\ a = Got(v, r) /\ b = Got(v, r \o g)
    BY <1>2 DEF Longer
  <2> DEFINE x == LoadString(r)
             y == LoadString(r \o g)
  <2>2. NextElement(a) = As(x, Append(v, x.val)) /\ NextElement(b) = As(y, Append(v, y.val))
    BY <2>1, GotIs DEF NextElement
  <2>3. Longer(x, y, g)
    BY <2>1, StringLonger
  <2> HIDE DEF x, y
  <2>4. CASE x = Short
    <3>1. NextElement(a) = Short
      BY <2>2, <2>4, AsIs
    <3> QED
      BY <3>1 DEF Longer
  <2>5. CASE x # Short
    <3>1. PICK w, p : p \in Bytes /\ x = Got(w, p) /\ y = Got(w, p \o g)
      BY <2>3, <2>5 DEF Longer
    <3>2. x.val = w /\ y.val = w
      BY <3>1, GotIs
    <3> DEFINE l == Append(v, w)
    <3>3. Append(v, x.val) = l /\ Append(v, y.val) = l
      BY <3>2
    <3> HIDE DEF l
    <3>4. NextElement(a) = As(x, l) /\ NextElement(b) = As(y, l)
      BY <2>2, <3>3
    <3>5. NextElement(a) = Got(l, p) /\ NextElement(b) = Got(l, p \o g)
      BY <3>1, <3>4, AsIs
    <3> QED
      BY <3>1, <3>5 DEF Longer
  <2> QED
    BY <2>4, <2>5
<1> QED
  BY <1>1, <1>2

LEMMA StringsLonger ==
  ASSUME NEW f \in Bytes, NEW g \in Bytes
  PROVE  Longer(LoadStrings(f), LoadStrings(f \o g), g)
<1>1. CASE LoadLen(f) = Short
  BY <1>1, ShortIs DEF LoadStrings, Then, Longer
<1>2. CASE LoadLen(f) # Short
  <2>1. PICK n \in Nat, r \in Bytes : Holds(LoadLen(f), n, r) /\ Holds(LoadLen(f \o g), n, r \o g)
    BY <1>2, LenHolds
  <2>2. /\ LoadLen(f).ok /\ LoadLen(f).val = n
        /\ LoadLen(f \o g).ok /\ LoadLen(f \o g).val = n
    BY <2>1 DEF Holds
  <2>3. As(LoadLen(f), <<>>) = Got(<<>>, r) /\ As(LoadLen(f \o g), <<>>) = Got(<<>>, r \o g)
    BY <2>1 DEF Holds
  <2>4. PICK h : /\ h[0] = As(LoadLen(f), <<>>) /\ LoadStrings(f) = h[n]
                 /\ \A i \in 1 .. n : h[i] = NextElement(h[i - 1])
    BY <2>2, StringsAre
  <2> DEFINE fg == f \o g
  <2>5. PICK k : /\ k[0] = As(LoadLen(fg), <<>>) /\ LoadStrings(fg) = k[n]
                 /\ \A i \in 1 .. n : k[i] = NextElement(k[i - 1])
    <3>1. LoadLen(fg).ok /\ LoadLen(fg).val = n /\ LoadLen(fg).val \in Nat
      BY <2>2
    <3> HIDE DEF fg
    <3> QED
      BY <3>1, StringsAre
  <2> DEFINE S == {i \in 0 .. n : Longer(h[i], k[i], g)}
  <2>6. 0 \in S
    <3>1. Longer(h[0], k[0], g)
      BY <2>3, <2>4, <2>5 DEF Longer
    <3> QED
      BY <3>1
  <2>7. ASSUME NEW i \in 1 .. n, i - 1 \in S
        PROVE  i \in S
    <3>1. Longer(h[i - 1], k[i - 1], g)
      BY <2>7
    <3>2. Longer(NextElement(h[i - 1]), NextElement(k[i - 1]), g)
      BY <3>1, NextElementLonger
    <3>3. Longer(h[i], k[i], g)
      BY <2>4, <2>5, <3>2
    <3> QED
      BY <3>3
  <2> HIDE DEF S
  <2>8. \A i \in 0 .. n : i \in S
    BY <2>6, <2>7, Climb
  <2>9. n \in S
    BY <2>8
  <2> QED
    BY <2>4, <2>5, <2>9 DEF S
<1> QED
  BY <1>1, <1>2

LEMMA LongerAs ==
  ASSUME NEW v, NEW r \in Bytes, NEW g, NEW w
  PROVE  Longer(As(Got(v, r), w), As(Got(v, r \o g), w), g)
<1>1. As(Got(v, r), w) = Got(w, r) /\ As(Got(v, r \o g), w) = Got(w, r \o g)
  BY AsIs
<1> QED
  BY <1>1 DEF Longer

\* A length, which is a number or the name of an encoding, but is used as a number.
Held(a, v, r) == a.ok /\ a.val = v /\ \A w : As(a, w) = Got(w, r)

LEMMA LenHeld ==
  ASSUME NEW f \in Bytes, NEW g \in Bytes, LoadLen(f) # Short
  PROVE  \E v \in Nat, r \in Bytes : Held(LoadLen(f), v, r) /\ Held(LoadLen(f \o g), v, r \o g)
<1>1. PICK v \in Nat, r \in Bytes :
        \/ LoadLen(f) = Got(v, r) /\ LoadLen(f \o g) = Got(v, r \o g)
        \/ LoadLen(f) = Encoding(v, r) /\ LoadLen(f \o g) = Encoding(v, r \o g)
  BY LenLonger
<1>2. ASSUME NEW q
      PROVE  Held(Got(v, q), v, q) /\ Held(Encoding(v, q), v, q)
  <2> DEFINE a == Got(v, q)
             b == Encoding(v, q)
  <2>1. a.ok /\ a.val = v /\ b.ok /\ b.val = v
    BY GotIs, EncodingIs
  <2>2. \A w : As(a, w) = Got(w, q) /\ As(b, w) = Got(w, q)
    BY AsIs
  <2> HIDE DEF a, b
  <2>3. Held(a, v, q) /\ Held(b, v, q)
    BY <2>1, <2>2 DEF Held
  <2> QED
    BY <2>3 DEF a, b
<1> QED
  BY <1>1, <1>2

LEMMA GotBoth ==
  ASSUME NEW v, NEW r, NEW g
  PROVE  /\ Got(v, r).ok /\ Got(v, r).val = v /\ Got(v, r).rest = r
         /\ Got(v, r \o g).ok /\ Got(v, r \o g).val = v /\ Got(v, r \o g).rest = r \o g
<1> DEFINE h == r \o g
<1> HIDE DEF h
<1>1. Got(v, h).ok /\ Got(v, h).val = v /\ Got(v, h).rest = h
  BY GotIs
<1> QED
  BY <1>1, GotIs DEF h

LEMMA ShortLonger ==
  ASSUME NEW b, NEW g
  PROVE  Longer(Short, b, g)
BY DEF Longer

LEMMA TypeLonger ==
  ASSUME NEW f \in Bytes, NEW g \in Bytes
  PROVE  Longer(LoadType(f), LoadType(f \o g), g)
<1> DEFINE a == Read(f, 1)
           b == Read(f \o g, 1)
<1>1. Longer(a, b, g)
  BY ReadLonger
<1> HIDE DEF a, b
<1>2. CASE a = Short
  <2>1. LoadType(f) = Short
    BY <1>2, ShortIs DEF LoadType, Then, a
  <2> QED
    BY <2>1, ShortLonger
<1>3. CASE a # Short
  <2>1. PICK v, r : r \in Bytes /\ a = Got(v, r) /\ b = Got(v, r \o g)
    BY <1>1, <1>3 DEF Longer
  <2>2. /\ a.ok /\ a.val = v /\ a.rest = r /\ b.ok /\ b.val = v /\ b.rest = r \o g
    BY <2>1, GotBoth
  <2>3. CASE v[1] # EXPIRETIME
    <3> DEFINE w == [type |-> v[1], expire |-> Never]
    <3>1. LoadType(f) = As(a, w) /\ LoadType(f \o g) = As(b, w)
      BY <2>2, <2>3 DEF LoadType, Then, a, b
    <3> HIDE DEF w
    <3> QED
      BY <2>1, <3>1, LongerAs
  <2>4. CASE v[1] = EXPIRETIME
    <3> DEFINE c == Read(r, 4)
               d == Read(r \o g, 4)
    <3>1. Longer(c, d, g)
      BY <2>1, ReadLonger
    <3> HIDE DEF c, d
    <3>2. CASE c = Short
      <4>1. LoadType(f) = Short
        BY <2>2, <2>4, <3>2, ShortIs DEF LoadType, Then, a, c
      <4> QED
        BY <4>1, ShortLonger
    <3>3. CASE c # Short
      <4>1. PICK w, q : q \in Bytes /\ c = Got(w, q) /\ d = Got(w, q \o g)
        BY <3>1, <3>3 DEF Longer
      <4>2. /\ c.ok /\ c.val = w /\ c.rest = q /\ d.ok /\ d.val = w /\ d.rest = q \o g
        BY <4>1, GotBoth
      <4> DEFINE k == Read(q, 1)
                 m == Read(q \o g, 1)
                 time == FromLowBytes(w)
                 Timed(code) == IF time = Never THEN Short
                                ELSE As(code, [type |-> code.val[1], expire |-> time])
      <4>3. Longer(k, m, g)
        BY <4>1, ReadLonger
      <4> HIDE DEF k, m, time
      <4>4. /\ LoadType(f) = IF k.ok THEN Timed(k) ELSE Short
            /\ LoadType(f \o g) = IF m.ok THEN Timed(m) ELSE Short
        BY <2>2, <2>4, <4>2 DEF LoadType, Then, a, b, c, d, k, m, time
      <4>5. CASE k = Short \/ time = Never
        <5>1. LoadType(f) = Short
          BY <4>4, <4>5, ShortIs
        <5> QED
          BY <5>1, ShortLonger
      <4>6. CASE k # Short /\ time # Never
        <5>1. PICK v1, p : p \in Bytes /\ k = Got(v1, p) /\ m = Got(v1, p \o g)
          BY <4>3, <4>6 DEF Longer
        <5>2. k.ok /\ k.val = v1 /\ m.ok /\ m.val = v1
          BY <5>1, GotBoth
        <5> DEFINE tt == [type |-> v1[1], expire |-> time]
        <5>3. LoadType(f) = As(k, tt) /\ LoadType(f \o g) = As(m, tt)
          BY <4>4, <4>6, <5>2
        <5> HIDE DEF tt
        <5> QED
          BY <5>1, <5>3, LongerAs
      <4> QED
        BY <4>5, <4>6
    <3> QED
      BY <3>2, <3>3
  <2> QED
    BY <2>3, <2>4
<1> QED
  BY <1>2, <1>3

LEMMA KeyValLonger ==
  ASSUME NEW f \in Bytes, NEW g \in Bytes, NEW type
  PROVE  Longer(LoadKeyVal(f, type), LoadKeyVal(f \o g, type), g)
<1> DEFINE a == LoadString(f)
           b == LoadString(f \o g)
           Val(h) == IF type = REDIS_STRING THEN LoadString(h)
                     ELSE IF type \in {REDIS_LIST, REDIS_SET} THEN LoadStrings(h)
                     ELSE Short
<1>1. Longer(a, b, g)
  BY StringLonger
<1>2. ASSUME NEW r \in Bytes
      PROVE  Longer(Val(r), Val(r \o g), g)
  BY StringLonger, StringsLonger, ShortLonger
<1> HIDE DEF Val
<1>3. CASE a = Short
  <2>1. LoadKeyVal(f, type) = Short
    BY <1>3, ShortIs DEF LoadKeyVal, Then
  <2> QED
    BY <2>1, ShortLonger
<1>4. CASE a # Short
  <2> HIDE DEF a, b
  <2>1. PICK key, r : r \in Bytes /\ a = Got(key, r) /\ b = Got(key, r \o g)
    BY <1>1, <1>4 DEF Longer
  <2>2. /\ a.ok /\ a.val = key /\ a.rest = r /\ b.ok /\ b.val = key /\ b.rest = r \o g
    BY <2>1, GotBoth
  <2> DEFINE x == Val(r)
             y == Val(r \o g)
  <2>3. /\ LoadKeyVal(f, type) = As(x, [key |-> key, val |-> x.val])
        /\ LoadKeyVal(f \o g, type) = As(y, [key |-> key, val |-> y.val])
    BY <2>2 DEF LoadKeyVal, Then, a, b, Val
  <2>4. Longer(x, y, g)
    BY <1>2, <2>1
  <2> HIDE DEF x, y
  <2>5. CASE x = Short
    <3>1. As(Short, [key |-> key, val |-> x.val]) = Short
      BY AsIs
    <3>2. LoadKeyVal(f, type) = Short
      BY <2>3, <2>5, <3>1
    <3> QED
      BY <3>2, ShortLonger
  <2>6. CASE x # Short
    <3>1. PICK val, p : p \in Bytes /\ x = Got(val, p) /\ y = Got(val, p \o g)
      BY <2>4, <2>6 DEF Longer
    <3>2. x.val = val /\ y.val = val
      BY <3>1, GotBoth
    <3> DEFINE kv == [key |-> key, val |-> val]
    <3>3. LoadKeyVal(f, type) = As(x, kv) /\ LoadKeyVal(f \o g, type) = As(y, kv)
      BY <2>3, <3>2
    <3> HIDE DEF kv
    <3> QED
      BY <3>1, <3>3, LongerAs
  <2> QED
    BY <2>5, <2>6
<1> QED
  BY <1>3, <1>4

LEMMA TurnLonger ==
  ASSUME NEW at, NEW r0 \in Bytes, NEW g \in Bytes, NEW now
  PROVE  Longer(LoadTurn(Got(at, r0), now), LoadTurn(Got(at, r0 \o g), now), g)
<1> DEFINE a == Got(at, r0)
           b == Got(at, r0 \o g)
           x == LoadTurn(a, now)
           y == LoadTurn(b, now)
<1>1. a.val = at /\ a.rest = r0 /\ b.val = at /\ b.rest = r0 \o g
  BY GotBoth
<1>2. CASE at.eof
  <2> HIDE DEF a, b
  <2>1. x = a /\ y = b
    BY <1>1, <1>2 DEF LoadTurn
  <2> QED
    BY <2>1 DEF Longer, a, b
<1>3. CASE ~at.eof
  <2> DEFINE c == LoadType(r0)
             d == LoadType(r0 \o g)
  <2>1. Longer(c, d, g)
    BY TypeLonger
  <2> HIDE DEF a, b, c, d
  <2>2. CASE c = Short
    <3>1. x = Short
      BY <1>1, <1>3, <2>2, ShortIs DEF LoadTurn, Then, c
    <3> HIDE DEF x
    <3> QED
      BY <3>1, ShortLonger DEF x, a
  <2>3. CASE c # Short
    <3>1. PICK t, r : r \in Bytes /\ c = Got(t, r) /\ d = Got(t, r \o g)
      BY <2>1, <2>3 DEF Longer
    <3>2. /\ c.ok /\ c.val = t /\ c.rest = r /\ d.ok /\ d.val = t /\ d.rest = r \o g
      BY <3>1, GotBoth
    <3>3. CASE t.type = EOF
      <4> DEFINE w == Complete(at.dbs)
      <4>1. x = As(c, w) /\ y = As(d, w)
        BY <1>1, <1>3, <3>2, <3>3, TypesAre DEF LoadTurn, Then, c, d
      <4> HIDE DEF w, x, y
      <4>2. Longer(x, y, g)
        BY <3>1, <4>1, LongerAs
      <4> QED
        BY <4>2 DEF x, y, a, b
    <3>4. CASE t.type = SELECTDB
      <4> DEFINE e == LoadLen(r)
                 h == LoadLen(r \o g)
      <4>1. /\ x = IF e.ok THEN (IF e.val >= Len(at.dbs) THEN Short ELSE As(e, Reading(at.dbs, e.val + 1)))
                   ELSE Short
            /\ y = IF h.ok THEN (IF h.val >= Len(at.dbs) THEN Short ELSE As(h, Reading(at.dbs, h.val + 1)))
                   ELSE Short
        BY <1>1, <1>3, <3>2, <3>4, TypesAre DEF LoadTurn, Then, c, d
      <4> HIDE DEF x, y
      <4>2. CASE e = Short
        <5>1. x = Short
          BY <4>1, <4>2, ShortIs
        <5> QED
          BY <5>1, ShortLonger DEF x, a
      <4>3. CASE e # Short
        <5>1. PICK n \in Nat, q \in Bytes : Held(e, n, q) /\ Held(h, n, q \o g)
          BY <3>1, <4>3, LenHeld
        <5> HIDE DEF e, h
        <5>2. e.ok /\ e.val = n /\ h.ok /\ h.val = n
          BY <5>1 DEF Held
        <5> DEFINE w == Reading(at.dbs, n + 1)
        <5>3. As(e, w) = Got(w, q) /\ As(h, w) = Got(w, q \o g)
          BY <5>1 DEF Held
        <5>4. /\ x = IF n >= Len(at.dbs) THEN Short ELSE As(e, w)
              /\ y = IF n >= Len(at.dbs) THEN Short ELSE As(h, w)
          BY <4>1, <5>2
        <5> HIDE DEF w
        <5>5. Longer(x, y, g)
          BY <5>3, <5>4 DEF Longer
        <5> QED
          BY <5>5 DEF x, y, a, b
      <4> QED
        BY <4>2, <4>3
    <3>5. CASE t.type # EOF /\ t.type # SELECTDB
      <4> DEFINE e == LoadKeyVal(r, t.type)
                 h == LoadKeyVal(r \o g, t.type)
                 Sum(kv) == IF Duplicate(at.dbs, at.db, kv.val.key) THEN Short
                            ELSE As(kv, Reading(Added(at.dbs, at.db, kv.val, t.type, t.expire, now), at.db))
      <4>1. /\ x = IF e.ok THEN Sum(e) ELSE Short
            /\ y = IF h.ok THEN Sum(h) ELSE Short
        BY <1>1, <1>3, <3>2, <3>5 DEF LoadTurn, Then, c, d
      <4>2. Longer(e, h, g)
        BY <3>1, KeyValLonger
      <4> HIDE DEF x, y, e, h
      <4>3. CASE e = Short
        <5>1. x = Short
          BY <4>1, <4>3, ShortIs
        <5> QED
          BY <5>1, ShortLonger DEF x, a
      <4>4. CASE e # Short
        <5>1. PICK kv, q : q \in Bytes /\ e = Got(kv, q) /\ h = Got(kv, q \o g)
          BY <4>2, <4>4 DEF Longer
        <5>2. e.ok /\ e.val = kv /\ h.ok /\ h.val = kv
          BY <5>1, GotBoth
        <5> DEFINE dup == Duplicate(at.dbs, at.db, kv.key)
                   w == Reading(Added(at.dbs, at.db, kv, t.type, t.expire, now), at.db)
        <5>3. /\ x = IF dup THEN Short ELSE As(e, w)
              /\ y = IF dup THEN Short ELSE As(h, w)
          BY <4>1, <5>2
        <5> HIDE DEF dup, w
        <5>4. Longer(As(e, w), As(h, w), g)
          BY <5>1, LongerAs
        <5>5. Longer(x, y, g)
          BY <5>3, <5>4, ShortLonger
        <5> QED
          BY <5>5 DEF x, y, a, b
      <4> QED
        BY <4>3, <4>4
    <3> QED
      BY <3>3, <3>4, <3>5
  <2> QED
    BY <2>2, <2>3
<1> QED
  BY <1>2, <1>3

LEMMA NextTurnLonger ==
  ASSUME NEW a, NEW b, NEW g \in Bytes, NEW now, Longer(a, b, g)
  PROVE  Longer(NextTurn(a, now), NextTurn(b, now), g)
<1>1. CASE a = Short
  BY <1>1, ShortIs DEF NextTurn, Longer
<1>2. CASE a # Short
  <2>1. PICK v, r : r \in Bytes /\ a = Got(v, r) /\ b = Got(v, r \o g)
    BY <1>2 DEF Longer
  <2>2. a.ok /\ b.ok
    BY <2>1, GotBoth
  <2>3. NextTurn(a, now) = LoadTurn(a, now) /\ NextTurn(b, now) = LoadTurn(b, now)
    BY <2>2 DEF NextTurn
  <2> QED
    BY <2>1, <2>3, TurnLonger
<1> QED
  BY <1>1, <1>2

LEMMA TurnKeeps ==
  ASSUME NEW v, v.eof, NEW r, NEW now
  PROVE  NextTurn(Got(v, r), now) = Got(v, r)
<1> DEFINE a == Got(v, r)
<1>1. a.ok /\ a.val = v
  BY GotIs
<1> HIDE DEF a
<1>2. NextTurn(a, now) = a
  BY <1>1 DEF NextTurn, LoadTurn
<1> QED
  BY <1>2 DEF a

Finished(read) == read.ok /\ read.val.eof

\* If a file is read to its end, and a shorter one too, nothing of the longer one is
\* left unread only if they are the same.
LEMMA LoopLonger ==
  ASSUME NEW f \in Bytes, NEW g \in Bytes, NEW dbs, NEW now,
         Finished(LoadLoop(f, dbs, now))
  PROVE  \E v, r : r \in Bytes /\ LoadLoop(f \o g, dbs, now) = Got(v, r \o g)
<1> DEFINE start == Reading(dbs, 1)
           n == Len(f)
           fg == f \o g
           m == Len(fg)
<1>1. PICK a : Turns(a, n, Got(start, f), now) /\ LoadLoop(f, dbs, now) = a[n]
  BY LoopIs
<1>2. fg \in Bytes /\ n \in Nat /\ m \in Nat /\ n <= m
  BY BytesJoin, Length
<1> HIDE DEF fg
<1>3. PICK b : Turns(b, m, Got(start, fg), now) /\ LoadLoop(fg, dbs, now) = b[m]
  BY <1>2, LoopIs
<1> HIDE DEF n, m, start
<1> DEFINE S == {i \in 0 .. n : Longer(a[i], b[i], g)}
<1>4. 0 \in S
  <2>1. a[0] = Got(start, f) /\ b[0] = Got(start, f \o g)
    BY <1>1, <1>3 DEF Turns, fg
  <2>2. Longer(a[0], b[0], g)
    BY <2>1 DEF Longer
  <2> QED
    BY <1>2, <2>2
<1>5. ASSUME NEW i \in 1 .. n, i - 1 \in S
      PROVE  i \in S
  <2>1. i \in 1 .. m /\ i \in 0 .. n
    BY <1>2
  <2>2. a[i] = NextTurn(a[i - 1], now) /\ b[i] = NextTurn(b[i - 1], now)
    BY <1>1, <1>3, <2>1 DEF Turns
  <2>3. Longer(a[i - 1], b[i - 1], g)
    BY <1>5
  <2>4. Longer(a[i], b[i], g)
    BY <2>2, <2>3, NextTurnLonger
  <2> QED
    BY <2>1, <2>4
<1> HIDE DEF S
<1>6. \A i \in 0 .. n : i \in S
  BY <1>2, <1>4, <1>5, Climb
<1>7. Longer(a[n], b[n], g)
  BY <1>2, <1>6 DEF S
<1>0. a[n].ok /\ a[n].val.eof
  BY <1>1 DEF Finished
<1>8. a[n] # Short
  BY <1>0, ShortIs
<1>9. PICK v, r : r \in Bytes /\ a[n] = Got(v, r) /\ b[n] = Got(v, r \o g)
  BY <1>7, <1>8 DEF Longer
<1>10. v.eof
  <2>1. a[n].val = v
    BY <1>9, GotIs
  <2> QED
    BY <1>0, <2>1
<1> DEFINE end == Got(v, r \o g)
<1>11. NextTurn(end, now) = end
  BY <1>10, TurnKeeps
<1> HIDE DEF end
<1>12. b[m] = end
  <2> DEFINE T == {i \in 0 .. m : i >= n => b[i] = end}
  <2>1. b[n] = end
    BY <1>9 DEF end
  <2>2. 0 \in T
    <3>1. 0 >= n => n = 0
      BY <1>2
    <3> QED
      BY <1>2, <2>1, <3>1
  <2>3. ASSUME NEW i \in 1 .. m, i - 1 \in T
        PROVE  i \in T
    <3>1. CASE i - 1 >= n
      <4>1. b[i - 1] = end
        BY <2>3, <3>1
      <4>2. b[i] = NextTurn(b[i - 1], now)
        BY <1>3 DEF Turns
      <4>3. b[i] = end
        BY <1>11, <4>1, <4>2
      <4>4. i \in 0 .. m
        BY <1>2
      <4> QED
        BY <4>3, <4>4
    <3>2. CASE ~(i - 1 >= n)
      <4>1. i >= n => i = n
        BY <1>2, <3>2
      <4>2. i \in 0 .. m
        BY <1>2
      <4> QED
        BY <2>1, <4>1, <4>2
    <3> QED
      BY <3>1, <3>2
  <2> HIDE DEF T
  <2>4. \A i \in 0 .. m : i \in T
    BY <1>2, <2>2, <2>3, Climb
  <2>5. m \in T /\ m >= n
    BY <1>2, <2>4
  <2> QED
    BY <2>5 DEF T
<1> QED
  BY <1>3, <1>9, <1>12 DEF end, fg

\* Behind the signature a file is what the loop reads.
LEMMA BehindSignature ==
  ASSUME NEW body \in Bytes
  PROVE  /\ ~(Len(Signature \o body) < 9) /\ SubSeq(Signature \o body, 1, 9) = Signature
         /\ SubSeq(Signature \o body, 10, Len(Signature \o body)) = body
<1> DEFINE f == Signature \o body
<1>1. Len(f) = 9 + Len(body) /\ Len(body) \in Nat
  BY SignatureIs, BytesJoin, Length
<1>2. SubSeq(f, 1, Len(Signature)) = Signature /\ SubSeq(f, Len(Signature) + 1, Len(f)) = body
  BY SignatureIs, CutJoined
<1> HIDE DEF f
<1>3. SubSeq(f, 1, 9) = Signature /\ SubSeq(f, 9 + 1, Len(f)) = body
  BY <1>2, SignatureIs
<1>4. 9 + 1 = 10
  OBVIOUS
<1>5. SubSeq(f, 10, Len(f)) = body
  BY <1>3, <1>4
<1> QED
  BY <1>1, <1>3, <1>5 DEF f

LEMMA LoadIs ==
  ASSUME NEW body \in Bytes, NEW dbnum, NEW now
  PROVE  LoadDump(Signature \o body, dbnum, now)
           = LET end == LoadLoop(body, [j \in 1 .. dbnum |-> <<>>], now)
             IN IF end.ok /\ end.val.eof THEN As(end, end.val.dbs) ELSE Short
<1> DEFINE f == Signature \o body
<1>1. ~(Len(f) < 9) /\ SubSeq(f, 1, 9) = Signature /\ SubSeq(f, 10, Len(f)) = body
  BY BehindSignature
<1> HIDE DEF f
<1>2. LoadDump(f, dbnum, now)
           = LET end == LoadLoop(body, [j \in 1 .. dbnum |-> <<>>], now)
             IN IF end.ok /\ end.val.eof THEN As(end, end.val.dbs) ELSE Short
  BY <1>1 DEF LoadDump, Then
<1> QED
  BY <1>2 DEF f

LEMMA UnexpiredIs ==
  ASSUME NEW dbs \in Dumpable, NEW saved, NEW loaded
  PROVE  [k \in 1 .. Len(dbs) |-> KeptDb(dbs[k], saved, loaded)] = Unexpired(dbs, saved, loaded)
<1>1. DOMAIN dbs = 1 .. Len(dbs)
  BY DumpableIs
<1> QED
  BY <1>1 DEF Unexpired, KeptDb, KeptEntries, Kept

\* A dataset is dumped, and loaded as it was but for what had expired.
LEMMA DumpBack ==
  ASSUME NEW dbs \in Dumpable, NEW saved \in Int, NEW loaded \in Int
  PROVE  LET f   == SaveDump(dbs, saved)
             end == LoadDump(f, Len(dbs), loaded)
         IN /\ end.ok /\ end.val = Unexpired(dbs, saved, loaded)
            /\ \A n \in 0 .. Len(f) - 1 : ~LoadDump(SubSeq(f, 1, n), Len(dbs), loaded).ok
<1> DEFINE c == Len(dbs)
           body == FlattenSeq(SavedDbs(dbs, saved)) \o <<EOF>>
           all == [k \in 1 .. c |-> KeptDb(dbs[k], saved, loaded)]
           none == [j \in 1 .. c |-> <<>>]
           f == Signature \o body
<1>1. /\ body \in Bytes /\ SaveDump(dbs, saved) = f
      /\ LoadLoop(body, none, loaded) = Got(Complete(all), <<>>)
  BY DumpLoaded
<1>2. all = Unexpired(dbs, saved, loaded)
  BY UnexpiredIs
<1> HIDE DEF body, all
<1>3. LoadDump(f, c, loaded).ok /\ LoadDump(f, c, loaded).val = all
  <2> DEFINE end == Got(Complete(all), <<>>)
             fin == LoadDump(f, c, loaded)
  <2>1. end.ok /\ end.val = Complete(all)
    BY GotIs
  <2>2. As(end, all) = Got(all, <<>>)
    BY AsIs
  <2>3. Complete(all).eof /\ Complete(all).dbs = all
    BY ReadingIs
  <2>4. fin = LET end0 == LoadLoop(body, none, loaded)
              IN IF end0.ok /\ end0.val.eof THEN As(end0, end0.val.dbs) ELSE Short
    BY <1>1, LoadIs
  <2> HIDE DEF end, none, fin
  <2>5. fin = As(end, all)
    BY <1>1, <2>1, <2>3, <2>4 DEF end
  <2>6. Got(all, <<>>).ok /\ Got(all, <<>>).val = all
    BY GotIs
  <2>7. fin.ok /\ fin.val = all
    BY <2>2, <2>5, <2>6
  <2> QED
    BY <2>7 DEF fin
<1>4. ASSUME NEW n \in 0 .. Len(f) - 1
      PROVE  ~LoadDump(SubSeq(f, 1, n), c, loaded).ok
  <2> DEFINE p == SubSeq(f, 1, n)
             k == n - 9
  <2>1. f \in Bytes /\ Len(f) = 9 + Len(body) /\ Len(body) \in Nat
    BY <1>1, SignatureIs, BytesJoin, Length
  <2>2. n \in 0 .. Len(f)
    BY <2>1
  <2>3. p \in Bytes /\ Len(p) = n
    BY <2>1, <2>2, Cut
  <2>4. CASE n < 9
    <3> HIDE DEF p
    <3>1. LoadDump(p, c, loaded) = Short
      BY <2>3, <2>4 DEF LoadDump
    <3> QED
      BY <3>1, ShortIs DEF p
  <2>5. CASE ~(n < 9)
    <3> DEFINE s == SubSeq(body, 1, k)
               g == SubSeq(body, k + 1, Len(body))
    <3>1. k \in 0 .. Len(body) /\ k \in 0 .. Len(body) - 1 /\ n = 9 + k
      BY <2>1, <2>5
    <3>2. s \in Bytes /\ Len(s) = k /\ g \in Bytes /\ Len(g) = Len(body) - k /\ s \o g = body
      BY <1>1, <3>1, Cut
    <3> HIDE DEF s, g, k
    <3>3. p = Signature \o s
      <4> DEFINE h == Signature \o s
      <4>1. h \in Bytes /\ Len(h) = n
        BY <3>1, <3>2, SignatureIs, BytesJoin
      <4>2. f = h \o g
        BY <3>2, SignatureIs, BytesAssociate
      <4>3. SubSeq(h \o g, 1, Len(h)) = h
        <5> HIDE DEF h
        <5> QED
          BY <3>2, <4>1, CutJoined
      <4> HIDE DEF h, f
      <4> QED
        BY <4>1, <4>2, <4>3 DEF h
    <3> DEFINE end == LoadLoop(s, none, loaded)
               fin == LoadDump(p, c, loaded)
    <3>4. fin = IF end.ok /\ end.val.eof THEN As(end, end.val.dbs) ELSE Short
      <4> HIDE DEF p
      <4> QED
        BY <3>2, <3>3, LoadIs
    <3>5. ~(end.ok /\ end.val.eof)
      <4> SUFFICES ASSUME end.ok, end.val.eof
                   PROVE  FALSE
        OBVIOUS
      <4> HIDE DEF none
      <4>0. Finished(LoadLoop(s, none, loaded))
        BY DEF Finished
      <4>1. PICK v, r : r \in Bytes /\ LoadLoop(s \o g, none, loaded) = Got(v, r \o g)
        <5>1. s \in Bytes /\ g \in Bytes
          BY <3>2
        <5> HIDE DEF end
        <5> QED
          BY <4>0, <5>1, LoopLonger
      <4>2. Got(v, r \o g) = Got(Complete(all), <<>>)
        BY <1>1, <3>2, <4>1
      <4>3. r \o g = <<>>
        <5> DEFINE x == r \o g
        <5>1. Got(v, x) = Got(Complete(all), <<>>)
          BY <4>2
        <5> HIDE DEF x
        <5>2. Got(v, x).rest = x /\ Got(Complete(all), <<>>).rest = <<>>
          BY GotIs
        <5>3. x = <<>>
          BY <5>1, <5>2
        <5> QED
          BY <5>3 DEF x
      <4>4. Len(r \o g) = Len(r) + Len(g) /\ Len(r) \in Nat /\ Len(g) > 0
        <5>1. Len(r \o g) = Len(r) + Len(g) /\ Len(r) \in Nat
          BY <3>2, <4>1, BytesJoin, Length
        <5>2. Len(g) > 0
          BY <2>1, <3>1, <3>2
        <5> QED
          BY <5>1, <5>2
      <4>5. Len(<<>>) = 0
        OBVIOUS
      <4> QED
        BY <4>3, <4>4, <4>5, <3>2, Length
    <3> HIDE DEF end, fin
    <3>6. fin = Short
      BY <3>4, <3>5
    <3> QED
      BY <3>6, ShortIs DEF fin
  <2> QED
    BY <2>4, <2>5
<1> QED
  BY <1>1, <1>2, <1>3, <1>4

-----------------------------------------------------------------------------
(* The dump format.                                                        *)

\* What is assumed of the inputs is what the lemmas need.
LEMMA CountIs ==
  ASSUME NEW n \in Nat, n <= 2147483647
  PROVE  n \in Counts
BY SMT DEF Counts, Above3

LEMMA TextIs ==
  ASSUME NEW s, IsText(s)
  PROVE  s \in Texts
<1>1. s \in Bytes /\ Len(s) \in Nat
  BY SMT DEF IsText, Bytes, Byte
<1>2. Len(s) <= 2147483647
  BY SMT DEF IsText
<1>3. Len(s) \in Counts
  BY <1>1, <1>2, CountIs, SMT
<1> QED
  BY <1>1, <1>3 DEF Texts

LEMMA TimeIs ==
  ASSUME NEW t, IsTime(t)
  PROVE  t \in Times
BY SMT DEF IsTime, Times, Above3

\* The elements of a sequence are in every set that they are in one by one.
LEMMA SeqIs ==
  ASSUME NEW s, s \in Seq(Range(s)), NEW S, \A x \in Range(s) : x \in S
  PROVE  s \in Seq(S) /\ Len(s) \in Nat
<1> DEFINE R == Range(s)
<1> HIDE DEF R
<1>1. s \in Seq(R) /\ \A x \in R : x \in S
  BY DEF R
<1> QED
  BY <1>1

LEMMA EntryAssumed ==
  ASSUME NEW e, IsDumpedEntry(e)
  PROVE  e \in Entries
<1>1. e.key \in Texts /\ e.expire \in Times /\ e.type \in Types
  BY TextIs, TimeIs DEF IsDumpedEntry, Types
<1>2. TypedValue(e.type, e.val) /\ e.val \in Texts \cup TextLists
  <2>1. CASE e.type = REDIS_STRING
    <3>1. IsText(e.val)
      BY <2>1 DEF IsDumpedEntry
    <3> QED
      BY <2>1, <3>1, TextIs DEF TypedValue
  <2>2. CASE e.type # REDIS_STRING
    <3> DEFINE l == e.val
    <3>1. IsTexts(l)
      BY <2>2 DEF IsDumpedEntry
    <3> HIDE DEF l
    <3>2. l \in Seq(Range(l)) /\ \A x \in Range(l) : IsText(x)
      BY <3>1 DEF IsTexts, IsSeqOf
    <3>3. l \in Seq(Texts) /\ Len(l) \in Nat
      BY <3>2, TextIs, SeqIs
    <3>4. Len(l) <= 2147483647
      BY <3>1, SMT DEF IsTexts
    <3>5. l \in TextLists
      BY <3>3, <3>4, CountIs, SMT DEF TextLists
    <3> QED
      BY <2>2, <3>5 DEF TypedValue, l
  <2> QED
    BY <2>1, <2>2
<1>3. e = [key |-> e.key, type |-> e.type, val |-> e.val, expire |-> e.expire]
  BY DEF IsDumpedEntry
<1>4. IsEntry(e)
  BY <1>1, <1>2, <1>3 DEF IsEntry
<1>5. e \in [key : Texts, type : Types, val : Texts \cup TextLists, expire : Times]
  BY <1>1, <1>2, <1>3
<1> QED
  BY <1>4, <1>5 DEF Entries

LEMMA DatabaseAssumed ==
  ASSUME NEW db, IsDatabase(db)
  PROVE  db \in Databases
<1>1. db \in Seq(Range(db)) /\ \A x \in Range(db) : IsDumpedEntry(x)
  BY DEF IsDatabase, IsSeqOf
<1>2. db \in Seq(Entries) /\ Len(db) \in Nat
  BY <1>1, EntryAssumed, SeqIs
<1>3. DOMAIN db = 1 .. Len(db)
  BY <1>2, LenProperties
<1>4. \A i, k \in DOMAIN db : db[i].key = db[k].key => i = k
  BY DEF IsDatabase
<1> QED
  BY <1>2, <1>3, <1>4 DEF Databases

LEMMA DatasetAssumed ==
  ASSUME NEW dbs \in Datasets
  PROVE  dbs \in Dumpable
<1>1. dbs \in Seq(Range(dbs)) /\ \A x \in Range(dbs) : IsDatabase(x)
  BY DatasetsAssumption DEF IsSeqOf
<1>2. dbs \in Seq(Databases) /\ Len(dbs) \in Nat
  BY <1>1, DatabaseAssumed, SeqIs
<1>3. Len(dbs) <= 2147483647
  BY DatasetsAssumption, SMT
<1> QED
  BY <1>2, <1>3, CountIs, SMT DEF Dumpable

\* A string object, and a length, alone in a file.
LEMMA ObjectBack ==
  ASSUME NEW s \in Objects
  PROVE  LoadString(SaveString(s)) = Got(s, <<>>)
<1> DEFINE e == SaveString(s)
<1>1. IsText(s)
  BY ObjectsAssumption
<1>2. ReadsAs(e, s)
  BY <1>1, TextIs, StringBack
<1> HIDE DEF e
<1>3. <<>> \in Bytes /\ e \o <<>> = e
  BY <1>2, EmptySeq, ConcatEmptySeq DEF Bytes, ReadsAs
<1>4. LoadString(e \o <<>>) = Got(s, <<>>)
  BY <1>2, <1>3 DEF ReadsAs
<1> QED
  BY <1>3, <1>4 DEF e

LEMMA LengthAlone ==
  ASSUME NEW n \in Lengths
  PROVE  LoadLen(SaveLen(n)) = Got(n, <<>>)
<1> DEFINE e == SaveLen(n)
<1>1. n \in Counts
  <2>1. n \in Nat
    BY LengthsAssumption, SMT
  <2>2. n <= 2147483647
    BY LengthsAssumption, SMT
  <2> QED
    BY <2>1, <2>2, CountIs, SMT
<1>2. e \in Bytes /\ \A g \in Bytes : LoadLen(e \o g) = Got(n, g)
  BY <1>1, CountsAre, LenBack
<1> HIDE DEF e
<1>3. <<>> \in Bytes /\ e \o <<>> = e
  BY <1>2, EmptySeq, ConcatEmptySeq DEF Bytes
<1>4. LoadLen(e \o <<>>) = Got(n, <<>>)
  BY <1>2, <1>3
<1> QED
  BY <1>3, <1>4 DEF e

\* Whatever is dumped - a string, a length, a dataset of any size - a load gives back,
\* without what has expired; and no dump that lost its end is taken for a whole one.
THEOREM DumpsRoundTripHolds == Spec => []DumpsRoundTrip
<1>1. Init => DumpsRoundTrip
  BY DEF Init, DumpsRoundTrip
<1>2. DumpsRoundTrip /\ [Next]_input => DumpsRoundTrip'
  <2> SUFFICES ASSUME DumpsRoundTrip, [Next]_input
               PROVE  DumpsRoundTrip'
    OBVIOUS
  <2>1. ASSUME NEW s \in Objects, input' = [kind |-> "object", s |-> s]
        PROVE  DumpsRoundTrip'
    <3> DEFINE read == LoadString(SaveString(s))
    <3>1. read = Got(s, <<>>)
      BY ObjectBack
    <3> HIDE DEF read
    <3>2. read.ok /\ read.val = s /\ read.rest = <<>>
      BY <3>1, GotIs
    <3>3. input'.kind = "object" /\ input'.s = s
      BY <2>1
    <3> QED
      BY <3>2, <3>3 DEF DumpsRoundTrip, read
  <2>2. ASSUME NEW n \in Lengths, input' = [kind |-> "length", n |-> n]
        PROVE  DumpsRoundTrip'
    <3> DEFINE read == LoadLen(SaveLen(n))
    <3>1. read = Got(n, <<>>)
      BY LengthAlone
    <3> HIDE DEF read
    <3>2. read.ok /\ ~read.encoded /\ read.val = n /\ read.rest = <<>>
      BY <3>1, GotIs
    <3>3. input'.kind = "length" /\ input'.n = n
      BY <2>2
    <3> QED
      BY <3>2, <3>3 DEF DumpsRoundTrip, read
  <2>3. ASSUME NEW d \in Datasets, NEW saved \in Clock, NEW loaded \in Clock,
               input' = [kind |-> "dump", dbs |-> d, saved |-> saved, loaded |-> loaded]
        PROVE  DumpsRoundTrip'
    <3> DEFINE f == SaveDump(d, saved)
               end == LoadDump(f, Len(d), loaded)
    <3>1. d \in Dumpable /\ saved \in Int /\ loaded \in Int
      BY DatasetAssumed, ClockAssumption
    <3>2. /\ end.ok /\ end.val = Unexpired(d, saved, loaded)
          /\ \A n \in 0 .. Len(f) - 1 : ~LoadDump(SubSeq(f, 1, n), Len(d), loaded).ok
      BY <3>1, DumpBack
    <3> HIDE DEF f, end
    <3>3. input'.kind = "dump" /\ input'.dbs = d /\ input'.saved = saved /\ input'.loaded = loaded
      BY <2>3
    <3> QED
      BY <3>2, <3>3 DEF DumpsRoundTrip, f, end
  <2>4. CASE input'.kind \notin {"object", "length", "dump"}
    BY <2>4 DEF DumpsRoundTrip
  <2>5. CASE UNCHANGED input
    BY <2>5 DEF DumpsRoundTrip
  <2>6. CASE Next
    BY <2>1, <2>2, <2>3, <2>4, <2>6 DEF Next, Choose
  <2> QED
    BY <2>5, <2>6
<1> QED
  BY <1>1, <1>2, PTL DEF Spec

-----------------------------------------------------------------------------
(* Lists: the elements at some positions.                                  *)

\* A range of positions of a list.
LEMMA RangeOfPositions ==
  ASSUME NEW n \in Nat, NEW x \in Int, NEW y \in Int
  PROVE  LET a == IF x < 1 THEN 1 ELSE x
             b == IF y > n THEN n ELSE y
         IN Cardinality({k \in 1 .. n : x <= k /\ k <= y}) = IF a > b THEN 0 ELSE b - a + 1
<1> DEFINE a == IF x < 1 THEN 1 ELSE x
           b == IF y > n THEN n ELSE y
<1>1. {k \in 1 .. n : x <= k /\ k <= y} = a .. b
  OBVIOUS
<1>2. a \in Int /\ b \in Int
  OBVIOUS
<1> HIDE DEF a, b
<1>3. Cardinality(a .. b) = IF a > b THEN 0 ELSE b - a + 1
  BY <1>2, FS_Interval
<1> QED
  BY <1>1, <1>3 DEF a, b

\* What is asked of LRANGE and LTRIM.
Asked(list, x, y) ==
  [k \in 1 .. Cardinality({k \in 1 .. Len(list) : x <= k /\ k <= y}) |->
     list[(IF x < 1 THEN 1 ELSE x) + k - 1]]

LEMMA AskedIs ==
  ASSUME NEW S, NEW list \in Seq(S), NEW x \in Int, NEW y \in Int
  PROVE  LET a == IF x < 1 THEN 1 ELSE x
             b == IF y > Len(list) THEN Len(list) ELSE y
         IN Asked(list, x, y) = IF a > b THEN <<>> ELSE SubSeq(list, a, b)
<1> DEFINE n == Len(list)
           a == IF x < 1 THEN 1 ELSE x
           b == IF y > n THEN n ELSE y
           c == Cardinality({k \in 1 .. n : x <= k /\ k <= y})
<1>1. n \in Nat /\ a \in Int /\ b \in Int /\ a >= 1 /\ b <= n
  OBVIOUS
<1>2. c = IF a > b THEN 0 ELSE b - a + 1
  BY <1>1, RangeOfPositions
<1>3. Asked(list, x, y) = [k \in 1 .. c |-> list[a + k - 1]]
  BY DEF Asked
<1> HIDE DEF a, b, c, n
<1>4. CASE a > b
  <2>1. c = 0 /\ 1 .. c = {}
    BY <1>2, <1>4
  <2> QED
    BY <1>1, <1>3, <1>4, <2>1 DEF a, b, n
<1>5. CASE ~(a > b)
  <2>1. c = b - a + 1 /\ c \in Nat
    BY <1>1, <1>2, <1>5
  <2>2. SubSeq(list, a, b) = [k \in 1 .. c |-> list[a + k - 1]]
    BY <1>1, <1>5, <2>1 DEF n
  <2> QED
    BY <1>3, <1>5, <2>2 DEF a, b, n
<1> QED
  BY <1>4, <1>5

LEMMA RangesAreAsked ==
  ASSUME NEW S, NEW list \in Seq(S), NEW i \in Int, NEW j \in Int,
         (IF j < 0 THEN Len(list) + j ELSE j) >= 0
  PROVE  LET x == (IF i < 0 THEN Len(list) + i ELSE i) + 1
             y == (IF j < 0 THEN Len(list) + j ELSE j) + 1
         IN Lrange(list, i, j) = Asked(list, x, y) /\ Ltrim(list, i, j) = Asked(list, x, y)
<1> DEFINE n == Len(list)
           x == (IF i < 0 THEN n + i ELSE i) + 1
           y == (IF j < 0 THEN n + j ELSE j) + 1
           a == IF x < 1 THEN 1 ELSE x
           b == IF y > n THEN n ELSE y
<1>1. n \in Nat /\ x \in Int /\ y \in Int /\ y >= 1
  OBVIOUS
<1>3. Converted(i, n) = a - 1 /\ Converted(j, n) = y - 1
  BY <1>1 DEF Converted
<1> HIDE DEF x, y
<1>2. Asked(list, x, y) = IF a > b THEN <<>> ELSE SubSeq(list, a, b)
  BY <1>1, AskedIs
<1>4. Lrange(list, i, j) = IF a > b THEN <<>> ELSE SubSeq(list, a, b)
  BY <1>1, <1>3 DEF Lrange
<1>5. Ltrim(list, i, j) = IF a > b THEN <<>> ELSE SubSeq(list, a, b)
  <2> DEFINE none(start, end) == start > end \/ start >= n
             cut(start, end) ==
               SubSeq(list, (IF none(start, end) THEN n ELSE start) + 1,
                      n - (IF none(start, end) \/ end >= n THEN 0 ELSE n - end - 1))
  <2>5. n \in Nat /\ a \in Int /\ (a - 1) + 1 = a /\ (y > n => b = n) /\ (~(y > n) => b = y)
    BY <1>1
  <2>3. Ltrim(list, i, j) = cut(Converted(i, n), Converted(j, n))
    BY DEF Ltrim
  <2>4. Ltrim(list, i, j) = cut(a - 1, y - 1)
    BY <1>3, <2>3
  <2> HIDE DEF a, b, n
  <2>1. CASE a - 1 > y - 1 \/ a - 1 >= n
    <3>1. Ltrim(list, i, j) = SubSeq(list, n + 1, n)
      <4>1. n + 1 \in Int /\ n - 0 = n
        BY <2>5
      <4> QED
        BY <2>1, <2>4, <4>1
    <3>2. SubSeq(list, n + 1, n) = <<>>
      BY DEF n
    <3>3. a > b
      BY <1>1, <2>1, <2>5
    <3> QED
      BY <3>1, <3>2, <3>3
  <2>2. CASE ~(a - 1 > y - 1 \/ a - 1 >= n)
    <3>1. n - (IF y - 1 >= n THEN 0 ELSE n - (y - 1) - 1) = b
      <4>1. CASE y - 1 >= n
        BY <1>1, <2>5, <4>1
      <4>2. CASE ~(y - 1 >= n)
        <5>1. n - (n - (y - 1) - 1) = y
          BY <1>1, <2>5
        <5>2. b = y
          BY <1>1, <2>5, <4>2
        <5> QED
          BY <4>2, <5>1, <5>2
      <4> QED
        BY <4>1, <4>2
    <3>3. Ltrim(list, i, j) = SubSeq(list, a, b)
      BY <2>2, <2>4, <2>5, <3>1
    <3>2. ~(a > b)
      BY <1>1, <2>2, <2>5
    <3> QED
      BY <3>2, <3>3
  <2> QED
    BY <2>1, <2>2
<1> QED
  BY <1>2, <1>4, <1>5 DEF x, y

LEMMA IndexIsRight ==
  ASSUME NEW S, NEW list \in Seq(S), NEW i \in Int
  PROVE  LET x == (IF i < 0 THEN Len(list) + i ELSE i) + 1
         IN ListIndex(list, i) = IF x \in 1 .. Len(list) THEN <<list[x]>> ELSE <<>>
BY DEF ListIndex

-----------------------------------------------------------------------------
(* The elements at a set of positions, in their order.                     *)

Upto(K, l) == Cardinality({h \in K : h <= l})

Listed(q, list, K) ==
  /\ q \in Seq(Range(list)) /\ Len(q) = Cardinality(K)
  /\ \A l \in K : q[Upto(K, l)] = list[l]

\* Positions of a list are finitely many, and so are those up to one of them.
LEMMA PositionsFinite ==
  ASSUME NEW n \in Nat, NEW K \in SUBSET (1 .. n)
  PROVE  /\ IsFiniteSet(K) /\ Cardinality(K) \in Nat /\ Cardinality(K) <= n
         /\ \A l : Upto(K, l) \in Nat /\ Upto(K, l) <= Cardinality(K)
         /\ \A l \in K : Upto(K, l) \in 1 .. Cardinality(K)
<1>1. IsFiniteSet(1 .. n) /\ Cardinality(1 .. n) = n
  BY FS_Interval
<1>2. IsFiniteSet(K) /\ Cardinality(K) <= n
  BY <1>1, FS_Subset
<1>3. Cardinality(K) \in Nat
  BY <1>2, FS_CardinalityType
<1>4. ASSUME NEW l
      PROVE  /\ IsFiniteSet({h \in K : h <= l})
             /\ Upto(K, l) \in Nat /\ Upto(K, l) <= Cardinality(K)
  <2>1. {h \in K : h <= l} \in SUBSET K
    OBVIOUS
  <2>2. IsFiniteSet({h \in K : h <= l}) /\ Upto(K, l) <= Cardinality(K)
    BY <1>2, <2>1, FS_Subset DEF Upto
  <2> QED
    BY <2>2, FS_CardinalityType DEF Upto
<1>5. ASSUME NEW l \in K
      PROVE  Upto(K, l) # 0
  <2>1. l \in {h \in K : h <= l}
    OBVIOUS
  <2> QED
    BY <1>4, <2>1, FS_EmptySet DEF Upto
<1>6. ASSUME NEW l \in K
      PROVE  Upto(K, l) \in 1 .. Cardinality(K)
  <2>1. Upto(K, l) \in Nat /\ Upto(K, l) <= Cardinality(K) /\ Upto(K, l) # 0
    BY <1>4, <1>5
  <2> QED
    BY <1>3, <2>1
<1> QED
  BY <1>2, <1>3, <1>4, <1>6

\* Each of them has its place, and each place its position.
LEMMA PlacesAreTaken ==
  ASSUME NEW n \in Nat, NEW K \in SUBSET (1 .. n), NEW k \in 1 .. Cardinality(K)
  PROVE  \E l \in K : Upto(K, l) = k
<1> DEFINE m == Cardinality(K)
           f == [l \in K |-> Upto(K, l)]
<1>1. IsFiniteSet(K) /\ m \in Nat /\ \A l \in K : Upto(K, l) \in 1 .. m
  BY PositionsFinite
<1>2. ASSUME NEW l1 \in K, NEW l2 \in K, l1 < l2
      PROVE  Upto(K, l1) # Upto(K, l2)
  <2> DEFINE A == {h \in K : h <= l1}
             B == {h \in K : h <= l2}
  <2>4. l1 \in Int /\ l2 \in Int /\ ~(l2 <= l1)
    BY <1>2
  <2>5. \A h \in K : h <= l1 => h <= l2
    BY <1>2
  <2>1. A \in SUBSET B /\ l2 \in B /\ l2 \notin A /\ B \in SUBSET K
    <3>1. l2 \in B /\ l2 \notin A
      BY <2>4
    <3> QED
      BY <2>5, <3>1
  <2> HIDE DEF A, B
  <2>2. IsFiniteSet(B)
    BY <1>1, <2>1, FS_Subset
  <2>3. Cardinality(A) # Cardinality(B)
    BY <2>1, <2>2, FS_Subset
  <2> QED
    BY <2>3 DEF A, B, Upto
<1> HIDE DEF m
<1>3. f \in Injection(K, 1 .. m)
  <2>1. f \in [K -> 1 .. m]
    BY <1>1
  <2>2. \A l1, l2 \in K : f[l1] = f[l2] => l1 = l2
    <3> SUFFICES ASSUME NEW l1 \in K, NEW l2 \in K, f[l1] = f[l2], l1 # l2
                 PROVE  FALSE
      OBVIOUS
    <3>1. l1 < l2 \/ l2 < l1
      OBVIOUS
    <3> QED
      BY <1>2, <3>1
  <2> HIDE DEF f
  <2> QED
    BY <2>1, <2>2 DEF Injection, IsInjective
<1> HIDE DEF f
<1>4. IsFiniteSet(1 .. m) /\ Cardinality(1 .. m) = m
  BY <1>1, FS_Interval
<1>5. f \in Surjection(K, 1 .. m)
  BY <1>3, <1>4, FS_Injection DEF m
<1>6. PICK l \in K : f[l] = k
  BY <1>5 DEF Surjection, m
<1> QED
  BY <1>6 DEF f

\* So the list is determined by the positions.
\* The first m elements at some positions.
ElementsAt(list, K, m) == [k \in 1 .. m |-> list[CHOOSE l \in K : Upto(K, l) = k]]

LEMMA ListedIs ==
  ASSUME NEW S, NEW list \in Seq(S), NEW K \in SUBSET (1 .. Len(list)), NEW q,
         Listed(q, list, K)
  PROVE  q = ElementsAt(list, K, Cardinality(K))
<1>1. q \in Seq(Range(list)) /\ Len(q) = Cardinality(K) /\ \A l \in K : q[Upto(K, l)] = list[l]
  BY DEF Listed
<1>2. q = [k \in 1 .. Cardinality(K) |-> q[k]]
  BY <1>1
<1>3. ASSUME NEW k \in 1 .. Cardinality(K)
      PROVE  q[k] = list[CHOOSE l \in K : Upto(K, l) = k]
  <2> DEFINE l0 == CHOOSE l \in K : Upto(K, l) = k
  <2>1. l0 \in K /\ Upto(K, l0) = k
    <3>1. \E l \in K : Upto(K, l) = k
      <4>1. Len(list) \in Nat
        OBVIOUS
      <4> QED
        BY <4>1, PlacesAreTaken
    <3> QED
      BY <3>1
  <2> HIDE DEF l0
  <2>2. q[k] = list[l0]
    BY <1>1, <2>1
  <2> QED
    BY <2>2 DEF l0
<1>4. q = [k \in 1 .. Cardinality(K) |-> list[CHOOSE l \in K : Upto(K, l) = k]]
  BY <1>2, <1>3
<1> QED
  BY <1>4 DEF ElementsAt

\* One more position, behind them.
LEMMA ListedAppend ==
  ASSUME NEW S, NEW list \in Seq(S), NEW i \in Nat, i + 1 <= Len(list),
         NEW K \in SUBSET (1 .. i), NEW q, Listed(q, list, K)
  PROVE  Listed(Append(q, list[i + 1]), list, K \cup {i + 1})
<1> DEFINE M == K \cup {i + 1}
           r == Append(q, list[i + 1])
           m == Cardinality(K)
<1>1. q \in Seq(Range(list)) /\ Len(q) = m /\ \A l \in K : q[Upto(K, l)] = list[l]
  BY DEF Listed
<1>2. IsFiniteSet(K) /\ m \in Nat /\ \A l \in K : Upto(K, l) \in 1 .. m
  BY PositionsFinite
<1>3. i + 1 \notin K
  OBVIOUS
<1>4. Cardinality(M) = m + 1
  BY <1>2, <1>3, FS_AddElement
<1>5. list[i + 1] \in Range(list)
  BY DEF Range
<1>6. /\ r \in Seq(Range(list)) /\ Len(r) = m + 1 /\ r[m + 1] = list[i + 1]
      /\ \A k \in 1 .. m : r[k] = q[k]
  BY <1>1, <1>2, <1>5
<1>7. Upto(M, i + 1) = m + 1
  <2>2. \A h \in M : h <= i + 1
    OBVIOUS
  <2>1. {h \in M : h <= i + 1} = M
    BY <2>2
  <2> QED
    BY <1>4, <2>1 DEF Upto
<1>8. \A l \in K : Upto(M, l) = Upto(K, l)
  <2> SUFFICES ASSUME NEW l \in K
               PROVE  {h \in M : h <= l} = {h \in K : h <= l}
    BY DEF Upto
  <2> QED
    OBVIOUS
<1> HIDE DEF r, m
<1>9. \A l \in M : r[Upto(M, l)] = list[l]
  BY <1>1, <1>2, <1>6, <1>7, <1>8
<1> QED
  BY <1>4, <1>6, <1>9 DEF Listed, r, m
-----------------------------------------------------------------------------
(* LREM.                                                                   *)

\* One element visited.
Visited(walk, ele, e, n) ==
  IF ele = e /\ (n = 0 \/ walk.removed < n)
  THEN [walk EXCEPT !.removed = @ + 1]
  ELSE [walk EXCEPT !.left = Append(@, ele)]

Walks(q, l, e, n) ==
  q = [i \in 0 .. Len(l) |-> IF i = 0 THEN [left |-> <<>>, removed |-> 0]
                             ELSE Visited(q[i - 1], l[i], e, n)]

WalkOf(l, e, n) == CHOOSE q : Walks(q, l, e, n)

Walked(S) == [left : Seq(S), removed : Nat]

LEMMA VisitedIs ==
  ASSUME NEW S, NEW walk \in Walked(S), NEW ele \in S, NEW e, NEW n
  PROVE  /\ Visited(walk, ele, e, n) \in Walked(S)
         /\ ele = e /\ (n = 0 \/ walk.removed < n)
              => /\ Visited(walk, ele, e, n).left = walk.left
                 /\ Visited(walk, ele, e, n).removed = walk.removed + 1
         /\ ~(ele = e /\ (n = 0 \/ walk.removed < n))
              => /\ Visited(walk, ele, e, n).left = Append(walk.left, ele)
                 /\ Visited(walk, ele, e, n).removed = walk.removed
<1>1. Append(walk.left, ele) \in Seq(S)
  BY DEF Walked
<1>2. CASE ele = e /\ (n = 0 \/ walk.removed < n)
  BY <1>2 DEF Visited, Walked
<1>3. CASE ~(ele = e /\ (n = 0 \/ walk.removed < n))
  <2>1. Visited(walk, ele, e, n) = [walk EXCEPT !.left = Append(@, ele)]
    BY <1>3 DEF Visited
  <2> QED
    BY <1>1, <1>3, <2>1 DEF Walked
<1> QED
  BY <1>2, <1>3

LEMMA WalkIs ==
  ASSUME NEW S, NEW l \in Seq(S), NEW e, NEW n
  PROVE  LET q == WalkOf(l, e, n)
         IN /\ q[0] = [left |-> <<>>, removed |-> 0]
            /\ \A i \in 0 .. Len(l) : q[i] \in Walked(S)
            /\ \A i \in 1 .. Len(l) : q[i] = Visited(q[i - 1], l[i], e, n)
<1> DEFINE Start == [left |-> <<>>, removed |-> 0]
           V == Walked(S)
           Step == [i \in 1 .. Len(l) |-> [w \in V |-> Visited(w, l[i], e, n)]]
<1>1. Len(l) \in Nat /\ \A i \in 1 .. Len(l) : l[i] \in S
  OBVIOUS
<1>2. Start \in V
  BY DEF Walked
<1>3. Step \in [1 .. Len(l) -> [V -> V]]
  <2> SUFFICES ASSUME NEW i \in 1 .. Len(l), NEW w \in V
               PROVE  Visited(w, l[i], e, n) \in V
    OBVIOUS
  <2> QED
    BY <1>1, VisitedIs
<1>4. \A i \in 1 .. Len(l) : \A w \in V : Step[i][w] = Visited(w, l[i], e, n)
  OBVIOUS
<1> HIDE DEF Start, V, Step
<1>5. PICK f : Recurses(f, Len(l), V, Start, Step)
  BY <1>1, <1>2, <1>3, Recursion
<1>6. /\ f \in [0 .. Len(l) -> V] /\ f[0] = Start
      /\ \A i \in 1 .. Len(l) : f[i] = Step[i][f[i - 1]]
  BY <1>5 DEF Recurses
<1>7. \A i \in 1 .. Len(l) : i - 1 \in 0 .. Len(l) /\ f[i - 1] \in V
  BY <1>1, <1>6
<1>8. f = [i \in 0 .. Len(l) |-> f[i]]
  BY <1>6
<1>9. \A i \in 0 .. Len(l) : f[i] = IF i = 0 THEN Start ELSE Visited(f[i - 1], l[i], e, n)
  <2> SUFFICES ASSUME NEW i \in 0 .. Len(l), i # 0
               PROVE  f[i] = Visited(f[i - 1], l[i], e, n)
    BY <1>6
  <2>1. i \in 1 .. Len(l)
    BY <1>1
  <2> QED
    BY <1>4, <1>6, <1>7, <2>1
<1>10. Walks(f, l, e, n)
  BY <1>8, <1>9 DEF Walks, Start
<1>11. Walks(WalkOf(l, e, n), l, e, n)
  BY <1>10 DEF WalkOf
<1> DEFINE q == WalkOf(l, e, n)
<1>12. q = [i \in 0 .. Len(l) |-> IF i = 0 THEN Start ELSE Visited(q[i - 1], l[i], e, n)]
  BY <1>11 DEF Walks, Start
<1> HIDE DEF q
<1>13. q[0] = Start /\ \A i \in 1 .. Len(l) : q[i] = Visited(q[i - 1], l[i], e, n)
  BY <1>1, <1>12
<1>14. \A i \in 1 .. Len(l) : q[i - 1] \in V => q[i] \in V
  BY <1>1, <1>13, VisitedIs DEF V
<1>15. \A i \in 0 .. Len(l) : q[i] \in V
  BY <1>1, <1>2, <1>13, <1>14, RecursionType
<1> QED
  BY <1>13, <1>15 DEF q, V, Start

\* R are the first n of the positions G, or all of them if there are no more or n is 0.
Taken(R, G, n) ==
  /\ R \subseteq G
  /\ R = G \/ (n # 0 /\ Cardinality(R) = n)
  /\ n # 0 => Cardinality(R) <= n
  /\ \A k \in R, h \in G \ R : k < h

Where(l, e, i) == {k \in 1 .. i : l[k] = e}

WalkedTo(w, l, e, n, i) ==
  \E R \in SUBSET (1 .. i) :
    /\ Taken(R, Where(l, e, i), n) /\ w.removed = Cardinality(R)
    /\ Listed(w.left, l, (1 .. i) \ R)

LEMMA WalkGoesOn ==
  ASSUME NEW S, NEW l \in Seq(S), NEW e, NEW n \in Nat, NEW i \in Nat, i + 1 <= Len(l),
         NEW w \in Walked(S), WalkedTo(w, l, e, n, i)
  PROVE  WalkedTo(Visited(w, l[i + 1], e, n), l, e, n, i + 1)
<1> DEFINE v == Visited(w, l[i + 1], e, n)
           G == Where(l, e, i)
           H == Where(l, e, i + 1)
<1>1. PICK R \in SUBSET (1 .. i) : /\ Taken(R, G, n) /\ w.removed = Cardinality(R)
                                   /\ Listed(w.left, l, (1 .. i) \ R)
  BY DEF WalkedTo
<1>2. IsFiniteSet(R) /\ Cardinality(R) \in Nat
  BY PositionsFinite
<1>3. l[i + 1] \in S /\ i + 1 \notin R /\ i + 1 \notin G
  BY DEF Where
<1>4. G \subseteq 1 .. i
  BY DEF Where
<1>5. CASE l[i + 1] = e /\ (n = 0 \/ w.removed < n)
  <2> DEFINE T == R \cup {i + 1}
  <2>1. R = G
    BY <1>1, <1>5 DEF Taken
  <2>2. H = G \cup {i + 1}
    <3>1. \A k : k \in 1 .. i + 1 <=> k \in 1 .. i \/ k = i + 1
      OBVIOUS
    <3> QED
      BY <1>5, <3>1 DEF Where
  <2>3. Cardinality(T) = Cardinality(R) + 1
    BY <1>2, <1>3, FS_AddElement
  <2>4. Taken(T, H, n)
    <3>1. n # 0 => Cardinality(T) <= n
      BY <1>1, <1>2, <1>5, <2>3
    <3>2. T = H
      BY <2>1, <2>2
    <3> HIDE DEF T, H
    <3> QED
      BY <3>1, <3>2 DEF Taken
  <2>5. v.left = w.left /\ v.removed = w.removed + 1
    BY <1>3, <1>5, VisitedIs
  <2>6. (1 .. i + 1) \ T = (1 .. i) \ R /\ T \in SUBSET (1 .. i + 1)
    OBVIOUS
  <2> HIDE DEF v, T, H
  <2>7. v.removed = Cardinality(T) /\ Listed(v.left, l, (1 .. i + 1) \ T)
    BY <1>1, <2>3, <2>5, <2>6
  <2> QED
    BY <2>4, <2>6, <2>7 DEF WalkedTo, v, H
<1>6. CASE ~(l[i + 1] = e /\ (n = 0 \/ w.removed < n))
  <2>1. v.left = Append(w.left, l[i + 1]) /\ v.removed = w.removed
    BY <1>3, <1>6, VisitedIs
  <2>2. Listed(v.left, l, ((1 .. i) \ R) \cup {i + 1})
    <3> DEFINE K == (1 .. i) \ R
    <3>1. K \in SUBSET (1 .. i) /\ Listed(w.left, l, K)
      BY <1>1
    <3> HIDE DEF K, v
    <3>2. Listed(Append(w.left, l[i + 1]), l, K \cup {i + 1})
      BY <3>1, ListedAppend
    <3> QED
      BY <2>1, <3>2 DEF K
  <2>3. ((1 .. i) \ R) \cup {i + 1} = (1 .. i + 1) \ R /\ R \in SUBSET (1 .. i + 1)
    OBVIOUS
  <2>4. Taken(R, H, n)
    <3>1. \A k : k \in 1 .. i + 1 <=> k \in 1 .. i \/ k = i + 1
      OBVIOUS
    <3>2. H = G \/ (H = G \cup {i + 1} /\ l[i + 1] = e)
      BY <3>1 DEF Where
    <3>3. CASE H = G
      <4> HIDE DEF G, H
      <4> QED
        BY <1>1, <3>3
    <3>4. CASE H = G \cup {i + 1} /\ l[i + 1] = e
      <4>1. n # 0 /\ ~(Cardinality(R) < n)
        BY <1>1, <1>6, <3>4
      <4>2. R \subseteq G /\ Cardinality(R) <= n /\ \A k \in R, h \in G \ R : k < h
        BY <1>1, <4>1 DEF Taken
      <4>3. Cardinality(R) = n
        BY <1>2, <4>1, <4>2
      <4>4. \A k \in R : k < i + 1
        OBVIOUS
      <4> HIDE DEF G, H
      <4>5. \A k \in R, h \in H \ R : k < h
        BY <3>4, <4>2, <4>4
      <4> QED
        BY <3>4, <4>1, <4>2, <4>3, <4>5 DEF Taken
    <3> QED
      BY <3>2, <3>3, <3>4
  <2> HIDE DEF v, H
  <2>5. v.removed = Cardinality(R) /\ Listed(v.left, l, (1 .. i + 1) \ R)
    BY <1>1, <2>1, <2>2, <2>3
  <2> QED
    BY <2>3, <2>4, <2>5 DEF WalkedTo, v, H
<1> QED
  BY <1>5, <1>6

LEMMA WalkEnds ==
  ASSUME NEW S, NEW l \in Seq(S), NEW e, NEW n \in Nat
  PROVE  WalkedTo(WalkOf(l, e, n)[Len(l)], l, e, n, Len(l))
<1> DEFINE q == WalkOf(l, e, n)
           T == {i \in Nat : WalkedTo(q[i], l, e, n, i)}
<1>1. /\ q[0].left = <<>> /\ q[0].removed = 0
      /\ \A i \in 0 .. Len(l) : q[i] \in Walked(S)
      /\ \A i \in 1 .. Len(l) : q[i] = Visited(q[i - 1], l[i], e, n)
  BY WalkIs
<1>2. Len(l) \in Nat
  OBVIOUS
<1> HIDE DEF q
<1>3. WalkedTo(q[0], l, e, n, 0)
  <2>1. Where(l, e, 0) = {} /\ 1 .. 0 = {}
    BY DEF Where
  <2>2. Cardinality({}) = 0
    BY FS_EmptySet
  <2>3. Taken({}, Where(l, e, 0), n)
    BY <2>1, <2>2 DEF Taken
  <2>4. (1 .. 0) \ {} = {} /\ {} \in SUBSET (1 .. 0)
    BY <2>1
  <2>5. Listed(<<>>, l, {})
    BY <2>2 DEF Listed
  <2> QED
    BY <1>1, <2>2, <2>3, <2>4, <2>5 DEF WalkedTo
<1>4. ASSUME NEW i \in 1 .. Len(l), i - 1 \in T
      PROVE  i \in T
  <2>1. i - 1 \in Nat /\ (i - 1) + 1 = i /\ i - 1 \in 0 .. Len(l) /\ i <= Len(l)
    BY <1>2
  <2>2. WalkedTo(Visited(q[i - 1], l[(i - 1) + 1], e, n), l, e, n, (i - 1) + 1)
    BY <1>1, <1>4, <2>1, WalkGoesOn
  <2> QED
    BY <1>1, <2>1, <2>2
<1>5. 0 \in T
  BY <1>3
<1> HIDE DEF T
<1>6. \A i \in 0 .. Len(l) : i \in T
  BY <1>2, <1>4, <1>5, Climb
<1>7. Len(l) \in T
  BY <1>2, <1>6
<1> QED
  BY <1>7 DEF T, q

\* Seen from the tail.
Mirror(n, K) == {n + 1 - k : k \in K}

LEMMA MirrorIs ==
  ASSUME NEW n \in Nat, NEW K \in SUBSET (1 .. n)
  PROVE  /\ Mirror(n, K) \in SUBSET (1 .. n) /\ Cardinality(Mirror(n, K)) = Cardinality(K)
         /\ \A k \in 1 .. n : k \in Mirror(n, K) <=> n + 1 - k \in K
<1> DEFINE M == Mirror(n, K)
           f == [k \in K |-> n + 1 - k]
<1>1. M \in SUBSET (1 .. n)
  BY DEF Mirror
<1>2. ASSUME NEW k \in 1 .. n
      PROVE  k \in M <=> n + 1 - k \in K
  <2>1. n + 1 - (n + 1 - k) = k
    OBVIOUS
  <2>2. n + 1 - k \in K => k \in M
    BY <2>1 DEF Mirror
  <2>3. \A h \in K : k = n + 1 - h => n + 1 - k = h
    OBVIOUS
  <2> QED
    BY <2>2, <2>3 DEF Mirror
<1>3. f \in Bijection(K, M)
  <2>1. f \in [K -> M]
    BY DEF Mirror
  <2>2. \A a, b \in K : f[a] = f[b] => a = b
    OBVIOUS
  <2>3. \A m \in M : \E k \in K : f[k] = m
    BY DEF Mirror
  <2> HIDE DEF f, M
  <2> QED
    BY <2>1, <2>2, <2>3 DEF Bijection, Injection, IsInjective, Surjection
<1>4. IsFiniteSet(K)
  BY PositionsFinite
<1>5. ExistsBijection(K, M)
  BY <1>3 DEF ExistsBijection
<1>6. Cardinality(M) = Cardinality(K)
  BY <1>4, <1>5, FS_Bijection
<1> QED
  BY <1>1, <1>2, <1>6

LEMMA ReverseElements ==
  ASSUME NEW S, NEW l \in Seq(S)
  PROVE  /\ Reverse(l) \in Seq(S) /\ Len(Reverse(l)) = Len(l) /\ Range(Reverse(l)) = Range(l)
         /\ \A k \in 1 .. Len(l) : Reverse(l)[k] = l[Len(l) + 1 - k]
<1>1. Reverse(l) = [k \in 1 .. Len(l) |-> l[(Len(l) - k) + 1]] /\ Len(l) \in Nat
  BY DEF Reverse
<1>2. \A k \in 1 .. Len(l) : (Len(l) - k) + 1 = Len(l) + 1 - k /\ Len(l) + 1 - k \in 1 .. Len(l)
  BY <1>1
<1>3. Reverse(l) = [k \in 1 .. Len(l) |-> l[Len(l) + 1 - k]]
  BY <1>1, <1>2
<1>4. \A k \in 1 .. Len(l) : l[k] \in S
  OBVIOUS
<1>5. Reverse(l) \in Seq(S) /\ Len(Reverse(l)) = Len(l)
  BY <1>1, <1>2, <1>3, <1>4
<1>6. \A k \in 1 .. Len(l) : Reverse(l)[k] = l[Len(l) + 1 - k]
  BY <1>3
<1>7. \A k \in 1 .. Len(l) : l[k] = Reverse(l)[Len(l) + 1 - k]
  <2> SUFFICES ASSUME NEW k \in 1 .. Len(l)
               PROVE  l[k] = Reverse(l)[Len(l) + 1 - k]
    OBVIOUS
  <2>1. Len(l) + 1 - (Len(l) + 1 - k) = k /\ Len(l) + 1 - k \in 1 .. Len(l)
    BY <1>1
  <2> QED
    BY <1>6, <2>1
<1>8. Range(Reverse(l)) = Range(l)
  <2>1. /\ DOMAIN Reverse(l) = 1 .. Len(l) /\ DOMAIN l = 1 .. Len(l)
    BY <1>5
  <2> QED
    BY <1>2, <1>6, <1>7, <2>1 DEF Range
<1> QED
  BY <1>5, <1>6, <1>8

LEMMA ListedMirror ==
  ASSUME NEW S, NEW list \in Seq(S), NEW K \in SUBSET (1 .. Len(list)), NEW q,
         Listed(q, Reverse(list), K)
  PROVE  Listed(Reverse(q), list, Mirror(Len(list), K))
<1> DEFINE n == Len(list)
           M == Mirror(n, K)
           m == Cardinality(K)
<1>1. n \in Nat /\ K \in SUBSET (1 .. n)
  OBVIOUS
<1>2. /\ Range(Reverse(list)) = Range(list)
      /\ \A k \in 1 .. n : Reverse(list)[k] = list[n + 1 - k]
  BY ReverseElements
<1>3. /\ q \in Seq(Range(list)) /\ Len(q) = m
      /\ \A k \in K : q[Upto(K, k)] = Reverse(list)[k]
  BY <1>2 DEF Listed
<1>4. /\ Reverse(q) \in Seq(Range(list)) /\ Len(Reverse(q)) = m
      /\ \A k \in 1 .. m : Reverse(q)[k] = q[m + 1 - k]
  BY <1>3, ReverseElements
<1>5. /\ M \in SUBSET (1 .. n) /\ Cardinality(M) = m
      /\ \A k \in 1 .. n : k \in M <=> n + 1 - k \in K
  BY <1>1, MirrorIs
<1>6. /\ IsFiniteSet(K) /\ m \in Nat /\ \A k \in K : Upto(K, k) \in 1 .. m
  BY <1>1, PositionsFinite
<1> HIDE DEF n
<1>7. ASSUME NEW l \in M
      PROVE  Reverse(q)[Upto(M, l)] = list[l]
  <2> DEFINE k == n + 1 - l
             A == {h \in K : h <= k}
             B == {h \in K : k <= h}
  <2>1. k \in K /\ k \in 1 .. n /\ n + 1 - k = l
    BY <1>1, <1>5
  <2>2. {h \in M : h <= l} = Mirror(n, B)
    <3>1. ASSUME NEW h \in 1 .. n
          PROVE  (h \in M /\ h <= l) <=> h \in Mirror(n, B)
      <4>1. B \in SUBSET (1 .. n)
        BY <1>1
      <4> HIDE DEF B
      <4>2. h \in Mirror(n, B) <=> n + 1 - h \in B
        BY <1>1, <4>1, MirrorIs
      <4>3. k <= n + 1 - h <=> h <= l
        BY <1>1, <1>5
      <4> QED
        BY <1>5, <4>2, <4>3 DEF B
    <3>2. B \in SUBSET (1 .. n)
      BY <1>1
    <3> HIDE DEF B
    <3>3. Mirror(n, B) \in SUBSET (1 .. n)
      BY <1>1, <3>2, MirrorIs
    <3> QED
      BY <1>5, <3>1, <3>3
  <2>3. B \in SUBSET (1 .. n) /\ B \in SUBSET K /\ A \in SUBSET K
    BY <1>1
  <2>4. Upto(M, l) = Cardinality(B)
    <3> HIDE DEF B
    <3> QED
      BY <1>1, <2>2, <2>3, MirrorIs DEF Upto
  <2>5. A \cup B = K /\ A \cap B = {k}
    <3>1. \A h \in K : h <= k \/ k <= h
      BY <1>1, <2>1
    <3>2. \A h \in K : h <= k /\ k <= h => h = k
      BY <1>1, <2>1
    <3>3. k <= k
      BY <2>1
    <3> HIDE DEF k
    <3> QED
      BY <2>1, <3>1, <3>2, <3>3
  <2>6. Upto(K, k) = Cardinality(A)
    BY DEF Upto
  <2> HIDE DEF A, B, k
  <2>7. IsFiniteSet(A) /\ IsFiniteSet(B)
    BY <1>6, <2>3, FS_Subset
  <2>8. Cardinality(A) \in Nat /\ Cardinality(B) \in Nat
    BY <2>7, FS_CardinalityType
  <2>9. m = Cardinality(A) + Cardinality(B) - 1
    <3>1. Cardinality({k}) = 1
      BY FS_Singleton
    <3> QED
      BY <2>5, <2>7, <3>1, FS_Union
  <2>10. Upto(M, l) \in 1 .. m /\ m + 1 - Upto(M, l) = Upto(K, k)
    <3>1. Upto(K, k) \in 1 .. m
      BY <1>6, <2>1
    <3> HIDE DEF m
    <3> QED
      BY <1>6, <2>4, <2>6, <2>8, <2>9, <3>1
  <2> HIDE DEF M, m
  <2>11. Reverse(q)[Upto(M, l)] = q[Upto(K, k)]
    BY <1>4, <2>10
  <2>12. q[Upto(K, k)] = Reverse(list)[k] /\ Reverse(list)[k] = list[l]
    BY <1>2, <1>3, <2>1
  <2> QED
    BY <2>11, <2>12
<1> QED
  BY <1>4, <1>5, <1>7 DEF Listed, n

\* Which of some positions come first: from the head, or from the tail.
Sooner(i, k, h) == IF i < 0 THEN k > h ELSE k < h

\* The m positions of G that come first.
FirstOf(i, G, m) ==
  CHOOSE S \in SUBSET G : /\ Cardinality(S) = m
                          /\ \A k \in S, l \in G \ S : IF i < 0 THEN k > l ELSE k < l

\* There is only one set of m positions that come first.
LEMMA FirstOnes ==
  ASSUME NEW i \in Int, NEW n \in Nat, NEW G \in SUBSET (1 .. n),
         NEW R \in SUBSET G, \A k \in R, h \in G \ R : Sooner(i, k, h)
  PROVE  R = FirstOf(i, G, Cardinality(R))
<1> DEFINE First(S) == /\ Cardinality(S) = Cardinality(R)
                       /\ \A k \in S, h \in G \ S : IF i < 0 THEN k > h ELSE k < h
           T == FirstOf(i, G, Cardinality(R))
<1>1. First(R)
  BY DEF Sooner
<1>2. T \in SUBSET G /\ First(T)
  <2>1. T = CHOOSE S \in SUBSET G : First(S)
    BY DEF FirstOf
  <2> HIDE DEF First, T
  <2> QED
    BY <1>1, <2>1
<1> HIDE DEF T
<1>3. IsFiniteSet(R) /\ IsFiniteSet(T)
  <2>1. R \in SUBSET (1 .. n) /\ T \in SUBSET (1 .. n)
    BY <1>2
  <2> QED
    BY <2>1, PositionsFinite
<1> SUFFICES R = T
  BY DEF T
<1>7. Cardinality(R) = Cardinality(T)
  BY <1>2
<1>4. CASE R \subseteq T
  BY <1>3, <1>4, <1>7, FS_Subset
<1>5. CASE T \subseteq R
  BY <1>3, <1>5, <1>7, FS_Subset
<1>6. CASE ~(R \subseteq T) /\ ~(T \subseteq R)
  <2>1. PICK k \in R : k \notin T
    BY <1>6
  <2>2. PICK h \in T : h \notin R
    BY <1>6
  <2>3. k \in G \ T /\ h \in G \ R /\ k \in Int /\ h \in Int
    BY <1>2, <2>1, <2>2
  <2>4. Sooner(i, k, h) /\ Sooner(i, h, k)
    BY <1>2, <2>1, <2>2, <2>3 DEF Sooner
  <2> QED
    BY <2>3, <2>4 DEF Sooner
<1> QED
  BY <1>4, <1>5, <1>6

Magnitude(i) == IF i < 0 THEN -i ELSE i

\* How many LREM removes.
Most(i, G) ==
  IF i = 0 \/ Cardinality(G) < Magnitude(i) THEN Cardinality(G) ELSE Magnitude(i)

LEMMA TakenAreMost ==
  ASSUME NEW i \in Int, NEW n \in Nat, NEW G \in SUBSET (1 .. n), NEW R,
         Taken(R, G, Magnitude(i))
  PROVE  Cardinality(R) = Most(i, G)
<1>1. /\ R \subseteq G
      /\ R = G \/ (Magnitude(i) # 0 /\ Cardinality(R) = Magnitude(i))
      /\ Magnitude(i) # 0 => Cardinality(R) <= Magnitude(i)
  BY DEF Taken
<1>2. Magnitude(i) \in Nat /\ (Magnitude(i) = 0 <=> i = 0)
  BY DEF Magnitude
<1>3. /\ IsFiniteSet(G) /\ Cardinality(G) \in Nat
  BY PositionsFinite
<1>4. Cardinality(R) <= Cardinality(G)
  BY <1>1, <1>3, FS_Subset
<1>5. CASE R = G
  BY <1>1, <1>2, <1>3, <1>5 DEF Most
<1>6. CASE R # G
  BY <1>1, <1>2, <1>3, <1>4, <1>6 DEF Most
<1> QED
  BY <1>5, <1>6

\* LREM removes a set of positions that come first, and lists the others.
Removes(result, list, i, e) ==
  \E R \in SUBSET Where(list, e, Len(list)) :
    /\ Cardinality(R) = Most(i, Where(list, e, Len(list))) /\ result.removed = Cardinality(R)
    /\ \A k \in R, h \in Where(list, e, Len(list)) \ R : Sooner(i, k, h)
    /\ Listed(result.left, list, (1 .. Len(list)) \ R)

LEMMA LremIs ==
  ASSUME NEW list, NEW i, NEW e
  PROVE  Lrem(list, i, e) =
           IF i < 0
           THEN [WalkOf(Reverse(list), e, Magnitude(i))[Len(Reverse(list))] EXCEPT !.left = Reverse(@)]
           ELSE WalkOf(list, e, Magnitude(i))[Len(list)]
BY DEF Lrem, WalkOf, Walks, Visited, Magnitude

LEMMA WhereIs ==
  ASSUME NEW l, NEW e, NEW n \in Nat
  PROVE  /\ Where(l, e, n) \in SUBSET (1 .. n)
         /\ \A k \in 1 .. n : k \in Where(l, e, n) <=> l[k] = e
BY DEF Where

LEMMA LremRemoves ==
  ASSUME NEW S, NEW list \in Seq(S), NEW i \in Int, NEW e
  PROVE  Removes(Lrem(list, i, e), list, i, e)
<1> DEFINE n == Len(list)
           G == Where(list, e, n)
           result == Lrem(list, i, e)
<1>1. n \in Nat /\ Magnitude(i) \in Nat /\ G \in SUBSET (1 .. n)
  BY WhereIs DEF Magnitude
<1>2. CASE ~(i < 0)
  <2>1. WalkedTo(result, list, e, Magnitude(i), n)
    <3>1. result = WalkOf(list, e, Magnitude(i))[n]
      BY <1>2, LremIs
    <3> QED
      BY <1>1, <3>1, WalkEnds
  <2> HIDE DEF result
  <2>2. PICK R \in SUBSET (1 .. n) : /\ Taken(R, G, Magnitude(i)) /\ result.removed = Cardinality(R)
                                     /\ Listed(result.left, list, (1 .. n) \ R)
    BY <2>1 DEF WalkedTo
  <2>3. Cardinality(R) = Most(i, G)
    <3> HIDE DEF G, n
    <3> QED
      BY <1>1, <2>2, TakenAreMost
  <2>4. R \in SUBSET G /\ \A k \in R, h \in G \ R : Sooner(i, k, h)
    <3> HIDE DEF G
    <3> QED
      BY <1>2, <2>2 DEF Taken, Sooner
  <2> QED
    BY <2>2, <2>3, <2>4 DEF Removes, result
<1>3. CASE i < 0
  <2> DEFINE l == Reverse(list)
             w == WalkOf(l, e, Magnitude(i))[n]
             H == Where(l, e, n)
  <2>1. l \in Seq(S) /\ Len(l) = n /\ \A k \in 1 .. n : l[k] = list[n + 1 - k]
    BY ReverseElements
  <2>2. result = [w EXCEPT !.left = Reverse(@)]
    BY <1>3, <2>1, LremIs
  <2>3. WalkedTo(w, l, e, Magnitude(i), n) /\ w \in Walked(S)
    <3> HIDE DEF l
    <3>1. WalkedTo(w, l, e, Magnitude(i), n)
      BY <1>1, <2>1, WalkEnds
    <3>2. n \in 0 .. Len(l)
      BY <1>1, <2>1
    <3>3. w \in Walked(S)
      BY <2>1, <3>2, WalkIs
    <3> QED
      BY <3>1, <3>3
  <2> HIDE DEF w, l, result
  <2>4. result.left = Reverse(w.left) /\ result.removed = w.removed
    BY <2>2, <2>3 DEF Walked
  <2>5. PICK T \in SUBSET (1 .. n) : /\ Taken(T, H, Magnitude(i)) /\ w.removed = Cardinality(T)
                                     /\ Listed(w.left, l, (1 .. n) \ T)
    BY <2>3 DEF WalkedTo
  <2>6. H \in SUBSET (1 .. n) /\ \A k \in 1 .. n : k \in H <=> n + 1 - k \in G
    <3>1. H \in SUBSET (1 .. n) /\ \A k \in 1 .. n : k \in H <=> l[k] = e
      BY <1>1, WhereIs
    <3>2. \A k \in 1 .. n : n + 1 - k \in 1 .. n
      BY <1>1
    <3>3. \A k \in 1 .. n : n + 1 - k \in G <=> list[n + 1 - k] = e
      BY <1>1, <3>2, WhereIs
    <3> QED
      BY <2>1, <3>1, <3>3
  <2> DEFINE R == Mirror(n, T)
  <2> HIDE DEF G, H, n
  <2>7. /\ R \in SUBSET (1 .. n) /\ Cardinality(R) = Cardinality(T)
        /\ \A k \in 1 .. n : k \in R <=> n + 1 - k \in T
    BY <1>1, MirrorIs
  <2>8. T \subseteq H /\ \A k \in T, h \in H \ T : k < h
    BY <2>5 DEF Taken
  <2>9. \A k \in 1 .. n : n + 1 - k \in 1 .. n /\ n + 1 - (n + 1 - k) = k
    BY <1>1
  <2> HIDE DEF R
  <2>10. R \in SUBSET G
    BY <2>6, <2>7, <2>8, <2>9
  <2>11. \A k \in R, h \in G \ R : Sooner(i, k, h)
    <3> SUFFICES ASSUME NEW k \in R, NEW h \in G \ R
                 PROVE  k > h
      BY <1>3 DEF Sooner
    <3>1. n + 1 - k \in T /\ n + 1 - h \in H \ T
      BY <1>1, <2>6, <2>7, <2>9
    <3>2. n + 1 - k < n + 1 - h
      BY <2>8, <3>1
    <3> QED
      BY <1>1, <2>7, <3>2
  <2>12. Cardinality(R) = Most(i, G)
    <3>1. Cardinality(T) = Most(i, H)
      BY <1>1, <2>5, <2>6, TakenAreMost
    <3>2. Cardinality(Mirror(n, H)) = Cardinality(H)
      BY <1>1, <2>6, MirrorIs
    <3>3. Mirror(n, H) = G
      <4>1. /\ Mirror(n, H) \in SUBSET (1 .. n)
            /\ \A k \in 1 .. n : k \in Mirror(n, H) <=> n + 1 - k \in H
        BY <1>1, <2>6, MirrorIs
      <4> QED
        BY <1>1, <2>6, <2>9, <4>1
    <3> QED
      BY <2>7, <3>1, <3>2, <3>3 DEF Most
  <2>13. Listed(result.left, list, (1 .. n) \ R)
    <3> DEFINE K == (1 .. n) \ T
    <3>1. K \in SUBSET (1 .. n) /\ Listed(w.left, Reverse(list), K)
      BY <2>5 DEF l
    <3>2. Mirror(n, K) = (1 .. n) \ R
      <4>1. /\ Mirror(n, K) \in SUBSET (1 .. n)
            /\ \A k \in 1 .. n : k \in Mirror(n, K) <=> n + 1 - k \in K
        <5> HIDE DEF K
        <5> QED
          BY <1>1, <3>1, MirrorIs
      <4> QED
        BY <2>7, <2>9, <4>1
    <3> HIDE DEF K
    <3>3. Listed(Reverse(w.left), list, Mirror(n, K))
      BY <3>1, ListedMirror DEF n
    <3> QED
      BY <2>4, <3>2, <3>3
  <2> QED
    BY <2>4, <2>5, <2>7, <2>10, <2>11, <2>12, <2>13 DEF Removes, G, n, result
<1> QED
  BY <1>2, <1>3

Firsts(i, n, G, R) ==
  /\ i \in Int /\ n \in Nat /\ G \in SUBSET (1 .. n)
  /\ R \in SUBSET G /\ \A k \in R, h \in G \ R : Sooner(i, k, h)

LEMMA Remaining ==
  ASSUME NEW i, NEW n, NEW G, NEW R, Firsts(i, n, G, R)
  PROVE  R = FirstOf(i, G, Cardinality(R)) /\ Cardinality((1 .. n) \ R) = n - Cardinality(R)
<1>1. R = FirstOf(i, G, Cardinality(R))
  BY FirstOnes DEF Firsts
<1>2. IsFiniteSet(1 .. n) /\ Cardinality(1 .. n) = n
  <2>1. 1 \in Int /\ n \in Int /\ (IF 1 > n THEN 0 ELSE n - 1 + 1) = n
    BY DEF Firsts
  <2> QED
    BY <2>1, FS_Interval
<1>3. (1 .. n) \cap R = R
  BY DEF Firsts
<1>4. Cardinality((1 .. n) \ R) = Cardinality(1 .. n) - Cardinality((1 .. n) \cap R)
  <2> DEFINE P == 1 .. n
  <2>1. IsFiniteSet(P)
    BY <1>2
  <2> HIDE DEF P
  <2>2. Cardinality(P \ R) = Cardinality(P) - Cardinality(P \cap R)
    BY <2>1, FS_Difference
  <2> QED
    BY <2>2 DEF P
<1> QED
  BY <1>1, <1>2, <1>3, <1>4

\* The positions that LREM leaves.
KeptBy(list, i, e) ==
  (1 .. Len(list)) \ FirstOf(i, Where(list, e, Len(list)), Most(i, Where(list, e, Len(list))))

LEMMA LremRight ==
  ASSUME NEW S, NEW list \in Seq(S), NEW i \in Int, NEW e \in Range(list)
  PROVE  /\ Lrem(list, i, e).removed = Most(i, Where(list, e, Len(list)))
         /\ Lrem(list, i, e).left
              = ElementsAt(list, KeptBy(list, i, e),
                         Len(list) - Most(i, Where(list, e, Len(list))))
<1> DEFINE n == Len(list)
           G == Where(list, e, Len(list))
           result == Lrem(list, i, e)
           K == KeptBy(list, i, e)
<1>1. n \in Nat /\ G \in SUBSET (1 .. n)
  BY DEF Where
<1>2. PICK R \in SUBSET G :
        /\ Cardinality(R) = Most(i, G) /\ result.removed = Cardinality(R)
        /\ \A k \in R, h \in G \ R : Sooner(i, k, h)
        /\ Listed(result.left, list, (1 .. Len(list)) \ R)
  <2>1. Removes(result, list, i, e)
    BY LremRemoves
  <2> HIDE DEF result
  <2> QED
    BY <2>1 DEF Removes
<1>3. K = (1 .. Len(list)) \ FirstOf(i, G, Most(i, G))
  BY DEF KeptBy
<1>0. i \in Int
  OBVIOUS
<1> HIDE DEF G, K, result
<1>4. R = FirstOf(i, G, Cardinality(R)) /\ Cardinality((1 .. n) \ R) = n - Cardinality(R)
  <2>1. Firsts(i, n, G, R)
    BY <1>0, <1>1, <1>2 DEF Firsts
  <2> HIDE DEF n
  <2> QED
    BY <2>1, Remaining
<1>5. K = (1 .. Len(list)) \ R /\ Cardinality(K) = n - Most(i, G)
  BY <1>2, <1>3, <1>4
<1>6. Listed(result.left, list, K) /\ K \in SUBSET (1 .. Len(list))
  BY <1>2, <1>5
<1>7. result.left = ElementsAt(list, K, Cardinality(K))
  BY <1>6, ListedIs
<1>8. result.left = ElementsAt(list, K, n - Most(i, G))
  BY <1>5, <1>7
<1>9. result.removed = Most(i, G)
  BY <1>2
<1>10. Lrem(list, i, e).removed = Most(i, Where(list, e, Len(list)))
  BY <1>9 DEF G, result
<1> QED
  BY <1>8, <1>10 DEF n, G, K, result

LEMMA ListsAreRight ==
  ASSUME NEW S, NEW list \in Seq(S), NEW i \in Int, NEW j \in Int
  PROVE  ListIsRight(list, i, j)
<1> DEFINE n == Len(list)
           Position(k) == IF k < 0 THEN n + k ELSE k
           At0(k) == Position(k) + 1
           gone(e) == {k \in 1 .. n : list[k] = e}
           side(e) == FirstOf(i, gone(e), Most(i, gone(e)))
           left(e) == 1 .. n \ side(e)
           result(e) == Lrem(list, i, e)
           listed(e) == [k \in 1 .. n - Most(i, gone(e)) |->
                           list[CHOOSE l \in left(e) : Cardinality({h \in left(e) : h <= l}) = k]]
<1>1. Position(j) >= 0 => /\ Lrange(list, i, j) = Asked(list, At0(i), At0(j))
                          /\ Ltrim(list, i, j) = Asked(list, At0(i), At0(j))
  BY RangesAreAsked
<1>2. ListIndex(list, i) = IF At0(i) \in 1 .. n THEN <<list[At0(i)]>> ELSE <<>>
  BY IndexIsRight
<1>3. ASSUME NEW e \in Range(list)
      PROVE  result(e).removed = Most(i, gone(e)) /\ result(e).left = listed(e)
  <2>1. gone(e) = Where(list, e, n)
    BY DEF Where
  <2>2. left(e) = KeptBy(list, i, e)
    BY <2>1 DEF KeptBy
  <2>3. /\ result(e).removed = Most(i, Where(list, e, n))
        /\ result(e).left = ElementsAt(list, KeptBy(list, i, e), n - Most(i, Where(list, e, n)))
    BY LremRight
  <2>4. listed(e) = ElementsAt(list, left(e), n - Most(i, gone(e)))
    BY DEF ElementsAt, Upto
  <2> HIDE DEF gone, left, listed, result
  <2>5. /\ result(e).removed = Most(i, gone(e))
        /\ result(e).left = ElementsAt(list, left(e), n - Most(i, gone(e)))
    BY <2>1, <2>2, <2>3
  <2> QED
    BY <2>4, <2>5
<1> QED
  BY <1>1, <1>2, <1>3 DEF ListIsRight, Asked, Most, Magnitude, FirstOf

-----------------------------------------------------------------------------
(* The algebra of sets.                                                    *)

LEMMA SmallestSet ==
  ASSUME NEW dv, DOMAIN dv # {}, \A j \in DOMAIN dv : IsFiniteSet(dv[j])
  PROVE  \E j \in DOMAIN dv : \A i \in DOMAIN dv : Cardinality(dv[j]) <= Cardinality(dv[i])
<1> DEFINE C == {Cardinality(dv[j]) : j \in DOMAIN dv}
<1>1. C \subseteq Nat /\ C # {}
  BY FS_CardinalityType
<1>2. PICK c \in C : \A d \in C : c <= d
  <2> HIDE DEF C
  <2> QED
    BY <1>1, NatSmallest
<1> QED
  BY <1>2

LEMMA SinterIs ==
  ASSUME NEW dv, DOMAIN dv # {}, \A j \in DOMAIN dv : IsFiniteSet(dv[j])
  PROVE  Sinter(dv) = {e \in UNION Range(dv) : \A i \in DOMAIN dv : e \in dv[i]}
<1> DEFINE smallest == CHOOSE j \in DOMAIN dv :
                         \A i \in DOMAIN dv : Cardinality(dv[j]) <= Cardinality(dv[i])
<1>1. smallest \in DOMAIN dv
  BY SmallestSet
<1>2. Sinter(dv) = {ele \in dv[smallest] : \A j \in DOMAIN dv \ {smallest} : ele \in dv[j]}
  BY DEF Sinter
<1> HIDE DEF smallest
<1>3. \A e : e \in UNION Range(dv) <=> \E i \in DOMAIN dv : e \in dv[i]
  BY DEF Range
<1> QED
  BY <1>1, <1>2, <1>3

LEMMA SunionIs ==
  ASSUME NEW dv
  PROVE  Sunion(dv) = {e \in UNION Range(dv) : \E i \in DOMAIN dv : e \in dv[i]}
<1>1. \A e : e \in UNION Range(dv) <=> \E i \in DOMAIN dv : e \in dv[i]
  BY DEF Range
<1> QED
  BY <1>1 DEF Sunion

\* What is left after the first i sets.
Lefts(a, dv) ==
  a = [i \in 1 .. Len(dv) |->
         IF i = 1 THEN dv[1] ELSE IF a[i - 1] = {} THEN {} ELSE a[i - 1] \ dv[i]]

LEMMA LeftsExist ==
  ASSUME NEW dv, Len(dv) \in Nat
  PROVE  \E a : Lefts(a, dv)
<1> DEFINE Next0(r, i) == IF r = {} THEN {} ELSE r \ dv[i]
           Steps(a, m) == a = [i \in 1 .. m |-> IF i = 1 THEN dv[1] ELSE Next0(a[i - 1], i)]
           Fine == {m \in Nat : \E a : Steps(a, m)}
<1> HIDE DEF Next0
<1>1. 0 \in Fine
  <2>1. Steps([i \in 1 .. 0 |-> {}], 0)
    OBVIOUS
  <2> QED
    BY <2>1
<1>2. ASSUME NEW m \in Nat, m \in Fine
      PROVE  m + 1 \in Fine
  <2>1. PICK a : Steps(a, m)
    BY <1>2
  <2> DEFINE b == [i \in 1 .. m + 1 |->
                     IF i = 1 THEN dv[1] ELSE IF i = m + 1 THEN Next0(a[m], i) ELSE a[i]]
  <2>2. Steps(b, m + 1)
    <3> SUFFICES ASSUME NEW i \in 1 .. m + 1
                 PROVE  b[i] = IF i = 1 THEN dv[1] ELSE Next0(b[i - 1], i)
      OBVIOUS
    <3>1. CASE i = 1
      BY <3>1
    <3>2. CASE i # 1 /\ i = m + 1
      <4>1. i - 1 = m /\ m \in 1 .. m + 1 /\ m \in 1 .. m /\ m # m + 1
        BY <3>2
      <4>2. b[m] = a[m]
        <5>1. a[1] = dv[1]
          BY <2>1, <4>1
        <5> QED
          BY <4>1, <5>1
      <4> QED
        BY <3>2, <4>1, <4>2
    <3>3. CASE i # 1 /\ i # m + 1
      <4>1. i \in 1 .. m /\ i - 1 \in 1 .. m /\ i - 1 # m + 1
        BY <3>3
      <4>2. a[i] = Next0(a[i - 1], i) /\ b[i] = a[i]
        BY <2>1, <3>3, <4>1
      <4>3. b[i - 1] = a[i - 1]
        <5>1. a[1] = dv[1]
          BY <2>1, <4>1
        <5> QED
          BY <4>1, <5>1
      <4> QED
        BY <3>3, <4>2, <4>3
    <3> QED
      BY <3>1, <3>2, <3>3
  <2> HIDE DEF b
  <2> QED
    BY <2>2
<1> HIDE DEF Fine
<1>3. Len(dv) \in Fine
  BY <1>1, <1>2, NatRange
<1> QED
  BY <1>3 DEF Fine, Lefts, Next0

LEMMA SdiffIs ==
  ASSUME NEW S, NEW dv \in Seq(S), dv # <<>>
  PROVE  Sdiff(dv) = {e \in dv[1] : \A i \in DOMAIN dv \ {1} : e \notin dv[i]}
<1> DEFINE a == CHOOSE a : Lefts(a, dv)
           n == Len(dv)
           T == {m \in Nat : m < n => a[m + 1] = {e \in dv[1] : \A i \in 2 .. m + 1 : e \notin dv[i]}}
<1>1. Lefts(a, dv)
  BY LeftsExist
<1>2. Sdiff(dv) = a[n]
  BY DEF Sdiff, Lefts
<1>3. n \in Nat \ {0} /\ DOMAIN dv = 1 .. n
  BY EmptySeq
<1> HIDE DEF a, n
<1>4. /\ a[1] = dv[1]
      /\ \A i \in 2 .. n : a[i] = IF a[i - 1] = {} THEN {} ELSE a[i - 1] \ dv[i]
  <2>1. a = [i \in 1 .. n |->
               IF i = 1 THEN dv[1] ELSE IF a[i - 1] = {} THEN {} ELSE a[i - 1] \ dv[i]]
    BY <1>1 DEF Lefts, n
  <2>2. 1 \in 1 .. n /\ \A i \in 2 .. n : i \in 1 .. n /\ i # 1
    BY <1>3
  <2>3. a[1] = dv[1]
    BY <2>1, <2>2, Zenon
  <2>4. \A i \in 1 .. n : i # 1 => a[i] = IF a[i - 1] = {} THEN {} ELSE a[i - 1] \ dv[i]
    BY <2>1, Zenon
  <2> QED
    BY <2>2, <2>3, <2>4, Zenon
<1>5. 0 \in T
  BY <1>4
<1>6. ASSUME NEW m \in Nat, m \in T
      PROVE  m + 1 \in T
  <2> SUFFICES ASSUME m + 1 < n
               PROVE  a[(m + 1) + 1]
                        = {e \in dv[1] : \A i \in 2 .. (m + 1) + 1 : e \notin dv[i]}
    OBVIOUS
  <2> DEFINE h == (m + 1) + 1
  <2>1. h \in 2 .. n /\ h - 1 = m + 1 /\ m < n
    BY <1>3
  <2>2. a[h] = a[m + 1] \ dv[h]
    <3> HIDE DEF h
    <3>1. a[h] = IF a[m + 1] = {} THEN {} ELSE a[m + 1] \ dv[h]
      BY <1>4, <2>1
    <3> QED
      BY <3>1
  <2>3. a[m + 1] = {e \in dv[1] : \A i \in 2 .. m + 1 : e \notin dv[i]}
    BY <1>6, <2>1
  <2>4. \A i : i \in 2 .. h <=> i \in 2 .. m + 1 \/ i = h
    OBVIOUS
  <2> HIDE DEF h
  <2>5. \A e : e \in a[h] <=> e \in dv[1] /\ \A i \in 2 .. h : e \notin dv[i]
    BY <2>2, <2>3, <2>4
  <2>6. a[h] = {e \in dv[1] : \A i \in 2 .. h : e \notin dv[i]}
    BY <2>5
  <2> QED
    BY <2>6 DEF h
<1> HIDE DEF T
<1>7. n - 1 \in T
  <2>1. Nat \subseteq T
    BY <1>5, <1>6, NatRange
  <2> QED
    BY <1>3, <2>1
<1>8. n - 1 < n /\ (n - 1) + 1 = n /\ 2 .. n = (1 .. n) \ {1}
  BY <1>3
<1> QED
  BY <1>2, <1>3, <1>7, <1>8 DEF T

LEMMA SetsAreRightIs ==
  ASSUME NEW x, NEW y, NEW z, IsFiniteSet(x), IsFiniteSet(y), IsFiniteSet(z)
  PROVE  SetsAreRight(<<x, y, z>>)
<1> DEFINE dv == <<x, y, z>>
<1>1. DOMAIN dv = 1 .. 3 /\ dv[1] = x /\ dv[2] = y /\ dv[3] = z /\ dv \in Seq({x, y, z})
  OBVIOUS
<1>2. DOMAIN dv # {} /\ dv # <<>> /\ \A j \in DOMAIN dv : IsFiniteSet(dv[j])
  <2>1. \A j \in 1 .. 3 : j = 1 \/ j = 2 \/ j = 3
    OBVIOUS
  <2>2. dv # <<>> /\ 1 \in 1 .. 3
    OBVIOUS
  <2> HIDE DEF dv
  <2>3. ASSUME NEW j \in 1 .. 3
        PROVE  IsFiniteSet(dv[j])
    <3>1. CASE j = 1
      BY <1>1, <3>1
    <3>2. CASE j = 2
      BY <1>1, <3>2
    <3>3. CASE j = 3
      BY <1>1, <3>3
    <3> QED
      BY <2>1, <3>1, <3>2, <3>3
  <2>4. DOMAIN dv # {}
    BY <1>1, <2>2
  <2> QED
    BY <1>1, <2>2, <2>3, <2>4
<1> HIDE DEF dv
<1>3. SetsAreRight(dv)
  BY <1>1, <1>2, SinterIs, SunionIs, SdiffIs DEF SetsAreRight
<1> QED
  BY <1>3 DEF dv

\* LRANGE, LTRIM, LINDEX, LREM, SINTER, SUNION and SDIFF, for lists and sets of any size
\* and any indexes.
THEOREM ValuesAreRightHolds == Spec => []ValuesAreRight
<1>1. Init => ValuesAreRight
  BY DEF Init, ValuesAreRight
<1>2. ValuesAreRight /\ [Next]_input => ValuesAreRight'
  <2> SUFFICES ASSUME ValuesAreRight, [Next]_input
               PROVE  ValuesAreRight'
    OBVIOUS
  <2>1. ASSUME NEW l \in Lists, NEW i \in Indexes, NEW j \in Indexes,
               Choose([kind |-> "list", list |-> l, i |-> i, j |-> j])
        PROVE  ValuesAreRight'
    <3>1. input'.kind = "list" /\ input'.list = l /\ input'.i = i /\ input'.j = j
      BY <2>1 DEF Choose
    <3>2. l \in Seq(Range(l)) /\ i \in Int /\ j \in Int
      BY ListsAssumption, IndexesAssumption
    <3>3. ListIsRight(l, i, j)
      BY <3>2, ListsAreRight
    <3> QED
      BY <3>1, <3>3 DEF ValuesAreRight
  <2>2. ASSUME NEW x \in Sets, NEW y \in Sets, NEW z \in Sets,
               Choose([kind |-> "sets", dv |-> <<x, y, z>>])
        PROVE  ValuesAreRight'
    <3>1. input'.kind = "sets" /\ input'.dv = <<x, y, z>>
      BY <2>2 DEF Choose
    <3>2. SetsAreRight(<<x, y, z>>)
      BY SetsAssumption, SetsAreRightIs
    <3> QED
      BY <3>1, <3>2 DEF ValuesAreRight
  <2>3. CASE input'.kind \notin {"list", "sets"}
    BY <2>3 DEF ValuesAreRight
  <2>4. CASE UNCHANGED input
    BY <2>4 DEF ValuesAreRight
  <2>5. CASE Next
    BY <2>1, <2>2, <2>3, <2>5 DEF Next, Choose
  <2> QED
    BY <2>4, <2>5
<1> QED
  BY <1>1, <1>2, PTL DEF Spec

-----------------------------------------------------------------------------
(* Lines and arguments.                                                    *)

LEMMA FlattenAppend ==
  ASSUME NEW T, NEW ss \in Seq(Seq(T)), NEW x \in Seq(T)
  PROVE  FlattenSeq(ss) \in Seq(T) /\ FlattenSeq(Append(ss, x)) = FlattenSeq(ss) \o x
<1> DEFINE n == Len(ss)
           more == Append(ss, x)
<1>1. PICK p : Joins(p, ss, n, Seq(T)) /\ FlattenSeq(ss) = p[n]
  BY FlattenJoins
<1>2. more \in Seq(Seq(T)) /\ Len(more) = n + 1 /\ n \in Nat
  BY AppendProperties
<1>3. (\A i \in 1 .. n : more[i] = ss[i]) /\ more[n + 1] = x
  BY AppendProperties
<1> HIDE DEF more
<1>4. PICK q : Joins(q, more, n + 1, Seq(T)) /\ FlattenSeq(more) = q[n + 1]
  BY <1>2, FlattenJoins
<1> HIDE DEF n
<1> DEFINE S == {i \in Nat : q[i] = p[i]}
<1>5. 0 \in S /\ \A i \in 1 .. n : i - 1 \in S => i \in S
  <2>1. 0 \in S
    BY <1>1, <1>4 DEF Joins
  <2>2. ASSUME NEW i \in 1 .. n, i - 1 \in S
        PROVE  i \in S
    <3>0. i \in 1 .. n + 1 /\ i \in Nat
      BY <1>2
    <3>1. q[i] = q[i - 1] \o more[i]
      BY <1>4, <3>0 DEF Joins
    <3>2. p[i] = p[i - 1] \o ss[i] /\ more[i] = ss[i]
      BY <1>1, <1>3 DEF Joins
    <3>3. q[i - 1] = p[i - 1]
      BY <2>2
    <3> QED
      BY <3>0, <3>1, <3>2, <3>3
  <2> QED
    BY <2>1, <2>2
<1> HIDE DEF S
<1>6. \A i \in 0 .. n : i \in S
  BY <1>2, <1>5, Climb
<1>7. q[n] = p[n] /\ p[n] \in Seq(T)
  BY <1>1, <1>2, <1>6 DEF S, Joins
<1>8. n + 1 \in 1 .. n + 1 /\ (n + 1) - 1 = n
  BY <1>2
<1>9. q[n + 1] = q[n] \o more[n + 1]
  BY <1>4, <1>8 DEF Joins
<1> QED
  BY <1>1, <1>3, <1>4, <1>7, <1>9 DEF more

Piece(ts, sep, i) == IF i = 1 THEN ts[i] ELSE sep \o ts[i]

\* A token more is joined to those there are.
Linked(ts, sep, t) == IF ts = <<>> THEN t ELSE sep \o t

LEMMA JoinedAppend ==
  ASSUME NEW T, NEW ts \in Seq(Seq(T)), NEW t \in Seq(T), NEW sep \in Seq(T)
  PROVE  /\ Joined(ts, sep) \in Seq(T)
         /\ Joined(Append(ts, t), sep)
              = Joined(ts, sep) \o Linked(ts, sep, t)
<1> DEFINE ps == [i \in 1 .. Len(ts) |-> Piece(ts, sep, i)]
           more == Append(ts, t)
           x == IF ts = <<>> THEN t ELSE sep \o t
           qs == [i \in 1 .. Len(more) |-> Piece(more, sep, i)]
<1>1. Len(ts) \in Nat /\ DOMAIN ts = 1 .. Len(ts) /\ \A i \in 1 .. Len(ts) : ts[i] \in Seq(T)
  BY ElementOfSeq
<1>2. \A u \in Seq(T) : sep \o u \in Seq(T)
  BY ConcatProperties
<1>3. ps \in Seq(Seq(T)) /\ Len(ps) = Len(ts)
  <2>1. \A i \in 1 .. Len(ts) : Piece(ts, sep, i) \in Seq(T)
    BY <1>1, <1>2 DEF Piece
  <2> QED
    BY <1>1, <2>1
<1>4. x \in Seq(T)
  BY <1>2
<1>5. /\ more \in Seq(Seq(T)) /\ Len(more) = Len(ts) + 1 /\ DOMAIN more = 1 .. Len(ts) + 1
      /\ \A i \in 1 .. Len(ts) : more[i] = ts[i]
      /\ more[Len(ts) + 1] = t
  BY AppendProperties
<1>6. Len(ts) + 1 = 1 <=> ts = <<>>
  BY <1>1, EmptySeq
<1>7. qs = Append(ps, x)
  <2>1. \A i \in 1 .. Len(ts) : Piece(more, sep, i) = Piece(ts, sep, i)
    BY <1>5 DEF Piece
  <2>2. Piece(more, sep, Len(ts) + 1) = x
    BY <1>5, <1>6 DEF Piece
  <2> HIDE DEF more, x
  <2>3. Len(qs) = Len(ts) + 1 /\ DOMAIN qs = 1 .. Len(ts) + 1
    BY <1>1, <1>5
  <2>4. /\ Append(ps, x) \in Seq(Seq(T)) /\ Len(Append(ps, x)) = Len(ts) + 1
        /\ \A i \in 1 .. Len(ts) : Append(ps, x)[i] = ps[i]
        /\ Append(ps, x)[Len(ts) + 1] = x
    <3> HIDE DEF ps
    <3> QED
      BY <1>3, <1>4, AppendProperties
  <2>5. \A i \in 1 .. Len(ts) + 1 : Piece(more, sep, i) = Append(ps, x)[i]
    BY <1>1, <2>1, <2>2, <2>4
  <2>6. Append(ps, x) = [i \in 1 .. Len(ts) + 1 |-> Append(ps, x)[i]]
    <3> DEFINE a == Append(ps, x)
    <3>1. a \in Seq(Seq(T)) /\ Len(a) = Len(ts) + 1
      BY <2>4
    <3> HIDE DEF a
    <3>2. a = [i \in 1 .. Len(a) |-> a[i]]
      BY <3>1
    <3> QED
      BY <3>1, <3>2 DEF a
  <2> DEFINE a == Append(ps, x)
  <2> HIDE DEF a
  <2>7. qs = a
    BY <1>5, <2>5, <2>6 DEF a
  <2> QED
    BY <2>7 DEF a
<1>8. Joined(ts, sep) = FlattenSeq(ps) /\ Joined(more, sep) = FlattenSeq(qs)
  <2>1. DOMAIN more = 1 .. Len(more) /\ DOMAIN ts = 1 .. Len(ts)
    BY <1>1, <1>5
  <2> HIDE DEF more
  <2> QED
    BY <2>1 DEF Joined, Piece
<1> HIDE DEF ps, qs, more, x
<1>9. FlattenSeq(ps) \in Seq(T) /\ FlattenSeq(Append(ps, x)) = FlattenSeq(ps) \o x
  BY <1>3, <1>4, FlattenAppend
<1> QED
  BY <1>7, <1>8, <1>9 DEF more, x, Linked

\* A piece of a string.
LEMMA PartIs ==
  ASSUME NEW T, NEW s \in Seq(T), NEW a \in 1 .. Len(s) + 1, NEW b \in a - 1 .. Len(s)
  PROVE  SubSeq(s, a, b) \in Seq(T) /\ Len(SubSeq(s, a, b)) = b - a + 1
<1>1. Len(s) \in Nat /\ a \in Int /\ b \in Int
  OBVIOUS
<1>2. \A i \in a .. b : s[i] \in T
  <2>1. \A i \in a .. b : i \in 1 .. Len(s)
    BY <1>1
  <2> QED
    BY <2>1, ElementOfSeq
<1>3. SubSeq(s, a, b) \in Seq(T) /\ Len(SubSeq(s, a, b)) = IF a <= b THEN b - a + 1 ELSE 0
  BY <1>1, <1>2, SubSeqProperties
<1>4. (IF a <= b THEN b - a + 1 ELSE 0) = b - a + 1
  BY <1>1
<1> QED
  BY <1>3, <1>4

\* A piece has no separator if none begins in it that would fit.
LEMMA PartFree ==
  ASSUME NEW T, NEW s \in Seq(T), NEW sep \in Seq(T), sep # <<>>,
         NEW a \in 1 .. Len(s) + 1, NEW b \in a - 1 .. Len(s),
         \A i \in a .. b - Len(sep) + 1 : ~Here(s, sep, i)
  PROVE  ~Occurs(sep, SubSeq(s, a, b))
<1> DEFINE t == SubSeq(s, a, b)
           k == Len(sep)
<1>1. Len(t) = b - a + 1 /\ t \in Seq(T) /\ Len(s) \in Nat /\ k \in Nat \ {0} /\ a \in Int /\ b \in Int
  BY PartIs, EmptySeq
<1> SUFFICES ASSUME NEW i \in 1 .. Len(t) - k + 1, SubSeq(t, i, i + k - 1) = sep
             PROVE  FALSE
  BY DEF Occurs
<1>2. /\ a \in 1 .. Len(s) /\ b \in 1 .. Len(s)
      /\ i \in 1 .. b - a + 1 /\ i + k - 1 \in 1 .. b - a + 1
      /\ a + i - 1 \in a .. b - k + 1
  BY <1>1
<1>3. SubSeq(t, i, i + k - 1) = SubSeq(s, a + i - 1, a + (i + k - 1) - 1)
  <2> HIDE DEF k
  <2> QED
    BY <1>2, SubSeqOfSubSeq
<1>4. a + (i + k - 1) - 1 = (a + i - 1) + k - 1
  BY <1>1, <1>2
<1>5. Here(s, sep, a + i - 1)
  BY <1>3, <1>4 DEF Here
<1> QED
  BY <1>2, <1>5

\* What sdssplitlen has found when it has looked at j positions.
Splits(w, s, sep, j, T) ==
  /\ w.tokens \in Seq(Seq(T)) /\ w.start \in 1 .. Len(s) + 1
  /\ Joined(Append(w.tokens, SubSeq(s, w.start, Len(s))), sep) = s
  /\ \A i \in 1 .. Len(w.tokens) : ~Occurs(sep, w.tokens[i])
  /\ \A i \in w.start .. j : ~Here(s, sep, i)

LEMMA JoinedSplit ==
  ASSUME NEW T, NEW ts \in Seq(Seq(T)), NEW a \in Seq(T), NEW b \in Seq(T), NEW sep \in Seq(T)
  PROVE  Joined(Append(Append(ts, a), b), sep) = Joined(Append(ts, a \o (sep \o b)), sep)
<1>0. \A u, v \in Seq(T) : u \o v \in Seq(T)
  BY ConcatProperties
<1> DEFINE V == Seq(T)
<1>8. \A u, v, z \in V : (u \o v) \o z = u \o (v \o z)
  BY ConcatAssociative, SMTT(60)
<1> DEFINE J == Joined(ts, sep)
           c == sep \o b
           d == a \o c
           x == Linked(ts, sep, a)
           y == Linked(ts, sep, d)
<1>1. J \in Seq(T) /\ c \in Seq(T) /\ d \in Seq(T) /\ x \in Seq(T)
  BY <1>0, JoinedAppend DEF Linked
<1>2. Append(ts, a) \in Seq(Seq(T)) /\ Append(ts, a) # <<>>
  BY AppendProperties, SMTT(60)
<1>3. Joined(Append(Append(ts, a), b), sep) = Joined(Append(ts, a), sep) \o c
  <2> DEFINE us == Append(ts, a)
  <2>1. us \in Seq(Seq(T)) /\ us # <<>>
    BY <1>2
  <2> HIDE DEF us
  <2>2. Joined(Append(us, b), sep) = Joined(us, sep) \o Linked(us, sep, b)
    BY <2>1, JoinedAppend
  <2> QED
    BY <2>1, <2>2 DEF us, Linked
<1>4. Joined(Append(ts, a), sep) = J \o x
  BY JoinedAppend
<1>5. Joined(Append(ts, d), sep) = J \o y
  <2> HIDE DEF d
  <2> QED
    BY <1>1, JoinedAppend
<1>6. y = x \o c
  <2> HIDE DEF c
  <2>0. sep \in V /\ a \in V /\ c \in V
    BY <1>1
  <2> HIDE DEF V
  <2>1. (sep \o a) \o c = sep \o (a \o c)
    BY <1>8, <2>0
  <2> QED
    BY <2>1 DEF Linked
<1>9. J \in V /\ x \in V /\ c \in V
  BY <1>1
<1> HIDE DEF c, d, x, y, J, V
<1>7. (J \o x) \o c = J \o (x \o c)
  BY <1>8, <1>9
<1> QED
  BY <1>3, <1>4, <1>5, <1>6, <1>7 DEF c, d

LEMMA SearchedSplits ==
  ASSUME NEW T, NEW s \in Seq(T), NEW sep \in Seq(T), sep # <<>>,
         NEW j \in 1 .. Len(s) - Len(sep) + 1, NEW w, Splits(w, s, sep, j - 1, T)
  PROVE  Splits(Searched(w, s, sep, j), s, sep, j, T)
<1>1. Len(s) \in Nat /\ Len(sep) \in Nat \ {0} /\ j \in Nat /\ w.start \in Nat
  BY EmptySeq DEF Splits
<1>2. CASE j < w.start
  BY <1>1, <1>2 DEF Splits, Searched
<1>3. CASE ~(j < w.start) /\ ~Here(s, sep, j)
  <2>1. \A i \in w.start .. j : i \in w.start .. j - 1 \/ i = j
    BY <1>1
  <2> QED
    BY <1>3, <2>1 DEF Splits, Searched
<1>4. CASE ~(j < w.start) /\ Here(s, sep, j)
  <2> DEFINE ts == w.tokens
             a == SubSeq(s, w.start, j - 1)
             k == j + Len(sep)
             b == SubSeq(s, k, Len(s))
             more == Append(ts, a)
  <2>0. Searched(w, s, sep, j) = [tokens |-> more, start |-> k]
    BY <1>4 DEF Searched
  <2>1. /\ w.start \in 1 .. Len(s) + 1 /\ j - 1 \in w.start - 1 .. Len(s)
        /\ k \in 1 .. Len(s) + 1 /\ Len(s) \in k - 1 .. Len(s)
        /\ w.start <= j /\ k - 1 \in j - 1 .. Len(s) /\ k > j
    BY <1>1, <1>4 DEF Splits
  <2>2. a \in Seq(T) /\ b \in Seq(T) /\ ts \in Seq(Seq(T))
    BY <2>1, PartIs DEF Splits
  <2>3. SubSeq(s, j, k - 1) = sep
    BY <1>1, <1>4 DEF Here
  <2>4. SubSeq(s, w.start, Len(s)) = a \o (sep \o b)
    <3>1. SubSeq(s, w.start, Len(s)) = a \o SubSeq(s, (j - 1) + 1, Len(s))
      <4>1. Len(s) \in j - 1 .. Len(s)
        BY <1>1, <2>1
      <4> QED
        BY <2>1, <4>1, ConcatAdjacentSubSeq
    <3>2. SubSeq(s, j, Len(s)) = SubSeq(s, j, k - 1) \o SubSeq(s, (k - 1) + 1, Len(s))
      <4>1. j \in 1 .. Len(s) + 1 /\ Len(s) \in k - 1 .. Len(s)
        BY <1>1, <2>1
      <4> QED
        BY <2>1, <4>1, ConcatAdjacentSubSeq
    <3>3. (j - 1) + 1 = j /\ (k - 1) + 1 = k
      BY <1>1
    <3> QED
      BY <2>3, <3>1, <3>2, <3>3
  <2> HIDE DEF a, b
  <2>5. Joined(Append(more, b), sep) = s
    BY <2>2, <2>4, JoinedSplit DEF Splits
  <2>6. more \in Seq(Seq(T)) /\ Len(more) = Len(ts) + 1
        /\ (\A i \in 1 .. Len(ts) : more[i] = ts[i]) /\ more[Len(ts) + 1] = a
    BY <2>2, AppendProperties
  <2>7. ~Occurs(sep, a)
    <3>1. \A i \in w.start .. (j - 1) - Len(sep) + 1 : ~Here(s, sep, i)
      <4>1. \A i \in w.start .. (j - 1) - Len(sep) + 1 : i \in w.start .. j - 1
        BY <1>1
      <4> QED
        BY <4>1 DEF Splits
    <3> QED
      BY <2>1, <3>1, PartFree DEF a
  <2>8. \A i \in 1 .. Len(more) : ~Occurs(sep, more[i])
    <3>1. Len(ts) \in Nat
      BY <2>2
    <3>2. \A i \in 1 .. Len(ts) + 1 : i \in 1 .. Len(ts) \/ i = Len(ts) + 1
      BY <3>1
    <3> QED
      BY <2>6, <2>7, <3>2 DEF Splits
  <2>9. \A i \in k .. j : ~Here(s, sep, i)
    BY <1>1
  <2> HIDE DEF more, ts, k
  <2>10. Splits([tokens |-> more, start |-> k], s, sep, j, T)
    BY <2>1, <2>5, <2>6, <2>8, <2>9 DEF Splits, b
  <2> QED
    BY <2>0, <2>10
<1> QED
  BY <1>2, <1>3, <1>4

CutStates(s, T) == [tokens : Seq(Seq(T)), start : 1 .. Len(s) + 1]

\* A line is its tokens, none of which has a separator in it.
LEMMA SplitIs ==
  ASSUME NEW T, NEW s \in Seq(T), NEW sep \in Seq(T), sep # <<>>
  PROVE  /\ Joined(Split(s, sep), sep) = s
         /\ \A i \in DOMAIN Split(s, sep) : ~Occurs(sep, Split(s, sep)[i])
<1> DEFINE V == CutStates(s, T)
           n == IF Len(s) < Len(sep) THEN 0 ELSE Len(s) - Len(sep) + 1
           base == [tokens |-> <<>>, start |-> 1]
           Step == [j \in 1 .. n |-> [w \in V |-> Searched(w, s, sep, j)]]
           Fun(f) == f = [j \in 0 .. n |-> IF j = 0 THEN base ELSE Searched(f[j - 1], s, sep, j)]
           after == CHOOSE f : Fun(f)
           ends == after[n]
           last == SubSeq(s, ends.start, Len(s))
<1>1. Len(s) \in Nat /\ Len(sep) \in Nat \ {0}
  BY EmptySeq
<1>2. n \in Nat /\ (n # 0 => n = Len(s) - Len(sep) + 1) /\ n >= Len(s) - Len(sep) + 1 /\ n <= Len(s)
  BY <1>1
<1>3. base \in V
  BY <1>1, EmptySeq DEF CutStates
<1>4. \A j \in 1 .. n : \A w \in V : Searched(w, s, sep, j) \in V
  <2> SUFFICES ASSUME NEW j \in 1 .. n, NEW w \in V, ~(j < w.start)
               PROVE  [tokens |-> Append(w.tokens, SubSeq(s, w.start, j - 1)),
                       start |-> j + Len(sep)] \in V
    BY DEF Searched
  <2>1. /\ w.tokens \in Seq(Seq(T)) /\ w.start \in 1 .. Len(s) + 1
        /\ j - 1 \in w.start - 1 .. Len(s) /\ j + Len(sep) \in 1 .. Len(s) + 1
    BY <1>1, <1>2 DEF CutStates
  <2>2. SubSeq(s, w.start, j - 1) \in Seq(T)
    BY <2>1, PartIs
  <2>3. Append(w.tokens, SubSeq(s, w.start, j - 1)) \in Seq(Seq(T))
    BY <2>1, <2>2, AppendProperties
  <2> QED
    BY <2>1, <2>3 DEF CutStates
<1> HIDE DEF V, n
<1>5. Step \in [1 .. n -> [V -> V]] /\ \A j \in 1 .. n : \A w \in V : Step[j][w] = Searched(w, s, sep, j)
  BY <1>4
<1> HIDE DEF Step, base
<1>6. Fun(after)
  <2>1. PICK f : Recurses(f, n, V, base, Step)
    BY <1>2, <1>3, <1>5, Recursion
  <2>2. ASSUME NEW j \in 0 .. n
        PROVE  f[j] = IF j = 0 THEN base ELSE Searched(f[j - 1], s, sep, j)
    <3>1. CASE j = 0
      BY <2>1, <3>1 DEF Recurses
    <3>2. CASE j # 0
      <4>1. j \in 1 .. n /\ j - 1 \in 0 .. n
        BY <1>2, <3>2
      <4> QED
        BY <1>5, <2>1, <3>2, <4>1 DEF Recurses
    <3> QED
      BY <3>1, <3>2
  <2>3. Fun(f)
    <3>1. f = [j \in 0 .. n |-> f[j]]
      BY <2>1 DEF Recurses
    <3> QED
      BY <2>2, <3>1
  <2> HIDE DEF Fun
  <2> QED
    BY <2>3
<1>7. Split(s, sep) = Append(ends.tokens, last)
  BY DEF Split, n, base
<1> HIDE DEF after
<1>8. after[0] = base /\ \A j \in 1 .. n : after[j] = Searched(after[j - 1], s, sep, j)
  <2>1. 0 \in 0 .. n /\ \A j \in 1 .. n : j \in 0 .. n /\ j # 0
    BY <1>2
  <2> QED
    BY <1>6, <2>1
<1> DEFINE S == {j \in Nat : Splits(after[j], s, sep, j, T)}
<1>9. 0 \in S
  <2>1. SubSeq(s, 1, Len(s)) = s
    BY SubSeqFull
  <2>2. <<>> \in Seq(Seq(T)) /\ Len(<<>>) = 0
    BY EmptySeq
  <2>3. Joined(Append(<<>>, s), sep) = Joined(<<>>, sep) \o s /\ Joined(<<>>, sep) = <<>>
    <3>1. Joined(Append(<<>>, s), sep) = Joined(<<>>, sep) \o Linked(<<>>, sep, s)
      BY <2>2, JoinedAppend
    <3>2. Joined(<<>>, sep) = FlattenSeq(<<>>)
      BY DEF Joined
    <3>3. FlattenSeq(<<>>) = <<>>
      BY DEF FlattenSeq
    <3> QED
      BY <3>1, <3>2, <3>3 DEF Linked
  <2>4. <<>> \o s = s
    BY ConcatEmptySeq
  <2>5. base.tokens = <<>> /\ base.start = 1
    BY DEF base
  <2> DEFINE none == <<>>
  <2>6. none \in Seq(Seq(T)) /\ Len(none) = 0 /\ Joined(Append(none, s), sep) = s
    BY <2>2, <2>3, <2>4
  <2>7. 1 .. 0 = {} /\ 1 \in 1 .. Len(s) + 1
    BY <1>1
  <2> HIDE DEF none
  <2>8. Splits(base, s, sep, 0, T)
    BY <2>1, <2>5, <2>6, <2>7 DEF Splits, none
  <2> QED
    BY <1>8, <2>8
<1>10. ASSUME NEW j \in 1 .. n, j - 1 \in S
       PROVE  j \in S
  <2>1. j \in 1 .. Len(s) - Len(sep) + 1 /\ j \in Nat
    BY <1>1, <1>2
  <2>2. Splits(after[j - 1], s, sep, j - 1, T)
    BY <1>10
  <2>3. Splits(Searched(after[j - 1], s, sep, j), s, sep, j, T)
    BY <2>1, <2>2, SearchedSplits
  <2> QED
    BY <1>8, <2>1, <2>3
<1> HIDE DEF S
<1>11. \A j \in 0 .. n : j \in S
  BY <1>2, <1>9, <1>10, Climb
<1>12. Splits(ends, s, sep, n, T)
  BY <1>2, <1>11 DEF S
<1> HIDE DEF ends
<1>13. last \in Seq(T) /\ ~Occurs(sep, last)
  <2>1. Len(s) \in ends.start - 1 .. Len(s) /\ ends.start \in 1 .. Len(s) + 1
    BY <1>1, <1>12 DEF Splits
  <2>2. \A i \in ends.start .. Len(s) - Len(sep) + 1 : ~Here(s, sep, i)
    <3>1. \A i \in ends.start .. Len(s) - Len(sep) + 1 : i \in ends.start .. n
      BY <1>1, <1>2, <2>1
    <3> QED
      BY <1>12, <3>1 DEF Splits
  <2> QED
    BY <2>1, <2>2, PartIs, PartFree
<1>14. Joined(Append(ends.tokens, last), sep) = s
  BY <1>12 DEF Splits
<1> HIDE DEF last
<1>15. \A i \in DOMAIN Append(ends.tokens, last) : ~Occurs(sep, Append(ends.tokens, last)[i])
  <2> DEFINE ts == ends.tokens
  <2>1. ts \in Seq(Seq(T)) /\ \A i \in 1 .. Len(ts) : ~Occurs(sep, ts[i])
    BY <1>12 DEF Splits
  <2> HIDE DEF ts
  <2>2. /\ Append(ts, last) \in Seq(Seq(T)) /\ Len(Append(ts, last)) = Len(ts) + 1
        /\ \A i \in 1 .. Len(ts) : Append(ts, last)[i] = ts[i]
        /\ Append(ts, last)[Len(ts) + 1] = last
    BY <1>13, <2>1, AppendProperties
  <2>3. \A i \in DOMAIN Append(ts, last) : i \in 1 .. Len(ts) \/ i = Len(ts) + 1
    BY <2>1, <2>2
  <2>4. \A i \in DOMAIN Append(ts, last) : ~Occurs(sep, Append(ts, last)[i])
    BY <1>13, <2>1, <2>2, <2>3
  <2> QED
    BY <2>4 DEF ts
<1> QED
  BY <1>7, <1>14, <1>15

\* The first and the last of some positions.
LEMMA EndsExist ==
  ASSUME NEW n \in Nat, NEW K \in SUBSET (1 .. n), K # {}
  PROVE  (\E i \in K : \A j \in K : i <= j) /\ (\E i \in K : \A j \in K : j <= i)
<1>0. K \subseteq Nat /\ \A i \in K : n - i \in Nat
  OBVIOUS
<1>1. \E i \in K : \A j \in K : i <= j
  BY <1>0, NatSmallest
<1> DEFINE M == {n - i : i \in K}
<1>2. M \subseteq Nat /\ M # {}
  BY <1>0
<1>3. PICK m \in M : \A l \in M : m <= l
  <2> HIDE DEF M
  <2> QED
    BY <1>2, NatSmallest
<1>4. PICK i \in K : m = n - i
  BY <1>3
<1>5. \A j \in K : n - i <= n - j
  BY <1>3, <1>4
<1>6. \A j \in K : j <= i
  BY <1>5
<1> QED
  BY <1>1, <1>6

IsTrimmed(t, s, cset) ==
  /\ t # <<>> => cset \cap {t[1], Last(t)} = {}
  /\ \E i, j \in 0 .. Len(s) :
       /\ Range(SubSeq(s, 1, i) \o SubSeq(s, j + 1, Len(s))) \subseteq cset
       /\ t = SubSeq(s, i + 1, j)

\* What sdstrim takes off each end are characters of the set, and it takes all.
LEMMA TrimmedIs ==
  ASSUME NEW T, NEW s \in Seq(T), NEW cset
  PROVE  IsTrimmed(Trimmed(s, cset), s, cset)
<1> DEFINE kept == {i \in DOMAIN s : s[i] \notin cset}
           n == Len(s)
           Off(i, j) == SubSeq(s, 1, i) \o SubSeq(s, j + 1, n)
<1>1. n \in Nat /\ DOMAIN s = 1 .. n
  OBVIOUS
<1>2. ASSUME NEW i \in 0 .. n, NEW j \in 0 .. n, \A k \in 1 .. i : s[k] \in cset,
             \A k \in j + 1 .. n : s[k] \in cset
      PROVE  Range(Off(i, j)) \subseteq cset
  <2> DEFINE u == SubSeq(s, 1, i)
             v == SubSeq(s, j + 1, n)
  <2>1. 1 \in Int /\ i \in Int /\ j + 1 \in Int /\ n \in Int
    BY <1>1
  <2>2. u \in Seq(cset)
    BY <1>2, <2>1, SubSeqProperties
  <2>3. v \in Seq(cset)
    BY <1>2, <2>1, SubSeqProperties
  <2> HIDE DEF u, v
  <2>4. u \o v \in Seq(cset)
    BY <2>2, <2>3, ConcatProperties
  <2>5. Range(u \o v) \in SUBSET cset
    BY <2>4, RangeOfSeq
  <2> QED
    BY <2>5 DEF u, v
<1>3. CASE kept = {}
  <2>1. Trimmed(s, cset) = <<>>
    BY <1>3 DEF Trimmed
  <2>2. SubSeq(s, n + 1, n) = <<>>
    BY <1>1, SubSeqEmpty
  <2>3. n \in 0 .. n /\ (\A k \in 1 .. n : s[k] \in cset) /\ n + 1 .. n = {}
    BY <1>1, <1>3
  <2>4. Range(Off(n, n)) \subseteq cset
    BY <1>2, <2>3
  <2> QED
    BY <2>1, <2>2, <2>3, <2>4 DEF IsTrimmed
<1>4. CASE kept # {}
  <2> DEFINE sp == CHOOSE i \in kept : \A j \in kept : i <= j
             ep == CHOOSE i \in kept : \A j \in kept : j <= i
             t == SubSeq(s, sp, ep)
  <2>1. Trimmed(s, cset) = t
    BY <1>4 DEF Trimmed
  <2>2. sp \in kept /\ (\A j \in kept : sp <= j) /\ ep \in kept /\ \A j \in kept : j <= ep
    <3>1. kept \in SUBSET (1 .. n)
      BY <1>1
    <3> HIDE DEF kept, n
    <3>2. (\E i \in kept : \A j \in kept : i <= j) /\ (\E i \in kept : \A j \in kept : j <= i)
      BY <1>1, <1>4, <3>1, EndsExist
    <3> QED
      BY <3>2
  <2> HIDE DEF sp, ep
  <2>3. sp \in 1 .. n /\ ep \in 1 .. n /\ sp <= ep
    BY <1>1, <2>2
  <2>4. s[sp] \notin cset /\ s[ep] \notin cset
    BY <2>2
  <2>5. (\A k \in 1 .. sp - 1 : s[k] \in cset) /\ (\A k \in ep + 1 .. n : s[k] \in cset)
    <3>1. \A k \in 1 .. n : s[k] \in cset \/ (sp <= k /\ k <= ep)
      BY <1>1, <2>2
    <3> HIDE DEF kept
    <3> QED
      BY <1>1, <2>3, <3>1
  <2> HIDE DEF kept
  <2>6. Len(t) = ep - sp + 1 /\ t \in Seq(T) /\ t[1] = s[sp] /\ t[Len(t)] = s[ep]
    <3>0. sp \in Int /\ ep \in Int
      BY <2>3
    <3>1. \A i \in sp .. ep : s[i] \in T
      BY <1>1, <2>3, ElementOfSeq
    <3>2. /\ t \in Seq(T) /\ Len(t) = IF sp <= ep THEN ep - sp + 1 ELSE 0
          /\ \A i \in 1 .. ep - sp + 1 : t[i] = s[sp + i - 1]
      BY <3>0, <3>1, SubSeqProperties
    <3> HIDE DEF t
    <3>3. Len(t) = ep - sp + 1 /\ 1 \in 1 .. ep - sp + 1 /\ ep - sp + 1 \in 1 .. ep - sp + 1
      BY <2>3, <3>0, <3>2
    <3>4. sp + 1 - 1 = sp /\ sp + (ep - sp + 1) - 1 = ep
      BY <3>0
    <3> QED
      BY <3>2, <3>3, <3>4
  <2>7. cset \cap {t[1], Last(t)} = {}
    <3> HIDE DEF t
    <3> QED
      BY <2>4, <2>6 DEF Last
  <2>8. sp - 1 \in 0 .. n /\ ep \in 0 .. n /\ (sp - 1) + 1 = sp
    BY <1>1, <2>3
  <2>9. Range(Off(sp - 1, ep)) \subseteq cset
    BY <1>2, <2>5, <2>8
  <2> QED
    BY <2>1, <2>7, <2>8, <2>9 DEF IsTrimmed
<1> QED
  BY <1>3, <1>4

LEMMA Range0Is ==
  ASSUME NEW T, NEW s \in Seq(T), NEW n \in 0 .. Len(s)
  PROVE  Range0(s, n, -1) = SubSeq(s, n + 1, Len(s))
<1>1. Len(s) \in Nat /\ n \in Int
  OBVIOUS
<1>2. CASE n = Len(s)
  <2>1. SubSeq(s, n + 1, Len(s)) = <<>>
    BY <1>1, <1>2, SubSeqEmpty
  <2>2. Range0(s, n, -1) = <<>>
    BY <1>1, <1>2 DEF Range0
  <2> QED
    BY <2>1, <2>2
<1>3. CASE n # Len(s)
  <2>1. Len(s) # 0 /\ ~(n > Len(s) - 1) /\ n >= 0 /\ ~(-1 >= 0) /\ ~(Len(s) + (-1) < 0)
        /\ ~(n >= Len(s)) /\ ~(Len(s) - 1 >= Len(s)) /\ Len(s) + (-1) = Len(s) - 1
        /\ (Len(s) - 1) + 1 = Len(s)
    BY <1>1, <1>3
  <2> QED
    BY <2>1 DEF Range0
<1> QED
  BY <1>2, <1>3

LEMMA CatIs ==
  ASSUME NEW len \in Nat, NEW n \in Nat
  PROVE  Cat([len |-> len, free |-> 1], n).len = len + n /\ Cat([len |-> len, free |-> 1], n).free >= 0
BY DEF Cat

LEMMA LineIsRightIs ==
  ASSUME NEW T, NEW s \in Seq(T), NEW U, NEW sep \in Seq(U), sep # <<>>
  PROVE  LineIsRight(s, sep)
<1>1. s \in Seq(T \cup U) /\ sep \in Seq(T \cup U) /\ Len(s) \in Nat
  BY SeqMonotonic
<1>2. /\ Joined(Split(s, sep), sep) = s
      /\ \A i \in DOMAIN Split(s, sep) : ~Occurs(sep, Split(s, sep)[i])
  <2> DEFINE W == T \cup U
  <2>1. s \in Seq(W) /\ sep \in Seq(W)
    BY <1>1
  <2> HIDE DEF W
  <2> QED
    BY <2>1, SplitIs
<1> DEFINE sh(n) == Cat([len |-> Len(s), free |-> 1], n)
<1>3. ASSUME NEW n \in 0 .. 3
      PROVE  sh(n).len = Len(s) + n /\ sh(n).free >= 0
  <2>1. n \in Nat
    OBVIOUS
  <2> QED
    BY <1>1, <2>1, CatIs
<1>4. \A n \in 0 .. Len(s) : Range0(s, n, -1) = SubSeq(s, n + 1, Len(s))
  BY Range0Is
<1> DEFINE cset == Range(sep)
<1>5. IsTrimmed(Trimmed(s, cset), s, cset)
  <2> HIDE DEF cset
  <2> QED
    BY TrimmedIs
<1> QED
  BY <1>2, <1>3, <1>4, <1>5 DEF LineIsRight, IsTrimmed

\* sdssplitlen, sdstrim, sdsrange and sdscatlen, for strings of any length.
THEOREM LinesAreRightHolds == Spec => []LinesAreRight
<1>1. Init => LinesAreRight
  BY DEF Init, LinesAreRight
<1>2. LinesAreRight /\ [Next]_input => LinesAreRight'
  <2> SUFFICES ASSUME LinesAreRight, [Next]_input
               PROVE  LinesAreRight'
    OBVIOUS
  <2>1. ASSUME NEW s \in Lines, NEW sep \in Separators,
               Choose([kind |-> "line", s |-> s, sep |-> sep])
        PROVE  LinesAreRight'
    <3>1. input'.s = s /\ input'.sep = sep
      BY <2>1 DEF Choose
    <3>2. LineIsRight(s, sep)
      BY LinesAssumption, LineIsRightIs
    <3> QED
      BY <3>1, <3>2 DEF LinesAreRight
  <2>2. CASE input'.kind # "line"
    BY <2>2 DEF LinesAreRight
  <2>3. CASE UNCHANGED input
    BY <2>3 DEF LinesAreRight
  <2>4. CASE Next
    BY <2>1, <2>2, <2>4 DEF Next, Choose
  <2> QED
    BY <2>3, <2>4
<1> QED
  BY <1>1, <1>2, PTL DEF Spec

-----------------------------------------------------------------------------
(* Patterns of keys.                                                       *)

\* A function on positions whose value at one of them is made of that at a later one.
Descends(f, n, V, Leaf, Value, Later, Step) ==
  /\ f \in [1 .. n -> V]
  /\ \A i \in 1 .. n : f[i] = IF i \in Leaf THEN Value[i] ELSE Step[i][f[Later[i]]]

LEMMA Descent ==
  ASSUME NEW n \in Nat, NEW V, NEW Leaf, NEW Value, NEW Later, NEW Step,
         \A i \in (1 .. n) \cap Leaf : Value[i] \in V,
         \A i \in (1 .. n) \ Leaf : Later[i] \in i + 1 .. n /\ Step[i] \in [V -> V]
  PROVE  \E f : Descends(f, n, V, Leaf, Value, Later, Step)
<1> DEFINE Rule(f, i) == f[i] = IF i \in Leaf THEN Value[i] ELSE Step[i][f[Later[i]]]
           Fun(f, m) == f \in [n - m + 1 .. n -> V] /\ \A i \in n - m + 1 .. n : Rule(f, i)
           Fine == {m \in Nat : m <= n => \E f : Fun(f, m)}
<1>1. 0 \in Fine
  <2> DEFINE e == [i \in n - 0 + 1 .. n |-> Value[i]]
  <2>1. n - 0 + 1 .. n = {}
    OBVIOUS
  <2>2. Fun(e, 0)
    BY <2>1
  <2> HIDE DEF e, Fun
  <2> QED
    BY <2>2
<1>2. ASSUME NEW m \in Nat, m \in Fine
      PROVE  m + 1 \in Fine
  <2> SUFFICES ASSUME m + 1 <= n
               PROVE  \E f : Fun(f, m + 1)
    OBVIOUS
  <2>1. PICK f : Fun(f, m)
    <3>1. m <= n
      OBVIOUS
    <3> HIDE DEF Fun
    <3> QED
      BY <1>2, <3>1
  <2> DEFINE a == n - m
             x == IF a \in Leaf THEN Value[a] ELSE Step[a][f[Later[a]]]
             g == [i \in a .. n |-> IF i = a THEN x ELSE f[i]]
  <2>2. a \in 1 .. n /\ n - (m + 1) + 1 = a /\ n - m + 1 = a + 1 /\ a \in a .. n
    OBVIOUS
  <2>3. \A i \in a .. n : i # a => i \in a + 1 .. n /\ i \in 1 .. n
    BY <2>2
  <2>4. f \in [a + 1 .. n -> V] /\ \A i \in a + 1 .. n : Rule(f, i)
    BY <2>1, <2>2
  <2>5. x \in V
    <3>1. CASE a \in Leaf
      BY <2>2, <3>1
    <3>2. CASE a \notin Leaf
      <4>1. Later[a] \in a + 1 .. n /\ Step[a] \in [V -> V]
        BY <2>2, <3>2
      <4>2. f[Later[a]] \in V
        BY <2>4, <4>1
      <4> QED
        BY <3>2, <4>1, <4>2
    <3> QED
      BY <3>1, <3>2
  <2>6. g \in [a .. n -> V]
    <3> HIDE DEF x, a
    <3> QED
      BY <2>3, <2>4, <2>5
  <2>7. \A i \in (a .. n) \ Leaf : g[Later[i]] = f[Later[i]]
    <3> SUFFICES ASSUME NEW i \in (a .. n) \ Leaf
                 PROVE  g[Later[i]] = f[Later[i]]
      OBVIOUS
    <3>1. i \in (1 .. n) \ Leaf
      BY <2>2
    <3>2. Later[i] \in i + 1 .. n
      BY <3>1
    <3> DEFINE l == Later[i]
    <3>3. l \in a .. n /\ l # a
      BY <2>2, <3>2
    <3> HIDE DEF l, x, a
    <3>4. g[l] = f[l]
      BY <3>3
    <3> QED
      BY <3>4 DEF l
  <2>8. ASSUME NEW i \in a .. n
        PROVE  Rule(g, i)
    <3>1. g[i] = IF i = a THEN x ELSE f[i]
      OBVIOUS
    <3>2. i \notin Leaf => g[Later[i]] = f[Later[i]]
      BY <2>7
    <3>3. i # a => f[i] = IF i \in Leaf THEN Value[i] ELSE Step[i][f[Later[i]]]
      BY <2>3, <2>4
    <3> HIDE DEF g, a
    <3> QED
      BY <3>1, <3>2, <3>3
  <2>9. Fun(g, m + 1)
    <3> HIDE DEF g, Rule
    <3> QED
      BY <2>2, <2>6, <2>8
  <2> HIDE DEF Fun, g
  <2> QED
    BY <2>9
<1> HIDE DEF Fine
<1>3. n \in Fine
  BY <1>1, <1>2, NatRange
<1>4. PICK f : Fun(f, n)
  <2> HIDE DEF Fun
  <2> QED
    BY <1>3 DEF Fine
<1>5. n - n + 1 = 1
  OBVIOUS
<1>6. Descends(f, n, V, Leaf, Value, Later, Step)
  BY <1>4, <1>5 DEF Descends
<1> QED
  BY <1>6

\* What holds of a position if it holds of all later ones holds of all.
LEMMA FromTheEnd ==
  ASSUME NEW n \in Nat, NEW S, \A i \in 1 .. n : (\A j \in i + 1 .. n : j \in S) => i \in S
  PROVE  \A i \in 1 .. n : i \in S
<1> DEFINE T == {m \in Nat : m <= n => \A i \in n - m + 1 .. n : i \in S}
<1>1. 0 \in T
  <2>1. n - 0 + 1 .. n = {}
    OBVIOUS
  <2> QED
    BY <2>1
<1>2. ASSUME NEW m \in Nat, m \in T
      PROVE  m + 1 \in T
  <2> SUFFICES ASSUME m + 1 <= n
               PROVE  \A i \in n - (m + 1) + 1 .. n : i \in S
    OBVIOUS
  <2>1. \A i \in n - m + 1 .. n : i \in S
    BY <1>2
  <2>2. n - m \in 1 .. n /\ (n - m) + 1 = n - m + 1
    OBVIOUS
  <2>3. n - m \in S
    BY <2>1, <2>2
  <2>4. \A i \in n - (m + 1) + 1 .. n : i = n - m \/ i \in n - m + 1 .. n
    OBVIOUS
  <2> QED
    BY <2>1, <2>3, <2>4
<1> HIDE DEF T
<1>3. n \in T
  BY <1>1, <1>2, NatRange
<1>4. n - n + 1 = 1 /\ n <= n
  OBVIOUS
<1> QED
  BY <1>3, <1>4 DEF T

OrLater(f, hit, next) == [match |-> hit \/ f[next].match, next |-> f[next].next]

\* What the loop over a class makes of position i, given what it makes of later ones.
ClassRule(f, p, c, i) ==
  IF At(p, i) = Backslash THEN OrLater(f, At(p, i + 1) = c, i + 2)
  ELSE IF i > Len(p) \/ At(p, i) = Close
  THEN [match |-> FALSE, next |-> IF i > Len(p) THEN Len(p) + 1 ELSE i + 1]
  ELSE IF At(p, i + 1) = Dash /\ i + 2 <= Len(p)
  THEN OrLater(f, Between(c, p[i], p[i + 2]), i + 3)
  ELSE OrLater(f, p[i] = c, i + 1)

IsClassLoop(f, p, c) ==
  /\ \A k : Class(p, k, c) = f[k]
  /\ \A i \in 1 .. Len(p) + 2 :
       /\ f[i] = ClassRule(f, p, c, i)
       /\ f[i].match \in BOOLEAN
       /\ f[i].next \in 1 .. Len(p) + 1
       /\ f[i].next >= i \/ f[i].next = Len(p) + 1

LEMMA ClassIs ==
  ASSUME NEW p \in Seq(Int), NEW c
  PROVE  \E f : IsClassLoop(f, p, c)
<1> DEFINE n == Len(p) + 2
           V == [match : BOOLEAN, next : Int]
           Fun(f) == f = [i \in 1 .. n |-> ClassRule(f, p, c, i)]
           f0 == CHOOSE f : Fun(f)
           Escape(i) == At(p, i) = Backslash
           Range2(i) == At(p, i + 1) = Dash /\ i + 2 <= Len(p)
           Leaf == {i \in 1 .. n : ~Escape(i) /\ (i > Len(p) \/ At(p, i) = Close)}
           Value == [i \in 1 .. n |->
                       [match |-> FALSE, next |-> IF i > Len(p) THEN Len(p) + 1 ELSE i + 1]]
           Later == [i \in 1 .. n |-> IF Escape(i) THEN i + 2 ELSE IF Range2(i) THEN i + 3 ELSE i + 1]
           Hit(i) == IF Escape(i) THEN At(p, i + 1) = c
                     ELSE IF Range2(i) THEN Between(c, p[i], p[i + 2]) ELSE p[i] = c
           Step == [i \in 1 .. n |-> [v \in V |-> [match |-> Hit(i) \/ v.match, next |-> v.next]]]
<1>1. Len(p) \in Nat /\ n \in Nat /\ DOMAIN p = 1 .. Len(p)
  OBVIOUS
<1>2. \A k : Class(p, k, c) = f0[k]
  BY DEF Class, ClassRule, OrLater
<1>3. \A i \in 1 .. n : Escape(i) => i \in 1 .. Len(p)
  BY <1>1 DEF At, Backslash
<1>4. \A i \in (1 .. n) \ Leaf : i \in 1 .. Len(p) /\ Later[i] \in i + 1 .. n
  BY <1>1, <1>3
<1>5. \A i \in 1 .. n : Value[i] \in V
  BY <1>1
<1>6. \A i \in 1 .. n : \A v \in V : [match |-> Hit(i) \/ v.match, next |-> v.next] \in V
  <2> TAKE i \in 1 .. n
  <2> TAKE v \in V
  <2>1. v.match \in BOOLEAN /\ v.next \in Int
    OBVIOUS
  <2>2. (Hit(i) \/ v.match) \in BOOLEAN
    OBVIOUS
  <2> QED
    BY <2>1, <2>2
<1>7. \A i \in 1 .. n : Step[i] \in [V -> V]
  <2> HIDE DEF V, Hit, n
  <2> QED
    BY <1>6
<1> HIDE DEF Step
<1>8. PICK f : Descends(f, n, V, Leaf, Value, Later, Step)
  <2> HIDE DEF n, V, Leaf, Value, Later
  <2> QED
    BY <1>1, <1>4, <1>5, <1>7, Descent
<1>9. ASSUME NEW i \in 1 .. n
      PROVE  f[i] = ClassRule(f, p, c, i)
  <2>1. CASE i \in Leaf
    <3>1. f[i] = Value[i]
      BY <1>8, <2>1 DEF Descends
    <3> QED
      BY <2>1, <3>1 DEF ClassRule
  <2>2. CASE i \notin Leaf
    <3>1. f[i] = Step[i][f[Later[i]]] /\ Later[i] \in 1 .. n
      BY <1>4, <1>8, <2>2 DEF Descends
    <3>2. f[Later[i]] \in V
      BY <1>8, <3>1 DEF Descends
    <3>3. f[i] = OrLater(f, Hit(i), Later[i])
      <4>1. \A v \in V : Step[i][v] = [match |-> Hit(i) \/ v.match, next |-> v.next]
        BY DEF Step
      <4> HIDE DEF V, Hit, Later, n
      <4> QED
        BY <3>1, <3>2, <4>1 DEF OrLater
    <3>4. ~Escape(i) => ~(i > Len(p) \/ At(p, i) = Close)
      BY <2>2
    <3>5. CASE Escape(i)
      <4>1. Hit(i) = (At(p, i + 1) = c) /\ Later[i] = i + 2
        BY <3>5
      <4> HIDE DEF Hit, Later
      <4> QED
        BY <3>3, <3>5, <4>1 DEF ClassRule
    <3>6. CASE ~Escape(i) /\ Range2(i)
      <4>1. Hit(i) = Between(c, p[i], p[i + 2]) /\ Later[i] = i + 3
        BY <3>6
      <4> HIDE DEF Hit, Later
      <4> QED
        BY <3>3, <3>4, <3>6, <4>1 DEF ClassRule
    <3>7. CASE ~Escape(i) /\ ~Range2(i)
      <4>1. Hit(i) = (p[i] = c) /\ Later[i] = i + 1
        BY <3>7
      <4> HIDE DEF Hit, Later
      <4> QED
        BY <3>3, <3>4, <3>7, <4>1 DEF ClassRule
    <3> QED
      BY <3>5, <3>6, <3>7
  <2> QED
    BY <2>1, <2>2
<1>10. Fun(f0)
  <2>1. f = [i \in 1 .. n |-> f[i]]
    BY <1>8 DEF Descends
  <2>2. Fun(f)
    BY <1>9, <2>1
  <2> HIDE DEF Fun
  <2> QED
    BY <2>2
<1> HIDE DEF f0
<1>11. \A i \in 1 .. n : f0[i] = ClassRule(f0, p, c, i)
  BY <1>10
<1> DEFINE Good(i) == /\ f0[i].match \in BOOLEAN
                      /\ f0[i].next \in 1 .. Len(p) + 1
                      /\ f0[i].next >= i \/ f0[i].next = Len(p) + 1
           S == {i \in 1 .. n : Good(i)}
<1>12. ASSUME NEW i \in 1 .. n, \A j \in i + 1 .. n : j \in S
       PROVE  i \in S
  <2>1. CASE i \in Leaf
    <3>1. ClassRule(f0, p, c, i) = Value[i]
      BY <2>1 DEF ClassRule
    <3>2. f0[i].match = FALSE /\ f0[i].next = IF i > Len(p) THEN Len(p) + 1 ELSE i + 1
      BY <1>11, <3>1
    <3>3. f0[i].match \in BOOLEAN
      BY <3>2
    <3>4. ~(i > Len(p)) => i + 1 \in 1 .. Len(p) + 1 /\ i + 1 >= i
      BY <1>1
    <3>5. Len(p) + 1 \in 1 .. Len(p) + 1
      BY <1>1
    <3>6. Good(i)
      <4>1. CASE i > Len(p)
        BY <3>2, <3>3, <3>5, <4>1
      <4>2. CASE ~(i > Len(p))
        BY <3>2, <3>3, <3>4, <4>2
      <4> QED
        BY <4>1, <4>2
    <3> HIDE DEF Good
    <3> QED
      BY <3>6
  <2>2. CASE i \notin Leaf
    <3>1. Later[i] \in i + 1 .. n /\ i \in 1 .. Len(p)
      BY <1>4, <2>2
    <3>2. Good(Later[i])
      BY <1>12, <3>1
    <3>3. \E hit : f0[i] = OrLater(f0, hit, Later[i])
      <4>0. ~Escape(i) => ~(i > Len(p) \/ At(p, i) = Close)
        BY <2>2
      <4>1. CASE Escape(i)
        <5>1. Later[i] = i + 2
          BY <4>1
        <5> HIDE DEF Later, f0
        <5> QED
          BY <1>11, <4>1, <5>1 DEF ClassRule
      <4>2. CASE ~Escape(i) /\ Range2(i)
        <5>1. Later[i] = i + 3
          BY <4>2
        <5> HIDE DEF Later, f0
        <5> QED
          BY <1>11, <4>0, <4>2, <5>1 DEF ClassRule
      <4>3. CASE ~Escape(i) /\ ~Range2(i)
        <5>1. Later[i] = i + 1
          BY <4>3
        <5> HIDE DEF Later, f0
        <5> QED
          BY <1>11, <4>0, <4>3, <5>1 DEF ClassRule
      <4> QED
        BY <4>1, <4>2, <4>3
    <3> DEFINE l == Later[i]
    <3>4. l \in i + 1 .. n /\ Good(l)
      BY <3>1, <3>2
    <3>5. PICK hit : f0[i] = OrLater(f0, hit, l)
      BY <3>3
    <3> HIDE DEF l
    <3>6. f0[i].next = f0[l].next
      BY <3>5 DEF OrLater
    <3>7. f0[i].match = (hit \/ f0[l].match)
      BY <3>5 DEF OrLater
    <3>8. f0[i].match \in BOOLEAN
      BY <3>7
    <3>9. f0[i].next >= i \/ f0[i].next = Len(p) + 1
      BY <1>1, <3>4, <3>6
    <3>10. f0[i].next \in 1 .. Len(p) + 1
      BY <3>4, <3>6
    <3> QED
      BY <3>8, <3>9, <3>10
  <2> QED
    BY <2>1, <2>2
<1> HIDE DEF S
<1>13. \A i \in 1 .. n : i \in S
  <2> HIDE DEF n
  <2> QED
    BY <1>1, <1>12, FromTheEnd
<1>14. \A i \in 1 .. n : Good(i)
  BY <1>13 DEF S
<1>15. IsClassLoop(f0, p, c)
  <2> HIDE DEF f0
  <2> QED
    BY <1>2, <1>11, <1>14 DEF IsClassLoop
<1> QED
  BY <1>15

\* The sequence u stands in p from position a.
Shows(p, a, u) == \A i \in 1 .. Len(u) : a - 1 + i \in 1 .. Len(p) /\ p[a - 1 + i] = u[i]

LEMMA ShowsParts ==
  ASSUME NEW p, NEW a \in Int, NEW u \in Seq(Int), NEW v \in Seq(Int), Shows(p, a, u \o v)
  PROVE  Shows(p, a, u) /\ Shows(p, a + Len(u), v)
<1>1. /\ Len(u) \in Nat /\ Len(v) \in Nat /\ Len(u \o v) = Len(u) + Len(v)
      /\ \A i \in 1 .. Len(u) + Len(v) : (u \o v)[i] = IF i <= Len(u) THEN u[i] ELSE v[i - Len(u)]
  BY ConcatProperties
<1> DEFINE w == u \o v
<1>2. \A i \in 1 .. Len(u) + Len(v) : a - 1 + i \in 1 .. Len(p) /\ p[a - 1 + i] = w[i]
  BY <1>1 DEF Shows
<1> HIDE DEF w
<1>3. ASSUME NEW i \in 1 .. Len(u)
      PROVE  a - 1 + i \in 1 .. Len(p) /\ p[a - 1 + i] = u[i]
  <2>1. i \in 1 .. Len(u) + Len(v) /\ i <= Len(u)
    BY <1>1
  <2> QED
    BY <1>1, <1>2, <2>1 DEF w
<1>4. ASSUME NEW i \in 1 .. Len(v)
      PROVE  a + Len(u) - 1 + i \in 1 .. Len(p) /\ p[a + Len(u) - 1 + i] = v[i]
  <2> DEFINE k == Len(u) + i
  <2>1. k \in 1 .. Len(u) + Len(v) /\ ~(k <= Len(u)) /\ k - Len(u) = i /\ a + Len(u) - 1 + i = a - 1 + k
    BY <1>1
  <2> HIDE DEF k
  <2>2. w[k] = v[i]
    BY <1>1, <2>1 DEF w
  <2> QED
    BY <1>2, <2>1, <2>2
<1> QED
  BY <1>3, <1>4 DEF Shows

ItemHas(x, c) ==
  IF x.kind = "range" THEN c \in (x.from .. x.to) \cup (x.to .. x.from) ELSE c = x.c

LEMMA ItemTextIs ==
  ASSUME NEW x, IsItem(x)
  PROVE  /\ ItemText(x) \in Seq(Int)
         /\ x.kind = "range" =>
              /\ ItemText(x) = <<x.from, Dash, x.to>> /\ Len(ItemText(x)) = 3
              /\ x.from \in Int /\ x.to \in Int /\ x.from \notin {Backslash, Close}
         /\ x.kind # "range" /\ x.quoted =>
              ItemText(x) = <<Backslash, x.c>> /\ Len(ItemText(x)) = 2 /\ x.c \in Int
         /\ x.kind # "range" /\ ~x.quoted =>
              /\ ItemText(x) = <<x.c>> /\ Len(ItemText(x)) = 1
              /\ x.c \in Int /\ x.c \notin {Backslash, Close}
<1>1. Backslash \in Int /\ Dash \in Int
  BY DEF Backslash, Dash
<1>2. CASE x.kind = "range"
  BY <1>1, <1>2 DEF IsItem, ItemText
<1>3. CASE x.kind # "range" /\ x.quoted
  BY <1>1, <1>3 DEF IsItem, ItemText, Character, IsCharacter
<1>4. CASE x.kind # "range" /\ ~x.quoted
  BY <1>4 DEF IsItem, ItemText, Character, IsCharacter
<1> QED
  BY <1>2, <1>3, <1>4

LEMMA ItemLength ==
  ASSUME NEW x, IsItem(x)
  PROVE  ItemText(x) \in Seq(Int) /\ Len(ItemText(x)) >= 1
<1>1. x.kind = "range" \/ (x.kind # "range" /\ x.quoted) \/ (x.kind # "range" /\ ~x.quoted)
  OBVIOUS
<1>2. Len(ItemText(x)) \in {1, 2, 3}
  BY <1>1, ItemTextIs
<1>3. ItemText(x) \in Seq(Int)
  BY ItemTextIs
<1> QED
  BY <1>2, <1>3

LEMMA OrLaterIs ==
  ASSUME NEW r, NEW f, NEW hit, NEW l, r = OrLater(f, hit, l)
  PROVE  r.next = f[l].next /\ (r.match <=> hit \/ f[l].match)
<1>1. r.match = (hit \/ f[l].match)
  BY DEF OrLater
<1>2. r.next = f[l].next
  BY DEF OrLater
<1> QED
  BY <1>1, <1>2

\* A turn of the loop over a class takes one item.
LEMMA ItemTurn ==
  ASSUME NEW p \in Seq(Int), NEW c \in Int, NEW x, IsItem(x), NEW a \in Int, NEW f,
         Shows(p, a, ItemText(x)), Len(ItemText(x)) = 1 => At(p, a + 1) # Dash,
         f[a] = ClassRule(f, p, c, a)
  PROVE  /\ a \in 1 .. Len(p)
         /\ f[a].next = f[a + Len(ItemText(x))].next
         /\ f[a].match <=> ItemHas(x, c) \/ f[a + Len(ItemText(x))].match
<1>0. Len(p) \in Nat /\ DOMAIN p = 1 .. Len(p)
  OBVIOUS
<1>1. CASE x.kind = "range"
  <2>1. /\ ItemText(x) = <<x.from, Dash, x.to>> /\ Len(ItemText(x)) = 3
        /\ x.from \in Int /\ x.to \in Int /\ x.from \notin {Backslash, Close}
    BY <1>1, ItemTextIs
  <2>2. \A i \in 1 .. 3 : a - 1 + i \in 1 .. Len(p) /\ p[a - 1 + i] = <<x.from, Dash, x.to>>[i]
    BY <2>1 DEF Shows
  <2>3. 1 \in 1 .. 3 /\ 2 \in 1 .. 3 /\ 3 \in 1 .. 3 /\ a - 1 + 1 = a /\ a - 1 + 2 = a + 1 /\ a - 1 + 3 = a + 2
    OBVIOUS
  <2>4. /\ a \in 1 .. Len(p) /\ a + 1 \in 1 .. Len(p) /\ a + 2 \in 1 .. Len(p)
        /\ p[a] = x.from /\ p[a + 1] = Dash /\ p[a + 2] = x.to
    BY <2>2, <2>3
  <2>5. At(p, a) = x.from /\ At(p, a + 1) = Dash /\ ~(a > Len(p)) /\ a + 2 <= Len(p)
    BY <1>0, <2>4 DEF At
  <2>6. f[a] = OrLater(f, Between(c, x.from, x.to), a + 3)
    BY <2>1, <2>4, <2>5 DEF ClassRule
  <2>7. Between(c, x.from, x.to) <=> ItemHas(x, c)
    BY <1>1, <2>1 DEF Between, ItemHas
  <2>8. f[a].next = f[a + 3].next /\ (f[a].match <=> Between(c, x.from, x.to) \/ f[a + 3].match)
    BY <2>6, OrLaterIs
  <2> QED
    BY <2>1, <2>4, <2>7, <2>8
<1>2. CASE x.kind # "range" /\ x.quoted
  <2>1. ItemText(x) = <<Backslash, x.c>> /\ Len(ItemText(x)) = 2
    BY <1>2, ItemTextIs
  <2>2. \A i \in 1 .. 2 : a - 1 + i \in 1 .. Len(p) /\ p[a - 1 + i] = <<Backslash, x.c>>[i]
    BY <2>1 DEF Shows
  <2>3. 1 \in 1 .. 2 /\ 2 \in 1 .. 2 /\ a - 1 + 1 = a /\ a - 1 + 2 = a + 1
    OBVIOUS
  <2>4. a \in 1 .. Len(p) /\ a + 1 \in 1 .. Len(p) /\ p[a] = Backslash /\ p[a + 1] = x.c
    BY <2>2, <2>3
  <2>5. At(p, a) = Backslash /\ At(p, a + 1) = x.c
    BY <1>0, <2>4 DEF At
  <2>6. f[a] = OrLater(f, x.c = c, a + 2)
    BY <2>5 DEF ClassRule
  <2>7. f[a].next = f[a + 2].next /\ (f[a].match <=> (x.c = c) \/ f[a + 2].match)
    <3> DEFINE same == x.c = c
    <3>1. f[a] = OrLater(f, same, a + 2)
      BY <2>6
    <3> HIDE DEF same
    <3>2. f[a].next = f[a + 2].next /\ (f[a].match <=> same \/ f[a + 2].match)
      BY <3>1, OrLaterIs
    <3> QED
      BY <3>2 DEF same
  <2> QED
    BY <1>2, <2>1, <2>4, <2>7 DEF ItemHas
<1>3. CASE x.kind # "range" /\ ~x.quoted
  <2>1. ItemText(x) = <<x.c>> /\ Len(ItemText(x)) = 1 /\ x.c \notin {Backslash, Close}
    BY <1>3, ItemTextIs
  <2>2. \A i \in 1 .. 1 : a - 1 + i \in 1 .. Len(p) /\ p[a - 1 + i] = <<x.c>>[i]
    BY <2>1 DEF Shows
  <2>3. 1 \in 1 .. 1 /\ a - 1 + 1 = a
    OBVIOUS
  <2>4. a \in 1 .. Len(p) /\ p[a] = x.c
    BY <2>2, <2>3
  <2>5. At(p, a) = x.c /\ ~(a > Len(p)) /\ At(p, a + 1) # Dash
    BY <1>0, <2>1, <2>4 DEF At
  <2>6. f[a] = OrLater(f, x.c = c, a + 1)
    BY <2>1, <2>4, <2>5 DEF ClassRule
  <2>7. f[a].next = f[a + 1].next /\ (f[a].match <=> (x.c = c) \/ f[a + 1].match)
    <3> DEFINE same == x.c = c
    <3>1. f[a] = OrLater(f, same, a + 1)
      BY <2>6
    <3> HIDE DEF same
    <3>2. f[a].next = f[a + 1].next /\ (f[a].match <=> same \/ f[a + 1].match)
      BY <3>1, OrLaterIs
    <3> QED
      BY <3>2 DEF same
  <2> QED
    BY <1>3, <2>1, <2>4, <2>7 DEF ItemHas
<1> QED
  BY <1>1, <1>2, <1>3

LEMMA FirstShown ==
  ASSUME NEW p \in Seq(Int), NEW a \in Int, NEW u \in Seq(Int), Shows(p, a, u), Len(u) >= 1
  PROVE  a \in 1 .. Len(p) /\ p[a] = u[1] /\ At(p, a) = u[1]
<1>1. 1 \in 1 .. Len(u) /\ a - 1 + 1 = a
  OBVIOUS
<1>2. a \in 1 .. Len(p) /\ p[a] = u[1]
  BY <1>1 DEF Shows
<1>3. DOMAIN p = 1 .. Len(p)
  BY LenProperties
<1> QED
  BY <1>2, <1>3 DEF At

\* The loop over a class that is written as its items and a bracket.
LEMMA ClassMatches ==
  ASSUME NEW p \in Seq(Int), NEW c \in Int, NEW t, IsClass(t), NEW a \in Int,
         Shows(p, a, FlattenSeq([k \in DOMAIN t.items |-> ItemText(t.items[k])]) \o <<Close>>)
  PROVE  /\ Class(p, a, c).next
              = a + Len(FlattenSeq([k \in DOMAIN t.items |-> ItemText(t.items[k])])) + 1
         /\ Class(p, a, c).match <=> \E k \in DOMAIN t.items : ItemHas(t.items[k], c)
<1> DEFINE items == t.items
           n == Len(items)
           ss == [k \in DOMAIN items |-> ItemText(items[k])]
           all == FlattenSeq(ss)
           W == Seq(Int)
<1>1. n \in Nat /\ DOMAIN items = 1 .. n /\ \A k \in 1 .. n : IsItem(items[k])
  <2>1. items \in Seq(Range(items)) /\ \A k \in DOMAIN items : IsItem(items[k])
    BY DEF IsClass
  <2>2. n \in Nat /\ DOMAIN items = 1 .. n
    <3> HIDE DEF items
    <3> QED
      BY <2>1, LenProperties
  <2> HIDE DEF items
  <2> QED
    BY <2>1, <2>2
<1>2. ss \in Seq(W) /\ Len(ss) = n /\ \A k \in 1 .. n : ss[k] = ItemText(items[k])
  <2>1. \A k \in 1 .. n : ItemText(items[k]) \in W
    BY <1>1, ItemTextIs
  <2> HIDE DEF items, W, n
  <2> QED
    BY <1>1, <2>1
<1>3. \A k \in 2 .. n : Len(ss[k - 1]) = 1 => ss[k][1] # Dash
  <2>1. \A k \in 2 .. n : k \in DOMAIN items /\ k > 1 /\ k - 1 \in 1 .. n /\ k \in 1 .. n
    BY <1>1
  <2> HIDE DEF ss, n
  <2> QED
    BY <1>2, <2>1 DEF IsClass
<1> HIDE DEF ss
<1>4. PICK r : Leaves(r, ss, n, W) /\ all = r[0]
  <2>1. ss \in Seq(Seq(Int))
    BY <1>2
  <2>2. \E r : Leaves(r, ss, Len(ss), Seq(Int)) /\ FlattenSeq(ss) = r[0]
    BY <2>1, FlattenLeaves
  <2>3. \E r : Leaves(r, ss, n, Seq(Int)) /\ FlattenSeq(ss) = r[0]
    <3> HIDE DEF n
    <3> QED
      BY <1>2, <2>2
  <2> QED
    BY <2>3
<1>5. PICK f : IsClassLoop(f, p, c)
  BY ClassIs
<1> DEFINE u(m) == r[m] \o <<Close>>
           at(m) == a + Len(r[0]) - Len(r[m])
<1>6. \A m \in 0 .. n : r[m] \in W /\ u(m) \in W /\ Len(r[m]) \in Nat /\ at(m) \in Int
  <2>1. <<Close>> \in W
    BY DEF Close
  <2>2. \A v \in W : v \o <<Close>> \in W
    BY <2>1, ConcatProperties
  <2>3. \A v \in W : Len(v) \in Nat
    BY LenProperties
  <2>4. 0 \in 0 .. n
    BY <1>1
  <2> HIDE DEF n, W
  <2>5. \A m \in 0 .. n : r[m] \in W
    BY <1>4 DEF Leaves
  <2> QED
    BY <2>2, <2>3, <2>4, <2>5
<1>7. ASSUME NEW m \in 1 .. n
      PROVE  /\ r[m - 1] = ss[m] \o r[m] /\ u(m - 1) = ss[m] \o u(m)
             /\ at(m) = at(m - 1) + Len(ss[m]) /\ ss[m] \in W
  <2>1. m \in 0 .. n /\ m - 1 \in 0 .. n
    BY <1>1
  <2>2. ss[m] \in W
    BY <1>2, ElementOfSeq
  <2>3. r[m - 1] = ss[m] \o r[m]
    BY <1>4 DEF Leaves
  <2> DEFINE v == r[m]
             x == ss[m]
             e == <<Close>>
  <2>4. v \in W /\ x \in W /\ e \in W
    BY <1>6, <2>1, <2>2 DEF Close
  <2>5. Len(x \o v) = Len(x) + Len(v) /\ Len(v) \in Nat /\ Len(x) \in Nat
    <3> HIDE DEF v, x
    <3> QED
      BY <2>4, ConcatProperties, LenProperties
  <2>6. \A i, j, k \in W : (i \o j) \o k = i \o (j \o k)
    <3> TAKE i, j, k \in W
    <3> QED
      BY ConcatAssociative, SMTT(60)
  <2>7. (x \o v) \o e = x \o (v \o e)
    <3> HIDE DEF v, x, e, W
    <3> QED
      BY <2>4, <2>6
  <2>8. Len(r[0]) \in Nat
    BY <1>1, <1>6
  <2>9. at(m) = at(m - 1) + Len(ss[m])
    <3> HIDE DEF W, n
    <3> QED
      BY <2>3, <2>5, <2>8
  <2> QED
    BY <2>2, <2>3, <2>7, <2>9
<1> HIDE DEF W
<1>8. \A m \in 0 .. n : Shows(p, at(m), u(m))
  <2> DEFINE S == {m \in 0 .. n : Shows(p, at(m), u(m))}
  <2>1. 0 \in S
    <3>1. 0 \in 0 .. n /\ at(0) = a
      BY <1>1, <1>6
    <3>2. Shows(p, a, u(0))
      <4>1. all = r[0] /\ Shows(p, a, all \o <<Close>>)
        BY <1>4 DEF ss
      <4> HIDE DEF all
      <4> QED
        BY <4>1
    <3> HIDE DEF n, at, u
    <3> QED
      BY <3>1, <3>2
  <2>2. ASSUME NEW k \in 1 .. n, k - 1 \in S
        PROVE  k \in S
    <3> DEFINE m == k - 1
    <3>1. m \in 0 .. n /\ k \in 0 .. n
      BY <1>1, <2>2
    <3>2. u(m) = ss[k] \o u(k) /\ at(k) = at(m) + Len(ss[k]) /\ ss[k] \in W
      <4> HIDE DEF n, at, u
      <4> QED
        BY <1>7, <2>2
    <3> HIDE DEF n, m
    <3>3. at(m) \in Int /\ u(k) \in W
      BY <1>6, <3>1
    <3>4. Shows(p, at(m), u(m))
      BY <2>2 DEF m
    <3> DEFINE am == at(m)
               uk == u(k)
    <3>5. Shows(p, am, ss[k] \o uk) /\ am \in Int /\ uk \in Seq(Int) /\ ss[k] \in Seq(Int)
      BY <3>2, <3>3, <3>4 DEF W
    <3> HIDE DEF am, uk
    <3>6. Shows(p, am + Len(ss[k]), uk)
      BY <3>5, ShowsParts
    <3>7. Shows(p, at(k), u(k))
      BY <3>2, <3>6 DEF am, uk
    <3> QED
      BY <3>1, <3>7
  <2> HIDE DEF S, n
  <2>3. \A m \in 0 .. n : m \in S
    BY <1>1, <2>1, <2>2, Climb
  <2> QED
    BY <2>3 DEF S
<1>9. at(n) \in 1 .. Len(p) /\ p[at(n)] = Close /\ At(p, at(n)) = Close /\ at(n) = a + Len(r[0])
  <2>1. n \in 0 .. n
    BY <1>1
  <2>2. r[n] = <<>> /\ Len(r[n]) = 0 /\ <<>> \o <<Close>> = <<Close>>
    <3>1. r[n] = <<>>
      BY <1>4 DEF Leaves
    <3>2. Close \in Int
      BY DEF Close
    <3> HIDE DEF n
    <3> QED
      BY <3>1, <3>2
  <2> HIDE DEF n
  <2>3. u(n) = <<Close>> /\ at(n) = a + Len(r[0])
    BY <1>1, <1>6, <2>2
  <2> HIDE DEF u
  <2>4. Shows(p, at(n), <<Close>>) /\ at(n) \in Int
    BY <1>6, <1>8, <2>1, <2>3
  <2> DEFINE b == at(n)
             e == <<Close>>
  <2>5. e \in Seq(Int) /\ Len(e) = 1 /\ e[1] = Close
    BY DEF Close
  <2>6. Shows(p, b, e) /\ b \in Int
    BY <2>4
  <2> HIDE DEF at, b, e
  <2>7. b \in 1 .. Len(p) /\ p[b] = e[1] /\ At(p, b) = e[1]
    <3>1. Len(e) >= 1
      BY <2>5
    <3> QED
      BY <2>5, <2>6, <3>1, FirstShown
  <2>8. b \in 1 .. Len(p) /\ p[b] = Close /\ At(p, b) = Close
    BY <2>5, <2>7
  <2> QED
    BY <2>3, <2>8 DEF b
<1> DEFINE Good(m) == /\ f[at(m)].next = at(n) + 1
                      /\ f[at(m)].match <=> \E k \in m + 1 .. n : ItemHas(items[k], c)
<1> HIDE DEF n, at, u
<1>10. Good(n)
  <2> DEFINE b == at(n)
  <2>1. b \in 1 .. Len(p) /\ At(p, b) = Close /\ Len(p) \in Nat
    BY <1>9
  <2> HIDE DEF b
  <2>2. b \in 1 .. Len(p) + 2 /\ ~(b > Len(p))
    BY <2>1
  <2>3. f[b] = [match |-> FALSE, next |-> b + 1]
    BY <1>5, <2>1, <2>2 DEF IsClassLoop, ClassRule, Close, Backslash
  <2>4. f[b].next = b + 1 /\ f[b].match = FALSE
    BY <2>3
  <2>5. n + 1 .. n = {}
    BY <1>1
  <2> QED
    BY <2>4, <2>5 DEF b
<1>11. ASSUME NEW m \in 1 .. n, Good(m)
       PROVE  Good(m - 1)
  <2> DEFINE b == at(m - 1)
             x == items[m]
             t1 == ItemText(x)
  <2>1. m \in 0 .. n /\ m - 1 \in 0 .. n /\ IsItem(x) /\ ss[m] = t1
    BY <1>1, <1>2
  <2>2. at(m) = b + Len(t1) /\ b \in Int /\ t1 \in Seq(Int)
    BY <1>6, <1>7, <2>1 DEF W
  <2>3. Shows(p, b, t1)
    <3> DEFINE v == u(m)
    <3>1. Shows(p, b, t1 \o v) /\ v \in Seq(Int)
      BY <1>6, <1>7, <1>8, <2>1 DEF W
    <3> HIDE DEF v, b, t1
    <3> QED
      BY <2>2, <3>1, ShowsParts
  <2>4. Len(t1) = 1 => At(p, b + 1) # Dash
    <3> SUFFICES ASSUME Len(t1) = 1
                 PROVE  At(p, at(m)) # Dash
      BY <2>2
    <3>1. CASE m = n
      BY <1>9, <3>1 DEF Close, Dash
    <3>2. CASE m # n
      <4> DEFINE k == m + 1
                 v == u(k)
                 e == ss[k]
                 d == at(m)
      <4>1. k \in 1 .. n /\ k \in 2 .. n /\ k - 1 = m /\ k \in 0 .. n
        BY <1>1, <3>2
      <4> HIDE DEF k
      <4>2. u(m) = e \o v /\ e \in Seq(Int) /\ v \in Seq(Int) /\ d \in Int
        BY <1>6, <1>7, <2>1, <4>1 DEF W
      <4>3. e[1] # Dash
        BY <1>3, <2>1, <4>1
      <4>4. Len(e) >= 1
        <5>1. IsItem(items[k]) /\ e = ItemText(items[k])
          BY <1>1, <1>2, <4>1
        <5> HIDE DEF e, items
        <5> QED
          BY <5>1, ItemLength
      <4>5. Shows(p, d, e \o v)
        BY <1>8, <2>1, <4>2
      <4> HIDE DEF v, e, d
      <4>6. Shows(p, d, e)
        BY <4>2, <4>5, ShowsParts
      <4>7. At(p, d) = e[1]
        BY <4>2, <4>4, <4>6, FirstShown
      <4> QED
        BY <4>3, <4>7 DEF d
    <3> QED
      BY <3>1, <3>2
  <2>5. f[b] = ClassRule(f, p, c, b)
    <3>1. b \in 1 .. Len(p)
      <4>1. Len(t1) >= 1
        <5> HIDE DEF x
        <5> QED
          BY <2>1, ItemLength
      <4> HIDE DEF b, t1
      <4> QED
        BY <2>2, <2>3, <4>1, FirstShown
    <3>2. b \in 1 .. Len(p) + 2
      <4> HIDE DEF b
      <4> QED
        BY <3>1, LenProperties
    <3> QED
      BY <1>5, <3>2 DEF IsClassLoop
  <2>6. f[b].next = f[at(m)].next /\ (f[b].match <=> ItemHas(x, c) \/ f[at(m)].match)
    <3> HIDE DEF b, x
    <3>1. /\ f[b].next = f[b + Len(ItemText(x))].next
          /\ f[b].match <=> ItemHas(x, c) \/ f[b + Len(ItemText(x))].match
      BY <2>1, <2>2, <2>3, <2>4, <2>5, ItemTurn
    <3> QED
      BY <2>2, <3>1
  <2>7. m - 1 + 1 = m /\ m .. n = {m} \cup (m + 1 .. n)
    BY <1>1
  <2>8. (\E k \in m .. n : ItemHas(items[k], c))
          <=> ItemHas(items[m], c) \/ \E k \in m + 1 .. n : ItemHas(items[k], c)
    BY <2>7
  <2> HIDE DEF items
  <2> QED
    BY <1>11, <2>6, <2>7, <2>8
<1> HIDE DEF Good
<1> DEFINE T == {d \in 0 .. n : Good(n - d)}
<1>12. \A d \in 0 .. n : d \in T
  <2>1. 0 \in T
    <3>1. n - 0 = n /\ 0 \in 0 .. n
      BY <1>1
    <3> QED
      BY <1>10, <3>1
  <2>2. ASSUME NEW d \in 1 .. n, d - 1 \in T
        PROVE  d \in T
    <3> DEFINE m == n - (d - 1)
    <3>1. m \in 1 .. n /\ m - 1 = n - d /\ d \in 0 .. n
      BY <1>1
    <3>2. Good(m)
      BY <2>2
    <3> HIDE DEF m
    <3>3. Good(m - 1)
      BY <1>11, <3>1, <3>2
    <3> QED
      BY <3>1, <3>3
  <2> HIDE DEF T
  <2> QED
    BY <1>1, <2>1, <2>2, Climb
<1>13. Good(0)
  <2>1. n \in 0 .. n /\ n - n = 0
    BY <1>1
  <2>2. Good(n - n)
    BY <1>12, <2>1
  <2> QED
    BY <2>1, <2>2
<1>14. at(0) = a
  <2>1. Len(r[0]) \in Nat
    BY <1>1, <1>6
  <2> QED
    BY <2>1 DEF at
<1>15. f[a].next = a + Len(all) + 1 /\ (f[a].match <=> \E k \in 1 .. n : ItemHas(items[k], c))
  <2>1. all = r[0]
    BY <1>4
  <2> HIDE DEF all, items
  <2> QED
    BY <1>9, <1>13, <1>14, <2>1 DEF Good
<1>16. Class(p, a, c) = f[a]
  BY <1>5 DEF IsClassLoop
<1>17. DOMAIN items = 1 .. n /\ all = FlattenSeq([k \in DOMAIN t.items |-> ItemText(t.items[k])])
  BY <1>1 DEF ss
<1> HIDE DEF all
<1> QED
  BY <1>15, <1>16, <1>17
\* What Text and StandsFor are for each kind of piece.
ItemTexts(t) == FlattenSeq([k \in DOMAIN t.items |-> ItemText(t.items[k])])

LEMMA PieceTextIs ==
  ASSUME NEW t
  PROVE  /\ t.kind = "star" => Text(t) = <<Star>>
         /\ t.kind = "any"  => Text(t) = <<Question>>
         /\ t.kind = "char" => Text(t) = Character(t)
         /\ t.kind = "class" /\ t.not  => Text(t) = <<Open, Caret>> \o (ItemTexts(t) \o <<Close>>)
         /\ t.kind = "class" /\ ~t.not => Text(t) = <<Open>> \o (ItemTexts(t) \o <<Close>>)
<1>1. t.kind = "star" => Text(t) = <<Star>>
  BY DEF Text
<1>2. t.kind = "any"  => Text(t) = <<Question>>
  BY DEF Text
<1>3. t.kind = "char" => Text(t) = Character(t)
  BY DEF Text
<1>4. t.kind = "class" => Text(t) = (IF t.not THEN <<Open, Caret>> ELSE <<Open>>)
                                    \o (ItemTexts(t) \o <<Close>>)
  BY DEF Text, ItemTexts
<1> QED
  BY <1>1, <1>2, <1>3, <1>4

LEMMA StandsForIs ==
  ASSUME NEW t, NEW c
  PROVE  /\ t.kind = "any"  => StandsFor(t, c)
         /\ t.kind = "char" => (StandsFor(t, c) <=> c = t.c)
         /\ t.kind = "class" =>
              (StandsFor(t, c) <=> t.not # (\E k \in DOMAIN t.items : ItemHas(t.items[k], c)))
<1>1. t.kind = "any" => StandsFor(t, c)
  BY DEF StandsFor
<1>2. t.kind = "char" => (StandsFor(t, c) <=> c = t.c)
  BY DEF StandsFor
<1>3. t.kind = "class" =>
              (StandsFor(t, c) <=> t.not # (\E k \in DOMAIN t.items : ItemHas(t.items[k], c)))
  BY DEF StandsFor, ItemHas
<1> QED
  BY <1>1, <1>2, <1>3

\* A turn of stringmatchlen: where the pattern goes on, and what the string is from a
\* position on if it matches.
NextAt(p, s, i) ==
  LET not  == At(p, i + 1) = Caret
      here == IF p[i] = Backslash /\ i < Len(p) THEN i + 1 ELSE i
  IN IF p[i] = Open THEN Class(p, IF not THEN i + 2 ELSE i + 1, At(s, 1)).next ELSE here + 1

OneAt(p, s, i, j) ==
  LET not  == At(p, i + 1) = Caret
      here == IF p[i] = Backslash /\ i < Len(p) THEN i + 1 ELSE i
  IN CASE p[i] = Question -> j <= Len(s)
       [] p[i] = Open     -> Class(p, IF not THEN i + 2 ELSE i + 1, At(s, j)).match # not
       [] OTHER           -> p[here] = At(s, j)

MatchesAt(p, s, i, behind) ==
  {j \in 1 .. Len(s) + 1 :
     IF p[i] = Star THEN StarMatches(p, i, s, j, behind)
     ELSE /\ OneAt(p, s, i, j)
          /\ IF j = Len(s) THEN AllStars(p, NextAt(p, s, i)) ELSE j + 1 \in behind}

IsMatching(m, p, s) ==
  \A i \in 1 .. Len(p) + 1 :
    m[i] = IF i > Len(p) THEN {Len(s) + 1} ELSE MatchesAt(p, s, i, m[NextAt(p, s, i)])

LEMMA NextAtIs ==
  ASSUME NEW p \in Seq(Int), NEW s, NEW i \in 1 .. Len(p)
  PROVE  NextAt(p, s, i) \in i + 1 .. Len(p) + 1
<1>1. Len(p) \in Nat
  OBVIOUS
<1>2. CASE p[i] # Open
  BY <1>1, <1>2 DEF NextAt
<1>3. CASE p[i] = Open
  <2> DEFINE c == At(s, 1)
             k == IF At(p, i + 1) = Caret THEN i + 2 ELSE i + 1
  <2>1. k \in i + 1 .. Len(p) + 2
    BY <1>1
  <2>2. NextAt(p, s, i) = Class(p, k, c).next
    BY <1>3 DEF NextAt
  <2> HIDE DEF c, k
  <2>3. PICK f : IsClassLoop(f, p, c)
    BY ClassIs
  <2>4. k \in 1 .. Len(p) + 2
    BY <2>1
  <2>5. Class(p, k, c) = f[k] /\ f[k].next \in 1 .. Len(p) + 1 /\ (f[k].next >= k \/ f[k].next = Len(p) + 1)
    BY <2>3, <2>4 DEF IsClassLoop
  <2> QED
    BY <1>1, <2>1, <2>2, <2>5
<1> QED
  BY <1>2, <1>3

LEMMA MatchesIs ==
  ASSUME NEW p \in Seq(Int), NEW s \in Seq(Int)
  PROVE  \E m : IsMatching(m, p, s) /\ Matches(p, s) = (1 \in m[1])
<1> DEFINE n == Len(p) + 1
           V == SUBSET (1 .. Len(s) + 1)
           Fun(m) == m = [i \in 1 .. n |->
                            IF i > Len(p) THEN {Len(s) + 1}
                            ELSE MatchesAt(p, s, i, m[NextAt(p, s, i)])]
           m0 == CHOOSE m : Fun(m)
           Leaf == {n}
           Value == [i \in 1 .. n |-> {Len(s) + 1}]
           Later == [i \in 1 .. n |-> NextAt(p, s, i)]
           Step == [i \in 1 .. n |-> [v \in V |-> MatchesAt(p, s, i, v)]]
<1>1. Len(p) \in Nat /\ n \in Nat /\ Len(s) \in Nat
  OBVIOUS
<1>2. Matches(p, s) = (1 \in m0[1])
  BY DEF Matches, MatchesAt, OneAt, NextAt
<1>3. \A i \in (1 .. n) \cap Leaf : Value[i] \in V
  BY <1>1
<1>4. \A i \in (1 .. n) \ Leaf : Later[i] \in i + 1 .. n
  BY <1>1, NextAtIs
<1>5. \A i \in 1 .. n : \A v \in V : MatchesAt(p, s, i, v) \in V
  BY DEF MatchesAt
<1>6. \A i \in 1 .. n : Step[i] \in [V -> V]
  <2> HIDE DEF V, n
  <2> QED
    BY <1>5
<1>7. PICK m : Descends(m, n, V, Leaf, Value, Later, Step)
  <2> HIDE DEF n, V, Leaf, Value, Later, Step
  <2> QED
    BY <1>1, <1>3, <1>4, <1>6, Descent
<1>8. Fun(m)
  <2>1. ASSUME NEW i \in 1 .. n
        PROVE  m[i] = IF i > Len(p) THEN {Len(s) + 1} ELSE MatchesAt(p, s, i, m[NextAt(p, s, i)])
    <3>0. m[i] = IF i \in Leaf THEN Value[i] ELSE Step[i][m[Later[i]]]
      <4> HIDE DEF n, V, Leaf, Value, Later, Step
      <4> QED
        BY <1>7 DEF Descends
    <3>1. CASE i = n
      <4>1. Value[i] = {Len(s) + 1} /\ i > Len(p) /\ i \in Leaf
        BY <1>1, <3>1
      <4> HIDE DEF Value, Leaf, n
      <4> QED
        BY <3>0, <4>1
    <3>2. CASE i # n
      <4>0. Later[i] \in 1 .. n /\ ~(i > Len(p)) /\ i \notin Leaf
        BY <1>1, <1>4, <3>2
      <4>1. m[i] = Step[i][m[Later[i]]] /\ Later[i] \in 1 .. n /\ ~(i > Len(p))
        <5> HIDE DEF Value, Leaf, n, Step, Later
        <5> QED
          BY <3>0, <4>0
      <4>2. m[Later[i]] \in V
        BY <1>7, <4>1 DEF Descends
      <4>3. m[i] = MatchesAt(p, s, i, m[Later[i]])
        <5> HIDE DEF V, n, Later
        <5> QED
          BY <4>1, <4>2
      <4> QED
        BY <4>1, <4>3
    <3> QED
      BY <3>1, <3>2
  <2>2. m = [i \in 1 .. n |-> m[i]]
    BY <1>7 DEF Descends
  <2> QED
    BY <2>1, <2>2
<1>9. Fun(m0)
  <2> HIDE DEF Fun
  <2> QED
    BY <1>8
<1> HIDE DEF m0
<1>10. IsMatching(m0, p, s)
  BY <1>9 DEF IsMatching
<1> QED
  BY <1>2, <1>10
FitsAt(t, s, behind) ==
  IF t.kind = "star"
  THEN {j \in 1 .. Len(s) + 1 : \E k \in behind : j <= k}
  ELSE {j \in 1 .. Len(s) : StandsFor(t, s[j]) /\ j + 1 \in behind}

IsFitting(g, pieces, s) ==
  \A i \in 1 .. Len(pieces) + 1 :
    g[i] = IF i > Len(pieces) THEN {Len(s) + 1} ELSE FitsAt(pieces[i], s, g[i + 1])

LEMMA FitsIs ==
  ASSUME NEW pieces, Len(pieces) \in Nat, NEW s \in Seq(Int)
  PROVE  \E g : IsFitting(g, pieces, s) /\ Fits(pieces, s) = (1 \in g[1])
<1> DEFINE n == Len(pieces) + 1
           V == SUBSET (1 .. Len(s) + 1)
           Fun(g) == g = [i \in 1 .. n |->
                            IF i > Len(pieces) THEN {Len(s) + 1}
                            ELSE FitsAt(pieces[i], s, g[i + 1])]
           g0 == CHOOSE g : Fun(g)
           Leaf == {n}
           Value == [i \in 1 .. n |-> {Len(s) + 1}]
           Later == [i \in 1 .. n |-> i + 1]
           Step == [i \in 1 .. n |-> [v \in V |-> FitsAt(pieces[i], s, v)]]
<1>1. n \in Nat /\ Len(s) \in Nat
  OBVIOUS
<1>2. Fits(pieces, s) = (1 \in g0[1])
  BY DEF Fits, FitsAt
<1>3. \A i \in (1 .. n) \cap Leaf : Value[i] \in V
  BY <1>1
<1>4. \A i \in (1 .. n) \ Leaf : Later[i] \in i + 1 .. n
  BY <1>1
<1>5. \A i \in 1 .. n : \A v \in V : FitsAt(pieces[i], s, v) \in V
  <2>1. 1 .. Len(s) \subseteq 1 .. Len(s) + 1
    BY <1>1
  <2> QED
    BY <2>1 DEF FitsAt
<1>6. \A i \in 1 .. n : Step[i] \in [V -> V]
  <2> HIDE DEF V, n
  <2> QED
    BY <1>5
<1>7. PICK g : Descends(g, n, V, Leaf, Value, Later, Step)
  <2> HIDE DEF n, V, Leaf, Value, Later, Step
  <2> QED
    BY <1>1, <1>3, <1>4, <1>6, Descent
<1>8. Fun(g)
  <2>1. ASSUME NEW i \in 1 .. n
        PROVE  g[i] = IF i > Len(pieces) THEN {Len(s) + 1} ELSE FitsAt(pieces[i], s, g[i + 1])
    <3>0. g[i] = IF i \in Leaf THEN Value[i] ELSE Step[i][g[Later[i]]]
      <4> HIDE DEF n, V, Leaf, Value, Later, Step
      <4> QED
        BY <1>7 DEF Descends
    <3>1. CASE i = n
      <4>1. Value[i] = {Len(s) + 1} /\ i > Len(pieces) /\ i \in Leaf
        BY <1>1, <3>1
      <4> HIDE DEF Value, Leaf, n
      <4> QED
        BY <3>0, <4>1
    <3>2. CASE i # n
      <4>0. Later[i] = i + 1 /\ i + 1 \in 1 .. n /\ ~(i > Len(pieces)) /\ i \notin Leaf
        BY <1>1, <3>2
      <4>1. g[i] = Step[i][g[i + 1]]
        <5> HIDE DEF Value, Leaf, n, Step, Later
        <5> QED
          BY <3>0, <4>0
      <4>2. g[i + 1] \in V
        BY <1>7, <4>0 DEF Descends
      <4>3. g[i] = FitsAt(pieces[i], s, g[i + 1])
        <5> HIDE DEF V, n
        <5> QED
          BY <4>1, <4>2
      <4> QED
        BY <4>0, <4>3
    <3> QED
      BY <3>1, <3>2
  <2>2. g = [i \in 1 .. n |-> g[i]]
    BY <1>7 DEF Descends
  <2> QED
    BY <2>1, <2>2
<1>9. Fun(g0)
  <2> HIDE DEF Fun
  <2> QED
    BY <1>8
<1> HIDE DEF g0
<1>10. IsFitting(g0, pieces, s)
  BY <1>9 DEF IsFitting
<1> QED
  BY <1>2, <1>10

\* The text behind the caret of a class that is not negated does not begin with a caret.
LEMMA ItemTextsAre ==
  ASSUME NEW t, IsClass(t)
  PROVE  /\ ItemTexts(t) \in Seq(Int)
         /\ ItemTexts(t) \o <<Close>> \in Seq(Int)
         /\ Len(ItemTexts(t) \o <<Close>>) = Len(ItemTexts(t)) + 1
         /\ ~t.not => (ItemTexts(t) \o <<Close>>)[1] # Caret
<1> DEFINE items == t.items
           n == Len(items)
           ss == [k \in DOMAIN items |-> ItemText(items[k])]
           all == ItemTexts(t)
           e == <<Close>>
<1>1. n \in Nat /\ DOMAIN items = 1 .. n /\ \A k \in 1 .. n : IsItem(items[k])
  <2>1. items \in Seq(Range(items)) /\ \A k \in DOMAIN items : IsItem(items[k])
    BY DEF IsClass
  <2>2. n \in Nat /\ DOMAIN items = 1 .. n
    <3> HIDE DEF items
    <3> QED
      BY <2>1, LenProperties
  <2> HIDE DEF items
  <2> QED
    BY <2>1, <2>2
<1>2. ss \in Seq(Seq(Int)) /\ Len(ss) = n /\ \A k \in 1 .. n : ss[k] = ItemText(items[k])
  <2>1. \A k \in 1 .. n : ItemText(items[k]) \in Seq(Int)
    BY <1>1, ItemTextIs
  <2> HIDE DEF items, n
  <2> QED
    BY <1>1, <2>1
<1>3. all = FlattenSeq(ss)
  BY DEF ItemTexts
<1> HIDE DEF ss, all
<1>4. PICK r : Leaves(r, ss, n, Seq(Int)) /\ all = r[0]
  <2>1. \E r : Leaves(r, ss, Len(ss), Seq(Int)) /\ FlattenSeq(ss) = r[0]
    BY <1>2, FlattenLeaves
  <2> HIDE DEF n
  <2> QED
    BY <1>2, <1>3, <2>1
<1>5. all \in Seq(Int)
  <2>1. 0 \in 0 .. n
    BY <1>1
  <2> HIDE DEF n
  <2> QED
    BY <1>4, <2>1 DEF Leaves
<1>6. e \in Seq(Int) /\ Len(e) = 1 /\ e[1] = Close
  BY DEF Close
<1> HIDE DEF e
<1>7. all \o e \in Seq(Int) /\ Len(all \o e) = Len(all) + 1
  BY <1>5, <1>6, ConcatProperties, SMTT(60)
<1>8. ASSUME ~t.not
      PROVE  (all \o e)[1] # Caret
  <2>1. CASE n = 0
    <3>1. all = <<>>
      BY <1>4, <2>1 DEF Leaves
    <3>2. all \o e = e
      BY <1>6, <3>1
    <3> QED
      BY <1>6, <3>2 DEF Close, Caret
  <2>2. CASE n # 0
    <3>1. 1 \in 1 .. n /\ 1 - 1 = 0 /\ 1 \in 0 .. n
      BY <1>1, <2>2
    <3>2. all = ss[1] \o r[1] /\ r[1] \in Seq(Int)
      <4> HIDE DEF n
      <4> QED
        BY <1>4, <3>1 DEF Leaves
    <3>3. ss[1] = ItemText(items[1]) /\ IsItem(items[1])
      BY <1>1, <1>2, <3>1
    <3>4. ss[1] \in Seq(Int) /\ Len(ss[1]) >= 1
      <4> HIDE DEF items
      <4> QED
        BY <3>3, ItemLength
    <3>5. ss[1][1] # Caret
      <4>1. 1 \in DOMAIN items
        BY <1>1, <3>1
      <4>2. ItemText(items[1])[1] # Caret
        BY <1>8, <4>1 DEF IsClass
      <4> HIDE DEF items
      <4> QED
        BY <3>3, <4>2
    <3> DEFINE x == ss[1]
               v == r[1]
    <3>6. x \in Seq(Int) /\ v \in Seq(Int) /\ Len(x) >= 1 /\ all = x \o v
      BY <3>2, <3>4
    <3> HIDE DEF x, v
    <3>7. all[1] = x[1] /\ Len(all) >= 1
      BY <3>6
    <3>8. (all \o e)[1] = all[1]
      BY <1>5, <1>6, <3>7
    <3> QED
      BY <3>5, <3>7, <3>8 DEF x
  <2> QED
    BY <2>1, <2>2
<1> QED
  BY <1>5, <1>7, <1>8 DEF all, e
\* What a turn does where the text of a piece stands in the pattern.
IsTurn(t, p, s, i) ==
  /\ i \in 1 .. Len(p) /\ NextAt(p, s, i) = i + Len(Text(t))
  /\ t.kind = "star" <=> p[i] = Star
  /\ t.kind = "star" => Len(Text(t)) = 1
  /\ t.kind # "star" => \A j \in 1 .. Len(s) : OneAt(p, s, i, j) <=> StandsFor(t, s[j])

LEMMA TextType ==
  ASSUME NEW t, IsPiece(t)
  PROVE  Text(t) \in Seq(Int) /\ Len(Text(t)) >= 1
<1>1. t.kind \in {"star", "any", "char", "class"}
  BY DEF IsPiece
<1>2. CASE t.kind = "star" \/ t.kind = "any"
  <2>1. Text(t) = <<Star>> \/ Text(t) = <<Question>>
    BY <1>2, PieceTextIs
  <2>2. Star \in Int /\ Question \in Int
    BY DEF Star, Question
  <2>3. \A x \in Int : <<x>> \in Seq(Int) /\ Len(<<x>>) >= 1
    OBVIOUS
  <2> QED
    BY <2>1, <2>2, <2>3
<1>3. CASE t.kind = "char"
  <2>1. Text(t) = Character(t) /\ t.c \in Int
    BY <1>3, PieceTextIs DEF IsPiece, IsCharacter
  <2>2. Character(t) = <<Backslash, t.c>> \/ Character(t) = <<t.c>>
    BY DEF Character
  <2>3. \A x, y \in Int : /\ <<x>> \in Seq(Int) /\ Len(<<x>>) >= 1
                          /\ <<x, y>> \in Seq(Int) /\ Len(<<x, y>>) >= 1
    OBVIOUS
  <2>4. Backslash \in Int
    BY DEF Backslash
  <2> QED
    BY <2>1, <2>2, <2>3, <2>4
<1>4. CASE t.kind = "class"
  <2> DEFINE v == ItemTexts(t) \o <<Close>>
  <2>1. IsClass(t)
    BY <1>4 DEF IsPiece
  <2>2. v \in Seq(Int)
    BY <2>1, ItemTextsAre
  <2>3. Text(t) = <<Open, Caret>> \o v \/ Text(t) = <<Open>> \o v
    BY <1>4, PieceTextIs
  <2> HIDE DEF v
  <2>4. PICK h \in {<<Open, Caret>>, <<Open>>} : Text(t) = h \o v
    BY <2>3
  <2>5. h \in Seq(Int) /\ Len(h) >= 1
    <3>1. \A x, y \in Int : /\ <<x>> \in Seq(Int) /\ Len(<<x>>) >= 1
                            /\ <<x, y>> \in Seq(Int) /\ Len(<<x, y>>) >= 1
      OBVIOUS
    <3>2. Open \in Int /\ Caret \in Int
      BY DEF Open, Caret
    <3> QED
      BY <3>1, <3>2
  <2>6. h \o v \in Seq(Int) /\ Len(h \o v) = Len(h) + Len(v) /\ Len(v) \in Nat /\ Len(h) \in Nat
    BY <2>2, <2>5, ConcatProperties, LenProperties
  <2> QED
    BY <2>4, <2>5, <2>6
<1> QED
  BY <1>1, <1>2, <1>3, <1>4

LEMMA Differ ==
  ASSUME NEW a \in BOOLEAN, NEW b \in BOOLEAN, NEW x \in BOOLEAN, NEW y \in BOOLEAN,
         a <=> x, b <=> y
  PROVE  a # b <=> y # x
OBVIOUS

LEMMA PieceTurn ==
  ASSUME NEW t, IsPiece(t), NEW p \in Seq(Int), NEW s \in Seq(Int), NEW i \in Int,
         Shows(p, i, Text(t))
  PROVE  IsTurn(t, p, s, i)
<1>1. t.kind \in {"star", "any", "char", "class"}
  BY DEF IsPiece
<1>2. Text(t) \in Seq(Int) /\ Len(Text(t)) >= 1
  BY TextType
<1>3. i \in 1 .. Len(p) /\ p[i] = Text(t)[1] /\ Len(p) \in Nat /\ DOMAIN p = 1 .. Len(p)
  <2>1. i \in 1 .. Len(p) /\ p[i] = Text(t)[1]
    BY <1>2, FirstShown
  <2> QED
    BY <2>1, LenProperties
<1>4. \A j \in 1 .. Len(s) : At(s, j) = s[j] /\ s[j] \in Int /\ j <= Len(s)
  BY DEF At
<1>5. CASE t.kind = "star"
  <2>1. Text(t) = <<Star>>
    BY <1>5, PieceTextIs
  <2>2. p[i] = Star /\ Len(Text(t)) = 1
    BY <1>3, <2>1
  <2>3. NextAt(p, s, i) = i + 1
    BY <1>3, <2>2 DEF NextAt, Star, Backslash, Open
  <2> QED
    BY <1>3, <1>5, <2>2, <2>3 DEF IsTurn
<1>6. CASE t.kind = "any"
  <2>1. Text(t) = <<Question>>
    BY <1>6, PieceTextIs
  <2>2. p[i] = Question /\ Len(Text(t)) = 1
    BY <1>3, <2>1
  <2>3. NextAt(p, s, i) = i + 1
    BY <1>3, <2>2 DEF NextAt, Question, Backslash, Open
  <2>4. \A j \in 1 .. Len(s) : OneAt(p, s, i, j)
    BY <1>4, <2>2 DEF OneAt, Open, Question
  <2>5. \A c : StandsFor(t, c)
    BY <1>6, StandsForIs
  <2>6. Question # Star
    BY DEF Question, Star
  <2> QED
    BY <1>3, <1>6, <2>2, <2>3, <2>4, <2>5, <2>6 DEF IsTurn
<1>7. CASE t.kind = "char"
  <2>0. Text(t) = Character(t) /\ IsCharacter(t, {Star, Question, Open, Backslash})
    BY <1>7, PieceTextIs DEF IsPiece
  <2>1. \A c : StandsFor(t, c) <=> c = t.c
    BY <1>7, StandsForIs
  <2>2. CASE t.quoted
    <3>1. Text(t) = <<Backslash, t.c>> /\ t.c \in Int
      BY <2>0, <2>2 DEF Character, IsCharacter
    <3>2. Len(Text(t)) = 2 /\ 2 \in 1 .. 2 /\ i - 1 + 2 = i + 1 /\ Text(t)[1] = Backslash /\ Text(t)[2] = t.c
      BY <3>1
    <3>3. i + 1 \in 1 .. Len(p) /\ p[i + 1] = t.c /\ p[i] = Backslash
      BY <1>3, <3>2 DEF Shows
    <3>4. i < Len(p) /\ Backslash # Open /\ Backslash # Question /\ Backslash # Star
      BY <1>3, <3>3 DEF Backslash, Open, Question, Star
    <3>5. NextAt(p, s, i) = i + 2
      BY <3>3, <3>4 DEF NextAt
    <3>6. \A j \in 1 .. Len(s) : OneAt(p, s, i, j) <=> s[j] = t.c
      BY <1>4, <3>3, <3>4 DEF OneAt
    <3> QED
      BY <1>3, <1>7, <2>1, <3>2, <3>3, <3>4, <3>5, <3>6 DEF IsTurn
  <2>3. CASE ~t.quoted
    <3>1. Text(t) = <<t.c>> /\ t.c \in Int /\ t.c \notin {Star, Question, Open, Backslash}
      BY <2>0, <2>3 DEF Character, IsCharacter
    <3>2. Len(Text(t)) = 1 /\ p[i] = t.c
      BY <1>3, <3>1
    <3>3. NextAt(p, s, i) = i + 1
      BY <3>1, <3>2 DEF NextAt
    <3>4. \A j \in 1 .. Len(s) : OneAt(p, s, i, j) <=> s[j] = t.c
      BY <1>4, <3>1, <3>2 DEF OneAt
    <3> QED
      BY <1>3, <1>7, <2>1, <3>1, <3>2, <3>3, <3>4 DEF IsTurn
  <2> QED
    BY <2>2, <2>3
<1>8. CASE t.kind = "class"
  <2> DEFINE all == ItemTexts(t)
             v == all \o <<Close>>
             k == IF t.not THEN i + 2 ELSE i + 1
             has(c) == \E x \in DOMAIN t.items : ItemHas(t.items[x], c)
  <2>1. IsClass(t) /\ t.not \in BOOLEAN
    BY <1>8 DEF IsPiece, IsClass
  <2>2. all \in Seq(Int) /\ v \in Seq(Int) /\ Len(v) = Len(all) + 1 /\ (~t.not => v[1] # Caret)
    BY <2>1, ItemTextsAre
  <2>3. \A c : StandsFor(t, c) <=> t.not # has(c)
    BY <1>8, StandsForIs
  <2>4. /\ p[i] = Open /\ (At(p, i + 1) = Caret <=> t.not) /\ Shows(p, k, v)
        /\ Len(Text(t)) = k - i + Len(v)
    <3> HIDE DEF v
    <3>1. CASE t.not
      <4> DEFINE h == <<Open, Caret>>
      <4>1. Text(t) = h \o v
        BY <1>8, <3>1, PieceTextIs DEF v
      <4>2. h \in Seq(Int) /\ Len(h) = 2 /\ h[1] = Open /\ h[2] = Caret
        BY DEF Open, Caret
      <4> HIDE DEF h
      <4>3. Shows(p, i, h) /\ Shows(p, i + Len(h), v)
        BY <2>2, <4>1, <4>2, ShowsParts
      <4>4. 1 \in 1 .. 2 /\ 2 \in 1 .. 2 /\ i - 1 + 1 = i /\ i - 1 + 2 = i + 1
        OBVIOUS
      <4>5. p[i] = Open /\ i + 1 \in 1 .. Len(p) /\ p[i + 1] = Caret
        BY <4>2, <4>3, <4>4 DEF Shows
      <4>6. At(p, i + 1) = Caret
        BY <1>3, <4>5 DEF At
      <4>7. Len(Text(t)) = 2 + Len(v)
        <5>1. h \o v \in Seq(Int) /\ Len(h \o v) = Len(h) + Len(v)
          BY <2>2, <4>2, ConcatProperties
        <5> QED
          BY <4>1, <4>2, <5>1
      <4>8. k = i + 2 /\ k - i = 2
        BY <3>1
      <4> QED
        BY <3>1, <4>2, <4>3, <4>5, <4>6, <4>7, <4>8
    <3>2. CASE ~t.not
      <4> DEFINE h == <<Open>>
      <4>1. Text(t) = h \o v
        BY <1>8, <3>2, PieceTextIs DEF v
      <4>2. h \in Seq(Int) /\ Len(h) = 1 /\ h[1] = Open
        BY DEF Open
      <4> HIDE DEF h
      <4>3. Shows(p, i, h) /\ Shows(p, i + Len(h), v)
        BY <2>2, <4>1, <4>2, ShowsParts
      <4>4. Len(h) >= 1
        BY <4>2
      <4>5. p[i] = Open
        BY <4>2, <4>3, <4>4, FirstShown
      <4>6. At(p, i + 1) = v[1]
        <5>1. Len(v) >= 1 /\ i + 1 \in Int /\ Shows(p, i + 1, v)
          BY <2>2, <4>2, <4>3
        <5> QED
          BY <2>2, <5>1, FirstShown
      <4>7. Len(Text(t)) = 1 + Len(v)
        <5>1. h \o v \in Seq(Int) /\ Len(h \o v) = Len(h) + Len(v)
          BY <2>2, <4>2, ConcatProperties
        <5> QED
          BY <4>1, <4>2, <5>1
      <4>8. k = i + 1 /\ k - i = 1
        BY <3>2
      <4> QED
        BY <2>2, <3>2, <4>2, <4>3, <4>5, <4>6, <4>7, <4>8
    <3> QED
      BY <2>1, <3>1, <3>2
  <2>5. ASSUME NEW c \in Int
        PROVE  Class(p, k, c).next = k + Len(all) + 1 /\ (Class(p, k, c).match <=> has(c))
    <3>1. k \in Int
      OBVIOUS
    <3>2. Shows(p, k, FlattenSeq([x \in DOMAIN t.items |-> ItemText(t.items[x])]) \o <<Close>>)
      BY <2>4 DEF ItemTexts
    <3> HIDE DEF k
    <3> QED
      BY <2>1, <3>1, <3>2, ClassMatches DEF ItemTexts
  <2>6. (IF At(p, i + 1) = Caret THEN i + 2 ELSE i + 1) = k
    BY <2>4
  <2>7. NextAt(p, s, i) = i + Len(Text(t))
    <3>1. At(s, 1) \in Int
      BY DEF At
    <3>2. NextAt(p, s, i) = Class(p, k, At(s, 1)).next
      BY <2>4, <2>6 DEF NextAt
    <3>3. NextAt(p, s, i) = k + Len(all) + 1
      BY <2>5, <3>1, <3>2
    <3>4. Len(all) \in Nat /\ k \in Int
      BY <2>2
    <3> HIDE DEF all, v, k
    <3> QED
      BY <2>2, <2>4, <3>3, <3>4
  <2>8. ASSUME NEW j \in 1 .. Len(s)
        PROVE  OneAt(p, s, i, j) <=> StandsFor(t, s[j])
    <3> DEFINE c == s[j]
               not == At(p, i + 1) = Caret
    <3>1. At(s, j) = c /\ c \in Int
      BY <1>4
    <3>2. OneAt(p, s, i, j) <=> Class(p, k, c).match # not
      BY <2>4, <2>6, <3>1 DEF OneAt, Open, Question
    <3>3. Class(p, k, c).match <=> has(c)
      BY <2>5, <3>1
    <3>4. PICK f : IsClassLoop(f, p, c)
      BY ClassIs
    <3>5. Class(p, k, c).match \in BOOLEAN
      <4>1. k \in 1 .. Len(p) + 2
        BY <1>3
      <4> HIDE DEF k
      <4> QED
        BY <3>4, <4>1 DEF IsClassLoop
    <3>6. (not <=> t.not) /\ not \in BOOLEAN
      BY <2>4
    <3>7. StandsFor(t, c) <=> t.not # has(c)
      BY <2>3
    <3> DEFINE m == Class(p, k, c).match
               h == has(c)
               tn == t.not
    <3>8. h \in BOOLEAN
      OBVIOUS
    <3>9. /\ OneAt(p, s, i, j) <=> m # not
          /\ m <=> h
          /\ not <=> tn
          /\ StandsFor(t, c) <=> tn # h
          /\ m \in BOOLEAN /\ not \in BOOLEAN /\ tn \in BOOLEAN
      <4> HIDE DEF not, k, c
      <4> QED
        BY <2>1, <3>2, <3>3, <3>5, <3>6, <3>7
    <3> HIDE DEF not, c, m, tn, h
    <3>10. m # not <=> tn # h
      BY <3>8, <3>9, Differ
    <3>11. OneAt(p, s, i, j) <=> StandsFor(t, c)
      BY <3>9, <3>10
    <3> QED
      BY <3>11 DEF c
  <2>9. Open # Star
    BY DEF Open, Star
  <2> QED
    BY <1>3, <1>8, <2>4, <2>7, <2>8, <2>9 DEF IsTurn
<1> QED
  BY <1>1, <1>5, <1>6, <1>7, <1>8
\* The positions at which what follows i in the pattern begins.
IsBehind(B, p, s, i) ==
  B \subseteq 1 .. Len(s) + 1 /\ (Len(s) + 1 \in B <=> AllStars(p, i))

LEMMA TurnFits ==
  ASSUME NEW p \in Seq(Int), NEW s \in Seq(Int), NEW t, NEW i \in Int, IsTurn(t, p, s, i),
         NEW B, IsBehind(B, p, s, i + Len(Text(t)))
  PROVE  MatchesAt(p, s, i, B) = FitsAt(t, s, B) /\ IsBehind(FitsAt(t, s, B), p, s, i)
<1> DEFINE n == Len(s)
<1>1. n \in Nat /\ Len(p) \in Nat /\ i \in 1 .. Len(p)
  BY LenProperties DEF IsTurn
<1>2. B \subseteq 1 .. n + 1
  BY DEF IsBehind
<1>3. CASE t.kind = "star"
  <2>1. p[i] = Star /\ i + Len(Text(t)) = i + 1
    BY <1>3 DEF IsTurn
  <2>2. n + 1 \in B <=> AllStars(p, i + 1)
    BY <2>1 DEF IsBehind
  <2>3. \A k \in i .. Len(p) : k = i \/ k \in i + 1 .. Len(p)
    OBVIOUS
  <2>4. AllStars(p, i + 1) <=> AllStars(p, i)
    BY <2>1, <2>3 DEF AllStars
  <2>5. FitsAt(t, s, B) = {j \in 1 .. n + 1 : \E k \in B : j <= k}
    BY <1>3 DEF FitsAt
  <2>6. MatchesAt(p, s, i, B) = {j \in 1 .. n + 1 : AllStars(p, i) \/ \E k \in j .. n : k \in B}
    BY <2>1 DEF MatchesAt, StarMatches
  <2>7. ASSUME NEW j \in 1 .. n + 1
        PROVE  (\E k \in B : j <= k) <=> AllStars(p, i) \/ \E k \in j .. n : k \in B
    <3>1. \A k \in B : j <= k => k = n + 1 \/ k \in j .. n
      BY <1>1, <1>2
    <3>2. \A k \in j .. n : j <= k
      OBVIOUS
    <3>3. j <= n + 1
      BY <1>1
    <3> HIDE DEF n
    <3> QED
      BY <2>2, <2>4, <3>1, <3>2, <3>3
  <2>8. (n + 1 \in {j \in 1 .. n + 1 : \E k \in B : j <= k}) <=> n + 1 \in B
    BY <1>1, <1>2
  <2>9. MatchesAt(p, s, i, B) = FitsAt(t, s, B)
    <3> HIDE DEF n
    <3> QED
      BY <2>5, <2>6, <2>7
  <2> QED
    BY <2>2, <2>4, <2>5, <2>8, <2>9 DEF IsBehind
<1>4. CASE t.kind # "star"
  <2>1. p[i] # Star /\ NextAt(p, s, i) = i + Len(Text(t))
    BY <1>4 DEF IsTurn
  <2>2. n + 1 \in B <=> AllStars(p, NextAt(p, s, i))
    BY <2>1 DEF IsBehind
  <2>3. ~AllStars(p, i)
    <3>1. i \in i .. Len(p)
      BY <1>1
    <3> QED
      BY <2>1, <3>1 DEF AllStars
  <2>4. FitsAt(t, s, B) = {j \in 1 .. n : StandsFor(t, s[j]) /\ j + 1 \in B}
    BY <1>4 DEF FitsAt
  <2> DEFINE Rest(j) == IF j = n THEN AllStars(p, NextAt(p, s, i)) ELSE j + 1 \in B
  <2>5. MatchesAt(p, s, i, B) = {j \in 1 .. n + 1 : OneAt(p, s, i, j) /\ Rest(j)}
    BY <2>1 DEF MatchesAt
  <2>6. \A j \in 1 .. n + 1 : Rest(j) <=> j + 1 \in B
    BY <2>2
  <2>7. n + 1 + 1 \notin B /\ n + 1 \notin 1 .. n
    BY <1>1, <1>2
  <2>8. \A j \in 1 .. n : OneAt(p, s, i, j) <=> StandsFor(t, s[j])
    BY <1>4 DEF IsTurn
  <2>9. \A j : j \in 1 .. n + 1 <=> j \in 1 .. n \/ j = n + 1
    BY <1>1
  <2>10. MatchesAt(p, s, i, B) = FitsAt(t, s, B)
    <3> HIDE DEF Rest, n
    <3> QED
      BY <2>4, <2>5, <2>6, <2>7, <2>8, <2>9
  <2>11. FitsAt(t, s, B) \subseteq 1 .. n + 1 /\ n + 1 \notin FitsAt(t, s, B)
    <3> HIDE DEF n
    <3> QED
      BY <2>4, <2>7, <2>9
  <2> QED
    BY <2>3, <2>10, <2>11 DEF IsBehind
<1> QED
  BY <1>3, <1>4

\* A pattern that is written as pieces matches what they fit.
LEMMA PiecesMatch ==
  ASSUME NEW P, P \in Seq(Range(P)), \A t \in Range(P) : IsPiece(t), NEW s \in Seq(Int)
  PROVE  Matches(FlattenSeq([i \in DOMAIN P |-> Text(P[i])]), s) = Fits(P, s)
<1> DEFINE n == Len(P)
           ss == [i \in DOMAIN P |-> Text(P[i])]
           p == FlattenSeq(ss)
           W == Seq(Int)
<1>1. n \in Nat /\ DOMAIN P = 1 .. n /\ \A k \in 1 .. n : IsPiece(P[k])
  <2>1. n \in Nat /\ DOMAIN P = 1 .. n
    BY LenProperties
  <2>2. \A k \in DOMAIN P : P[k] \in Range(P)
    BY DEF Range
  <2> QED
    BY <2>1, <2>2
<1>2. /\ ss \in Seq(Seq(Int)) /\ Len(ss) = n
      /\ \A k \in 1 .. n : ss[k] = Text(P[k]) /\ ss[k] \in Seq(Int)
  <2>1. \A k \in 1 .. n : Text(P[k]) \in Seq(Int)
    BY <1>1, TextType
  <2> HIDE DEF n
  <2> QED
    BY <1>1, <2>1
<1> HIDE DEF ss, n
<1>3. PICK r : Leaves(r, ss, n, W) /\ p = r[0]
  <2>1. \E r : Leaves(r, ss, Len(ss), Seq(Int)) /\ FlattenSeq(ss) = r[0]
    BY <1>2, FlattenLeaves
  <2> QED
    BY <1>2, <2>1
<1> DEFINE at(k) == Len(p) + 1 - Len(r[k])
<1>4. /\ p \in W /\ Len(p) \in Nat
      /\ \A k \in 0 .. n : r[k] \in W /\ Len(r[k]) \in Nat /\ at(k) \in Int
  <2>1. \A k \in 0 .. n : r[k] \in W
    BY <1>3 DEF Leaves
  <2>2. 0 \in 0 .. n
    BY <1>1
  <2>3. p \in W
    BY <1>3, <2>1, <2>2
  <2>4. \A v \in W : Len(v) \in Nat
    BY LenProperties
  <2> HIDE DEF p, W
  <2> QED
    BY <2>1, <2>3, <2>4
<1> HIDE DEF p
<1>5. ASSUME NEW k \in 1 .. n
      PROVE  r[k - 1] = ss[k] \o r[k] /\ at(k) = at(k - 1) + Len(ss[k])
  <2>1. r[k - 1] = ss[k] \o r[k]
    BY <1>3 DEF Leaves
  <2>2. k \in 0 .. n /\ k - 1 \in 0 .. n
    BY <1>1
  <2> DEFINE v == r[k]
             x == ss[k]
  <2>3. v \in Seq(Int) /\ x \in Seq(Int)
    BY <1>2, <1>4, <2>2
  <2> HIDE DEF v, x
  <2>4. Len(x \o v) = Len(x) + Len(v) /\ Len(x) \in Nat /\ Len(v) \in Nat
    BY <2>3, ConcatProperties, LenProperties
  <2>5. Len(r[k - 1]) = Len(ss[k]) + Len(r[k])
    BY <2>1, <2>4 DEF v, x
  <2> QED
    BY <1>4, <2>1, <2>4, <2>5 DEF v, x
<1>6. \A k \in 0 .. n : Shows(p, at(k), r[k])
  <2> DEFINE S == {k \in 0 .. n : Shows(p, at(k), r[k])}
  <2>1. 0 \in S
    <3>1. 0 \in 0 .. n /\ r[0] = p /\ at(0) = 1
      BY <1>1, <1>3, <1>4
    <3>2. \A i \in 1 .. Len(p) : 1 - 1 + i = i
      OBVIOUS
    <3>3. Shows(p, 1, p)
      BY <3>2 DEF Shows
    <3> HIDE DEF at
    <3> QED
      BY <3>1, <3>3
  <2>2. ASSUME NEW k \in 1 .. n, k - 1 \in S
        PROVE  k \in S
    <3> DEFINE v == r[k]
               x == ss[k]
               b == at(k - 1)
    <3>1. k \in 0 .. n /\ k - 1 \in 0 .. n
      BY <1>1
    <3>2. v \in Seq(Int) /\ x \in Seq(Int) /\ b \in Int
      BY <1>2, <1>4, <3>1
    <3>3. Shows(p, b, x \o v)
      BY <1>5, <2>2
    <3>4. at(k) = b + Len(x)
      BY <1>5
    <3> HIDE DEF v, x, b, at
    <3>5. Shows(p, b + Len(x), v)
      BY <3>2, <3>3, ShowsParts
    <3>6. Shows(p, at(k), r[k])
      BY <3>4, <3>5 DEF v
    <3> QED
      BY <3>1, <3>6
  <2> HIDE DEF S
  <2>3. \A k \in 0 .. n : k \in S
    BY <1>1, <2>1, <2>2, Climb
  <2> QED
    BY <2>3 DEF S
<1>7. PICK m : IsMatching(m, p, s) /\ Matches(p, s) = (1 \in m[1])
  <2>1. p \in Seq(Int)
    BY <1>4
  <2> QED
    BY <2>1, MatchesIs
<1>8. PICK g : IsFitting(g, P, s) /\ Fits(P, s) = (1 \in g[1])
  <2>1. Len(P) \in Nat
    BY <1>1 DEF n
  <2> QED
    BY <2>1, FitsIs
<1> HIDE DEF at
<1> DEFINE Good(k) == m[at(k)] = g[k + 1] /\ IsBehind(g[k + 1], p, s, at(k))
<1>9. Good(n)
  <2>1. n \in 0 .. n /\ r[n] = <<>> /\ Len(r[n]) = 0
    <3>1. r[n] = <<>>
      BY <1>3 DEF Leaves
    <3> QED
      BY <1>1, <3>1
  <2>2. at(n) = Len(p) + 1
    BY <1>4, <2>1 DEF at
  <2>3. at(n) \in 1 .. Len(p) + 1 /\ at(n) > Len(p)
    BY <1>4, <2>2
  <2>4. m[at(n)] = {Len(s) + 1}
    BY <1>7, <2>3 DEF IsMatching
  <2>5. n + 1 \in 1 .. n + 1 /\ n + 1 > n
    BY <1>1
  <2>6. g[n + 1] = {Len(s) + 1}
    BY <1>8, <2>5 DEF IsFitting, n
  <2>7. AllStars(p, at(n))
    <3>1. at(n) .. Len(p) = {}
      BY <1>4, <2>2
    <3> QED
      BY <3>1 DEF AllStars
  <2>8. Len(s) + 1 \in 1 .. Len(s) + 1
    BY LenProperties
  <2> QED
    BY <2>4, <2>6, <2>7, <2>8 DEF IsBehind
<1>10. ASSUME NEW k \in 1 .. n, Good(k)
       PROVE  Good(k - 1)
  <2> DEFINE b == at(k - 1)
             t == P[k]
             x == Text(t)
             B == g[k + 1]
             v == r[k]
  <2>1. k \in 0 .. n /\ k - 1 \in 0 .. n /\ IsPiece(t) /\ ss[k] = x
    BY <1>1, <1>2
  <2>2. b \in Int /\ x \in Seq(Int) /\ v \in Seq(Int) /\ at(k) = b + Len(x)
    BY <1>2, <1>4, <1>5, <2>1
  <2>3. Shows(p, b, x)
    <3>1. Shows(p, b, x \o v)
      BY <1>5, <1>6, <2>1
    <3> HIDE DEF v, b, x
    <3> QED
      BY <2>2, <3>1, ShowsParts
  <2>4. IsTurn(t, p, s, b)
    <3>1. p \in Seq(Int)
      BY <1>4
    <3> HIDE DEF b, t
    <3> QED
      BY <2>1, <2>2, <2>3, <3>1, PieceTurn
  <2>5. b \in 1 .. Len(p) /\ NextAt(p, s, b) = at(k)
    BY <2>2, <2>4 DEF IsTurn
  <2>6. m[b] = MatchesAt(p, s, b, m[at(k)])
    <3>1. b \in 1 .. Len(p) + 1 /\ ~(b > Len(p))
      BY <1>4, <2>5
    <3> HIDE DEF b
    <3> QED
      BY <1>7, <2>5, <3>1 DEF IsMatching
  <2>7. g[k] = FitsAt(t, s, B)
    <3>1. k \in 1 .. n + 1 /\ ~(k > n)
      BY <1>1
    <3> QED
      BY <1>8, <3>1 DEF IsFitting, n
  <2>8. m[at(k)] = B /\ IsBehind(B, p, s, b + Len(Text(t)))
    BY <1>10, <2>2
  <2>9. MatchesAt(p, s, b, B) = FitsAt(t, s, B) /\ IsBehind(FitsAt(t, s, B), p, s, b)
    <3>1. p \in Seq(Int)
      BY <1>4
    <3> HIDE DEF b, t, B
    <3> QED
      BY <2>2, <2>4, <2>8, <3>1, TurnFits
  <2>10. k - 1 + 1 = k
    BY <1>1
  <2> QED
    BY <2>6, <2>7, <2>8, <2>9, <2>10
<1> HIDE DEF Good
<1> DEFINE T == {d \in 0 .. n : Good(n - d)}
<1>11. \A d \in 0 .. n : d \in T
  <2>1. 0 \in T
    <3>1. n - 0 = n /\ 0 \in 0 .. n
      BY <1>1
    <3> QED
      BY <1>9, <3>1
  <2>2. ASSUME NEW d \in 1 .. n, d - 1 \in T
        PROVE  d \in T
    <3> DEFINE k == n - (d - 1)
    <3>1. k \in 1 .. n /\ k - 1 = n - d /\ d \in 0 .. n
      BY <1>1
    <3>2. Good(k)
      BY <2>2
    <3> HIDE DEF k
    <3>3. Good(k - 1)
      BY <1>10, <3>1, <3>2
    <3> QED
      BY <3>1, <3>3
  <2> HIDE DEF T
  <2> QED
    BY <1>1, <2>1, <2>2, Climb
<1>12. Good(0)
  <2>1. n \in 0 .. n /\ n - n = 0
    BY <1>1
  <2>2. Good(n - n)
    BY <1>11, <2>1
  <2> QED
    BY <2>1, <2>2
<1>13. m[1] = g[1]
  <2>1. at(0) = 1
    BY <1>3, <1>4 DEF at
  <2> QED
    BY <1>12, <2>1 DEF Good
<1>14. Matches(p, s) = Fits(P, s)
  BY <1>7, <1>8, <1>13
<1> QED
  BY <1>14 DEF p, ss

-----------------------------------------------------------------------------
\* KEYS answers with the keys that its pattern describes (stringmatchlen): for any
\* well-formed pattern and any key.
THEOREM GlobsAreRightHolds == Spec => []GlobsAreRight
<1>1. Init => GlobsAreRight
  BY DEF Init, GlobsAreRight
<1>2. ASSUME GlobsAreRight, [Next]_input
      PROVE  GlobsAreRight'
  <2>1. CASE UNCHANGED input
    BY <1>2, <2>1 DEF GlobsAreRight
  <2>2. CASE Next
    <3>1. CASE \E P \in Globs, s \in Keynames : Choose([kind |-> "glob", p |-> P, s |-> s])
      <4>1. PICK P \in Globs, s \in Keynames : input' = [kind |-> "glob", p |-> P, s |-> s]
        BY <3>1 DEF Choose
      <4>2. input'.p = P /\ input'.s = s
        BY <4>1
      <4>3. Matches(FlattenSeq([i \in DOMAIN P |-> Text(P[i])]), s) = Fits(P, s)
        <5>1. P \in Seq(Range(P)) /\ \A t \in Range(P) : IsPiece(t)
          BY GlobsAssumption
        <5>2. s \in Seq(Int)
          BY KeynamesAssumption
        <5> QED
          BY <5>1, <5>2, PiecesMatch
      <4> QED
        BY <4>2, <4>3 DEF GlobsAreRight
    <3>2. CASE ~\E P \in Globs, s \in Keynames : Choose([kind |-> "glob", p |-> P, s |-> s])
      <4>1. input'.kind # "glob"
        BY <2>2, <3>2 DEF Next, Choose
      <4> QED
        BY <4>1 DEF GlobsAreRight
    <3> QED
      BY <3>1, <3>2
  <2> QED
    BY <1>2, <2>1, <2>2
<1> QED
  BY <1>1, <1>2, PTL DEF Spec

===============================================================================
