---------------------------- MODULE ClientsProofs -----------------------------
(***************************************************************************)
(* Theorems about Clients, for any connections, descriptors, streams and   *)
(* bounds.                                                                 *)
(*                                                                         *)
(* A handler is one step of the loop and many of the program: it goes      *)
(* through lines, slaves or the reply list.  Good(s) is what holds between *)
(* two of those: every open connection is sound, has one readable event    *)
(* and the writable ones its replies call for, and no event is another's.  *)
(* Handled(s, t, c) is what any of them may do for the client c: leave it  *)
(* open, or free it and every event it has; the others are given replies   *)
(* and are otherwise as they were (Spares).                                *)
(*                                                                         *)
(* Once a client is freed that has two writable events (early), one of     *)
(* them stays in the list with a freed client in it.  What the program     *)
(* does from there on is undefined, and nothing is said of it.             *)
(***************************************************************************)
EXTENDS Clients, Induction, FiniteSetTheorems, FunctionTheorems, SequenceTheorems

-----------------------------------------------------------------------------
(* One connection: what has been written to it, what is being sent of the  *)
(* head of its reply list, and what is queued behind it.  It is sound when *)
(* its fields fit each other and what it was written and is still to be    *)
(* written, without the dump, is what it is owed (Ordered).  Adding a      *)
(* reply, glueing, a write of part of the head, the whole loop of          *)
(* sendReplyToClient and a block of the dump each keep it sound, for       *)
(* units, buffers and replies of any size.                                 *)

Units == Seq(Unit)

-----------------------------------------------------------------------------
(* The units of a list of objects, one after the other.                    *)

Flats(f, q) == f = [i \in 1 .. Len(q) |-> IF i = 1 THEN q[i] ELSE f[i - 1] \o q[i]]

LEMMA FlatsExist ==
  ASSUME NEW q, Len(q) \in Nat
  PROVE  \E f : Flats(f, q)
<1> DEFINE Plus(a, b) == a \o b
           Steps(f, m) == f = [i \in 1 .. m |-> IF i = 1 THEN q[i] ELSE Plus(f[i - 1], q[i])]
           Fine == {m \in Nat : \E f : Steps(f, m)}
<1> HIDE DEF Plus
<1>1. 0 \in Fine
  <2>1. Steps([i \in 1 .. 0 |-> q[i]], 0)
    OBVIOUS
  <2>2. \E f : Steps(f, 0)
    BY <2>1
  <2> HIDE DEF Steps
  <2> QED
    BY <2>2
<1>2. ASSUME NEW m \in Nat, m \in Fine
      PROVE  m + 1 \in Fine
  <2>1. PICK f : Steps(f, m)
    BY <1>2
  <2> DEFINE r == [i \in 1 .. m + 1 |-> IF i = 1 THEN q[i]
                                        ELSE IF i = m + 1 THEN Plus(f[m], q[m + 1]) ELSE f[i]]
  <2>2. ASSUME NEW i \in 1 .. m + 1
        PROVE  r[i] = IF i = 1 THEN q[i] ELSE Plus(r[i - 1], q[i])
    <3>1. CASE i = 1
      BY <3>1
    <3>2. CASE i = m + 1 /\ i # 1
      <4>1. m \in 1 .. m /\ r[m] = IF m = 1 THEN q[m] ELSE f[m]
        BY <3>2
      <4>2. r[m] = f[m]
        BY <2>1, <4>1
      <4>3. r[m + 1] = Plus(f[m], q[m + 1]) /\ (m + 1) - 1 = m /\ m + 1 # 1
        BY <3>2
      <4> HIDE DEF r
      <4> QED
        BY <3>2, <4>2, <4>3
    <3>3. CASE i \in 2 .. m
      <4>1. i - 1 \in 1 .. m
        BY <3>3
      <4>2. r[i - 1] = f[i - 1]
        BY <2>1, <4>1
      <4>3. r[i] = f[i] /\ i # 1
        BY <3>3
      <4>4. f[i] = Plus(f[i - 1], q[i])
        BY <2>1, <3>3
      <4> HIDE DEF r
      <4> QED
        BY <4>2, <4>3, <4>4
    <3> QED
      BY <3>1, <3>2, <3>3
  <2>3. Steps(r, m + 1)
    BY <2>2
  <2> HIDE DEF r
  <2>4. \E g : Steps(g, m + 1)
    BY <2>3, Zenon
  <2> HIDE DEF Steps
  <2> QED
    BY <2>4
<1> HIDE DEF Fine
<1>3. Len(q) \in Fine
  BY <1>1, <1>2, NatRange
<1> QED
  BY <1>3 DEF Fine, Flats, Plus

\* Adds[i]: the units of the first i objects.
Adds(f, q) ==
  /\ f \in [0 .. Len(q) -> Units]
  /\ f[0] = <<>>
  /\ \A i \in 1 .. Len(q) : f[i] = f[i - 1] \o q[i]

LEMMA FlattenAdds ==
  ASSUME NEW q \in Seq(Units)
  PROVE  \E f : Adds(f, q) /\ FlattenSeq(q) = f[Len(q)]
<1> DEFINE n == Len(q)
           g == CHOOSE f : Flats(f, q)
           Plus(a, b) == a \o b
           f == [i \in 0 .. n |-> IF i = 0 THEN <<>> ELSE g[i]]
<1>1. n \in Nat /\ \A i \in 1 .. n : q[i] \in Units
  BY DEF Units
<1>2. Flats(g, q)
  BY <1>1, FlatsExist
<1>3. n # 0 => FlattenSeq(q) = g[n]
  BY <1>1 DEF FlattenSeq, Flats
<1>4. n = 0 => FlattenSeq(q) = <<>>
  BY DEF FlattenSeq
<1> HIDE DEF g
<1>5. \A i \in 1 .. n : g[i] = IF i = 1 THEN q[i] ELSE Plus(g[i - 1], q[i])
  BY <1>2 DEF Flats
<1> HIDE DEF Plus
<1>6. \A i \in 1 .. n : f[i - 1] \in Units => f[i] = f[i - 1] \o q[i] /\ f[i] \in Units
  <2> SUFFICES ASSUME NEW i \in 1 .. n, f[i - 1] \in Units
               PROVE  f[i] = f[i - 1] \o q[i] /\ f[i] \in Units
    OBVIOUS
  <2>1. q[i] \in Units /\ <<>> \o q[i] = q[i]
    BY <1>1 DEF Units
  <2>2. f[i] = f[i - 1] \o q[i]
    <3>1. CASE i = 1
      <4>1. f[0] = <<>> /\ f[1] = g[1] /\ g[1] = q[1]
        BY <1>1, <1>5, <3>1
      <4> HIDE DEF f
      <4>2. i - 1 = 0
        BY <3>1
      <4> QED
        BY <2>1, <3>1, <4>1, <4>2
    <3>2. CASE i # 1
      <4>1. f[i] = g[i] /\ f[i - 1] = g[i - 1] /\ g[i] = Plus(g[i - 1], q[i])
        BY <1>1, <1>5, <3>2
      <4> HIDE DEF f
      <4> QED
        BY <4>1 DEF Plus
    <3> QED
      BY <3>1, <3>2
  <2> HIDE DEF f
  <2> QED
    BY <2>1, <2>2 DEF Units
<1> DEFINE Fine == {i \in Nat : i <= n => f[i] \in Units}
<1>7. 0 \in Fine
  BY <1>1 DEF Units
<1>8. \A i \in Nat : i \in Fine => i + 1 \in Fine
  <2> SUFFICES ASSUME NEW i \in Nat, i \in Fine, i + 1 <= n
               PROVE  f[i + 1] \in Units
    OBVIOUS
  <2>1. i + 1 \in 1 .. n /\ (i + 1) - 1 = i /\ f[i] \in Units
    BY <1>1
  <2> HIDE DEF f, Fine
  <2> QED
    BY <1>6, <2>1
<1>9. \A i \in 0 .. n : f[i] \in Units
  <2> HIDE DEF f
  <2>1. Nat \subseteq Fine
    <3> HIDE DEF Fine
    <3> QED
      BY <1>7, <1>8, NatRange
  <2> QED
    BY <1>1, <2>1
<1>10. Adds(f, q)
  <2>1. f[0] = <<>>
    BY <1>1
  <2>2. \A i \in 1 .. n : f[i] = f[i - 1] \o q[i]
    <3> SUFFICES ASSUME NEW i \in 1 .. n
                 PROVE  f[i] = f[i - 1] \o q[i]
      OBVIOUS
    <3>1. i - 1 \in 0 .. n
      BY <1>1
    <3> HIDE DEF f
    <3> QED
      BY <1>6, <1>9, <3>1
  <2>3. f \in [0 .. n -> Units]
    BY <1>9
  <2> HIDE DEF f
  <2> QED
    BY <2>1, <2>2, <2>3 DEF Adds
<1>11. FlattenSeq(q) = f[n]
  BY <1>1, <1>3, <1>4
<1> HIDE DEF f
<1> QED
  BY <1>10, <1>11

LEMMA AddsAgree ==
  ASSUME NEW q, NEW r, NEW f, NEW g, Adds(f, q), Adds(g, r), NEW n \in Nat,
         Len(q) \in Nat, Len(r) \in Nat, n <= Len(q), n <= Len(r),
         \A i \in 1 .. n : q[i] = r[i]
  PROVE  f[n] = g[n]
<1> DEFINE Fine == {i \in Nat : i <= n => f[i] = g[i]}
<1>1. 0 \in Fine
  BY DEF Adds
<1>2. \A i \in Nat : i \in Fine => i + 1 \in Fine
  <2> SUFFICES ASSUME NEW i \in Nat, i \in Fine, i + 1 <= n
               PROVE  f[i + 1] = g[i + 1]
    OBVIOUS
  <2>1. i + 1 \in 1 .. Len(q) /\ i + 1 \in 1 .. Len(r) /\ i + 1 \in 1 .. n /\ (i + 1) - 1 = i
    OBVIOUS
  <2>2. f[i] = g[i]
    OBVIOUS
  <2> QED
    BY <2>1, <2>2 DEF Adds
<1>3. n \in Fine
  <2> HIDE DEF Fine
  <2> QED
    BY <1>1, <1>2, NatRange
<1> QED
  BY <1>3

LEMMA FlattenEmpty == FlattenSeq(<<>>) = <<>>
BY DEF FlattenSeq

LEMMA FlattenType ==
  ASSUME NEW q \in Seq(Units)
  PROVE  FlattenSeq(q) \in Units
<1>1. PICK f : Adds(f, q) /\ FlattenSeq(q) = f[Len(q)]
  BY FlattenAdds
<1> QED
  BY <1>1 DEF Adds

LEMMA FlattenAppend ==
  ASSUME NEW q \in Seq(Units), NEW u \in Units
  PROVE  FlattenSeq(Append(q, u)) = FlattenSeq(q) \o u
<1> DEFINE r == Append(q, u)
           n == Len(q)
<1>1. r \in Seq(Units) /\ Len(r) = n + 1 /\ n \in Nat /\ r[n + 1] = u
  OBVIOUS
<1>2. \A i \in 1 .. n : q[i] = r[i]
  OBVIOUS
<1> HIDE DEF r
<1>3. PICK f : Adds(f, q) /\ FlattenSeq(q) = f[n]
  BY FlattenAdds
<1>4. PICK g : Adds(g, r) /\ FlattenSeq(r) = g[n + 1]
  BY <1>1, FlattenAdds
<1>5. f[n] = g[n]
  BY <1>1, <1>2, <1>3, <1>4, AddsAgree
<1>6. g[n + 1] = g[n] \o u
  <2>1. n + 1 \in 1 .. Len(r) /\ (n + 1) - 1 = n
    BY <1>1
  <2>2. g[n + 1] = g[(n + 1) - 1] \o r[n + 1]
    BY <1>4, <2>1 DEF Adds
  <2> QED
    BY <1>1, <2>1, <2>2
<1> QED
  BY <1>3, <1>4, <1>5, <1>6 DEF r

LEMMA Associative ==
  ASSUME NEW a \in Units, NEW b \in Units, NEW d \in Units
  PROVE  (a \o b) \o d = a \o (b \o d)
BY ConcatAssociative DEF Units

LEMMA FlattenHead ==
  ASSUME NEW q \in Seq(Units), q # <<>>
  PROVE  FlattenSeq(q) = Head(q) \o FlattenSeq(Tail(q))
<1> DEFINE r == Tail(q)
           n == Len(r)
           u == Head(q)
<1>1. /\ r \in Seq(Units) /\ Len(q) = n + 1 /\ n \in Nat /\ q[1] = u /\ u \in Units
      /\ \A i \in 1 .. n : r[i] = q[i + 1] /\ r[i] \in Units
  OBVIOUS
<1> HIDE DEF r, u
<1>2. PICK f : Adds(f, q) /\ FlattenSeq(q) = f[n + 1]
  BY <1>1, FlattenAdds
<1>3. PICK g : Adds(g, r) /\ FlattenSeq(r) = g[n]
  BY <1>1, FlattenAdds
<1> DEFINE Fine == {i \in Nat : i <= n => f[i + 1] = u \o g[i]}
<1>4. 0 \in Fine
  <2>1. f[1] = f[0] \o q[1] /\ f[0] = <<>> /\ g[0] = <<>>
    <3>1. 1 \in 1 .. Len(q) /\ 1 - 1 = 0
      BY <1>1
    <3>2. f[1] = f[1 - 1] \o q[1]
      BY <1>2, <3>1 DEF Adds
    <3> QED
      BY <1>2, <1>3, <3>1, <3>2 DEF Adds
  <2>2. <<>> \o u = u /\ u \o <<>> = u
    BY <1>1 DEF Units
  <2>3. f[0 + 1] = u \o g[0]
    BY <1>1, <2>1, <2>2
  <2> QED
    BY <2>3
<1>5. \A i \in Nat : i \in Fine => i + 1 \in Fine
  <2> SUFFICES ASSUME NEW i \in Nat, i \in Fine, i + 1 <= n
               PROVE  f[(i + 1) + 1] = u \o g[i + 1]
    OBVIOUS
  <2>1. f[i + 1] = u \o g[i]
    OBVIOUS
  <2>2. (i + 1) + 1 \in 1 .. Len(q) /\ ((i + 1) + 1) - 1 = i + 1 /\ i + 1 \in 1 .. n
        /\ (i + 1) - 1 = i /\ i \in 0 .. n
    BY <1>1
  <2>3. f[(i + 1) + 1] = f[i + 1] \o q[(i + 1) + 1] /\ g[i + 1] = g[i] \o r[i + 1]
    BY <1>2, <1>3, <2>2 DEF Adds
  <2>4. q[(i + 1) + 1] = r[i + 1] /\ r[i + 1] \in Units /\ g[i] \in Units
    BY <1>1, <1>3, <2>2 DEF Adds
  <2>5. (u \o g[i]) \o r[i + 1] = u \o (g[i] \o r[i + 1])
    BY <1>1, <2>4, Associative
  <2> QED
    BY <2>1, <2>3, <2>4, <2>5
<1>6. n \in Fine
  <2> HIDE DEF Fine
  <2> QED
    BY <1>1, <1>4, <1>5, NatRange
<1>7. n \in Nat /\ n <= n
  BY <1>1
<1>8. f[n + 1] = u \o g[n]
  BY <1>6, <1>7
<1> QED
  BY <1>2, <1>3, <1>8 DEF r, u

LEMMA FlattenOne ==
  ASSUME NEW u \in Units
  PROVE  FlattenSeq(<<u>>) = u
<1>1. <<>> \in Seq(Units) /\ Append(<<>>, u) = <<u>> /\ <<>> \o u = u
  BY DEF Units
<1> QED
  BY <1>1, FlattenAppend, FlattenEmpty

-----------------------------------------------------------------------------
(* Parts of sequences of units.                                            *)

LEMMA One ==
  ASSUME NEW x \in Unit
  PROVE  <<x>> \in Units /\ Len(<<x>>) = 1 /\ <<x>>[1] = x
<1>1. Append(<<>>, x) = <<x>> /\ <<>> \in Seq(Unit)
  OBVIOUS
<1>2. Append(<<>>, x) \in Seq(Unit) /\ Len(Append(<<>>, x)) = 1 /\ Append(<<>>, x)[1] = x
  BY <1>1
<1> QED
  BY <1>1, <1>2 DEF Units

LEMMA SubUnits ==
  ASSUME NEW u \in Units, NEW a \in Nat, NEW b \in Nat, b <= Len(u)
  PROVE  /\ SubSeq(u, a + 1, b) \in Units
         /\ Len(SubSeq(u, a + 1, b)) = IF a <= b THEN b - a ELSE 0
         /\ \A i \in 1 .. b - a : SubSeq(u, a + 1, b)[i] = u[a + i]
BY DEF Units

LEMMA SubSplit ==
  ASSUME NEW u \in Units, NEW a \in Nat, NEW b \in Nat, a <= b, b <= Len(u)
  PROVE  SubSeq(u, a + 1, Len(u)) = SubSeq(u, a + 1, b) \o SubSeq(u, b + 1, Len(u))
<1> DEFINE n == Len(u)
           l == SubSeq(u, a + 1, n)
           x == SubSeq(u, a + 1, b)
           y == SubSeq(u, b + 1, n)
<1>1. n \in Nat
  BY DEF Units
<1>2. /\ l \in Units /\ Len(l) = n - a /\ \A i \in 1 .. n - a : l[i] = u[a + i]
      /\ x \in Units /\ Len(x) = b - a /\ \A i \in 1 .. b - a : x[i] = u[a + i]
      /\ y \in Units /\ Len(y) = n - b /\ \A i \in 1 .. n - b : y[i] = u[b + i]
  BY <1>1, SubUnits
<1> HIDE DEF l, x, y
<1>3. /\ x \o y \in Units /\ Len(x \o y) = n - a
      /\ \A i \in 1 .. n - a : (x \o y)[i] = IF i <= b - a THEN x[i] ELSE y[i - (b - a)]
  BY <1>1, <1>2, ConcatProperties DEF Units
<1>4. ASSUME NEW i \in 1 .. n - a
      PROVE  l[i] = (x \o y)[i]
  <2>1. CASE i <= b - a
    BY <1>1, <1>2, <1>3, <2>1
  <2>2. CASE ~(i <= b - a)
    <3>1. i - (b - a) \in 1 .. n - b /\ b + (i - (b - a)) = a + i
      BY <1>1, <2>2
    <3>2. (x \o y)[i] = y[i - (b - a)] /\ y[i - (b - a)] = u[a + i]
      BY <1>2, <1>3, <2>2, <3>1
    <3> QED
      BY <1>2, <3>2
  <2> QED
    BY <2>1, <2>2
<1>5. l = x \o y
  <2> DEFINE w == x \o y
  <2>1. w \in Units /\ Len(w) = Len(l) /\ l \in Units /\ \A i \in 1 .. Len(l) : l[i] = w[i]
    BY <1>2, <1>3, <1>4
  <2> HIDE DEF w
  <2>2. l = w
    BY <2>1, SeqEqual DEF Units
  <2> QED
    BY <2>2 DEF w
<1> QED
  BY <1>5 DEF l, x, y

LEMMA SubConcat ==
  ASSUME NEW u \in Units, NEW v \in Units, NEW a \in Nat, a <= Len(u)
  PROVE  SubSeq(u \o v, a + 1, Len(u \o v)) = SubSeq(u, a + 1, Len(u)) \o v
<1> DEFINE w == u \o v
           n == Len(u)
           m == Len(v)
           l == SubSeq(w, a + 1, Len(w))
           x == SubSeq(u, a + 1, n)
<1>1. n \in Nat /\ m \in Nat
  BY DEF Units
<1>2. /\ w \in Units /\ Len(w) = n + m
      /\ \A i \in 1 .. n + m : w[i] = IF i <= n THEN u[i] ELSE v[i - n]
  BY ConcatProperties DEF Units
<1> HIDE DEF w
<1>3. /\ l \in Units /\ Len(l) = (n + m) - a /\ \A i \in 1 .. (n + m) - a : l[i] = w[a + i]
      /\ x \in Units /\ Len(x) = n - a /\ \A i \in 1 .. n - a : x[i] = u[a + i]
  BY <1>1, <1>2, SubUnits
<1> HIDE DEF l, x
<1> DEFINE y == x \o v
<1>4. /\ y \in Units /\ Len(y) = (n + m) - a
      /\ \A i \in 1 .. (n + m) - a : y[i] = IF i <= n - a THEN x[i] ELSE v[i - (n - a)]
  BY <1>1, <1>3, ConcatProperties DEF Units
<1> HIDE DEF y
<1>5. ASSUME NEW i \in 1 .. (n + m) - a
      PROVE  l[i] = y[i]
  <2>1. a + i \in 1 .. n + m
    BY <1>1
  <2>2. CASE i <= n - a
    <3>1. a + i <= n /\ i \in 1 .. n - a
      BY <1>1, <2>2
    <3> QED
      BY <1>1, <1>2, <1>3, <1>4, <2>1, <2>2, <3>1
  <2>3. CASE ~(i <= n - a)
    <3>1. ~(a + i <= n) /\ (a + i) - n = i - (n - a)
      BY <1>1, <2>3
    <3> QED
      BY <1>1, <1>2, <1>3, <1>4, <2>1, <2>3, <3>1
  <2> QED
    BY <2>2, <2>3
<1>6. l = y
  BY <1>1, <1>3, <1>4, <1>5, SeqEqual DEF Units
<1> QED
  BY <1>6 DEF l, y, x, w

-----------------------------------------------------------------------------
(* A connection.                                                           *)

Conn ==
  [state : {"none", "backlog", "open"}, peer : {"open", "closed", "reset"},
   script : Units, input : Units, room : 0 .. Room, fd : Fds \cup {Listener},
   role : {"normal", "slave", "monitor"}, repl : {"none", "wait", "bulk", "online"},
   off : 0 .. DumpSize, querybuf : Units, argv : Unit, bulk : Units, bulklen : Int,
   reply : Seq(Units), sentlen : Nat, received : Units,
   executed : Seq(Unit \X Units), held : BOOLEAN, owed : Units, out : Units]

\* What is still to be written of the replies.
Rest(k) ==
  LET all == FlattenSeq(k.reply) IN SubSeq(all, k.sentlen + 1, Len(all))

Dump(n) == IF n = 0 THEN <<>> ELSE <<"count">> \o [i \in 1 .. n |-> "dump"]
NoDump(u) == \A i \in 1 .. Len(u) : ~IsDump(u[i])

\* The dump stands in one piece in what has been written; before it, behind it and in
\* the reply list is what the client is owed.
Ordered(k) ==
  /\ NoDump(k.owed)
  /\ \E pre, post \in Units :
       /\ k.out = (pre \o Dump(k.off)) \o post
       /\ (pre \o post) \o Rest(k) = k.owed
       /\ k.repl \in {"wait", "bulk"} => post = <<>>
  /\ k.repl \in {"none", "wait"} => k.off = 0
  /\ k.repl = "bulk" => k.off < DumpSize
  /\ k.repl = "online" => k.off = DumpSize

\* The head of the list is the object that may have been sent in part.
Sized(k) ==
  /\ k.fd \in Fds
  /\ k.role # "slave" <=> k.repl = "none"
  /\ k.bulklen = -1 \/ k.bulklen \in 2 .. MaxBulk + 2
  /\ k.sentlen = 0 \/ (k.reply # <<>> /\ k.sentlen < Len(k.reply[1]))
  /\ \A i \in 1 .. Len(k.reply) : Len(k.reply[i]) <= 2 \/ Len(k.reply[i]) <= GlueMax

Sound(k) == k \in Conn /\ k.state = "open" /\ Sized(k) /\ Ordered(k)

LEMMA ConnFields ==
  ASSUME NEW k \in Conn
  PROVE  /\ k.reply \in Seq(Units) /\ k.owed \in Units /\ k.out \in Units
         /\ k.sentlen \in Nat /\ k.room \in 0 .. Room /\ k.off \in 0 .. DumpSize
         /\ k.querybuf \in Units /\ k.bulk \in Units /\ k.argv \in Unit /\ k.bulklen \in Int
         /\ k.input \in Units /\ k.script \in Units /\ k.received \in Units
         /\ k.executed \in Seq(Unit \X Units)
BY DEF Conn

WithReplies(k, r, o) == [k EXCEPT !.reply = r, !.owed = o]

\* All but the replies is the same.
OnlyReplies(k, l) == l = WithReplies(k, l.reply, l.owed)

LEMMA WithRepliesIs ==
  ASSUME NEW k \in Conn, NEW r \in Seq(Units), NEW o \in Units
  PROVE  LET l == WithReplies(k, r, o)
         IN /\ l \in Conn
            /\ l.reply = r /\ l.owed = o
            /\ l.state = k.state /\ l.peer = k.peer /\ l.script = k.script
            /\ l.input = k.input /\ l.room = k.room /\ l.fd = k.fd /\ l.role = k.role
            /\ l.repl = k.repl /\ l.off = k.off /\ l.querybuf = k.querybuf
            /\ l.argv = k.argv /\ l.bulk = k.bulk /\ l.bulklen = k.bulklen
            /\ l.sentlen = k.sentlen /\ l.received = k.received
            /\ l.executed = k.executed /\ l.held = k.held /\ l.out = k.out
BY DEF Conn, WithReplies

LEMMA OnlyRepliesSame ==
  ASSUME NEW k \in Conn
  PROVE  OnlyReplies(k, k)
BY DEF OnlyReplies, WithReplies, Conn

LEMMA OnlyRepliesTwice ==
  ASSUME NEW k \in Conn, NEW l \in Conn, NEW m \in Conn,
         OnlyReplies(k, l), OnlyReplies(l, m)
  PROVE  OnlyReplies(k, m)
BY DEF OnlyReplies, WithReplies, Conn

LEMMA HeadIs ==
  ASSUME NEW q \in Seq(Units), q # <<>>
  PROVE  /\ Head(q) = q[1] /\ q[1] \in Units
         /\ Tail(q) \in Seq(Units) /\ Len(Tail(q)) = Len(q) - 1
         /\ \A i \in 1 .. Len(Tail(q)) : Tail(q)[i] = q[i + 1]
         /\ FlattenSeq(Tail(q)) \in Units
         /\ FlattenSeq(q) = q[1] \o FlattenSeq(Tail(q))
         /\ FlattenSeq(q) \in Units
         /\ Len(q[1]) \in Nat /\ Len(FlattenSeq(Tail(q))) \in Nat
         /\ Len(FlattenSeq(q)) = Len(q[1]) + Len(FlattenSeq(Tail(q)))
<1>1. /\ Tail(q) \in Seq(Units) /\ Head(q) \in Units /\ Head(q) = q[1]
      /\ Len(Tail(q)) = Len(q) - 1 /\ \A i \in 1 .. Len(Tail(q)) : Tail(q)[i] = q[i + 1]
  BY HeadTailProperties
<1>2. FlattenSeq(q) = Head(q) \o FlattenSeq(Tail(q)) /\ FlattenSeq(Tail(q)) \in Units
  BY <1>1, FlattenHead, FlattenType
<1>3. /\ Len(FlattenSeq(q)) = Len(Head(q)) + Len(FlattenSeq(Tail(q)))
      /\ Len(Head(q)) \in Nat /\ Len(FlattenSeq(Tail(q))) \in Nat
      /\ FlattenSeq(q) \in Units
  BY <1>1, <1>2, ConcatProperties, LenProperties DEF Units
<1> QED
  BY <1>1, <1>2, <1>3

LEMMA SentWithin ==
  ASSUME NEW k, Sound(k)
  PROVE  k.sentlen <= Len(FlattenSeq(k.reply)) /\ Rest(k) \in Units
<1> DEFINE all == FlattenSeq(k.reply)
<1>1. k.reply \in Seq(Units) /\ k.sentlen \in Nat
  BY ConnFields DEF Sound
<1>2. all \in Units /\ Len(all) \in Nat
  BY <1>1, FlattenType, LenProperties DEF Units
<1>3. k.sentlen <= Len(all)
  <2>1. CASE k.sentlen = 0
    BY <1>2, <2>1
  <2>2. CASE k.sentlen # 0
    <3>1. k.reply # <<>> /\ k.sentlen < Len(k.reply[1])
      BY <2>2 DEF Sound, Sized
    <3> DEFINE t == FlattenSeq(Tail(k.reply))
    <3>2. Len(all) = Len(k.reply[1]) + Len(t) /\ Len(t) \in Nat /\ Len(k.reply[1]) \in Nat
      BY <1>1, <3>1, HeadIs
    <3> HIDE DEF t, all
    <3> QED
      BY <1>1, <1>2, <3>1, <3>2
  <2> QED
    BY <2>1, <2>2
<1>4. Rest(k) \in Units
  <2> HIDE DEF all
  <2> QED
    BY <1>1, <1>2, SubUnits DEF Rest, all
<1> QED
  BY <1>3, <1>4

\* What addReply does to the connection.
Queued(k, obj) == [k EXCEPT !.reply = Append(@, obj), !.owed = @ \o obj]

LEMMA QueuedIs ==
  ASSUME NEW k \in Conn, NEW obj \in Units
  PROVE  /\ Queued(k, obj) = WithReplies(k, Append(k.reply, obj), k.owed \o obj)
         /\ Append(k.reply, obj) \in Seq(Units) /\ k.owed \o obj \in Units
         /\ Append(k.reply, obj) # <<>>
         /\ Queued(k, obj) \in Conn
         /\ OnlyReplies(k, Queued(k, obj))
<1> DEFINE r == Append(k.reply, obj)
           o == k.owed \o obj
<1>1. k.reply \in Seq(Units) /\ k.owed \in Units
  BY ConnFields
<1>2. r \in Seq(Units) /\ o \in Units /\ r # <<>>
  <2>1. o \in Units
    BY <1>1 DEF Units
  <2>2. r \in Seq(Units) /\ Len(r) = Len(k.reply) + 1 /\ Len(k.reply) \in Nat
    BY <1>1
  <2>3. r # <<>>
    BY <2>2, EmptySeq
  <2> QED
    BY <2>1, <2>2, <2>3
<1>3. Queued(k, obj) = WithReplies(k, r, o)
  BY DEF Queued, WithReplies
<1> HIDE DEF r, o
<1>4. WithReplies(k, r, o) \in Conn /\ OnlyReplies(k, WithReplies(k, r, o))
  BY <1>2, WithRepliesIs DEF OnlyReplies
<1> QED
  BY <1>2, <1>3, <1>4 DEF r, o

\* An object is owed when it has been queued.
LEMMA QueuedSound ==
  ASSUME NEW k, Sound(k), NEW obj \in Units, Len(obj) <= 2, NoDump(obj)
  PROVE  Sound(Queued(k, obj))
<1> DEFINE r == Append(k.reply, obj)
           o == k.owed \o obj
           l == Queued(k, obj)
           n == Len(k.reply)
<1>1. k \in Conn
  BY DEF Sound
<1>2. /\ r \in Seq(Units) /\ o \in Units /\ l \in Conn
      /\ l = WithReplies(k, r, o)
  BY <1>1, QueuedIs
<1>3. /\ l.reply = r /\ l.owed = o
      /\ l.state = k.state /\ l.fd = k.fd /\ l.role = k.role /\ l.repl = k.repl
      /\ l.off = k.off /\ l.bulklen = k.bulklen /\ l.sentlen = k.sentlen /\ l.out = k.out
  <2> HIDE DEF r, o, l
  <2> QED
    BY <1>1, <1>2, WithRepliesIs
<1>4. /\ Len(r) = n + 1 /\ n \in Nat /\ r[n + 1] = obj
      /\ \A i \in 1 .. n : r[i] = k.reply[i]
  BY <1>1, ConnFields
<1> HIDE DEF l
<1>5. Sized(l)
  <2>1. \A i \in 1 .. Len(r) : Len(r[i]) <= 2 \/ Len(r[i]) <= GlueMax
    BY <1>4 DEF Sound, Sized
  <2>2. k.reply # <<>> => r # <<>> /\ r[1] = k.reply[1]
    BY <1>1, <1>4, ConnFields
  <2> HIDE DEF r
  <2> QED
    BY <1>3, <2>1, <2>2 DEF Sound, Sized
<1>6. Rest(l) = Rest(k) \o obj
  <2>1. FlattenSeq(r) = FlattenSeq(k.reply) \o obj
    BY <1>1, ConnFields, FlattenAppend
  <2>2. k.sentlen <= Len(FlattenSeq(k.reply))
    BY SentWithin
  <2>3. FlattenSeq(k.reply) \in Units /\ k.sentlen \in Nat
    BY <1>1, ConnFields, FlattenType
  <2> QED
    BY <1>3, <2>1, <2>2, <2>3, SubConcat DEF Rest
<1>7. Ordered(l)
  <2>1. NoDump(o)
    <3>1. k.owed \in Units /\ NoDump(k.owed)
      BY <1>1, ConnFields DEF Sound, Ordered
    <3>2. /\ Len(o) = Len(k.owed) + Len(obj)
          /\ \A i \in 1 .. Len(o) : o[i] = IF i <= Len(k.owed) THEN k.owed[i]
                                           ELSE obj[i - Len(k.owed)]
      BY <3>1, ConcatProperties DEF Units
    <3>3. Len(k.owed) \in Nat /\ Len(obj) \in Nat
      BY <3>1 DEF Units
    <3> HIDE DEF o
    <3>4. ASSUME NEW i \in 1 .. Len(o)
          PROVE  ~IsDump(o[i])
      <4>1. CASE i <= Len(k.owed)
        BY <3>1, <3>2, <3>3, <4>1 DEF NoDump
      <4>2. CASE ~(i <= Len(k.owed))
        <5>1. i - Len(k.owed) \in 1 .. Len(obj)
          BY <3>2, <3>3, <4>2
        <5> QED
          BY <3>2, <4>2, <5>1 DEF NoDump
      <4> QED
        BY <4>1, <4>2
    <3> QED
      BY <3>4 DEF NoDump
  <2>2. PICK pre \in Units, post \in Units :
          /\ k.out = (pre \o Dump(k.off)) \o post
          /\ (pre \o post) \o Rest(k) = k.owed
          /\ k.repl \in {"wait", "bulk"} => post = <<>>
    BY DEF Sound, Ordered
  <2>3. Rest(k) \in Units
    BY SentWithin
  <2>4. (pre \o post) \o Rest(l) = l.owed
    <3>1. pre \o post \in Units
      BY DEF Units
    <3>2. ((pre \o post) \o Rest(k)) \o obj = (pre \o post) \o (Rest(k) \o obj)
      BY <2>3, <3>1, Associative
    <3> QED
      BY <1>3, <1>6, <2>2, <3>2
  <2> HIDE DEF o
  <2> QED
    BY <1>3, <2>1, <2>2, <2>4 DEF Sound, Ordered
<1> QED
  BY <1>2, <1>3, <1>5, <1>7 DEF Sound, l

-----------------------------------------------------------------------------
(* Writing replies.                                                        *)

WithWritten(k, room, out, reply, sentlen) ==
  [k EXCEPT !.room = room, !.out = out, !.reply = reply, !.sentlen = sentlen]

\* All is the same but what writing replies changes.
OnlyWritten(k, l) == l = WithWritten(k, l.room, l.out, l.reply, l.sentlen)

LEMMA WithWrittenIs ==
  ASSUME NEW k \in Conn, NEW room \in 0 .. Room, NEW out \in Units,
         NEW reply \in Seq(Units), NEW sentlen \in Nat
  PROVE  LET l == WithWritten(k, room, out, reply, sentlen)
         IN /\ l \in Conn
            /\ l.room = room /\ l.out = out /\ l.reply = reply /\ l.sentlen = sentlen
            /\ l.state = k.state /\ l.peer = k.peer /\ l.script = k.script
            /\ l.input = k.input /\ l.fd = k.fd /\ l.role = k.role
            /\ l.repl = k.repl /\ l.off = k.off /\ l.querybuf = k.querybuf
            /\ l.argv = k.argv /\ l.bulk = k.bulk /\ l.bulklen = k.bulklen
            /\ l.received = k.received /\ l.executed = k.executed /\ l.held = k.held
            /\ l.owed = k.owed
BY DEF Conn, WithWritten

LEMMA OnlyWrittenSame ==
  ASSUME NEW k \in Conn
  PROVE  OnlyWritten(k, k)
BY DEF OnlyWritten, WithWritten, Conn

LEMMA OnlyWrittenTwice ==
  ASSUME NEW k \in Conn, NEW l \in Conn, NEW m \in Conn,
         OnlyWritten(k, l), OnlyWritten(l, m)
  PROVE  OnlyWritten(k, m)
BY DEF OnlyWritten, WithWritten, Conn

LEMMA OnlyWrittenIs ==
  ASSUME NEW k \in Conn, NEW l \in Conn, OnlyWritten(k, l)
  PROVE  /\ l.state = k.state /\ l.peer = k.peer /\ l.script = k.script
         /\ l.input = k.input /\ l.fd = k.fd /\ l.role = k.role
         /\ l.repl = k.repl /\ l.off = k.off /\ l.querybuf = k.querybuf
         /\ l.argv = k.argv /\ l.bulk = k.bulk /\ l.bulklen = k.bulklen
         /\ l.received = k.received /\ l.executed = k.executed /\ l.held = k.held
         /\ l.owed = k.owed
<1>1. /\ l.room \in 0 .. Room /\ l.out \in Units /\ l.reply \in Seq(Units) /\ l.sentlen \in Nat
  BY ConnFields
<1> QED
  BY <1>1, WithWrittenIs DEF OnlyWritten

LEMMA DumpIs ==
  ASSUME NEW n \in Nat
  PROVE  /\ Dump(n) \in Units
         /\ Len(Dump(n)) = IF n = 0 THEN 0 ELSE n + 1
         /\ \A i \in 1 .. Len(Dump(n)) : IsDump(Dump(n)[i])
         /\ \A i \in 1 .. Len(Dump(n)) : Dump(n)[i] = IF i = 1 THEN "count" ELSE "dump"
<1> DEFINE d == [i \in 1 .. n |-> "dump"]
<1>1. d \in Units /\ Len(d) = n /\ \A i \in 1 .. n : d[i] = "dump"
  <2>1. d \in [1 .. n -> Unit] /\ \A i \in 1 .. n : d[i] = "dump"
    BY ClientsAssumption
  <2> HIDE DEF d
  <2>2. d \in Seq(Unit)
    BY <2>1, SeqDef
  <2>3. Len(d) = n
    BY <2>1, <2>2, LenProperties
  <2> QED
    BY <2>1, <2>2, <2>3 DEF Units
<1>2. <<"count">> \in Units /\ Len(<<"count">>) = 1 /\ <<"count">>[1] = "count"
  BY One, ClientsAssumption
<1> HIDE DEF d
<1> DEFINE e == <<"count">> \o d
<1>3. e \in Units /\ Len(e) = n + 1 /\ \A i \in 1 .. n + 1 : e[i] = IF i = 1 THEN "count" ELSE "dump"
  <2>1. /\ e \in Units /\ Len(e) = n + 1
        /\ \A i \in 1 .. n + 1 : e[i] = IF i <= 1 THEN <<"count">>[i] ELSE d[i - 1]
    BY <1>1, <1>2, ConcatProperties DEF Units
  <2> HIDE DEF e
  <2>2. ASSUME NEW i \in 1 .. n + 1
        PROVE  e[i] = IF i = 1 THEN "count" ELSE "dump"
    <3>1. CASE i = 1
      BY <1>2, <2>1, <3>1
    <3>2. CASE i # 1
      <4>1. i - 1 \in 1 .. n /\ ~(i <= 1)
        BY <3>2
      <4> QED
        BY <1>1, <2>1, <3>2, <4>1
    <3> QED
      BY <3>1, <3>2
  <2> QED
    BY <2>1, <2>2
<1>4. Dump(n) = IF n = 0 THEN <<>> ELSE e
  BY DEF Dump, d
<1> HIDE DEF e
<1>5. CASE n = 0
  <2>1. Dump(n) = <<>> /\ <<>> \in Units /\ Len(<<>>) = 0
    BY <1>4, <1>5 DEF Units
  <2> QED
    BY <1>5, <2>1
<1>6. CASE n # 0
  BY <1>3, <1>4, <1>6 DEF IsDump
<1> QED
  BY <1>5, <1>6

\* What is written to a client that is being sent replies is what it was owed next.
LEMMA OrderedWritten ==
  ASSUME NEW k, Sound(k), k.repl \in {"none", "online"}, NEW l \in Conn, OnlyWritten(k, l),
         NEW chunk \in Units, l.out = k.out \o chunk, Rest(l) \in Units,
         Rest(k) = chunk \o Rest(l)
  PROVE  Ordered(l)
<1>1. k \in Conn /\ Ordered(k)
  BY DEF Sound
<1>2. l.owed = k.owed /\ l.repl = k.repl /\ l.off = k.off
  BY <1>1, OnlyWrittenIs
<1>3. PICK pre \in Units, post \in Units :
        /\ k.out = (pre \o Dump(k.off)) \o post
        /\ (pre \o post) \o Rest(k) = k.owed
        /\ k.repl \in {"wait", "bulk"} => post = <<>>
  BY <1>1 DEF Ordered
<1> DEFINE more == post \o chunk
           d    == pre \o Dump(k.off)
           both == pre \o post
<1>4. more \in Units /\ both \in Units /\ d \in Units
  <2>1. k.off \in Nat
    BY <1>1, ConnFields
  <2>2. Dump(k.off) \in Units
    BY <2>1, DumpIs
  <2> QED
    BY <2>2, ConcatProperties DEF Units
<1>5. l.out = d \o more
  <2>1. l.out = (d \o post) \o chunk
    BY <1>3
  <2> HIDE DEF d
  <2>2. d \in Units
    BY <1>4
  <2>3. (d \o post) \o chunk = d \o (post \o chunk)
    BY <2>2, Associative
  <2> QED
    BY <2>1, <2>3
<1>6. (pre \o more) \o Rest(l) = l.owed
  <2>1. both \o chunk = pre \o more
    BY Associative
  <2>2. both \o Rest(k) = l.owed
    BY <1>2, <1>3
  <2> HIDE DEF both, more
  <2>3. both \in Units
    BY <1>4
  <2>4. (both \o chunk) \o Rest(l) = both \o (chunk \o Rest(l))
    BY <2>3, Associative
  <2> QED
    BY <2>1, <2>2, <2>4
<1>7. l.out = (pre \o Dump(l.off)) \o more
  BY <1>2, <1>5
<1>8. l.repl \notin {"wait", "bulk"}
  BY <1>2
<1> HIDE DEF more, d, both
<1> QED
  BY <1>1, <1>2, <1>4, <1>6, <1>7, <1>8 DEF Ordered

GluedConn(k) == [k EXCEPT !.reply = Glued(k)]

\* Glueing leaves the units as they are.
LEMMA GluedSound ==
  ASSUME NEW k, Sound(k), k.repl \in {"none", "online"}
  PROVE  /\ Sound(GluedConn(k)) /\ OnlyWritten(k, GluedConn(k))
         /\ GluedConn(k).reply = <<>> <=> k.reply = <<>>
<1> DEFINE l   == GluedConn(k)
           all == FlattenSeq(k.reply)
           q   == Glued(k)
<1>1. k \in Conn
  BY DEF Sound
<1>2. /\ k.room \in 0 .. Room /\ k.out \in Units /\ k.reply \in Seq(Units) /\ k.sentlen \in Nat
  BY <1>1, ConnFields
<1>3. all \in Units /\ Len(all) \in Nat
  BY <1>2, FlattenType, LenProperties DEF Units
<1>4. l = WithWritten(k, k.room, k.out, q, k.sentlen)
  BY <1>1 DEF GluedConn, WithWritten, Conn
<1>5. q = IF Len(k.reply) > 1 /\ Len(all) \in 1 .. GlueMax THEN <<all>> ELSE k.reply
  BY DEF Glued
<1> HIDE DEF l, q
<1>6. CASE q = k.reply
  <2>1. k = WithWritten(k, k.room, k.out, k.reply, k.sentlen)
    BY <1>1 DEF WithWritten, Conn
  <2>2. l = k
    BY <1>4, <1>6, <2>1
  <2> QED
    BY <1>1, <2>2, OnlyWrittenSame DEF l
<1>7. CASE Len(k.reply) > 1 /\ Len(all) \in 1 .. GlueMax /\ q = <<all>>
  <2>1. q \in Seq(Units) /\ Len(q) = 1 /\ q[1] = all /\ q # <<>>
    BY <1>3, <1>7
  <2>2. /\ l \in Conn /\ OnlyWritten(k, l)
        /\ l.room = k.room /\ l.out = k.out /\ l.reply = q /\ l.sentlen = k.sentlen
        /\ l.state = k.state /\ l.fd = k.fd /\ l.role = k.role /\ l.repl = k.repl
        /\ l.bulklen = k.bulklen /\ l.off = k.off
    <3>1. /\ l \in Conn
          /\ l.room = k.room /\ l.out = k.out /\ l.reply = q /\ l.sentlen = k.sentlen
          /\ l.state = k.state /\ l.fd = k.fd /\ l.role = k.role /\ l.repl = k.repl
          /\ l.bulklen = k.bulklen /\ l.off = k.off
      <4> DEFINE m == WithWritten(k, k.room, k.out, q, k.sentlen)
      <4>1. /\ m \in Conn
            /\ m.room = k.room /\ m.out = k.out /\ m.reply = q /\ m.sentlen = k.sentlen
            /\ m.state = k.state /\ m.fd = k.fd /\ m.role = k.role /\ m.repl = k.repl
            /\ m.bulklen = k.bulklen /\ m.off = k.off
        <5>1. q \in Seq(Units)
          BY <2>1
        <5> HIDE DEF all
        <5> QED
          BY <1>1, <1>2, <5>1, WithWrittenIs
      <4>2. l = m
        BY <1>4
      <4> HIDE DEF m
      <4> QED
        BY <4>1, <4>2
    <3> QED
      BY <1>4, <3>1 DEF OnlyWritten
  <2>3. FlattenSeq(q) = all
    BY <1>3, <1>7, FlattenOne
  <2>4. Rest(l) = Rest(k)
    BY <2>2, <2>3 DEF Rest
  <2>5. Rest(k) \in Units
    BY SentWithin
  <2>6. Ordered(l)
    <3>1. <<>> \in Units /\ k.out \o <<>> = k.out /\ <<>> \o Rest(k) = Rest(k)
      BY <1>2, <2>5, ConcatEmptySeq DEF Units
    <3> QED
      BY <2>2, <2>4, <2>5, <3>1, OrderedWritten
  <2>7. k.reply # <<>>
    BY <1>7
  <2>8. k.sentlen = 0 \/ k.sentlen < Len(all)
    <3>1. Len(all) = Len(k.reply[1]) + Len(FlattenSeq(Tail(k.reply)))
      BY <1>2, <2>7, HeadIs
    <3> DEFINE t == Len(FlattenSeq(Tail(k.reply)))
               h == Len(k.reply[1])
    <3>2. t \in Nat /\ h \in Nat
      BY <1>2, <2>7, HeadIs
    <3>3. k.sentlen = 0 \/ k.sentlen < h
      BY DEF Sound, Sized
    <3>4. Len(all) = h + t
      BY <3>1
    <3> HIDE DEF t, h, all
    <3> QED
      BY <1>2, <3>2, <3>3, <3>4
  <2>9. Sized(l)
    <3>1. \A i \in 1 .. Len(q) : Len(q[i]) <= GlueMax
      BY <1>3, <1>7, <2>1
    <3> HIDE DEF all
    <3> QED
      BY <2>1, <2>2, <2>8, <3>1 DEF Sound, Sized
  <2>10. Sound(l)
    BY <2>2, <2>6, <2>9 DEF Sound
  <2> QED
    BY <2>1, <2>2, <2>7, <2>10 DEF l
<1> QED
  BY <1>5, <1>6, <1>7

\* One turn of the loop.
LEMMA WriteHeadSound ==
  ASSUME NEW k, Sound(k), k.repl \in {"none", "online"}
  PROVE  Sound(WriteHead(k)) /\ OnlyWritten(k, WriteHead(k))
<1> DEFINE obj  == Head(k.reply)
           rest == Len(obj) - k.sentlen
           n    == IF rest <= k.room THEN rest ELSE k.room
           chunk == SubSeq(obj, k.sentlen + 1, k.sentlen + n)
           t    == FlattenSeq(Tail(k.reply))
           all  == FlattenSeq(k.reply)
           more == SubSeq(obj, k.sentlen + n + 1, Len(obj))
<1>1. k \in Conn
  BY DEF Sound
<1>2. /\ k.room \in 0 .. Room /\ k.out \in Units /\ k.reply \in Seq(Units) /\ k.sentlen \in Nat
  BY <1>1, ConnFields
<1>3. CASE WriteHead(k) = k
  BY <1>1, <1>3, OnlyWrittenSame
<1>4. CASE k.reply # <<>> /\ WriteHead(k) # k
  <2>1. /\ obj \in Units /\ obj = k.reply[1] /\ t \in Units /\ all = obj \o t
        /\ Len(obj) \in Nat /\ Tail(k.reply) \in Seq(Units)
        /\ Len(Tail(k.reply)) = Len(k.reply) - 1
        /\ \A i \in 1 .. Len(Tail(k.reply)) : Tail(k.reply)[i] = k.reply[i + 1]
    BY <1>2, <1>4, HeadIs
  <2>2. k.sentlen = 0 \/ k.sentlen < Len(obj)
    BY <2>1 DEF Sound, Sized
  <2>3. Room \in Nat
    BY ClientsAssumption
  <2>4. /\ n \in Nat /\ n <= k.room /\ k.sentlen + n <= Len(obj)
        /\ n # rest => k.sentlen + n < Len(obj)
        /\ n = rest => k.sentlen + n = Len(obj)
        /\ k.room - n \in 0 .. Room
    <3> DEFINE a == Len(obj)
               b == k.sentlen
    <3>1. a \in Nat /\ b \in Nat /\ k.room \in Nat /\ k.room <= Room /\ (b = 0 \/ b < a)
      BY <1>2, <2>1, <2>2, <2>3
    <3>2. rest = a - b
      OBVIOUS
    <3> HIDE DEF a, b, rest
    <3>3. /\ n \in Nat /\ n <= k.room /\ b + n <= a
          /\ n # rest => b + n < a
          /\ n = rest => b + n = a
          /\ k.room - n \in 0 .. Room
      BY <2>3, <3>1, <3>2
    <3> HIDE DEF n
    <3> QED
      BY <3>3 DEF a, b
  <2>5. WriteHead(k) = IF n = rest
                       THEN WithWritten(k, k.room - n, k.out \o chunk, Tail(k.reply), 0)
                       ELSE WithWritten(k, k.room - n, k.out \o chunk, k.reply, k.sentlen + n)
    <3> DEFINE w == [k EXCEPT !.room = @ - n, !.out = @ \o chunk]
    <3>1. WriteHead(k) = IF k.reply = <<>> \/ (k.room = 0 /\ obj # <<>>) THEN k
                         ELSE IF n = rest THEN [w EXCEPT !.reply = Tail(@), !.sentlen = 0]
                         ELSE [w EXCEPT !.sentlen = @ + n]
      BY DEF WriteHead
    <3>2. WriteHead(k) = IF n = rest THEN [w EXCEPT !.reply = Tail(@), !.sentlen = 0]
                         ELSE [w EXCEPT !.sentlen = @ + n]
      BY <1>4, <3>1
    <3> HIDE DEF n, rest, chunk
    <3>3. [w EXCEPT !.reply = Tail(@), !.sentlen = 0]
            = WithWritten(k, k.room - n, k.out \o chunk, Tail(k.reply), 0)
      BY <1>1 DEF WithWritten, Conn
    <3>4. [w EXCEPT !.sentlen = @ + n]
            = WithWritten(k, k.room - n, k.out \o chunk, k.reply, k.sentlen + n)
      BY <1>1 DEF WithWritten, Conn
    <3> HIDE DEF w
    <3> QED
      BY <3>2, <3>3, <3>4
  <2> HIDE DEF rest, n
  <2>6. chunk \in Units /\ more \in Units /\ SubSeq(obj, k.sentlen + 1, Len(obj)) = chunk \o more
    <3>1. k.sentlen + n \in Nat /\ k.sentlen <= k.sentlen + n
      BY <1>2, <2>4
    <3>2. chunk \in Units
      BY <1>2, <2>1, <2>4, <3>1, SubUnits
    <3>3. more \in Units
      BY <1>2, <2>1, <2>4, <3>1, SubUnits
    <3>4. SubSeq(obj, k.sentlen + 1, Len(obj)) = chunk \o more
      BY <1>2, <2>1, <2>4, <3>1, SubSplit
    <3> QED
      BY <3>2, <3>3, <3>4
  <2>7. Rest(k) = chunk \o (more \o t)
    <3>1. k.sentlen <= Len(obj)
      BY <1>2, <2>1, <2>2
    <3>2. Rest(k) = SubSeq(obj \o t, k.sentlen + 1, Len(obj \o t))
      BY <2>1 DEF Rest
    <3>3. Rest(k) = SubSeq(obj, k.sentlen + 1, Len(obj)) \o t
      BY <1>2, <2>1, <3>1, <3>2, SubConcat
    <3> HIDE DEF obj, t, chunk, more
    <3>4. Rest(k) = (chunk \o more) \o t
      BY <2>6, <3>3
    <3>5. chunk \in Units /\ more \in Units /\ t \in Units
      BY <2>1, <2>6
    <3>6. (chunk \o more) \o t = chunk \o (more \o t)
      BY <3>5, Associative
    <3> QED
      BY <3>4, <3>6
  <2> DEFINE out == k.out \o chunk
             room == k.room - n
  <2>8. out \in Units /\ room \in 0 .. Room
    <3>1. out \in Units
      BY <1>2, <2>6, ConcatProperties DEF Units
    <3> QED
      BY <2>4, <3>1
  <2>9. CASE n = rest
    <3> DEFINE q == Tail(k.reply)
               l == WithWritten(k, room, out, q, 0)
    <3>1. WriteHead(k) = l
      BY <2>5, <2>9
    <3>2. q \in Seq(Units)
      BY <2>1
    <3> HIDE DEF out, room, q
    <3>3. /\ l \in Conn
          /\ l.room = room /\ l.out = out /\ l.reply = q /\ l.sentlen = 0
          /\ l.state = k.state /\ l.fd = k.fd /\ l.role = k.role /\ l.repl = k.repl
          /\ l.bulklen = k.bulklen
      BY <1>1, <2>8, <3>2, WithWrittenIs
    <3>4. OnlyWritten(k, l)
      BY <3>3 DEF OnlyWritten
    <3>5. Sized(l)
      <4>1. \A i \in 1 .. Len(q) : Len(q[i]) <= 2 \/ Len(q[i]) <= GlueMax
        <5>1. \A i \in 1 .. Len(q) : i + 1 \in 1 .. Len(k.reply) /\ q[i] = k.reply[i + 1]
          <6>1. Len(q) = Len(k.reply) - 1 /\ Len(k.reply) \in Nat
            BY <1>2, <2>1 DEF q
          <6>2. \A i \in 1 .. Len(q) : q[i] = k.reply[i + 1]
            BY <2>1 DEF q
          <6> QED
            BY <6>1, <6>2
        <5> QED
          BY <5>1 DEF Sound, Sized
      <4> HIDE DEF l
      <4> QED
        BY <3>3, <4>1 DEF Sound, Sized
    <3>6. Rest(l) = more \o t /\ Rest(l) \in Units
      <4>1. FlattenSeq(q) = t
        BY DEF q
      <4>2. Rest(l) = SubSeq(t, 1, Len(t))
        <5>1. Rest(l) = SubSeq(t, l.sentlen + 1, Len(t))
          BY <3>3, <4>1 DEF Rest
        <5>2. l.sentlen + 1 = 1
          BY <3>3
        <5> HIDE DEF l, t
        <5> QED
          BY <5>1, <5>2
      <4>3. SubSeq(t, 1, Len(t)) = t
        BY <2>1, SubSeqFull DEF Units
      <4>4. more = <<>>
        <5>1. k.sentlen + n = Len(obj)
          BY <2>4, <2>9
        <5> HIDE DEF obj
        <5>2. k.sentlen + n + 1 \in Int /\ Len(obj) \in Int /\ Len(obj) < k.sentlen + n + 1
          BY <1>2, <2>1, <5>1
        <5> QED
          BY <5>2, SubSeqEmpty
      <4>5. <<>> \o t = t
        BY <2>1, ConcatEmptySeq DEF Units
      <4> HIDE DEF l, t, more
      <4> QED
        BY <2>1, <4>2, <4>3, <4>4, <4>5
    <3>7. Ordered(l)
      <4>1. Rest(k) = chunk \o Rest(l)
        BY <2>7, <3>6
      <4>2. l.out = k.out \o chunk /\ chunk \in Units
        BY <2>6, <3>3 DEF out
      <4> HIDE DEF l, chunk
      <4> QED
        BY <3>3, <3>4, <3>6, <4>1, <4>2, OrderedWritten
    <3> HIDE DEF l
    <3> QED
      BY <3>1, <3>3, <3>4, <3>5, <3>7 DEF Sound
  <2>10. CASE n # rest
    <3> DEFINE sent == k.sentlen + n
               q == k.reply
               l == WithWritten(k, room, out, q, sent)
    <3>1. WriteHead(k) = l
      BY <2>5, <2>10
    <3>2. sent \in Nat /\ sent < Len(obj) /\ sent <= Len(obj)
      <4>1. sent < Len(obj)
        BY <2>4, <2>10
      <4> HIDE DEF obj
      <4> QED
        BY <1>2, <2>1, <2>4, <4>1
    <3> HIDE DEF out, room, sent, q
    <3>3. /\ l \in Conn
          /\ l.room = room /\ l.out = out /\ l.reply = q /\ l.sentlen = sent
          /\ l.state = k.state /\ l.fd = k.fd /\ l.role = k.role /\ l.repl = k.repl
          /\ l.bulklen = k.bulklen
      <4>1. sent \in Nat /\ q \in Seq(Units)
        BY <1>2, <3>2 DEF q
      <4> QED
        BY <1>1, <2>8, <4>1, WithWrittenIs
    <3>4. OnlyWritten(k, l)
      BY <3>3 DEF OnlyWritten
    <3>5. Sized(l)
      <4>1. k.reply # <<>> /\ sent < Len(k.reply[1])
        BY <1>4, <2>1, <3>2
      <4> HIDE DEF l
      <4> QED
        BY <3>3, <4>1 DEF Sound, Sized, q
    <3>6. Rest(l) = more \o t /\ Rest(l) \in Units
      <4>1. Rest(l) = SubSeq(obj \o t, sent + 1, Len(obj \o t))
        BY <2>1, <3>3 DEF Rest, q
      <4>2. SubSeq(obj \o t, sent + 1, Len(obj \o t)) = SubSeq(obj, sent + 1, Len(obj)) \o t
        BY <2>1, <3>2, SubConcat
      <4>3. more = SubSeq(obj, sent + 1, Len(obj))
        BY DEF sent
      <4>4. more \o t \in Units
        BY <2>1, <2>6, ConcatProperties DEF Units
      <4> HIDE DEF l, t, more, obj
      <4> QED
        BY <4>1, <4>2, <4>3, <4>4
    <3>7. Ordered(l)
      <4>1. Rest(k) = chunk \o Rest(l)
        BY <2>7, <3>6
      <4>2. l.out = k.out \o chunk /\ chunk \in Units
        BY <2>6, <3>3 DEF out
      <4> HIDE DEF l, chunk
      <4> QED
        BY <3>3, <3>4, <3>6, <4>1, <4>2, OrderedWritten
    <3> HIDE DEF l
    <3> QED
      BY <3>1, <3>3, <3>4, <3>5, <3>7 DEF Sound
  <2> QED
    BY <2>9, <2>10
<1>5. k.reply = <<>> => WriteHead(k) = k
  BY DEF WriteHead
<1> QED
  BY <1>3, <1>4, <1>5

\* The connection after each turn of the loop.
Turns(f, k, m) == f = [i \in 0 .. m |-> IF i = 0 THEN k ELSE WriteHead(f[i - 1])]

LEMMA WritesExist ==
  ASSUME NEW k, NEW m \in Nat
  PROVE  \E f : Turns(f, k, m)
<1> DEFINE Steps(f, x) == f = [i \in 0 .. x |-> IF i = 0 THEN k ELSE WriteHead(f[i - 1])]
           Fine == {x \in Nat : \E f : Steps(f, x)}
<1>1. 0 \in Fine
  <2>1. Steps([i \in 0 .. 0 |-> k], 0)
    OBVIOUS
  <2>2. \E f : Steps(f, 0)
    BY <2>1
  <2> HIDE DEF Steps
  <2> QED
    BY <2>2
<1>2. ASSUME NEW x \in Nat, x \in Fine
      PROVE  x + 1 \in Fine
  <2>1. PICK f : Steps(f, x)
    BY <1>2
  <2> DEFINE r == [i \in 0 .. x + 1 |-> IF i = x + 1 THEN WriteHead(f[x]) ELSE f[i]]
  <2>2. ASSUME NEW i \in 0 .. x + 1
        PROVE  r[i] = IF i = 0 THEN k ELSE WriteHead(r[i - 1])
    <3>1. CASE i = x + 1
      BY <3>1
    <3>2. CASE i \in 0 .. x
      BY <2>1, <3>2
    <3> QED
      BY <3>1, <3>2
  <2>3. Steps(r, x + 1)
    BY <2>2
  <2> HIDE DEF r
  <2>4. \E g : Steps(g, x + 1)
    BY <2>3, Zenon
  <2> HIDE DEF Steps
  <2> QED
    BY <2>4
<1> HIDE DEF Fine
<1>3. m \in Fine
  BY <1>1, <1>2, NatRange
<1> QED
  BY <1>3 DEF Fine, Turns

\* The loop.
LEMMA WrittenSound ==
  ASSUME NEW k, Sound(k), k.repl \in {"none", "online"}
  PROVE  Sound(Written(k)) /\ OnlyWritten(k, Written(k))
<1> DEFINE m == Len(k.reply)
           f == CHOOSE g : Turns(g, k, m)
<1>1. k \in Conn
  BY DEF Sound
<1>2. m \in Nat
  <2>1. k.reply \in Seq(Units)
    BY <1>1, ConnFields
  <2> QED
    BY <2>1
<1>3. Turns(f, k, m)
  BY <1>2, WritesExist
<1>4. Written(k) = f[m]
  BY DEF Written, Turns
<1> HIDE DEF f, m
<1> DEFINE Good(l) == Sound(l) /\ OnlyWritten(k, l)
           Fine == {i \in Nat : i <= m => Good(f[i])}
<1>5. 0 \in Fine
  <2>1. f[0] = k
    BY <1>2, <1>3 DEF Turns
  <2> QED
    BY <1>1, <2>1, OnlyWrittenSame
<1>6. ASSUME NEW i \in Nat, i \in Fine
      PROVE  i + 1 \in Fine
  <2> SUFFICES ASSUME i + 1 <= m
               PROVE  Good(f[i + 1])
    OBVIOUS
  <2>1. Good(f[i])
    BY <1>2, <1>6
  <2>2. f[i + 1] = WriteHead(f[i])
    BY <1>2, <1>3 DEF Turns
  <2> DEFINE a == f[i]
             b == WriteHead(a)
  <2>3. a \in Conn /\ OnlyWritten(k, a) /\ Sound(a)
    BY <2>1 DEF Sound
  <2> HIDE DEF a
  <2>4. a.repl \in {"none", "online"}
    BY <1>1, <2>3, OnlyWrittenIs
  <2>5. Sound(b) /\ OnlyWritten(a, b)
    BY <2>3, <2>4, WriteHeadSound
  <2> HIDE DEF b
  <2>6. b \in Conn
    BY <2>5 DEF Sound
  <2>7. OnlyWritten(k, b)
    BY <1>1, <2>3, <2>5, <2>6, OnlyWrittenTwice
  <2> QED
    BY <2>2, <2>5, <2>7 DEF a, b
<1>7. m \in Fine
  <2> HIDE DEF Fine
  <2> QED
    BY <1>2, <1>5, <1>6, NatRange
<1> QED
  BY <1>2, <1>4, <1>7

-----------------------------------------------------------------------------
(* Sending a dump.                                                         *)

\* What sendBulkToSlave has written when n units of the dump went out.
Sent(k, n, repl) ==
  [k EXCEPT !.off = k.off + n,
            !.room = (IF k.off = 0 THEN k.room - 1 ELSE k.room) - n,
            !.out = k.out \o (IF k.off = 0 THEN <<"count">> ELSE <<>>)
                          \o [i \in 1 .. n |-> "dump"],
            !.repl = repl]

LEMMA DumpGrows ==
  ASSUME NEW m \in Nat, NEW n \in Nat \ {0}
  PROVE  /\ [i \in 1 .. n |-> "dump"] \in Units
         /\ (IF m = 0 THEN <<"count">> ELSE <<>>) \in Units
         /\ Dump(m) \o ((IF m = 0 THEN <<"count">> ELSE <<>>) \o [i \in 1 .. n |-> "dump"])
              = Dump(m + n)
<1> DEFINE d == [i \in 1 .. n |-> "dump"]
           h == IF m = 0 THEN <<"count">> ELSE <<>>
           e == h \o d
           w == Dump(m) \o e
<1>1. d \in Units /\ Len(d) = n /\ \A i \in 1 .. n : d[i] = "dump"
  <2>1. d \in [1 .. n -> Unit] /\ \A i \in 1 .. n : d[i] = "dump"
    BY ClientsAssumption
  <2> HIDE DEF d
  <2>2. d \in Seq(Unit)
    BY <2>1, SeqDef
  <2>3. Len(d) = n
    BY <2>1, <2>2, LenProperties
  <2> QED
    BY <2>1, <2>2, <2>3 DEF Units
<1>2. /\ h \in Units /\ Len(h) = IF m = 0 THEN 1 ELSE 0
      /\ \A i \in 1 .. Len(h) : h[i] = "count"
  <2>1. <<"count">> \in Units /\ Len(<<"count">>) = 1 /\ <<"count">>[1] = "count"
    BY One, ClientsAssumption
  <2>2. <<>> \in Units /\ Len(<<>>) = 0
    BY DEF Units
  <2> QED
    BY <2>1, <2>2
<1> HIDE DEF d, h
<1>3. e \in Units /\ Len(e) = Len(h) + n
      /\ \A i \in 1 .. Len(h) + n : e[i] = IF i <= Len(h) THEN h[i] ELSE d[i - Len(h)]
  BY <1>1, <1>2, ConcatProperties DEF Units
<1> HIDE DEF e
<1>4. /\ Dump(m) \in Units /\ Len(Dump(m)) = IF m = 0 THEN 0 ELSE m + 1
      /\ \A i \in 1 .. Len(Dump(m)) : Dump(m)[i] = IF i = 1 THEN "count" ELSE "dump"
  BY DumpIs
<1>5. /\ w \in Units /\ Len(w) = Len(Dump(m)) + Len(e)
      /\ \A i \in 1 .. Len(Dump(m)) + Len(e) :
           w[i] = IF i <= Len(Dump(m)) THEN Dump(m)[i] ELSE e[i - Len(Dump(m))]
  BY <1>3, <1>4, ConcatProperties DEF Units
<1>6. /\ Dump(m + n) \in Units /\ Len(Dump(m + n)) = m + n + 1
      /\ \A i \in 1 .. m + n + 1 : Dump(m + n)[i] = IF i = 1 THEN "count" ELSE "dump"
  <2>1. m + n \in Nat /\ m + n # 0
    OBVIOUS
  <2> DEFINE x == m + n
  <2>2. x \in Nat /\ x # 0
    BY <2>1
  <2> HIDE DEF x
  <2>3. /\ Dump(x) \in Units /\ Len(Dump(x)) = x + 1
        /\ \A i \in 1 .. x + 1 : Dump(x)[i] = IF i = 1 THEN "count" ELSE "dump"
    BY <2>2, DumpIs
  <2> QED
    BY <2>3 DEF x
<1> HIDE DEF w
<1>7. Len(w) = m + n + 1
  BY <1>1, <1>2, <1>3, <1>4, <1>5
<1>8. ASSUME NEW i \in 1 .. m + n + 1
      PROVE  w[i] = IF i = 1 THEN "count" ELSE "dump"
  <2>1. CASE m = 0
    <3>1. Len(h) = 1 /\ Len(Dump(m)) = 0 /\ Len(e) = n + 1
      BY <1>2, <1>3, <1>4, <2>1
    <3>2. w[i] = e[i]
      BY <1>5, <2>1, <3>1
    <3>3. CASE i = 1
      BY <1>2, <1>3, <3>1, <3>2, <3>3
    <3>4. CASE i # 1
      <4>1. i - 1 \in 1 .. n /\ ~(i <= 1)
        BY <2>1, <3>4
      <4> QED
        BY <1>1, <1>3, <2>1, <3>1, <3>2, <3>4, <4>1
    <3> QED
      BY <3>3, <3>4
  <2>2. CASE m # 0
    <3>1. Len(h) = 0 /\ Len(Dump(m)) = m + 1 /\ Len(e) = n
      BY <1>2, <1>3, <1>4, <2>2
    <3>2. CASE i <= m + 1
      BY <1>4, <1>5, <3>1, <3>2
    <3>3. CASE ~(i <= m + 1)
      <4>1. i - (m + 1) \in 1 .. n /\ i # 1
        BY <3>3
      <4>2. w[i] = e[i - (m + 1)]
        BY <1>5, <3>1, <3>3
      <4>3. e[i - (m + 1)] = d[i - (m + 1)]
        BY <1>3, <3>1, <4>1
      <4> QED
        BY <1>1, <4>1, <4>2, <4>3
    <3> QED
      BY <3>2, <3>3
  <2> QED
    BY <2>1, <2>2
<1>9. w = Dump(m + n)
  <2> DEFINE v == Dump(m + n)
  <2>1. v \in Units /\ w \in Units /\ Len(v) = Len(w) /\ \A i \in 1 .. Len(w) : w[i] = v[i]
    BY <1>5, <1>6, <1>7, <1>8
  <2> HIDE DEF v
  <2>2. v = w
    BY <2>1, SeqEqual DEF Units
  <2> QED
    BY <2>2 DEF v
<1> QED
  BY <1>1, <1>2, <1>9 DEF w, e, h, d

LEMMA SentSound ==
  ASSUME NEW k, Sound(k), k.repl = "bulk", NEW n \in Nat \ {0}, NEW repl,
         n <= DumpSize - k.off, n <= IF k.off = 0 THEN k.room - 1 ELSE k.room,
         repl = IF k.off + n < DumpSize THEN "bulk" ELSE "online"
  PROVE  LET l == Sent(k, n, repl)
         IN /\ Sound(l)
            /\ l.reply = k.reply /\ l.owed = k.owed /\ l.fd = k.fd /\ l.repl = repl
            /\ l.peer = k.peer /\ l.state = k.state
            /\ l.executed = k.executed /\ l.received = k.received /\ l.held = k.held
            /\ l.querybuf = k.querybuf /\ l.argv = k.argv /\ l.bulklen = k.bulklen
            /\ l.bulk = k.bulk
<1> DEFINE h == IF k.off = 0 THEN <<"count">> ELSE <<>>
           d == [i \in 1 .. n |-> "dump"]
           l == Sent(k, n, repl)
           room == (IF k.off = 0 THEN k.room - 1 ELSE k.room) - n
           off == k.off + n
           out == k.out \o h \o d
<1>1. k \in Conn /\ Ordered(k) /\ Sized(k)
  BY DEF Sound
<1>2. /\ k.room \in 0 .. Room /\ k.out \in Units /\ k.off \in 0 .. DumpSize
      /\ k.owed \in Units
  BY <1>1, ConnFields
<1>3. Room \in Nat /\ DumpSize \in Nat \ {0}
  BY ClientsAssumption
<1>4. k.off < DumpSize
  BY <1>1 DEF Ordered
<1>5. /\ room \in 0 .. Room /\ off \in 1 .. DumpSize
      /\ repl = "bulk" => off < DumpSize
      /\ repl = "online" => off = DumpSize
      /\ repl \in {"bulk", "online"}
  BY <1>2, <1>3, <1>4
<1>6. k.off \in Nat
  BY <1>2
<1>7. /\ d \in Units /\ h \in Units
      /\ Dump(k.off) \o (h \o d) = Dump(off)
  BY <1>6, DumpGrows
<1>8. Dump(k.off) \in Units
  BY <1>6, DumpIs
<1> HIDE DEF h, d
<1>9. out = k.out \o (h \o d) /\ out \in Units /\ h \o d \in Units
  <2>1. (k.out \o h) \o d = k.out \o (h \o d)
    BY <1>2, <1>7, Associative
  <2>2. h \o d \in Units
    BY <1>7, ConcatProperties DEF Units
  <2>3. k.out \o (h \o d) \in Units
    <3> DEFINE e == h \o d
    <3>1. e \in Units
      BY <2>2
    <3> HIDE DEF e
    <3>2. k.out \o e \in Units
      BY <1>2, <3>1, ConcatProperties DEF Units
    <3> QED
      BY <3>2 DEF e
  <2> QED
    BY <2>1, <2>2, <2>3
<1>10. PICK pre \in Units, post \in Units :
         /\ k.out = (pre \o Dump(k.off)) \o post
         /\ (pre \o post) \o Rest(k) = k.owed
         /\ k.repl \in {"wait", "bulk"} => post = <<>>
  BY <1>1 DEF Ordered
<1>11. l = [k EXCEPT !.off = off, !.room = room, !.out = out, !.repl = repl]
  BY DEF Sent, h, d
<1> HIDE DEF room, off, out, l
<1>12. /\ l \in Conn
       /\ l.off = off /\ l.room = room /\ l.out = out /\ l.repl = repl
       /\ l.reply = k.reply /\ l.owed = k.owed /\ l.fd = k.fd
       /\ l.peer = k.peer /\ l.state = k.state /\ l.role = k.role
       /\ l.executed = k.executed /\ l.received = k.received /\ l.held = k.held
       /\ l.querybuf = k.querybuf /\ l.argv = k.argv /\ l.bulklen = k.bulklen
       /\ l.bulk = k.bulk /\ l.sentlen = k.sentlen
  <2>1. off \in 0 .. DumpSize
    BY <1>3, <1>5
  <2> QED
    BY <1>1, <1>5, <1>9, <1>11, <2>1 DEF Conn
<1>13. Sized(l)
  BY <1>1, <1>5, <1>12 DEF Sized
<1>14. Rest(l) = Rest(k)
  BY <1>12 DEF Rest
<1>15. l.out = (pre \o Dump(l.off)) \o post
  <2>1. post = <<>>
    BY <1>10
  <2> DEFINE a == pre \o Dump(k.off)
             e == h \o d
             b == pre \o Dump(off)
  <2>2. a \in Units /\ e \in Units
    BY <1>8, <1>9, ConcatProperties DEF Units
  <2>3. a \o e = pre \o (Dump(k.off) \o e)
    <3> HIDE DEF e
    <3> QED
      BY <1>8, <2>2, Associative
  <2>4. Dump(k.off) \o e = Dump(off)
    BY <1>7
  <2>5. a \o e = b
    BY <2>3, <2>4
  <2>6. Dump(off) \in Units
    BY <1>5, DumpIs
  <2>7. b \in Units
    BY <2>6, ConcatProperties DEF Units
  <2>8. k.out = a \o post
    BY <1>10
  <2>9. out = (a \o post) \o e
    BY <1>9, <2>8
  <2> HIDE DEF a, e, b
  <2>10. a \o <<>> = a /\ b \o <<>> = b
    BY <2>2, <2>7, ConcatEmptySeq DEF Units
  <2>11. out = b \o post
    BY <2>1, <2>5, <2>9, <2>10
  <2> QED
    BY <1>12, <2>11 DEF b
<1>16. (pre \o post) \o Rest(l) = l.owed
  BY <1>10, <1>12, <1>14
<1>17. post = <<>>
  BY <1>10
<1>18. Ordered(l)
  <2>1. NoDump(l.owed)
    BY <1>1, <1>12 DEF Ordered
  <2> QED
    BY <1>5, <1>12, <1>15, <1>16, <1>17, <2>1 DEF Ordered
<1>19. l.state = "open"
  BY <1>12 DEF Sound
<1> QED
  BY <1>12, <1>13, <1>18, <1>19 DEF Sound, l

-----------------------------------------------------------------------------
(* The list of file events.                                                *)

FileEvent ==
  [fd : Fds \cup {Listener}, mask : {"readable", "writable"},
   proc : {"accept", "readQuery", "sendReply", "sendBulk"}, client : Conns \cup {"none"}]

Masks == {"readable", "writable"}
Kind(c, mask) == {e \in FileEvent : e.client = c /\ e.mask = mask}

\* Where events of a kind are in the list, and how many there are.
At(q, kind) == {i \in DOMAIN q : q[i] \in kind}
Count(q, kind) == Cardinality(At(q, kind))

LEMMA AtFinite ==
  ASSUME NEW q \in Seq(FileEvent), NEW kind
  PROVE  /\ IsFiniteSet(At(q, kind)) /\ Count(q, kind) \in Nat
         /\ Count(q, kind) = 0 <=> \A i \in 1 .. Len(q) : q[i] \notin kind
<1>1. DOMAIN q = 1 .. Len(q) /\ Len(q) \in Nat
  OBVIOUS
<1>2. IsFiniteSet(1 .. Len(q))
  BY <1>1, FS_Interval
<1>3. At(q, kind) \in SUBSET (1 .. Len(q))
  BY <1>1 DEF At
<1>4. IsFiniteSet(At(q, kind))
  BY <1>2, <1>3, FS_Subset
<1>5. Count(q, kind) \in Nat /\ (Count(q, kind) = 0 <=> At(q, kind) = {})
  BY <1>4, FS_CardinalityType, FS_EmptySet DEF Count
<1> QED
  BY <1>1, <1>4, <1>5 DEF At

\* aeCreateFileEvent adds one.
LEMMA CountCreated ==
  ASSUME NEW q \in Seq(FileEvent), NEW e \in FileEvent, NEW kind
  PROVE  /\ <<e>> \o q \in Seq(FileEvent)
         /\ Len(<<e>> \o q) = Len(q) + 1
         /\ \A i \in 1 .. Len(q) + 1 : (<<e>> \o q)[i] = IF i = 1 THEN e ELSE q[i - 1]
         /\ Count(<<e>> \o q, kind) = Count(q, kind) + (IF e \in kind THEN 1 ELSE 0)
<1> DEFINE r == <<e>> \o q
           n == Len(q)
<1>1. <<e>> \in Seq(FileEvent) /\ Len(<<e>>) = 1 /\ <<e>>[1] = e
  <2>1. Append(<<>>, e) = <<e>> /\ <<>> \in Seq(FileEvent)
    OBVIOUS
  <2>2. Append(<<>>, e) \in Seq(FileEvent) /\ Len(Append(<<>>, e)) = 1 /\ Append(<<>>, e)[1] = e
    BY <2>1
  <2> QED
    BY <2>1, <2>2
<1>2. n \in Nat /\ DOMAIN q = 1 .. n
  OBVIOUS
<1>3. /\ r \in Seq(FileEvent) /\ Len(r) = n + 1 /\ DOMAIN r = 1 .. n + 1
      /\ \A i \in 1 .. n + 1 : r[i] = IF i = 1 THEN e ELSE q[i - 1]
  <2>1. /\ r \in Seq(FileEvent) /\ Len(r) = n + 1
        /\ \A i \in 1 .. n + 1 : r[i] = IF i <= 1 THEN <<e>>[i] ELSE q[i - 1]
    BY <1>1, ConcatProperties
  <2> HIDE DEF r
  <2>2. ASSUME NEW i \in 1 .. n + 1
        PROVE  r[i] = IF i = 1 THEN e ELSE q[i - 1]
    <3>1. i <= 1 <=> i = 1
      BY <1>2
    <3> QED
      BY <1>1, <2>1, <3>1
  <2> QED
    BY <2>1, <2>2
<1> HIDE DEF r
<1> DEFINE S == At(q, kind)
           T == {i \in 2 .. n + 1 : r[i] \in kind}
           f == [i \in S |-> i + 1]
<1>4. f \in Bijection(S, T)
  <2>1. \A i \in S : i \in 1 .. n /\ q[i] \in kind /\ i + 1 \in 2 .. n + 1 /\ r[i + 1] = q[i]
    <3> SUFFICES ASSUME NEW i \in S
                 PROVE  i \in 1 .. n /\ q[i] \in kind /\ i + 1 \in 2 .. n + 1 /\ r[i + 1] = q[i]
      OBVIOUS
    <3>1. i \in 1 .. n /\ q[i] \in kind
      BY <1>2 DEF At
    <3>2. i + 1 \in 1 .. n + 1 /\ i + 1 # 1 /\ (i + 1) - 1 = i /\ i + 1 \in 2 .. n + 1
      BY <1>2, <3>1
    <3> QED
      BY <1>3, <3>1, <3>2
  <2>2. f \in [S -> T]
    BY <2>1
  <2>3. \A a, b \in S : f[a] = f[b] => a = b
    BY <2>1
  <2>4. \A t \in T : \E a \in S : f[a] = t
    <3> SUFFICES ASSUME NEW t \in T
                 PROVE  \E a \in S : f[a] = t
      OBVIOUS
    <3>1. t - 1 \in 1 .. n /\ r[t] = q[t - 1] /\ r[t] \in kind /\ (t - 1) + 1 = t
      BY <1>2, <1>3
    <3>2. t - 1 \in S
      BY <1>2, <3>1 DEF At
    <3> QED
      BY <3>1, <3>2
  <2> QED
    BY <2>2, <2>3, <2>4 DEF Bijection, Injection, Surjection, IsInjective
<1>5. IsFiniteSet(S) /\ Cardinality(S) \in Nat
  BY AtFinite DEF Count
<1>6. IsFiniteSet(T) /\ Cardinality(T) = Cardinality(S)
  <2>1. ExistsBijection(S, T)
    BY <1>4 DEF ExistsBijection
  <2> HIDE DEF S, T
  <2> QED
    BY <1>5, <2>1, FS_Bijection
<1>7. At(r, kind) = IF e \in kind THEN T \cup {1} ELSE T
  <2>1. \A i : i \in 1 .. n + 1 <=> i = 1 \/ i \in 2 .. n + 1
    BY <1>2
  <2> QED
    BY <1>2, <1>3, <2>1 DEF At
<1>8. 1 \notin T
  OBVIOUS
<1>9. Count(r, kind) = Count(q, kind) + (IF e \in kind THEN 1 ELSE 0)
  <2> HIDE DEF T, S
  <2>1. Cardinality(T \cup {1}) = Cardinality(T) + 1
    BY <1>6, <1>8, FS_AddElement
  <2> QED
    BY <1>5, <1>6, <1>7, <2>1 DEF Count, S
<1> QED
  BY <1>3, <1>9 DEF r

\* aeDeleteFileEvent takes one out.
LEMMA CountRemoved ==
  ASSUME NEW q \in Seq(FileEvent), NEW at \in 1 .. Len(q), NEW kind
  PROVE  /\ RemoveAt(q, at) \in Seq(FileEvent)
         /\ \A i \in 1 .. Len(RemoveAt(q, at)) : \E j \in 1 .. Len(q) : RemoveAt(q, at)[i] = q[j]
         /\ Count(RemoveAt(q, at), kind) = Count(q, kind) - (IF q[at] \in kind THEN 1 ELSE 0)
<1> DEFINE r == RemoveAt(q, at)
           n == Len(q)
           a == SubSeq(q, 1, at - 1)
           b == SubSeq(q, at + 1, n)
<1>1. n \in Nat /\ DOMAIN q = 1 .. n /\ at \in Nat /\ 1 <= at /\ at <= n
  OBVIOUS
<1>2. /\ a \in Seq(FileEvent) /\ Len(a) = at - 1
      /\ \A i \in 1 .. at - 1 : a[i] = q[i]
      /\ b \in Seq(FileEvent) /\ Len(b) = n - at
      /\ \A i \in 1 .. n - at : b[i] = q[at + i]
  <2> DEFINE h == at - 1
             j == at + 1
  <2>1. h \in 0 .. n /\ j \in 1 .. n + 1 /\ h + 1 = at /\ j = at + 1
    BY <1>1
  <2> HIDE DEF h, j, n
  <2>2. \A i \in 1 .. n : q[i] \in FileEvent
    BY DEF n
  <2>3. /\ \A i \in 1 .. h : q[i] \in FileEvent
        /\ \A i \in j .. n : q[i] \in FileEvent
    BY <1>1, <2>1, <2>2
  <2>4. SubSeq(q, 1, h) \in Seq(FileEvent) /\ Len(SubSeq(q, 1, h)) = h
        /\ \A i \in 1 .. h : SubSeq(q, 1, h)[i] = q[i]
    <3>1. /\ SubSeq(q, 1, h) \in Seq(FileEvent)
          /\ Len(SubSeq(q, 1, h)) = IF 1 <= h THEN h - 1 + 1 ELSE 0
          /\ \A i \in 1 .. h - 1 + 1 : SubSeq(q, 1, h)[i] = q[1 + i - 1]
      BY <1>1, <2>1, <2>3, SubSeqProperties
    <3> QED
      BY <1>1, <2>1, <3>1
  <2>5. SubSeq(q, j, n) \in Seq(FileEvent) /\ Len(SubSeq(q, j, n)) = n - at
        /\ \A i \in 1 .. n - at : SubSeq(q, j, n)[i] = q[at + i]
    <3>1. /\ SubSeq(q, j, n) \in Seq(FileEvent)
          /\ Len(SubSeq(q, j, n)) = IF j <= n THEN n - j + 1 ELSE 0
          /\ \A i \in 1 .. n - j + 1 : SubSeq(q, j, n)[i] = q[j + i - 1]
      BY <1>1, <2>1, <2>3, SubSeqProperties
    <3> QED
      BY <1>1, <2>1, <3>1
  <2> QED
    BY <2>1, <2>4, <2>5 DEF h, j, n
<1>3. r = a \o b
  BY DEF RemoveAt
<1> HIDE DEF a, b, r
<1>4. /\ r \in Seq(FileEvent) /\ Len(r) = n - 1 /\ DOMAIN r = 1 .. n - 1
      /\ \A i \in 1 .. n - 1 : r[i] = IF i < at THEN q[i] ELSE q[i + 1]
  <2>1. /\ r \in Seq(FileEvent) /\ Len(r) = n - 1
        /\ \A i \in 1 .. n - 1 : r[i] = IF i <= at - 1 THEN a[i] ELSE b[i - (at - 1)]
    <3> HIDE DEF n
    <3>1. r \in Seq(FileEvent) /\ Len(r) = Len(a) + Len(b)
          /\ \A i \in 1 .. Len(a) + Len(b) : r[i] = IF i <= Len(a) THEN a[i] ELSE b[i - Len(a)]
      BY <1>2, <1>3, ConcatProperties
    <3>2. Len(a) + Len(b) = n - 1
      BY <1>1, <1>2
    <3> QED
      BY <1>2, <3>1, <3>2
  <2>2. ASSUME NEW i \in 1 .. n - 1
        PROVE  r[i] = IF i < at THEN q[i] ELSE q[i + 1]
    <3>1. CASE i < at
      BY <1>1, <1>2, <2>1, <3>1
    <3>2. CASE ~(i < at)
      <4>1. i - (at - 1) \in 1 .. n - at /\ at + (i - (at - 1)) = i + 1 /\ ~(i <= at - 1)
        BY <1>1, <3>2
      <4> QED
        BY <1>2, <2>1, <3>2, <4>1
    <3> QED
      BY <3>1, <3>2
  <2> QED
    BY <2>1, <2>2
<1> DEFINE S == At(q, kind) \ {at}
           T == At(r, kind)
           f == [i \in S |-> IF i < at THEN i ELSE i - 1]
<1>5. f \in Bijection(S, T)
  <2>1. \A i \in S : /\ i \in 1 .. n /\ i # at /\ q[i] \in kind
                     /\ f[i] \in 1 .. n - 1 /\ r[f[i]] = q[i]
    <3> SUFFICES ASSUME NEW i \in S
                 PROVE  /\ i \in 1 .. n /\ i # at /\ q[i] \in kind
                        /\ f[i] \in 1 .. n - 1 /\ r[f[i]] = q[i]
      OBVIOUS
    <3>1. i \in 1 .. n /\ i # at /\ q[i] \in kind
      BY <1>1 DEF At
    <3>2. CASE i < at
      <4>1. i \in 1 .. n - 1 /\ f[i] = i
        BY <1>1, <3>1, <3>2
      <4> QED
        BY <1>4, <3>1, <3>2, <4>1
    <3>3. CASE ~(i < at)
      <4>1. i - 1 \in 1 .. n - 1 /\ ~(i - 1 < at) /\ (i - 1) + 1 = i /\ f[i] = i - 1
        BY <1>1, <3>1, <3>3
      <4> QED
        BY <1>4, <3>1, <4>1
    <3> QED
      BY <3>2, <3>3
  <2>2. f \in [S -> T]
    BY <1>4, <2>1 DEF At
  <2>3. \A x, y \in S : f[x] = f[y] => x = y
    <3> SUFFICES ASSUME NEW x \in S, NEW y \in S, f[x] = f[y]
                 PROVE  x = y
      OBVIOUS
    <3>1. x \in 1 .. n /\ y \in 1 .. n /\ x # at /\ y # at
      BY <2>1
    <3>2. (IF x < at THEN x ELSE x - 1) = (IF y < at THEN y ELSE y - 1)
      OBVIOUS
    <3> QED
      BY <1>1, <3>1, <3>2
  <2>4. \A t \in T : \E x \in S : f[x] = t
    <3> SUFFICES ASSUME NEW t \in T
                 PROVE  \E x \in S : f[x] = t
      OBVIOUS
    <3>1. t \in 1 .. n - 1 /\ r[t] \in kind
      BY <1>4 DEF At
    <3>2. CASE t < at
      <4>1. t \in S /\ f[t] = t
        BY <1>1, <1>4, <3>1, <3>2 DEF At
      <4> QED
        BY <4>1
    <3>3. CASE ~(t < at)
      <4>1. t + 1 \in S /\ ~(t + 1 < at) /\ (t + 1) - 1 = t
        BY <1>1, <1>4, <3>1, <3>3 DEF At
      <4>2. f[t + 1] = t
        BY <4>1
      <4> QED
        BY <4>1, <4>2
    <3> QED
      BY <3>2, <3>3
  <2> QED
    BY <2>2, <2>3, <2>4 DEF Bijection, Injection, Surjection, IsInjective
<1>6. /\ IsFiniteSet(At(q, kind)) /\ Cardinality(At(q, kind)) \in Nat
      /\ IsFiniteSet(S)
      /\ Cardinality(S) = IF at \in At(q, kind) THEN Cardinality(At(q, kind)) - 1
                          ELSE Cardinality(At(q, kind))
  <2>1. IsFiniteSet(At(q, kind)) /\ Cardinality(At(q, kind)) \in Nat
    BY AtFinite DEF Count
  <2> QED
    BY <2>1, FS_RemoveElement
<1>7. Cardinality(T) = Cardinality(S)
  <2>1. ExistsBijection(S, T)
    BY <1>5 DEF ExistsBijection
  <2> HIDE DEF S, T
  <2> QED
    BY <1>6, <2>1, FS_Bijection
<1>8. at \in At(q, kind) <=> q[at] \in kind
  BY <1>1 DEF At
<1>9. Count(r, kind) = Count(q, kind) - (IF q[at] \in kind THEN 1 ELSE 0)
  <2> HIDE DEF S
  <2> QED
    BY <1>6, <1>7, <1>8 DEF Count
<1>10. \A i \in 1 .. Len(r) : \E j \in 1 .. Len(q) : r[i] = q[j]
  <2> SUFFICES ASSUME NEW i \in 1 .. n - 1
               PROVE  \E j \in 1 .. n : r[i] = q[j]
    BY <1>4
  <2>1. i \in 1 .. n /\ i + 1 \in 1 .. n
    BY <1>1
  <2> QED
    BY <1>4, <2>1
<1> QED
  BY <1>4, <1>9, <1>10 DEF r

LEMMA MinIn ==
  ASSUME NEW S \in SUBSET Nat, S # {}
  PROVE  Min(S) \in S /\ \A x \in S : Min(S) <= x
BY NatSmallest DEF Min

\* The states handlers work on.
States == [cl : [Conns -> Conn \cup {Gone}], ev : Seq(FileEvent), early : BOOLEAN]

\* One event of a client is deleted, if there is one.
Removed(q, r, c, mask) ==
  /\ r \in Seq(FileEvent)
  /\ \A i \in 1 .. Len(r) : \E j \in 1 .. Len(q) : r[i] = q[j]
  /\ \A d \in Conns, m \in Masks :
       Count(r, Kind(d, m)) =
         IF d = c /\ m = mask /\ Count(q, Kind(c, mask)) # 0
         THEN Count(q, Kind(d, m)) - 1 ELSE Count(q, Kind(d, m))

LEMMA DeleteRemoves ==
  ASSUME NEW s \in States, NEW c \in Conns, NEW mask \in Masks, NEW fd,
         \A i \in 1 .. Len(s.ev) : s.ev[i].fd = fd <=> s.ev[i].client = c
  PROVE  \E r : Removed(s.ev, r, c, mask) /\ Delete(s, fd, mask) = [s EXCEPT !.ev = r]
<1> DEFINE q == s.ev
           found == {i \in DOMAIN q : Masked(q[i], fd, mask)}
           kind == Kind(c, mask)
           at == Min(found)
<1>1. Delete(s, fd, mask) = IF found = {} THEN s ELSE [s EXCEPT !.ev = RemoveAt(q, at)]
  BY DEF Delete
<1>2. q \in Seq(FileEvent) /\ \A i \in 1 .. Len(q) : q[i] \in FileEvent
  BY DEF States
<1>3. DOMAIN q = 1 .. Len(q) /\ Len(q) \in Nat
  BY <1>2
<1>8. \A i \in 1 .. Len(q) : q[i].fd = fd <=> q[i].client = c
  OBVIOUS
<1> HIDE DEF q
<1>4. found = At(q, kind)
  BY <1>2, <1>3, <1>8 DEF At, Kind, Masked
<1>5. Count(q, kind) = 0 <=> found = {}
  BY <1>2, <1>3, <1>4, AtFinite DEF At
<1>6. CASE found = {}
  <2>1. Delete(s, fd, mask) = [s EXCEPT !.ev = q]
    BY <1>1, <1>6 DEF States, q
  <2>2. Removed(q, q, c, mask)
    BY <1>2, <1>5, <1>6 DEF Removed
  <2> QED
    BY <2>1, <2>2 DEF q
<1>7. CASE found # {}
  <2> HIDE DEF kind
  <2>1. at \in found
    <3>1. found \in SUBSET Nat
      BY <1>3
    <3> HIDE DEF found
    <3> QED
      BY <1>7, <3>1, MinIn
  <2>2. at \in 1 .. Len(q) /\ q[at] \in kind
    BY <1>3, <1>4, <2>1 DEF At
  <2> HIDE DEF at, found
  <2> DEFINE r == RemoveAt(q, at)
  <2>3. \A d \in Conns, m \in Masks : q[at] \in Kind(d, m) <=> d = c /\ m = mask
    BY <2>2 DEF kind, Kind
  <2>4. /\ r \in Seq(FileEvent)
        /\ \A i \in 1 .. Len(r) : \E j \in 1 .. Len(q) : r[i] = q[j]
    BY <1>2, <2>2, CountRemoved
  <2>5. ASSUME NEW d \in Conns, NEW m \in Masks
        PROVE  Count(r, Kind(d, m)) =
                 IF d = c /\ m = mask /\ Count(q, kind) # 0
                 THEN Count(q, Kind(d, m)) - 1 ELSE Count(q, Kind(d, m))
    <3> DEFINE other == Kind(d, m)
    <3>1. q[at] \in other <=> d = c /\ m = mask
      BY <2>3
    <3> HIDE DEF other
    <3>2. Count(r, other) = Count(q, other) - (IF q[at] \in other THEN 1 ELSE 0)
      BY <1>2, <2>2, CountRemoved
    <3>3. Count(q, other) \in Nat
      BY <1>2, AtFinite
    <3>4. Count(q, kind) # 0
      BY <1>5, <1>7
    <3> QED
      BY <3>1, <3>2, <3>3, <3>4 DEF other
  <2> HIDE DEF r
  <2>6. Removed(q, r, c, mask)
    BY <2>4, <2>5 DEF Removed, kind
  <2>7. Delete(s, fd, mask) = [s EXCEPT !.ev = r]
    BY <1>1, <1>7 DEF r
  <2> QED
    BY <2>6, <2>7 DEF q
<1> QED
  BY <1>6, <1>7

-----------------------------------------------------------------------------
(* What holds between two handlers, and between two steps of one.          *)

AcceptEvent == Event(Listener, "readable", "accept", "none")

\* e is an event of the connection k of c.
Owned(k, c, e) ==
  /\ e.client = c /\ e.fd = k.fd
  /\ e.mask = "readable" => e.proc = "readQuery"
  /\ e.mask = "writable" => e.proc = IF k.repl = "bulk" THEN "sendBulk" ELSE "sendReply"

Known(s, e) ==
  \/ e = AcceptEvent
  \/ e.client \in Conns /\ IsOpen(s, e.client) /\ Owned(s.cl[e.client], e.client, e)

\* The writable events a connection may have.
Fit(k, n) ==
  \/ k.repl = "none" /\ n = IF k.reply = <<>> THEN 0 ELSE 1
  \/ k.repl = "wait" /\ n = 0
  \/ k.repl = "bulk" /\ n = 1
  \/ k.repl = "online" /\ n \in IF k.reply = <<>> THEN 0 .. 1 ELSE 1 .. 2

OpenIn(s) == {c \in Conns : IsOpen(s, c)}

Sane(s) ==
  /\ s \in States /\ ~s.early
  /\ \A c \in Conns : IsOpen(s, c) =>
       /\ Sound(s.cl[c])
       /\ Count(s.ev, Kind(c, "readable")) = 1
       /\ Fit(s.cl[c], Count(s.ev, Kind(c, "writable")))
  /\ \A c, d \in Conns : IsOpen(s, c) /\ IsOpen(s, d) /\ s.cl[c].fd = s.cl[d].fd => c = d
  /\ \A i \in 1 .. Len(s.ev) : Known(s, s.ev[i])

Good(s) == Sane(s) /\ (MaxClients = 0 \/ Cardinality(OpenIn(s)) <= MaxClients)

\* The other connections are as they were, but for what is added to their replies.
Spares(s, t, c) ==
  \A d \in Conns \ {c} :
    IF IsOpen(s, d) THEN IsOpen(t, d) /\ OnlyReplies(s.cl[d], t.cl[d]) ELSE t.cl[d] = s.cl[d]

\* A handler's step that leaves its client, and one that may free it.
Keeps(s, t, c) == Good(t) /\ IsOpen(t, c) /\ t.cl[c].fd = s.cl[c].fd /\ Spares(s, t, c)
Frees(s, t, c) ==
  /\ t \in States /\ (t.early \/ Good(t))
  /\ t.cl[c] = Gone /\ Spares(s, t, c)

Put(s, c, l, q) == [s EXCEPT !.cl[c] = l, !.ev = q]

LEMMA PutIs ==
  ASSUME NEW s \in States, NEW c \in Conns, NEW l \in Conn \cup {Gone}, NEW q \in Seq(FileEvent)
  PROVE  /\ Put(s, c, l, q) \in States
         /\ Put(s, c, l, q).cl[c] = l /\ Put(s, c, l, q).ev = q
         /\ Put(s, c, l, q).early = s.early
         /\ \A d \in Conns \ {c} : Put(s, c, l, q).cl[d] = s.cl[d]
BY DEF Put, States

LEMMA SaneIs ==
  ASSUME NEW s, Sane(s), NEW c \in Conns, IsOpen(s, c)
  PROVE  /\ s \in States /\ Sound(s.cl[c]) /\ s.cl[c] \in Conn /\ s.cl[c].fd \in Fds
         /\ s.ev \in Seq(FileEvent)
         /\ Count(s.ev, Kind(c, "readable")) = 1
         /\ Fit(s.cl[c], Count(s.ev, Kind(c, "writable")))
         /\ \A i \in 1 .. Len(s.ev) : /\ s.ev[i].fd = s.cl[c].fd <=> s.ev[i].client = c
                                      /\ s.ev[i].client = c => Owned(s.cl[c], c, s.ev[i])
<1>1. /\ s \in States /\ Sound(s.cl[c])
      /\ Count(s.ev, Kind(c, "readable")) = 1
      /\ Fit(s.cl[c], Count(s.ev, Kind(c, "writable")))
  BY DEF Sane
<1>2. s.cl[c] \in Conn /\ s.cl[c].fd \in Fds
  BY <1>1 DEF Sound, Sized
<1>3. s.ev \in Seq(FileEvent)
  BY <1>1 DEF States
<1>4. ASSUME NEW i \in 1 .. Len(s.ev)
      PROVE  /\ s.ev[i].fd = s.cl[c].fd <=> s.ev[i].client = c
             /\ s.ev[i].client = c => Owned(s.cl[c], c, s.ev[i])
  <2>1. Known(s, s.ev[i])
    BY DEF Sane
  <2>2. Listener \notin Fds /\ "none" \notin Conns
    BY ClientsAssumption DEF Listener
  <2>3. CASE s.ev[i] = AcceptEvent
    <3>1. s.ev[i].fd = Listener /\ s.ev[i].client = "none"
      BY <2>3 DEF AcceptEvent, Event
    <3> QED
      BY <1>2, <2>2, <3>1
  <2>4. CASE /\ s.ev[i].client \in Conns /\ IsOpen(s, s.ev[i].client)
             /\ Owned(s.cl[s.ev[i].client], s.ev[i].client, s.ev[i])
    <3>1. s.ev[i].fd = s.cl[s.ev[i].client].fd
      BY <2>4 DEF Owned
    <3>2. s.ev[i].fd = s.cl[c].fd => s.ev[i].client = c
      BY <2>4, <3>1 DEF Sane
    <3> QED
      BY <2>4, <3>1, <3>2
  <2> QED
    BY <2>1, <2>3, <2>4 DEF Known
<1> QED
  BY <1>1, <1>2, <1>3, <1>4

LEMMA GoodIs ==
  ASSUME NEW s, Good(s), NEW c \in Conns, IsOpen(s, c)
  PROVE  /\ s \in States /\ Sound(s.cl[c]) /\ s.cl[c] \in Conn /\ s.cl[c].fd \in Fds
         /\ s.ev \in Seq(FileEvent)
         /\ Count(s.ev, Kind(c, "readable")) = 1
         /\ Fit(s.cl[c], Count(s.ev, Kind(c, "writable")))
         /\ \A i \in 1 .. Len(s.ev) : /\ s.ev[i].fd = s.cl[c].fd <=> s.ev[i].client = c
                                      /\ s.ev[i].client = c => Owned(s.cl[c], c, s.ev[i])
BY SaneIs DEF Good

\* A step of a handler puts a connection and the list of events in place of others.
LEMMA PutKeeps ==
  ASSUME NEW s, Good(s), NEW c \in Conns, IsOpen(s, c),
         NEW l, Sound(l), l.fd = s.cl[c].fd, NEW q \in Seq(FileEvent),
         \A d \in Conns \ {c}, m \in Masks : Count(q, Kind(d, m)) = Count(s.ev, Kind(d, m)),
         Count(q, Kind(c, "readable")) = 1, Fit(l, Count(q, Kind(c, "writable"))),
         \A i \in 1 .. Len(q) :
           Owned(l, c, q[i]) \/ (q[i].client # c /\ \E j \in 1 .. Len(s.ev) : q[i] = s.ev[j])
  PROVE  Keeps(s, Put(s, c, l, q), c) /\ Put(s, c, l, q).cl[c] = l
<1> DEFINE t == Put(s, c, l, q)
<1>1. s \in States /\ l \in Conn /\ l.state = "open"
  BY DEF Good, Sane, Sound
<1>2. /\ t \in States /\ t.cl[c] = l /\ t.ev = q /\ t.early = s.early
      /\ \A d \in Conns \ {c} : t.cl[d] = s.cl[d]
  BY <1>1, PutIs
<1> HIDE DEF t
<1>3. \A d \in Conns : IsOpen(t, d) <=> IsOpen(s, d)
  BY <1>1, <1>2 DEF IsOpen
<1>4. \A d \in Conns : t.cl[d].fd = s.cl[d].fd
  BY <1>2
<1>5. ASSUME NEW i \in 1 .. Len(t.ev)
      PROVE  Known(t, t.ev[i])
  <2>1. CASE Owned(l, c, q[i])
    <3>1. q[i].client = c
      BY <2>1 DEF Owned
    <3> QED
      BY <1>2, <1>3, <2>1, <3>1 DEF Known
  <2>2. CASE q[i].client # c /\ \E j \in 1 .. Len(s.ev) : q[i] = s.ev[j]
    <3>1. Known(s, q[i])
      BY <2>2 DEF Good, Sane
    <3> QED
      BY <1>2, <1>3, <2>2, <3>1 DEF Known
  <2> QED
    BY <1>2, <2>1, <2>2
<1>6. ASSUME NEW d \in Conns, IsOpen(t, d)
      PROVE  /\ Sound(t.cl[d])
             /\ Count(t.ev, Kind(d, "readable")) = 1
             /\ Fit(t.cl[d], Count(t.ev, Kind(d, "writable")))
  <2>1. CASE d = c
    BY <1>2, <2>1
  <2>2. CASE d # c
    <3>1. /\ Sound(s.cl[d])
          /\ Count(s.ev, Kind(d, "readable")) = 1
          /\ Fit(s.cl[d], Count(s.ev, Kind(d, "writable")))
      BY <1>3, <1>6 DEF Good, Sane
    <3>2. \A m \in Masks : Count(q, Kind(d, m)) = Count(s.ev, Kind(d, m))
      BY <2>2
    <3>3. /\ Count(q, Kind(d, "readable")) = Count(s.ev, Kind(d, "readable"))
          /\ Count(q, Kind(d, "writable")) = Count(s.ev, Kind(d, "writable"))
      BY <3>2 DEF Masks
    <3> QED
      BY <1>2, <2>2, <3>1, <3>3
  <2> QED
    BY <2>1, <2>2
<1>7. OpenIn(t) = OpenIn(s)
  BY <1>3 DEF OpenIn
<1>8. Good(t)
  <2>1. \A d, e \in Conns : IsOpen(t, d) /\ IsOpen(t, e) /\ t.cl[d].fd = t.cl[e].fd => d = e
    BY <1>3, <1>4 DEF Good, Sane
  <2>2. ~s.early /\ (MaxClients = 0 \/ Cardinality(OpenIn(t)) <= MaxClients)
    BY <1>7 DEF Good, Sane
  <2> QED
    BY <1>2, <1>5, <1>6, <2>1, <2>2 DEF Good, Sane
<1>9. Spares(s, t, c)
  <2> SUFFICES ASSUME NEW d \in Conns \ {c}
               PROVE  IF IsOpen(s, d) THEN IsOpen(t, d) /\ OnlyReplies(s.cl[d], t.cl[d])
                      ELSE t.cl[d] = s.cl[d]
    BY DEF Spares
  <2>1. t.cl[d] = s.cl[d]
    BY <1>2
  <2>2. IsOpen(s, d) => OnlyReplies(s.cl[d], s.cl[d])
    <3>1. IsOpen(s, d) => s.cl[d] \in Conn
      BY GoodIs
    <3> QED
      BY <3>1, OnlyRepliesSame
  <2> QED
    BY <1>3, <2>1, <2>2
<1> QED
  BY <1>2, <1>3, <1>4, <1>8, <1>9 DEF Keeps, t

LEMMA OwnedSame ==
  ASSUME NEW k, NEW l, NEW c, NEW e, Owned(k, c, e), l.fd = k.fd,
         l.repl = "bulk" <=> k.repl = "bulk"
  PROVE  Owned(l, c, e)
BY DEF Owned

\* The events stay, or one is added.
LEMMA SameEvents ==
  ASSUME NEW s, Good(s), NEW c \in Conns, IsOpen(s, c),
         NEW l, Sound(l), l.fd = s.cl[c].fd, l.repl = "bulk" <=> s.cl[c].repl = "bulk",
         Fit(l, Count(s.ev, Kind(c, "writable")))
  PROVE  Keeps(s, Put(s, c, l, s.ev), c) /\ Put(s, c, l, s.ev).cl[c] = l
<1>1. s.ev \in Seq(FileEvent) /\ Count(s.ev, Kind(c, "readable")) = 1
  BY GoodIs
<1>2. \A i \in 1 .. Len(s.ev) : Owned(l, c, s.ev[i]) \/ s.ev[i].client # c
  <2>1. \A i \in 1 .. Len(s.ev) : s.ev[i].client = c => Owned(s.cl[c], c, s.ev[i])
    BY GoodIs
  <2> QED
    BY <2>1, OwnedSame
<1> QED
  BY <1>1, <1>2, PutKeeps

LEMMA OneMore ==
  ASSUME NEW q \in Seq(FileEvent), NEW c \in Conns, NEW fd \in Fds,
         NEW proc \in {"sendReply", "sendBulk"}
  PROVE  LET e == Event(fd, "writable", proc, c)
         IN /\ <<e>> \o q \in Seq(FileEvent)
            /\ \A d \in Conns \ {c}, m \in Masks :
                 Count(<<e>> \o q, Kind(d, m)) = Count(q, Kind(d, m))
            /\ Count(<<e>> \o q, Kind(c, "readable")) = Count(q, Kind(c, "readable"))
            /\ Count(<<e>> \o q, Kind(c, "writable")) = Count(q, Kind(c, "writable")) + 1
            /\ \A i \in 1 .. Len(<<e>> \o q) :
                 (<<e>> \o q)[i] = e \/ \E j \in 1 .. Len(q) : (<<e>> \o q)[i] = q[j]
<1> DEFINE e == Event(fd, "writable", proc, c)
           r == <<e>> \o q
<1>1. e \in FileEvent /\ e.client = c /\ e.mask = "writable"
  BY DEF Event, FileEvent
<1> HIDE DEF e
<1>2. /\ r \in Seq(FileEvent) /\ Len(r) = Len(q) + 1
      /\ \A i \in 1 .. Len(q) + 1 : r[i] = IF i = 1 THEN e ELSE q[i - 1]
  BY <1>1, CountCreated
<1>3. ASSUME NEW d \in Conns, NEW m \in Masks
      PROVE  /\ d = c /\ m = "writable" =>
                  Count(r, Kind(d, m)) = Count(q, Kind(d, m)) + 1
             /\ ~(d = c /\ m = "writable") => Count(r, Kind(d, m)) = Count(q, Kind(d, m))
  <2> DEFINE kind == Kind(d, m)
  <2>1. e \in kind <=> d = c /\ m = "writable"
    BY <1>1 DEF Kind
  <2> HIDE DEF kind
  <2>2. Count(r, kind) = Count(q, kind) + (IF e \in kind THEN 1 ELSE 0) /\ Count(q, kind) \in Nat
    BY <1>1, CountCreated, AtFinite
  <2> QED
    BY <2>1, <2>2 DEF kind
<1>4. "readable" \in Masks /\ "writable" \in Masks
  BY DEF Masks
<1>5. \A i \in 1 .. Len(r) : r[i] = e \/ \E j \in 1 .. Len(q) : r[i] = q[j]
  <2> SUFFICES ASSUME NEW i \in 1 .. Len(q) + 1
               PROVE  r[i] = e \/ \E j \in 1 .. Len(q) : r[i] = q[j]
    BY <1>2
  <2>1. i = 1 \/ i - 1 \in 1 .. Len(q)
    OBVIOUS
  <2> QED
    BY <1>2, <2>1
<1>6. \A d \in Conns \ {c}, m \in Masks : Count(r, Kind(d, m)) = Count(q, Kind(d, m))
  BY <1>3
<1>7. Count(r, Kind(c, "readable")) = Count(q, Kind(c, "readable"))
  BY <1>3, <1>4
<1>8. Count(r, Kind(c, "writable")) = Count(q, Kind(c, "writable")) + 1
  BY <1>3, <1>4
<1> QED
  BY <1>2, <1>5, <1>6, <1>7, <1>8 DEF r, e

LEMMA NewEvent ==
  ASSUME NEW s, Good(s), NEW c \in Conns, IsOpen(s, c),
         NEW l, Sound(l), l.fd = s.cl[c].fd,
         l.repl # "bulk", s.cl[c].repl # "bulk",
         Fit(l, Count(s.ev, Kind(c, "writable")) + 1)
  PROVE  LET t == Put(s, c, l, <<Event(l.fd, "writable", "sendReply", c)>> \o s.ev)
         IN Keeps(s, t, c) /\ t.cl[c] = l
<1> DEFINE e == Event(l.fd, "writable", "sendReply", c)
           q == <<e>> \o s.ev
<1>1. /\ s.ev \in Seq(FileEvent) /\ Count(s.ev, Kind(c, "readable")) = 1 /\ l.fd \in Fds
      /\ \A i \in 1 .. Len(s.ev) : s.ev[i].client = c => Owned(s.cl[c], c, s.ev[i])
  BY GoodIs
<1>2. /\ q \in Seq(FileEvent)
      /\ \A d \in Conns \ {c}, m \in Masks : Count(q, Kind(d, m)) = Count(s.ev, Kind(d, m))
      /\ Count(q, Kind(c, "readable")) = Count(s.ev, Kind(c, "readable"))
      /\ Count(q, Kind(c, "writable")) = Count(s.ev, Kind(c, "writable")) + 1
      /\ \A i \in 1 .. Len(q) : q[i] = e \/ \E j \in 1 .. Len(s.ev) : q[i] = s.ev[j]
  BY <1>1, OneMore
<1>3. Owned(l, c, e)
  BY DEF Owned, Event
<1> HIDE DEF q, e
<1>4. \A i \in 1 .. Len(q) :
        Owned(l, c, q[i]) \/ (q[i].client # c /\ \E j \in 1 .. Len(s.ev) : q[i] = s.ev[j])
  BY <1>1, <1>2, <1>3, OwnedSame
<1>5. Keeps(s, Put(s, c, l, q), c) /\ Put(s, c, l, q).cl[c] = l
  BY <1>1, <1>2, <1>4, PutKeeps
<1> QED
  BY <1>5 DEF q, e

LEMMA AddReplyKeeps ==
  ASSUME NEW s, Good(s), NEW c \in Conns, IsOpen(s, c),
         NEW obj \in Units, Len(obj) <= 2, NoDump(obj)
  PROVE  /\ Keeps(s, AddReply(s, c, obj), c)
         /\ OnlyReplies(s.cl[c], AddReply(s, c, obj).cl[c])
<1> DEFINE k == s.cl[c]
           l == Queued(k, obj)
           n == Count(s.ev, Kind(c, "writable"))
           e == Event(k.fd, "writable", "sendReply", c)
<1>1. /\ s \in States /\ Sound(k) /\ k \in Conn /\ s.ev \in Seq(FileEvent)
      /\ Fit(k, n)
  BY GoodIs
<1>2. /\ Sound(l) /\ OnlyReplies(k, l) /\ l \in Conn
      /\ l.reply = Append(k.reply, obj) /\ l.fd = k.fd /\ l.repl = k.repl
      /\ l.reply # <<>>
  <2>1. Sound(l)
    BY <1>1, QueuedSound
  <2>2. /\ l = WithReplies(k, Append(k.reply, obj), k.owed \o obj)
        /\ Append(k.reply, obj) \in Seq(Units) /\ k.owed \o obj \in Units
        /\ Append(k.reply, obj) # <<>> /\ l \in Conn /\ OnlyReplies(k, l)
    BY <1>1, QueuedIs
  <2> DEFINE r == Append(k.reply, obj)
             o == k.owed \o obj
  <2>3. r \in Seq(Units) /\ o \in Units /\ l = WithReplies(k, r, o) /\ r # <<>>
    BY <2>2
  <2> HIDE DEF r, o, l, k
  <2>4. l.reply = r /\ l.fd = k.fd /\ l.repl = k.repl
    BY <1>1, <2>3, WithRepliesIs
  <2> QED
    BY <2>1, <2>2, <2>3, <2>4 DEF r
<1>3. k.repl \in {"none", "wait", "bulk", "online"}
  BY <1>1 DEF Conn
<1>4. n \in Nat
  BY <1>1, AtFinite
<1>5. CASE k.reply = <<>> /\ k.repl \in {"none", "online"}
  <2>1. AddReply(s, c, obj) = Put(s, c, l, <<e>> \o s.ev)
    <3>1. AddReply(s, c, obj)
            = [Create(s, e) EXCEPT !.cl[c].reply = Append(@, obj), !.cl[c].owed = @ \o obj]
      BY <1>5 DEF AddReply
    <3> DEFINE q == <<e>> \o s.ev
               u == [s EXCEPT !.ev = q]
               r == Append(k.reply, obj)
               o == k.owed \o obj
    <3>2. Create(s, e) = u
      BY DEF Create
    <3>3. l = [k EXCEPT !.reply = r, !.owed = o]
      BY DEF Queued
    <3> HIDE DEF q
    <3>4. u.cl = s.cl /\ u = [cl |-> s.cl, ev |-> q, early |-> s.early]
      BY <1>1 DEF States
    <3>5. AddReply(s, c, obj) = [u EXCEPT !.cl[c].reply = r, !.cl[c].owed = o]
      BY <3>1, <3>2, <3>4
    <3> HIDE DEF r, o, l
    <3>6. [u EXCEPT !.cl[c].reply = r, !.cl[c].owed = o] = Put(s, c, l, q)
      BY <1>1, <3>3, <3>4 DEF Put, States
    <3> QED
      BY <3>5, <3>6 DEF q
  <2>2. Fit(l, n + 1)
    <3> HIDE DEF l, n, k
    <3> QED
      BY <1>1, <1>2, <1>4, <1>5 DEF Fit
  <2>3. Keeps(s, Put(s, c, l, <<e>> \o s.ev), c) /\ Put(s, c, l, <<e>> \o s.ev).cl[c] = l
    <3>1. l.repl # "bulk" /\ k.repl # "bulk"
      BY <1>2, <1>5
    <3>2. e = Event(l.fd, "writable", "sendReply", c)
      BY <1>2
    <3> HIDE DEF l, e
    <3> QED
      BY <1>2, <2>2, <3>1, <3>2, NewEvent
  <2> QED
    BY <1>2, <2>1, <2>3
<1>6. CASE ~(k.reply = <<>> /\ k.repl \in {"none", "online"})
  <2>1. AddReply(s, c, obj) = Put(s, c, l, s.ev)
    <3>1. AddReply(s, c, obj)
            = [s EXCEPT !.cl[c].reply = Append(@, obj), !.cl[c].owed = @ \o obj]
      BY <1>6 DEF AddReply
    <3> QED
      BY <1>1, <3>1 DEF Put, Queued, States
  <2>2. Fit(l, n)
    <3> HIDE DEF l, n, k
    <3> QED
      BY <1>1, <1>2, <1>3, <1>4, <1>6 DEF Fit
  <2>3. Keeps(s, Put(s, c, l, s.ev), c) /\ Put(s, c, l, s.ev).cl[c] = l
    <3> HIDE DEF l
    <3> QED
      BY <1>2, <2>2, SameEvents
  <2> QED
    BY <1>2, <2>1, <2>3
<1> QED
  BY <1>5, <1>6

-----------------------------------------------------------------------------
(* Handlers that only add replies.                                         *)

Answered(s, t) ==
  /\ Good(t)
  /\ \A d \in Conns :
       IF IsOpen(s, d) THEN IsOpen(t, d) /\ OnlyReplies(s.cl[d], t.cl[d]) ELSE t.cl[d] = s.cl[d]

LEMMA OnlyRepliesIs ==
  ASSUME NEW k \in Conn, NEW l \in Conn, OnlyReplies(k, l)
  PROVE  /\ l.state = k.state /\ l.peer = k.peer /\ l.script = k.script
         /\ l.input = k.input /\ l.room = k.room /\ l.fd = k.fd /\ l.role = k.role
         /\ l.repl = k.repl /\ l.off = k.off /\ l.querybuf = k.querybuf
         /\ l.argv = k.argv /\ l.bulk = k.bulk /\ l.bulklen = k.bulklen
         /\ l.sentlen = k.sentlen /\ l.received = k.received
         /\ l.executed = k.executed /\ l.held = k.held /\ l.out = k.out
<1>1. l.reply \in Seq(Units) /\ l.owed \in Units
  BY ConnFields
<1> QED
  BY <1>1, WithRepliesIs DEF OnlyReplies

LEMMA AnsweredSame ==
  ASSUME NEW s, Good(s)
  PROVE  Answered(s, s)
<1>1. \A d \in Conns : IsOpen(s, d) => OnlyReplies(s.cl[d], s.cl[d])
  BY GoodIs, OnlyRepliesSame
<1> QED
  BY <1>1 DEF Answered

LEMMA AnsweredTwice ==
  ASSUME NEW s, Good(s), NEW t, Answered(s, t), NEW u, Answered(t, u)
  PROVE  Answered(s, u)
<1>1. Good(t) /\ Good(u)
  BY DEF Answered
<1>2. ASSUME NEW d \in Conns
      PROVE  IF IsOpen(s, d) THEN IsOpen(u, d) /\ OnlyReplies(s.cl[d], u.cl[d])
             ELSE u.cl[d] = s.cl[d]
  <2>1. CASE IsOpen(s, d)
    <3>1. IsOpen(t, d) /\ OnlyReplies(s.cl[d], t.cl[d])
      BY <2>1 DEF Answered
    <3>2. IsOpen(u, d) /\ OnlyReplies(t.cl[d], u.cl[d])
      BY <3>1 DEF Answered
    <3>3. s.cl[d] \in Conn /\ t.cl[d] \in Conn /\ u.cl[d] \in Conn
      BY <1>1, <2>1, <3>1, <3>2, GoodIs
    <3> QED
      BY <2>1, <3>1, <3>2, <3>3, OnlyRepliesTwice
  <2>2. CASE ~IsOpen(s, d)
    <3>1. t.cl[d] = s.cl[d]
      BY <2>2 DEF Answered
    <3>2. ~IsOpen(t, d)
      BY <2>2, <3>1 DEF IsOpen
    <3> QED
      BY <2>2, <3>1, <3>2 DEF Answered
  <2> QED
    BY <2>1, <2>2
<1> QED
  BY <1>1, <1>2 DEF Answered

LEMMA AnsweredKeeps ==
  ASSUME NEW s, Good(s), NEW t, Answered(s, t), NEW c \in Conns, IsOpen(s, c)
  PROVE  Keeps(s, t, c) /\ OnlyReplies(s.cl[c], t.cl[c])
<1>1. Good(t) /\ IsOpen(t, c) /\ OnlyReplies(s.cl[c], t.cl[c])
  BY DEF Answered
<1>2. s.cl[c] \in Conn /\ t.cl[c] \in Conn
  BY <1>1, GoodIs
<1>3. t.cl[c].fd = s.cl[c].fd
  BY <1>1, <1>2, OnlyRepliesIs
<1> QED
  BY <1>1, <1>3 DEF Keeps, Answered, Spares

LEMMA AddReplyAnswers ==
  ASSUME NEW s, Good(s), NEW c \in Conns, IsOpen(s, c),
         NEW obj \in Units, Len(obj) <= 2, NoDump(obj)
  PROVE  Answered(s, AddReply(s, c, obj))
BY AddReplyKeeps DEF Keeps, Spares, Answered

LEMMA AddRepliesAnswers ==
  ASSUME NEW s, Good(s), NEW c \in Conns, IsOpen(s, c), NEW objs \in Seq(Units),
         \A i \in 1 .. Len(objs) : Len(objs[i]) <= 2 /\ NoDump(objs[i])
  PROVE  Answered(s, AddReplies(s, c, objs))
<1> DEFINE n == Len(objs)
           Steps(f, m) == f = [i \in 0 .. m |-> IF i = 0 THEN s ELSE AddReply(f[i - 1], c, objs[i])]
           Fine == {m \in Nat : \E f : Steps(f, m)}
           g == CHOOSE f : Steps(f, n)
<1>1. n \in Nat /\ \A i \in 1 .. n : objs[i] \in Units
  OBVIOUS
<1>2. AddReplies(s, c, objs) = g[n]
  BY DEF AddReplies, ForEach
<1>3. 0 \in Fine
  <2>1. Steps([i \in 0 .. 0 |-> s], 0)
    OBVIOUS
  <2>2. \E f : Steps(f, 0)
    BY <2>1
  <2> HIDE DEF Steps
  <2> QED
    BY <2>2
<1>4. ASSUME NEW m \in Nat, m \in Fine
      PROVE  m + 1 \in Fine
  <2>1. PICK f : Steps(f, m)
    BY <1>4
  <2> DEFINE r == [i \in 0 .. m + 1 |-> IF i = m + 1 THEN AddReply(f[m], c, objs[i]) ELSE f[i]]
  <2>2. ASSUME NEW i \in 0 .. m + 1
        PROVE  r[i] = IF i = 0 THEN s ELSE AddReply(r[i - 1], c, objs[i])
    <3>1. CASE i = m + 1
      BY <3>1
    <3>2. CASE i \in 0 .. m
      BY <2>1, <3>2
    <3> QED
      BY <3>1, <3>2
  <2>3. Steps(r, m + 1)
    BY <2>2
  <2> HIDE DEF r
  <2>4. \E f2 : Steps(f2, m + 1)
    BY <2>3, Zenon
  <2> HIDE DEF Steps
  <2> QED
    BY <2>4
<1>5. Steps(g, n)
  <2> HIDE DEF Fine
  <2>1. n \in Fine
    BY <1>1, <1>3, <1>4, NatRange
  <2>2. \E f : Steps(f, n)
    BY <2>1 DEF Fine
  <2> HIDE DEF Steps
  <2> QED
    BY <2>2
<1> HIDE DEF g, n
<1> DEFINE Done == {i \in Nat : i <= n => Answered(s, g[i])}
<1>6. 0 \in Done
  <2>1. g[0] = s
    BY <1>1, <1>5
  <2> QED
    BY <2>1, AnsweredSame
<1>7. ASSUME NEW i \in Nat, i \in Done
      PROVE  i + 1 \in Done
  <2> SUFFICES ASSUME i + 1 <= n
               PROVE  Answered(s, g[i + 1])
    OBVIOUS
  <2>1. Answered(s, g[i])
    BY <1>1, <1>7
  <2>2. g[i + 1] = AddReply(g[i], c, objs[i + 1]) /\ i + 1 \in 1 .. n
    BY <1>1, <1>5
  <2> DEFINE t == g[i]
             obj == objs[i + 1]
  <2>3. Good(t) /\ IsOpen(t, c)
    BY <2>1 DEF Answered
  <2>4. obj \in Units /\ Len(obj) <= 2 /\ NoDump(obj)
    BY <1>1, <2>2 DEF n
  <2> HIDE DEF t, obj
  <2>5. Answered(t, AddReply(t, c, obj))
    BY <2>3, <2>4, AddReplyAnswers
  <2>6. Answered(s, t)
    BY <2>1 DEF t
  <2>7. Answered(s, AddReply(t, c, obj))
    BY <2>5, <2>6, AnsweredTwice
  <2> QED
    BY <2>2, <2>7 DEF t, obj
<1>8. n \in Done
  <2> HIDE DEF Done
  <2> QED
    BY <1>1, <1>6, <1>7, NatRange
<1> QED
  BY <1>1, <1>2, <1>8

\* The elements of a finite set in some order, each once.
LEMMA Listed ==
  ASSUME NEW S, IsFiniteSet(S)
  PROVE  LET list == SetToSeq(S)
         IN /\ Len(list) = Cardinality(S) /\ Len(list) \in Nat
            /\ \A i \in 1 .. Len(list) : list[i] \in S
            /\ \A i, j \in 1 .. Len(list) : list[i] = list[j] => i = j
            /\ \A x \in S : \E i \in 1 .. Len(list) : list[i] = x
<1> DEFINE n == Cardinality(S)
           list == SetToSeq(S)
<1>1. n \in Nat /\ ExistsBijection(1 .. n, S)
  BY FS_CardinalityType
<1>2. PICK f : f \in Bijection(1 .. n, S)
  BY <1>1 DEF ExistsBijection
<1> HIDE DEF n
<1>3. f \in [1 .. n -> S] /\ IsInjective(f)
  BY <1>2 DEF Bijection, Injection, IsInjective
<1>4. list \in [1 .. n -> S] /\ IsInjective(list)
  <2>1. list = CHOOSE g \in [1 .. n -> S] : IsInjective(g)
    BY DEF SetToSeq, n
  <2> HIDE DEF list
  <2> QED
    BY <1>3, <2>1
<1> HIDE DEF list
<1>5. list \in Seq(S) /\ Len(list) = n
  <2>1. list \in Seq(S)
    BY <1>1, <1>4, SeqDef
  <2> QED
    BY <1>1, <1>4, <2>1, LenProperties
<1>6. \A i, j \in 1 .. n : list[i] = list[j] => i = j
  BY <1>4 DEF IsInjective
<1>7. \A x \in S : \E i \in 1 .. n : list[i] = x
  <2>1. list \in Injection(1 .. n, S)
    BY <1>4, <1>6 DEF Injection, IsInjective
  <2>2. Cardinality(1 .. n) = Cardinality(S)
    BY <1>1, FS_Interval DEF n
  <2>3. list \in Surjection(1 .. n, S)
    BY <2>1, <2>2, FS_Injection
  <2> QED
    BY <2>3 DEF Surjection
<1> QED
  BY <1>1, <1>4, <1>5, <1>6, <1>7 DEF n, list

LEMMA FeedAnswers ==
  ASSUME NEW s, Good(s), NEW cmd \in Commands, NEW role
  PROVE  Answered(s, Feed(s, cmd, role))
<1> DEFINE fed == {c \in Conns : s.cl[c].state = "open" /\ s.cl[c].role = role}
           list == SetToSeq(fed)
           obj == <<cmd>>
           n == Len(list)
           Steps(f, m) == f = [i \in 0 .. m |-> IF i = 0 THEN s ELSE AddReply(f[i - 1], list[i], obj)]
           Fine == {m \in Nat : \E f : Steps(f, m)}
           g == CHOOSE f : Steps(f, n)
<1>1. n \in Nat /\ \A i \in 1 .. n : list[i] \in Conns /\ IsOpen(s, list[i])
  <2>1. IsFiniteSet(fed)
    BY ClientsAssumption, FS_Subset
  <2>2. n \in Nat /\ \A i \in 1 .. n : list[i] \in fed
    <3> HIDE DEF fed
    <3> QED
      BY <2>1, Listed
  <2> HIDE DEF list
  <2> QED
    BY <2>2 DEF IsOpen
<1>2. Feed(s, cmd, role) = g[n]
  BY DEF Feed, ForEach
<1>3. obj \in Units /\ Len(obj) <= 2 /\ NoDump(obj)
  <2>1. cmd \in Unit /\ ~IsDump(cmd)
    BY ClientsAssumption DEF Commands, IsDump
  <2>2. obj \in Units /\ Len(obj) = 1 /\ obj[1] = cmd
    BY <2>1, One
  <2> QED
    BY <2>1, <2>2 DEF NoDump
<1> HIDE DEF fed, list, obj
<1>4. 0 \in Fine
  <2>1. Steps([i \in 0 .. 0 |-> s], 0)
    OBVIOUS
  <2>2. \E f : Steps(f, 0)
    BY <2>1
  <2> HIDE DEF Steps
  <2> QED
    BY <2>2
<1>5. ASSUME NEW m \in Nat, m \in Fine
      PROVE  m + 1 \in Fine
  <2>1. PICK f : Steps(f, m)
    BY <1>5
  <2> DEFINE r == [i \in 0 .. m + 1 |-> IF i = m + 1 THEN AddReply(f[m], list[i], obj) ELSE f[i]]
  <2>2. ASSUME NEW i \in 0 .. m + 1
        PROVE  r[i] = IF i = 0 THEN s ELSE AddReply(r[i - 1], list[i], obj)
    <3>1. CASE i = m + 1
      BY <3>1
    <3>2. CASE i \in 0 .. m
      BY <2>1, <3>2
    <3> QED
      BY <3>1, <3>2
  <2>3. Steps(r, m + 1)
    BY <2>2
  <2> HIDE DEF r
  <2>4. \E f2 : Steps(f2, m + 1)
    BY <2>3, Zenon
  <2> HIDE DEF Steps
  <2> QED
    BY <2>4
<1>6. Steps(g, n)
  <2> HIDE DEF Fine
  <2>1. n \in Fine
    BY <1>1, <1>4, <1>5, NatRange
  <2>2. \E f : Steps(f, n)
    BY <2>1 DEF Fine
  <2> HIDE DEF Steps
  <2> QED
    BY <2>2
<1> HIDE DEF g, n
<1> DEFINE Done == {i \in Nat : i <= n => Answered(s, g[i])}
<1>7. 0 \in Done
  <2>1. g[0] = s
    BY <1>1, <1>6
  <2> QED
    BY <2>1, AnsweredSame
<1>8. ASSUME NEW i \in Nat, i \in Done
      PROVE  i + 1 \in Done
  <2> SUFFICES ASSUME i + 1 <= n
               PROVE  Answered(s, g[i + 1])
    OBVIOUS
  <2>1. Answered(s, g[i])
    BY <1>1, <1>8
  <2>2. g[i + 1] = AddReply(g[i], list[i + 1], obj) /\ i + 1 \in 1 .. n
    BY <1>1, <1>6
  <2> DEFINE t == g[i]
             c == list[i + 1]
  <2>3. c \in Conns /\ IsOpen(s, c)
    BY <1>1, <2>2
  <2> HIDE DEF c
  <2>4. Good(t) /\ IsOpen(t, c)
    BY <2>1, <2>3 DEF Answered
  <2>5. Answered(s, t)
    BY <2>1
  <2> HIDE DEF t
  <2>6. Answered(t, AddReply(t, c, obj))
    BY <1>3, <2>3, <2>4, AddReplyAnswers
  <2>7. Answered(s, AddReply(t, c, obj))
    BY <2>5, <2>6, AnsweredTwice
  <2> QED
    BY <2>2, <2>7 DEF t, c
<1>9. n \in Done
  <2> HIDE DEF Done
  <2> QED
    BY <1>1, <1>7, <1>8, NatRange
<1> QED
  BY <1>1, <1>2, <1>9

LEMMA KeepsTwice ==
  ASSUME NEW s, Good(s), NEW t, NEW u, NEW c \in Conns, Keeps(s, t, c)
  PROVE  /\ Keeps(t, u, c) => Keeps(s, u, c)
         /\ Frees(t, u, c) => Frees(s, u, c)
<1>1. Good(t)
  BY DEF Keeps
<1>2. ASSUME Good(u) \/ u.early, Spares(t, u, c), NEW d \in Conns \ {c},
             Good(u) \/ \A e \in Conns \ {c} : IsOpen(u, e) => u.cl[e] \in Conn
      PROVE  IF IsOpen(s, d) THEN IsOpen(u, d) /\ OnlyReplies(s.cl[d], u.cl[d])
             ELSE u.cl[d] = s.cl[d]
  <2>1. CASE IsOpen(s, d)
    <3>1. IsOpen(t, d) /\ OnlyReplies(s.cl[d], t.cl[d])
      BY <2>1 DEF Keeps, Spares
    <3>2. IsOpen(u, d) /\ OnlyReplies(t.cl[d], u.cl[d])
      BY <1>2, <3>1 DEF Spares
    <3>3. s.cl[d] \in Conn /\ t.cl[d] \in Conn /\ u.cl[d] \in Conn
      BY <1>1, <1>2, <2>1, <3>1, <3>2, GoodIs
    <3> QED
      BY <2>1, <3>1, <3>2, <3>3, OnlyRepliesTwice
  <2>2. CASE ~IsOpen(s, d)
    <3>1. t.cl[d] = s.cl[d]
      BY <2>2 DEF Keeps, Spares
    <3>2. ~IsOpen(t, d)
      BY <2>2, <3>1 DEF IsOpen
    <3> QED
      BY <1>2, <2>2, <3>1, <3>2 DEF Spares
  <2> QED
    BY <2>1, <2>2
<1>3. ASSUME Keeps(t, u, c)
      PROVE  Keeps(s, u, c)
  <2>1. Spares(s, u, c)
    BY <1>2, <1>3 DEF Keeps, Spares
  <2> QED
    BY <1>3, <2>1 DEF Keeps
<1>4. ASSUME Frees(t, u, c)
      PROVE  Frees(s, u, c)
  <2>1. \A e \in Conns \ {c} : IsOpen(u, e) => u.cl[e] \in Conn
    <3>1. u.cl \in [Conns -> Conn \cup {Gone}]
      BY <1>4 DEF Frees, States
    <3>2. Gone.state # "open"
      BY DEF Gone
    <3> QED
      BY <3>1, <3>2 DEF IsOpen
  <2>2. Spares(s, u, c)
    BY <1>2, <1>4, <2>1 DEF Frees, Spares
  <2> QED
    BY <1>4, <2>2 DEF Frees
<1> QED
  BY <1>3, <1>4

-----------------------------------------------------------------------------
(* Freeing a client.                                                       *)

LEMMA GoneIs == Gone \in Conn \cup {Gone} /\ Gone.state = "freed"
BY DEF Gone

LEMMA FreeClientSane ==
  ASSUME NEW s, Sane(s), NEW c \in Conns, IsOpen(s, c)
  PROVE  LET t == FreeClient(s, c)
         IN /\ t \in States /\ (t.early \/ Sane(t))
            /\ t.cl = [s.cl EXCEPT ![c] = Gone]
            /\ Spares(s, t, c) /\ OpenIn(t) = OpenIn(s) \ {c}
<1> DEFINE fd == s.cl[c].fd
           q == s.ev
           d1 == Delete(s, fd, "readable")
           d2 == Delete(d1, fd, "writable")
           many == Cardinality(Writers(s, c)) > 1
           t == FreeClient(s, c)
<1>1. /\ s \in States /\ q \in Seq(FileEvent)
      /\ Count(q, Kind(c, "readable")) = 1
      /\ \A i \in 1 .. Len(q) : q[i].fd = fd <=> q[i].client = c
  BY SaneIs
<1>2. "readable" \in Masks /\ "writable" \in Masks
  BY DEF Masks
<1>3. PICK r1 : Removed(q, r1, c, "readable") /\ d1 = [s EXCEPT !.ev = r1]
  BY <1>1, <1>2, DeleteRemoves
<1> HIDE DEF d1
<1>4. d1 \in States /\ d1.cl = s.cl /\ d1.ev = r1 /\ d1.early = s.early
  BY <1>1, <1>3 DEF States, Removed
<1>5. \A i \in 1 .. Len(r1) : r1[i].fd = fd <=> r1[i].client = c
  BY <1>1, <1>3 DEF Removed
<1>6. PICK r2 : Removed(r1, r2, c, "writable") /\ d2 = [d1 EXCEPT !.ev = r2]
  BY <1>2, <1>4, <1>5, DeleteRemoves
<1> HIDE DEF d2
<1>7. d2 = [cl |-> s.cl, ev |-> r2, early |-> s.early]
  BY <1>4, <1>6 DEF States
<1>8. t = [d2 EXCEPT !.cl[c] = Gone, !.early = @ \/ many]
  BY DEF FreeClient, d1, d2
<1> HIDE DEF many, t
<1>9. t = [cl |-> [s.cl EXCEPT ![c] = Gone], ev |-> r2, early |-> s.early \/ many]
  BY <1>7, <1>8
<1>10. r2 \in Seq(FileEvent)
  BY <1>6 DEF Removed
<1>11. ~s.early /\ s.early \in BOOLEAN /\ s.cl \in [Conns -> Conn \cup {Gone}]
  BY <1>1 DEF Sane, States
<1>12. /\ t.cl = [s.cl EXCEPT ![c] = Gone] /\ t.cl[c] = Gone /\ t.ev = r2
       /\ \A d \in Conns \ {c} : t.cl[d] = s.cl[d]
  BY <1>9, <1>11
<1>13. t \in States
  <2>1. t.cl \in [Conns -> Conn \cup {Gone}]
    BY <1>11, <1>12
  <2>2. (s.early \/ many) \in BOOLEAN
    OBVIOUS
  <2> QED
    BY <1>9, <1>10, <1>12, <2>1, <2>2 DEF States
<1>14. ~IsOpen(t, c) /\ \A d \in Conns \ {c} : IsOpen(t, d) <=> IsOpen(s, d)
  BY <1>12, GoneIs DEF IsOpen
<1>15. Spares(s, t, c)
  <2>1. \A d \in Conns : IsOpen(s, d) => OnlyReplies(s.cl[d], s.cl[d])
    BY SaneIs, OnlyRepliesSame
  <2> QED
    BY <1>12, <1>14, <2>1 DEF Spares
<1>16. t.early \/ Sane(t)
  <2>1. CASE many
    <3>1. t.early
      BY <1>9, <2>1
    <3> QED
      BY <3>1
  <2>2. CASE ~many
    <3>1. Writers(s, c) = At(q, Kind(c, "writable"))
      <4>1. \A i \in DOMAIN q : q[i] \in FileEvent
        BY <1>1
      <4> QED
        BY <4>1 DEF Writers, At, Kind
    <3>2. Count(q, Kind(c, "writable")) \in Nat /\ ~(Count(q, Kind(c, "writable")) > 1)
      BY <1>1, <2>2, <3>1, AtFinite DEF many, Count
    <3>3. /\ Count(r1, Kind(c, "readable")) = 0
          /\ Count(r1, Kind(c, "writable")) = Count(q, Kind(c, "writable"))
      BY <1>1, <1>2, <1>3 DEF Removed
    <3>4. /\ Count(r2, Kind(c, "readable")) = 0
          /\ Count(r2, Kind(c, "writable")) = 0
      BY <1>2, <1>6, <3>2, <3>3 DEF Removed
    <3>5. ASSUME NEW d \in Conns \ {c}, NEW m \in Masks
          PROVE  Count(r2, Kind(d, m)) = Count(q, Kind(d, m))
      BY <1>3, <1>6 DEF Removed
    <3>6. ASSUME NEW i \in 1 .. Len(r2)
          PROVE  Known(t, r2[i])
      <4>1. PICK j \in 1 .. Len(r1) : r2[i] = r1[j]
        BY <1>6 DEF Removed
      <4>2. PICK x \in 1 .. Len(q) : r1[j] = q[x]
        BY <1>3 DEF Removed
      <4>3. Known(s, r2[i])
        BY <4>1, <4>2 DEF Sane
      <4>4. r2[i] \in FileEvent
        BY <1>10
      <4>5. r2[i] \notin Kind(c, "readable") /\ r2[i] \notin Kind(c, "writable")
        BY <1>10, <3>4, AtFinite
      <4>6. r2[i].client # c
        BY <4>4, <4>5 DEF Kind, FileEvent
      <4> QED
        BY <1>12, <1>14, <4>3, <4>6 DEF Known
    <3>7. ASSUME NEW d \in Conns, IsOpen(t, d)
          PROVE  /\ Sound(t.cl[d])
                 /\ Count(t.ev, Kind(d, "readable")) = 1
                 /\ Fit(t.cl[d], Count(t.ev, Kind(d, "writable")))
      <4>1. d # c /\ IsOpen(s, d) /\ t.cl[d] = s.cl[d]
        BY <1>12, <1>14, <3>7
      <4>2. /\ Count(r2, Kind(d, "readable")) = Count(q, Kind(d, "readable"))
            /\ Count(r2, Kind(d, "writable")) = Count(q, Kind(d, "writable"))
        BY <1>2, <3>5, <4>1
      <4> QED
        BY <1>12, <4>1, <4>2 DEF Sane
    <3>8. \A d, e \in Conns : IsOpen(t, d) /\ IsOpen(t, e) /\ t.cl[d].fd = t.cl[e].fd => d = e
      BY <1>12, <1>14 DEF Sane
    <3>10. ~t.early
      BY <1>9, <1>11, <2>2
    <3> QED
      BY <1>12, <1>13, <3>6, <3>7, <3>8, <3>10 DEF Sane
  <2> QED
    BY <2>1, <2>2
<1>17. OpenIn(t) = OpenIn(s) \ {c}
  BY <1>14 DEF OpenIn
<1> QED
  BY <1>12, <1>13, <1>15, <1>16, <1>17 DEF t

LEMMA FreeClientFrees ==
  ASSUME NEW s, Good(s), NEW c \in Conns, IsOpen(s, c)
  PROVE  /\ Frees(s, FreeClient(s, c), c)
         /\ FreeClient(s, c).cl = [s.cl EXCEPT ![c] = Gone]
<1> DEFINE t == FreeClient(s, c)
<1>1. Sane(s) /\ s.cl \in [Conns -> Conn \cup {Gone}]
  BY DEF Good, Sane, States
<1>2. /\ t \in States /\ (t.early \/ Sane(t)) /\ t.cl = [s.cl EXCEPT ![c] = Gone]
      /\ Spares(s, t, c) /\ OpenIn(t) = OpenIn(s) \ {c}
  BY <1>1, FreeClientSane
<1> HIDE DEF t
<1>3. MaxClients = 0 \/ Cardinality(OpenIn(t)) <= MaxClients
  <2>1. OpenIn(t) \subseteq OpenIn(s) /\ OpenIn(s) \subseteq Conns
    BY <1>2 DEF OpenIn
  <2>2. IsFiniteSet(OpenIn(s)) /\ IsFiniteSet(OpenIn(t))
    BY <2>1, ClientsAssumption, FS_Subset
  <2>3. Cardinality(OpenIn(t)) <= Cardinality(OpenIn(s))
    BY <2>1, <2>2, FS_Subset
  <2>4. Cardinality(OpenIn(t)) \in Nat /\ Cardinality(OpenIn(s)) \in Nat /\ MaxClients \in Nat
    BY <2>2, ClientsAssumption, FS_CardinalityType
  <2>5. MaxClients = 0 \/ Cardinality(OpenIn(s)) <= MaxClients
    BY DEF Good
  <2> QED
    BY <2>3, <2>4, <2>5
<1>4. t.cl[c] = Gone
  BY <1>1, <1>2
<1> QED
  BY <1>2, <1>3, <1>4 DEF Frees, Good, t

-----------------------------------------------------------------------------
(* Commands.                                                               *)

\* Two connections that only differ in what they read and execute.
SameReplies(k, l) ==
  /\ l.state = k.state /\ l.peer = k.peer /\ l.fd = k.fd /\ l.room = k.room
  /\ l.role = k.role /\ l.repl = k.repl /\ l.off = k.off /\ l.reply = k.reply
  /\ l.sentlen = k.sentlen /\ l.owed = k.owed /\ l.out = k.out

\* Two connections that have read and executed the same.
SameQuery(k, l) ==
  /\ l.input = k.input /\ l.querybuf = k.querybuf /\ l.argv = k.argv /\ l.bulk = k.bulk
  /\ l.bulklen = k.bulklen /\ l.received = k.received /\ l.executed = k.executed
  /\ l.held = k.held

BulkLenFits(n) == n = -1 \/ n \in 2 .. MaxBulk + 2

LEMMA SameRepliesSound ==
  ASSUME NEW k, Sound(k), NEW l \in Conn, SameReplies(k, l), BulkLenFits(l.bulklen)
  PROVE  Sound(l) /\ \A n : Fit(k, n) => Fit(l, n)
<1>1. Rest(l) = Rest(k)
  BY DEF SameReplies, Rest
<1>2. Sized(l)
  BY DEF Sound, Sized, SameReplies, BulkLenFits
<1>3. Ordered(l)
  BY <1>1 DEF Sound, Ordered, SameReplies
<1> QED
  BY <1>2, <1>3 DEF Sound, SameReplies, Fit

LEMMA SetIsPut ==
  ASSUME NEW s \in States, NEW c \in Conns, NEW l
  PROVE  [s EXCEPT !.cl[c] = l] = Put(s, c, l, s.ev)
BY DEF States, Put

LEMMA SetKeeps ==
  ASSUME NEW s, Good(s), NEW c \in Conns, IsOpen(s, c),
         NEW l \in Conn, SameReplies(s.cl[c], l), BulkLenFits(l.bulklen)
  PROVE  Keeps(s, [s EXCEPT !.cl[c] = l], c) /\ [s EXCEPT !.cl[c] = l].cl[c] = l
<1>1. s \in States /\ Sound(s.cl[c]) /\ Fit(s.cl[c], Count(s.ev, Kind(c, "writable")))
  BY GoodIs
<1>2. Sound(l) /\ Fit(l, Count(s.ev, Kind(c, "writable")))
  BY <1>1, SameRepliesSound
<1>3. l.fd = s.cl[c].fd /\ l.repl = s.cl[c].repl
  BY DEF SameReplies
<1>4. [s EXCEPT !.cl[c] = l] = Put(s, c, l, s.ev)
  BY <1>1, SetIsPut
<1>5. l.repl = "bulk" <=> s.cl[c].repl = "bulk"
  BY <1>3
<1>6. Keeps(s, Put(s, c, l, s.ev), c) /\ Put(s, c, l, s.ev).cl[c] = l
  BY <1>2, <1>3, <1>5, SameEvents
<1> QED
  BY <1>4, <1>6

\* What resetClient makes of a connection.
Executed(k, l) ==
  /\ l.argv = "" /\ l.bulk = <<>> /\ l.bulklen = -1
  /\ l.executed = Append(k.executed, <<k.argv, k.bulk>>)
  /\ l.input = k.input /\ l.querybuf = k.querybuf /\ l.received = k.received /\ l.held = k.held

LEMMA ResetKeeps ==
  ASSUME NEW s, Good(s), NEW c \in Conns, IsOpen(s, c)
  PROVE  Keeps(s, Reset(s, c), c) /\ Executed(s.cl[c], Reset(s, c).cl[c])
<1> DEFINE k == s.cl[c]
           x == Append(k.executed, <<k.argv, k.bulk>>)
           l == [k EXCEPT !.argv = "", !.bulk = <<>>, !.bulklen = -1, !.executed = x]
<1>1. s \in States /\ k \in Conn
  BY GoodIs
<1>2. x \in Seq(Unit \X Units)
  <2>1. k.executed \in Seq(Unit \X Units) /\ k.argv \in Unit /\ k.bulk \in Units
    BY <1>1, ConnFields
  <2>2. <<k.argv, k.bulk>> \in Unit \X Units
    BY <2>1
  <2> QED
    BY <2>1, <2>2
<1>3. Reset(s, c) = [s EXCEPT !.cl[c] = l]
  BY <1>1 DEF Reset, States
<1> HIDE DEF x, k
<1>4. "" \in Unit /\ <<>> \in Units
  <2>1. "" \in Unit
    BY ClientsAssumption
  <2>2. <<>> \in Units
    BY DEF Units
  <2> QED
    BY <2>1, <2>2
<1>5. l \in Conn /\ SameReplies(k, l) /\ l.bulklen = -1
  <2>1. l \in Conn
    <3> DEFINE word == ""
               bulk == <<>>
               len == -1
    <3>1. word \in Unit /\ bulk \in Units
      BY <1>4
    <3>2. len \in Int
      OBVIOUS
    <3>3. l = [k EXCEPT !.argv = word, !.bulk = bulk, !.bulklen = len, !.executed = x]
      OBVIOUS
    <3> HIDE DEF word, bulk, len, l
    <3> QED
      BY <1>1, <1>2, <3>1, <3>2, <3>3 DEF Conn
  <2>2. SameReplies(k, l)
    BY <1>1 DEF Conn, SameReplies
  <2>3. l.bulklen = -1
    BY <1>1 DEF Conn
  <2> QED
    BY <2>1, <2>2, <2>3
<1>6. Executed(k, l)
  BY <1>1 DEF Conn, Executed, x
<1> HIDE DEF l
<1>7. Keeps(s, [s EXCEPT !.cl[c] = l], c) /\ [s EXCEPT !.cl[c] = l].cl[c] = l
  BY <1>5, SetKeeps DEF BulkLenFits, k
<1> QED
  BY <1>3, <1>6, <1>7 DEF k

LEMMA OneReply ==
  ASSUME NEW x \in {"-", "+", "$"}
  PROVE  <<x>> \in Units /\ Len(<<x>>) <= 2 /\ NoDump(<<x>>)
<1>1. x \in Unit
  BY ClientsAssumption
<1>2. <<x>> \in Units /\ Len(<<x>>) = 1 /\ <<x>>[1] = x
  BY <1>1, One
<1> QED
  BY <1>2 DEF NoDump, IsDump

LEMMA AnswerIs ==
  ASSUME NEW cmd
  PROVE  /\ Answer(cmd) \in Seq(Units)
         /\ \A i \in 1 .. Len(Answer(cmd)) :
              Len(Answer(cmd)[i]) <= 2 /\ NoDump(Answer(cmd)[i])
<1>1. CASE cmd = "get"
  <2> DEFINE a == <<"$">>
             b == <<"g1", "g2">>
  <2>1. Answer(cmd) = <<a, b>>
    BY <1>1 DEF Answer
  <2>2. a \in Units /\ Len(a) <= 2 /\ NoDump(a)
    BY OneReply
  <2>3. b \in Units /\ Len(b) = 2 /\ b[1] = "g1" /\ b[2] = "g2"
    <3>1. "g1" \in Unit /\ "g2" \in Unit
      BY ClientsAssumption
    <3>2. b = Append(<<"g1">>, "g2") /\ <<"g1">> \in Seq(Unit) /\ Len(<<"g1">>) = 1 /\ <<"g1">>[1] = "g1"
      BY <3>1, One DEF Units
    <3> QED
      BY <3>1, <3>2 DEF Units
  <2> HIDE DEF b
  <2>4. NoDump(b)
    <3>1. \A i \in 1 .. 2 : i = 1 \/ i = 2
      OBVIOUS
    <3> QED
      BY <2>3, <3>1 DEF NoDump, IsDump
  <2> HIDE DEF a
  <2>5. <<a, b>> \in Seq(Units) /\ Len(<<a, b>>) = 2 /\ <<a, b>>[1] = a /\ <<a, b>>[2] = b
    BY <2>2, <2>3
  <2>6. \A i \in 1 .. 2 : i = 1 \/ i = 2
    OBVIOUS
  <2>7. Len(b) <= 2
    BY <2>3
  <2> QED
    BY <2>1, <2>2, <2>4, <2>5, <2>6, <2>7
<1>2. CASE cmd # "get"
  <2> DEFINE a == <<"+">>
  <2>1. Answer(cmd) = <<a>>
    BY <1>2 DEF Answer
  <2>2. a \in Units /\ Len(a) <= 2 /\ NoDump(a)
    BY OneReply
  <2> HIDE DEF a
  <2>3. <<a>> \in Seq(Units) /\ Len(<<a>>) = 1 /\ <<a>>[1] = a
    BY <2>2
  <2> QED
    BY <2>1, <2>2, <2>3
<1> QED
  BY <1>1, <1>2

LEMMA AnsweredQuery ==
  ASSUME NEW s, Good(s), NEW t, Answered(s, t), NEW c \in Conns, IsOpen(s, c)
  PROVE  Keeps(s, t, c) /\ SameQuery(s.cl[c], t.cl[c])
<1>1. Keeps(s, t, c) /\ OnlyReplies(s.cl[c], t.cl[c])
  BY AnsweredKeeps
<1>2. Good(t) /\ IsOpen(t, c)
  BY <1>1 DEF Keeps
<1>3. s.cl[c] \in Conn /\ t.cl[c] \in Conn
  BY <1>2, GoodIs
<1> QED
  BY <1>1, <1>3, OnlyRepliesIs DEF SameQuery

\* SYNC: the dump goes behind what has been written.
LEMMA SyncKeeps ==
  ASSUME NEW s, Good(s), NEW c \in Conns, IsOpen(s, c),
         s.cl[c].role = "normal", s.cl[c].reply = <<>>
  PROVE  LET t == [s EXCEPT !.cl[c].role = "slave", !.cl[c].repl = "wait"]
         IN Keeps(s, t, c) /\ SameQuery(s.cl[c], t.cl[c])
<1> DEFINE k == s.cl[c]
           l == [k EXCEPT !.role = "slave", !.repl = "wait"]
           n == Count(s.ev, Kind(c, "writable"))
<1>1. s \in States /\ Sound(k) /\ k \in Conn /\ Fit(k, n)
  BY GoodIs
<1>2. [s EXCEPT !.cl[c].role = "slave", !.cl[c].repl = "wait"] = Put(s, c, l, s.ev)
  BY <1>1 DEF States, Put
<1>3. k.repl = "none" /\ k.role = "normal" /\ k.reply = <<>>
  BY <1>1 DEF Sound, Sized
<1> HIDE DEF k
<1>4. /\ l \in Conn /\ SameQuery(k, l) /\ l.role = "slave" /\ l.repl = "wait"
      /\ l.state = k.state /\ l.fd = k.fd /\ l.off = k.off /\ l.reply = k.reply
      /\ l.sentlen = k.sentlen /\ l.owed = k.owed /\ l.out = k.out /\ l.bulklen = k.bulklen
  BY <1>1 DEF Conn, SameQuery
<1> HIDE DEF l
<1>5. Sized(l)
  BY <1>1, <1>3, <1>4 DEF Sound, Sized
<1>6. Ordered(l)
  <2>1. k.off = 0 /\ NoDump(k.owed)
    BY <1>1, <1>3 DEF Sound, Ordered
  <2>2. PICK pre \in Units, post \in Units :
          /\ k.out = (pre \o Dump(k.off)) \o post
          /\ (pre \o post) \o Rest(k) = k.owed
    BY <1>1 DEF Sound, Ordered
  <2>3. Dump(k.off) = <<>>
    BY <2>1 DEF Dump
  <2> DEFINE all == pre \o post
  <2>4. all \in Units /\ pre \o <<>> = pre
    BY ConcatProperties, ConcatEmptySeq DEF Units
  <2>5. k.out = all
    BY <2>2, <2>3, <2>4
  <2>6. all \o Rest(k) = k.owed
    BY <2>2
  <2> HIDE DEF all
  <2>7. all \o <<>> = all
    BY <2>4, ConcatEmptySeq DEF Units
  <2>8. <<>> \in Units
    BY DEF Units
  <2>9. l.out = (all \o Dump(l.off)) \o <<>>
    BY <1>4, <2>3, <2>5, <2>7
  <2>10. Rest(l) = Rest(k)
    BY <1>4 DEF Rest
  <2>11. (all \o <<>>) \o Rest(l) = l.owed
    BY <1>4, <2>6, <2>7, <2>10
  <2> DEFINE nul == <<>>
  <2>12. /\ nul \in Units /\ nul = <<>>
         /\ l.out = (all \o Dump(l.off)) \o nul /\ (all \o nul) \o Rest(l) = l.owed
    BY <2>8, <2>9, <2>11
  <2> HIDE DEF nul
  <2> QED
    BY <1>4, <2>1, <2>4, <2>12 DEF Ordered
<1>7. Sound(l)
  BY <1>1, <1>4, <1>5, <1>6 DEF Sound
<1>8. Fit(l, n)
  BY <1>1, <1>3, <1>4 DEF Fit
<1>9. (l.repl = "bulk" <=> k.repl = "bulk") /\ l.fd = k.fd
  BY <1>3, <1>4
<1>10. Keeps(s, Put(s, c, l, s.ev), c) /\ Put(s, c, l, s.ev).cl[c] = l
  BY <1>7, <1>8, <1>9, SameEvents DEF k, n
<1> QED
  BY <1>2, <1>4, <1>10 DEF k

LEMMA MonitorKeeps ==
  ASSUME NEW s, Good(s), NEW c \in Conns, IsOpen(s, c), s.cl[c].role = "normal"
  PROVE  LET t == [s EXCEPT !.cl[c].role = "monitor"]
         IN Keeps(s, t, c) /\ SameQuery(s.cl[c], t.cl[c])
<1> DEFINE k == s.cl[c]
           l == [k EXCEPT !.role = "monitor"]
           n == Count(s.ev, Kind(c, "writable"))
<1>1. s \in States /\ Sound(k) /\ k \in Conn /\ Fit(k, n)
  BY GoodIs
<1>2. [s EXCEPT !.cl[c].role = "monitor"] = Put(s, c, l, s.ev)
  BY <1>1 DEF States, Put
<1>3. k.repl = "none" /\ k.role = "normal"
  BY <1>1 DEF Sound, Sized
<1> HIDE DEF k
<1>4. /\ l \in Conn /\ SameQuery(k, l) /\ l.role = "monitor" /\ l.repl = k.repl
      /\ l.state = k.state /\ l.fd = k.fd /\ l.off = k.off /\ l.reply = k.reply
      /\ l.sentlen = k.sentlen /\ l.owed = k.owed /\ l.out = k.out /\ l.bulklen = k.bulklen
  BY <1>1 DEF Conn, SameQuery
<1> HIDE DEF l
<1>5. Sized(l)
  BY <1>1, <1>3, <1>4 DEF Sound, Sized
<1>6. Rest(l) = Rest(k)
  BY <1>4 DEF Rest
<1>7. Ordered(l)
  BY <1>1, <1>4, <1>6 DEF Sound, Ordered
<1>8. Sound(l) /\ Fit(l, n)
  BY <1>1, <1>4, <1>5, <1>7 DEF Sound, Fit
<1>9. (l.repl = "bulk" <=> k.repl = "bulk") /\ l.fd = k.fd
  BY <1>3, <1>4
<1>10. Keeps(s, Put(s, c, l, s.ev), c) /\ Put(s, c, l, s.ev).cl[c] = l
  BY <1>8, <1>9, SameEvents DEF k, n
<1> QED
  BY <1>2, <1>4, <1>10 DEF k

LEMMA ProcKeeps ==
  ASSUME NEW s, Good(s), NEW c \in Conns, IsOpen(s, c), NEW cmd
  PROVE  Keeps(s, Proc(s, c, cmd), c) /\ SameQuery(s.cl[c], Proc(s, c, cmd).cl[c])
<1> DEFINE k == s.cl[c]
<1>1. Answered(s, s)
  BY AnsweredSame
<1>2. Keeps(s, s, c) /\ SameQuery(k, k)
  BY <1>1, AnsweredQuery
<1>3. CASE cmd = "sync"
  <2>1. CASE k.role # "normal"
    BY <1>2, <1>3, <2>1 DEF Proc
  <2>2. CASE k.role = "normal" /\ k.reply # <<>>
    <3>1. Proc(s, c, cmd) = AddReply(s, c, <<"-">>)
      BY <1>3, <2>2 DEF Proc
    <3>2. Answered(s, AddReply(s, c, <<"-">>))
      BY AddReplyAnswers, OneReply
    <3> QED
      BY <3>1, <3>2, AnsweredQuery
  <2>3. CASE k.role = "normal" /\ k.reply = <<>>
    <3>1. Proc(s, c, cmd) = [s EXCEPT !.cl[c].role = "slave", !.cl[c].repl = "wait"]
      BY <1>3, <2>3 DEF Proc
    <3> QED
      BY <2>3, <3>1, SyncKeeps
  <2> QED
    BY <2>1, <2>2, <2>3
<1>4. CASE cmd = "monitor"
  <2>1. CASE k.role # "normal"
    BY <1>2, <1>4, <2>1 DEF Proc
  <2>2. CASE k.role = "normal"
    <3> DEFINE t == [s EXCEPT !.cl[c].role = "monitor"]
               u == AddReply(t, c, <<"+">>)
    <3>1. Proc(s, c, cmd) = u
      BY <1>4, <2>2 DEF Proc
    <3>2. Keeps(s, t, c) /\ SameQuery(k, t.cl[c])
      BY <2>2, MonitorKeeps
    <3> HIDE DEF t
    <3>3. Good(t) /\ IsOpen(t, c)
      BY <3>2 DEF Keeps
    <3>4. Answered(t, u)
      BY <3>3, AddReplyAnswers, OneReply
    <3>5. Keeps(t, u, c) /\ SameQuery(t.cl[c], u.cl[c])
      BY <3>3, <3>4, AnsweredQuery
    <3>6. Keeps(s, u, c)
      BY <3>2, <3>5, KeepsTwice
    <3>7. SameQuery(k, u.cl[c])
      BY <3>2, <3>5 DEF SameQuery
    <3> QED
      BY <3>1, <3>6, <3>7
  <2> QED
    BY <2>1, <2>2
<1>5. CASE cmd # "sync" /\ cmd # "monitor"
  <2>1. Proc(s, c, cmd) = AddReplies(s, c, Answer(cmd))
    BY <1>5 DEF Proc
  <2>2. Answered(s, AddReplies(s, c, Answer(cmd)))
    BY AddRepliesAnswers, AnswerIs
  <2> QED
    BY <2>1, <2>2, AnsweredQuery
<1> QED
  BY <1>3, <1>4, <1>5

\* A command is executed: what the client has sent stays as it is.
LEMMA ExecKeeps ==
  ASSUME NEW s, Good(s), NEW c \in Conns, IsOpen(s, c), s.cl[c].argv \in Commands
  PROVE  Keeps(s, Exec(s, c), c) /\ Executed(s.cl[c], Exec(s, c).cl[c])
<1> DEFINE cmd == s.cl[c].argv
           t == Proc(s, c, cmd)
           u == IF cmd \in Writes THEN Feed(t, cmd, "slave") ELSE t
           v == Feed(u, cmd, "monitor")
           w == Reset(v, c)
<1>1. Exec(s, c) = w
  BY DEF Exec
<1>2. Keeps(s, t, c) /\ SameQuery(s.cl[c], t.cl[c])
  BY ProcKeeps
<1> HIDE DEF t
<1>3. Good(t) /\ IsOpen(t, c)
  BY <1>2 DEF Keeps
<1>4. Answered(t, u)
  BY <1>3, AnsweredSame, FeedAnswers
<1> HIDE DEF u
<1>5. Keeps(t, u, c) /\ SameQuery(t.cl[c], u.cl[c])
  BY <1>3, <1>4, AnsweredQuery
<1>6. Good(u) /\ IsOpen(u, c)
  BY <1>5 DEF Keeps
<1>7. Answered(u, v)
  BY <1>6, FeedAnswers
<1> HIDE DEF v
<1>8. Keeps(u, v, c) /\ SameQuery(u.cl[c], v.cl[c])
  BY <1>6, <1>7, AnsweredQuery
<1>9. Good(v) /\ IsOpen(v, c)
  BY <1>8 DEF Keeps
<1>10. Keeps(v, w, c) /\ Executed(v.cl[c], w.cl[c])
  BY <1>9, ResetKeeps
<1> HIDE DEF w
<1>11. Keeps(s, w, c)
  <2>1. Keeps(s, u, c)
    BY <1>2, <1>5, KeepsTwice
  <2>2. Keeps(s, v, c)
    BY <1>8, <2>1, KeepsTwice
  <2> QED
    BY <1>10, <2>2, KeepsTwice
<1>12. SameQuery(s.cl[c], v.cl[c])
  BY <1>2, <1>5, <1>8 DEF SameQuery
<1>13. Executed(s.cl[c], w.cl[c])
  <2> DEFINE k == s.cl[c]
             l == v.cl[c]
             m == w.cl[c]
  <2>1. SameQuery(k, l) /\ Executed(l, m)
    BY <1>10, <1>12
  <2> HIDE DEF k, l, m
  <2>2. Append(l.executed, <<l.argv, l.bulk>>) = Append(k.executed, <<k.argv, k.bulk>>)
    BY <2>1, Zenon DEF SameQuery
  <2>3. Executed(k, m)
    BY <2>1, <2>2, Zenon DEF SameQuery, Executed
  <2> QED
    BY <2>3 DEF k, m
<1> QED
  BY <1>1, <1>11, <1>13

-----------------------------------------------------------------------------
(* Framing.                                                                *)

LEMMA LineEndIs ==
  ASSUME NEW buf \in Units
  PROVE  /\ LineEnd(buf) \in 0 .. Len(buf)
         /\ LineEnd(buf) = 0 <=> \A i \in 1 .. Len(buf) : buf[i] # "nl"
         /\ LineEnd(buf) # 0 => /\ buf[LineEnd(buf)] = "nl"
                                /\ \A i \in 1 .. LineEnd(buf) - 1 : buf[i] # "nl"
<1> DEFINE I == {i \in 1 .. Len(buf) : buf[i] = "nl"}
<1>1. LineEnd(buf) = IF I # {} THEN Min(I) ELSE 0
  BY DEF LineEnd, SelectInSeq
<1>2. Len(buf) \in Nat
  BY DEF Units
<1>3. I \in SUBSET Nat
  OBVIOUS
<1>4. CASE I = {}
  BY <1>1, <1>2, <1>4
<1>5. CASE I # {}
  <2> DEFINE p == Min(I)
  <2>1. p \in I /\ \A i \in I : p <= i
    <3> HIDE DEF I
    <3> QED
      BY <1>3, <1>5, MinIn
  <2>2. LineEnd(buf) = p
    BY <1>1, <1>5
  <2> HIDE DEF p
  <2>3. p \in 1 .. Len(buf) /\ buf[p] = "nl"
    BY <2>1
  <2>4. \A i \in 1 .. p - 1 : buf[i] # "nl"
    <3> SUFFICES ASSUME NEW i \in 1 .. p - 1, buf[i] = "nl"
                 PROVE  FALSE
      OBVIOUS
    <3>1. i \in I /\ i < p
      BY <1>2, <2>3
    <3>2. p <= i
      BY <2>1, <3>1
    <3> QED
      BY <2>3, <3>1, <3>2
  <2> QED
    BY <1>2, <2>2, <2>3, <2>4
<1> QED
  BY <1>4, <1>5

LEMMA WordIs ==
  ASSUME NEW line \in Units, line # <<>>
  PROVE  Word(line) \in Unit
<1>1. Len(line) \in Nat /\ Len(line) # 0
  BY EmptySeq DEF Units
<1>2. line[1] \in Unit
  BY <1>1 DEF Units
<1>3. "words" \in Unit
  BY ClientsAssumption
<1> QED
  BY <1>2, <1>3 DEF Word

Handled(s, t, c) == Keeps(s, t, c) \/ Frees(s, t, c)

\* What reading changes in a connection.
Reading(k, querybuf, argv, bulk, bulklen, held) ==
  [k EXCEPT !.querybuf = querybuf, !.argv = argv, !.bulk = bulk, !.bulklen = bulklen,
            !.held = held]

LEMMA ReadingIs ==
  ASSUME NEW k \in Conn, NEW querybuf \in Units, NEW argv \in Unit, NEW bulk \in Units,
         NEW bulklen \in Int, NEW held \in BOOLEAN
  PROVE  LET l == Reading(k, querybuf, argv, bulk, bulklen, held)
         IN /\ l \in Conn /\ SameReplies(k, l)
            /\ l.querybuf = querybuf /\ l.argv = argv /\ l.bulk = bulk
            /\ l.bulklen = bulklen /\ l.held = held
            /\ l.input = k.input /\ l.received = k.received /\ l.executed = k.executed
BY DEF Conn, Reading, SameReplies

LEMMA ReadingKeeps ==
  ASSUME NEW s, Good(s), NEW c \in Conns, IsOpen(s, c),
         NEW querybuf \in Units, NEW argv \in Unit, NEW bulk \in Units,
         NEW bulklen \in Int, NEW held \in BOOLEAN, BulkLenFits(bulklen)
  PROVE  LET l == Reading(s.cl[c], querybuf, argv, bulk, bulklen, held)
             t == [s EXCEPT !.cl[c] = l]
         IN Keeps(s, t, c) /\ t.cl[c] = l
<1> DEFINE l == Reading(s.cl[c], querybuf, argv, bulk, bulklen, held)
<1>1. s.cl[c] \in Conn
  BY GoodIs
<1>2. l \in Conn /\ SameReplies(s.cl[c], l) /\ l.bulklen = bulklen
  BY <1>1, ReadingIs
<1> HIDE DEF l
<1>3. Keeps(s, [s EXCEPT !.cl[c] = l], c) /\ [s EXCEPT !.cl[c] = l].cl[c] = l
  BY <1>2, SetKeeps
<1> QED
  BY <1>3 DEF l

\* The argument and the rest of a buffer that begins with it.
Taken(k) == SubSeq(k.querybuf, 1, k.bulklen - 2)
Left(k) == SubSeq(k.querybuf, k.bulklen + 1, Len(k.querybuf))

LEMMA TakenIs ==
  ASSUME NEW k \in Conn, k.bulklen \in 2 .. MaxBulk + 2, k.bulklen <= Len(k.querybuf)
  PROVE  Taken(k) \in Units /\ Left(k) \in Units
<1> DEFINE q == k.querybuf
           n == k.bulklen
<1>1. q \in Units /\ Len(q) \in Nat /\ n \in Nat /\ n >= 2 /\ n <= Len(q)
  <2>1. q \in Units
    BY ConnFields
  <2>2. MaxBulk \in Nat
    BY ClientsAssumption
  <2> HIDE DEF q
  <2>3. Len(q) \in Nat
    BY <2>1 DEF Units
  <2>4. n \in Nat /\ n >= 2
    BY <2>2
  <2>5. n <= Len(q)
    BY DEF q
  <2> QED
    BY <2>1, <2>3, <2>4, <2>5
<1> HIDE DEF q, n
<1>2. SubSeq(q, 0 + 1, n - 2) \in Units /\ SubSeq(q, n + 1, Len(q)) \in Units
  <2> DEFINE m == n - 2
  <2>1. m \in Nat /\ m <= Len(q)
    BY <1>1
  <2> HIDE DEF m
  <2>2. SubSeq(q, 0 + 1, m) \in Units
    BY <1>1, <2>1, SubUnits
  <2>3. SubSeq(q, n + 1, Len(q)) \in Units
    <3> DEFINE j == Len(q)
    <3>1. j \in Nat /\ j <= Len(q)
      BY <1>1
    <3> HIDE DEF j
    <3>2. SubSeq(q, n + 1, j) \in Units
      BY <1>1, <3>1, SubUnits
    <3> QED
      BY <3>2 DEF j
  <2> QED
    BY <2>2, <2>3 DEF m
<1> QED
  BY <1>2 DEF Taken, Left, q, n

LEMMA TakeBulkKeeps ==
  ASSUME NEW s, Good(s), NEW c \in Conns, IsOpen(s, c),
         s.cl[c].bulklen \in 2 .. MaxBulk + 2, s.cl[c].bulklen <= Len(s.cl[c].querybuf)
  PROVE  LET k == s.cl[c]
             t == TakeBulk(s, c)
         IN /\ Keeps(s, t, c)
            /\ t.cl[c] = Reading(k, Left(k), k.argv, Taken(k), k.bulklen, k.held)
<1> DEFINE k == s.cl[c]
           l == Reading(k, Left(k), k.argv, Taken(k), k.bulklen, k.held)
<1>1. s \in States /\ k \in Conn
  BY GoodIs
<1>2. Taken(k) \in Units /\ Left(k) \in Units
  BY <1>1, TakenIs
<1>3. TakeBulk(s, c) = [s EXCEPT !.cl[c] = l]
  <2> DEFINE a == Taken(k)
             b == Left(k)
             m == [k EXCEPT !.bulk = a, !.querybuf = b]
  <2>1. TakeBulk(s, c) = [s EXCEPT !.cl[c].bulk = a, !.cl[c].querybuf = b]
    BY <1>1 DEF TakeBulk, Taken, Left, States
  <2> HIDE DEF a, b
  <2>2. [s EXCEPT !.cl[c].bulk = a, !.cl[c].querybuf = b] = [s EXCEPT !.cl[c] = m]
    BY <1>1 DEF States
  <2>3. m = Reading(k, b, k.argv, a, k.bulklen, k.held)
    BY <1>1 DEF Reading, Conn
  <2> QED
    BY <2>1, <2>2, <2>3 DEF a, b
<1>4. k.argv \in Unit /\ k.bulklen \in Int /\ k.held \in BOOLEAN /\ BulkLenFits(k.bulklen)
  BY <1>1, ConnFields DEF BulkLenFits, Conn
<1>5. Keeps(s, [s EXCEPT !.cl[c] = l], c) /\ [s EXCEPT !.cl[c] = l].cl[c] = l
  BY <1>2, <1>4, ReadingKeeps
<1> QED
  BY <1>3, <1>5

\* What the word on a line says of the length of the argument.
Length(k) == IF k.argv \in DOMAIN BulkLength THEN BulkLength[k.argv] ELSE -1

\* The argument is taken out of the buffer.
Took(k) == Reading(k, Left(k), k.argv, Taken(k), k.bulklen, k.held)

\* What processCommand makes of a connection that it does not free.
Processed(k, l) ==
  LET m == Reading(k, k.querybuf, k.argv, k.bulk, Length(k) + 2, k.held)
  IN IF k.bulklen # -1 \/ k.argv \notin DOMAIN BulkLength \/ Length(k) \notin 0 .. MaxBulk
     THEN Executed(k, l)
     ELSE IF Len(k.querybuf) >= Length(k) + 2 THEN Executed(Took(m), l)
     ELSE l = m

LEMMA ProcessCommandIs ==
  ASSUME NEW s, Good(s), NEW c \in Conns, IsOpen(s, c)
  PROVE  LET t == ProcessCommand(s, c)
         IN \/ Frees(s, t, c)
            \/ s.cl[c].argv # "quit" /\ Keeps(s, t, c) /\ Processed(s.cl[c], t.cl[c])
<1> DEFINE k == s.cl[c]
           n == IF k.argv \in DOMAIN BulkLength THEN BulkLength[k.argv] ELSE -1
           t == [s EXCEPT !.cl[c].bulklen = n + 2]
           e == AddReply(s, c, <<"-">>)
           u == ProcessCommand(s, c)
           m == Reading(k, k.querybuf, k.argv, k.bulk, Length(k) + 2, k.held)
<1>1. s \in States /\ k \in Conn
  BY GoodIs
<1>2. u = IF k.argv = "quit" THEN FreeClient(s, c)
          ELSE IF k.argv \notin Commands THEN Reset(e, c)
          ELSE IF k.argv \in Inline \/ k.bulklen # -1 THEN Exec(s, c)
          ELSE IF n \notin 0 .. MaxBulk THEN Reset(e, c)
          ELSE IF Len(k.querybuf) >= n + 2 THEN Exec(TakeBulk(t, c), c)
          ELSE t
  BY DEF ProcessCommand
<1>3. n = Length(k)
  BY DEF Length
<1> HIDE DEF n, t, e, u, k, m
<1>4. Keeps(s, Reset(e, c), c) /\ Executed(k, Reset(e, c).cl[c])
  <2>1. Answered(s, e)
    BY AddReplyAnswers, OneReply DEF e
  <2>2. Keeps(s, e, c) /\ SameQuery(k, e.cl[c])
    BY <2>1, AnsweredQuery DEF k
  <2>3. Good(e) /\ IsOpen(e, c)
    BY <2>2 DEF Keeps
  <2> DEFINE r == Reset(e, c)
  <2>4. Keeps(e, r, c) /\ Executed(e.cl[c], r.cl[c])
    BY <2>3, ResetKeeps
  <2> HIDE DEF r
  <2>5. Keeps(s, r, c)
    BY <2>2, <2>4, KeepsTwice
  <2> DEFINE l == e.cl[c]
             x == r.cl[c]
  <2>6. SameQuery(k, l) /\ Executed(l, x)
    BY <2>2, <2>4
  <2> HIDE DEF l, x
  <2>7. Append(l.executed, <<l.argv, l.bulk>>) = Append(k.executed, <<k.argv, k.bulk>>)
    BY <2>6, Zenon DEF SameQuery
  <2>8. Executed(k, x)
    BY <2>6, <2>7, Zenon DEF SameQuery, Executed
  <2> QED
    BY <2>5, <2>8 DEF r, x
<1>5. CASE k.argv = "quit"
  <2>1. u = FreeClient(s, c)
    BY <1>2, <1>5
  <2> QED
    BY <2>1, FreeClientFrees DEF u
<1>6. CASE k.argv # "quit" /\ k.argv \notin Commands
  <2>1. u = Reset(e, c)
    BY <1>2, <1>6
  <2>2. k.argv \notin DOMAIN BulkLength
    BY <1>6 DEF Commands
  <2>3. Processed(k, u.cl[c])
    BY <1>4, <2>1, <2>2 DEF Processed
  <2> QED
    BY <1>4, <1>6, <2>1, <2>3 DEF u, k
<1>7. CASE k.argv # "quit" /\ k.argv \in Commands /\ (k.argv \in Inline \/ k.bulklen # -1)
  <2>1. u = Exec(s, c)
    BY <1>2, <1>7
  <2>2. k.argv \notin DOMAIN BulkLength \/ k.bulklen # -1
    BY <1>7, ClientsAssumption
  <2>3. Keeps(s, u, c) /\ Executed(k, u.cl[c])
    BY <1>7, <2>1, ExecKeeps DEF k
  <2>4. Processed(k, u.cl[c])
    BY <2>2, <2>3 DEF Processed
  <2> QED
    BY <1>7, <2>3, <2>4 DEF u, k
<1>8. CASE k.argv # "quit" /\ k.argv \in Commands /\ k.argv \notin Inline /\ k.bulklen = -1
  <2>1. k.argv \in DOMAIN BulkLength
    BY <1>8 DEF Commands
  <2>2. CASE n \notin 0 .. MaxBulk
    <3>1. u = Reset(e, c)
      BY <1>2, <1>8, <2>2
    <3>2. Processed(k, u.cl[c])
      BY <1>3, <1>4, <2>2, <3>1 DEF Processed
    <3> QED
      BY <1>4, <1>8, <3>1, <3>2 DEF u, k
  <2>3. CASE n \in 0 .. MaxBulk
    <3>1. /\ n \in Nat /\ n + 2 \in 2 .. MaxBulk + 2 /\ n + 2 \in Int
          /\ BulkLenFits(n + 2)
      <4>1. MaxBulk \in Nat
        BY ClientsAssumption
      <4> QED
        BY <2>3, <4>1 DEF BulkLenFits
    <3>2. /\ k.querybuf \in Units /\ k.argv \in Unit /\ k.bulk \in Units /\ k.held \in BOOLEAN
      BY <1>1, ConnFields DEF Conn
    <3>3. t = [s EXCEPT !.cl[c] = m]
      <4> DEFINE x == n + 2
      <4>1. t = [s EXCEPT !.cl[c].bulklen = x] /\ m = Reading(k, k.querybuf, k.argv, k.bulk, x, k.held)
        BY <1>3 DEF t, m
      <4> HIDE DEF x
      <4>2. m = [k EXCEPT !.bulklen = x]
        BY <1>1, <4>1 DEF Reading, Conn
      <4> QED
        BY <1>1, <4>1, <4>2 DEF States, k
    <3>4. Keeps(s, t, c) /\ t.cl[c] = m
      <4> DEFINE x == n + 2
      <4>1. x \in Int /\ BulkLenFits(x)
        BY <3>1
      <4>2. m = Reading(k, k.querybuf, k.argv, k.bulk, x, k.held)
        BY <1>3 DEF m
      <4> HIDE DEF x
      <4> QED
        BY <3>2, <3>3, <4>1, <4>2, ReadingKeeps DEF k
    <3>5. /\ m \in Conn /\ m.bulklen = n + 2 /\ m.querybuf = k.querybuf /\ m.argv = k.argv
      <4> DEFINE x == n + 2
      <4>1. x \in Int
        BY <3>1
      <4>2. m = Reading(k, k.querybuf, k.argv, k.bulk, x, k.held)
        BY <1>3 DEF m
      <4> HIDE DEF x
      <4>3. m \in Conn /\ m.bulklen = x /\ m.querybuf = k.querybuf /\ m.argv = k.argv
        BY <1>1, <3>2, <4>1, <4>2, ReadingIs
      <4> QED
        BY <4>3 DEF x
    <3>6. CASE Len(k.querybuf) >= n + 2
      <4>1. u = Exec(TakeBulk(t, c), c)
        BY <1>2, <1>8, <2>3, <3>6
      <4> DEFINE v == TakeBulk(t, c)
                 w == Exec(v, c)
      <4>2. Good(t) /\ IsOpen(t, c)
        BY <3>4 DEF Keeps
      <4>3. t.cl[c].bulklen \in 2 .. MaxBulk + 2 /\ t.cl[c].bulklen <= Len(t.cl[c].querybuf)
        <5> DEFINE y == Len(k.querybuf)
        <5>1. y \in Nat
          BY <3>2 DEF Units
        <5>2. y >= n + 2 /\ m.bulklen <= y
          <6>1. y >= n + 2
            BY <3>6
          <6> HIDE DEF y
          <6> QED
            BY <3>1, <3>5, <5>1, <6>1
        <5> QED
          BY <3>1, <3>4, <3>5, <5>2
      <4>4. Keeps(t, v, c) /\ v.cl[c] = Took(m)
        BY <3>4, <4>2, <4>3, TakeBulkKeeps DEF Took
      <4>5. Good(v) /\ IsOpen(v, c)
        BY <4>4 DEF Keeps
      <4>6. Took(m).argv = m.argv
        <5>1. Taken(m) \in Units /\ Left(m) \in Units
          BY <3>4, <3>5, <4>3, TakenIs
        <5>2. m.argv \in Unit /\ m.bulklen \in Int /\ m.held \in BOOLEAN
          BY <3>5, ConnFields DEF Conn
        <5> QED
          BY <3>5, <5>1, <5>2, ReadingIs DEF Took
      <4> HIDE DEF v
      <4>7. v.cl[c].argv \in Commands
        BY <1>8, <3>5, <4>4, <4>6
      <4>8. Keeps(v, w, c) /\ Executed(v.cl[c], w.cl[c])
        BY <4>5, <4>7, ExecKeeps
      <4> HIDE DEF w
      <4>9. Keeps(s, v, c)
        BY <3>4, <4>4, KeepsTwice
      <4>10. Keeps(s, w, c)
        BY <4>8, <4>9, KeepsTwice
      <4>11. Executed(Took(m), w.cl[c])
        BY <4>4, <4>8
      <4>12. Processed(k, w.cl[c])
        <5>1. k.argv \in DOMAIN BulkLength /\ k.bulklen = -1 /\ Length(k) \in 0 .. MaxBulk
              /\ Len(k.querybuf) >= Length(k) + 2
          BY <1>3, <1>8, <2>1, <2>3, <3>6
        <5> QED
          BY <4>11, <5>1 DEF Processed, m
      <4> QED
        BY <1>8, <4>1, <4>10, <4>12 DEF u, k, v, w
    <3>7. CASE ~(Len(k.querybuf) >= n + 2)
      <4>1. u = t
        BY <1>2, <1>8, <2>3, <3>7
      <4>2. k.argv \in DOMAIN BulkLength /\ k.bulklen = -1 /\ Length(k) \in 0 .. MaxBulk
            /\ ~(Len(k.querybuf) >= Length(k) + 2)
        BY <1>3, <1>8, <2>1, <2>3, <3>7
      <4>3. Processed(k, m)
        BY <4>2 DEF Processed, m
      <4> QED
        BY <1>8, <3>4, <4>1, <4>3 DEF u, k
    <3> QED
      BY <3>6, <3>7
  <2> QED
    BY <2>2, <2>3
<1> QED
  BY <1>5, <1>6, <1>7, <1>8

Held(k) == Reading(k, k.querybuf, k.argv, k.bulk, k.bulklen, TRUE)

\* The line at the front of the buffer, and what is behind it.
Line(k) == SubSeq(k.querybuf, 1, LineEnd(k.querybuf) - 1)
Behind(k) == SubSeq(k.querybuf, LineEnd(k.querybuf) + 1, Len(k.querybuf))

LEMMA LineIs ==
  ASSUME NEW k \in Conn, LineEnd(k.querybuf) # 0
  PROVE  Line(k) \in Units /\ Behind(k) \in Units
<1> DEFINE q == k.querybuf
           p == LineEnd(q)
           n == Len(q)
           m == p - 1
<1>1. q \in Units
  BY ConnFields
<1>2. n \in Nat
  BY <1>1 DEF Units
<1>3. p \in 0 .. n
  BY <1>1, LineEndIs
<1>4. p # 0
  OBVIOUS
<1> HIDE DEF p, n, q
<1>5. p \in Nat /\ m \in Nat /\ m <= n /\ n <= n
  BY <1>2, <1>3, <1>4
<1> HIDE DEF m
<1>6. SubSeq(q, 0 + 1, m) \in Units
  BY <1>1, <1>5, SubUnits DEF n
<1>7. SubSeq(q, p + 1, n) \in Units
  BY <1>1, <1>2, <1>5, SubUnits DEF n
<1> QED
  BY <1>6, <1>7 DEF Line, Behind, m, n, p, q

\* What a turn of readQueryFromClient makes of a connection that it does not free.
Turned(k, l, again) ==
  IF k.bulklen # -1
  THEN /\ ~again
       /\ IF Len(k.querybuf) < k.bulklen THEN l = k ELSE Processed(Took(Held(k)), l)
  ELSE IF LineEnd(k.querybuf) = 0 THEN l = k /\ ~again
  ELSE IF Line(k) = <<>>
  THEN l = Reading(k, Behind(k), k.argv, k.bulk, k.bulklen, TRUE) /\ ~again
  ELSE /\ Word(Line(k)) # "quit"
       /\ Processed(Reading(k, Behind(k), Word(Line(k)), k.bulk, k.bulklen, k.held), l)
       /\ again <=> l.querybuf # <<>>

LEMMA FreesClosed ==
  ASSUME NEW s, NEW t, NEW c \in Conns, Frees(s, t, c)
  PROVE  ~IsOpen(t, c)
BY GoneIs DEF Frees, IsOpen

LEMMA TurnIs ==
  ASSUME NEW s, Good(s), NEW c \in Conns, IsOpen(s, c)
  PROVE  LET r == Turn(s, c)
         IN /\ r.again \in BOOLEAN
            /\ \/ Frees(s, r.s, c) /\ ~r.again
               \/ Keeps(s, r.s, c) /\ Turned(s.cl[c], r.s.cl[c], r.again)
<1> DEFINE k == s.cl[c]
           p == LineEnd(k.querybuf)
           line == SubSeq(k.querybuf, 1, p - 1)
           rest == [s EXCEPT !.cl[c].querybuf = SubSeq(@, p + 1, Len(@))]
           x == [rest EXCEPT !.cl[c].argv = Word(line)]
           t == ProcessCommand(x, c)
           h == [s EXCEPT !.cl[c].held = TRUE]
           g == [rest EXCEPT !.cl[c].held = TRUE]
           b == ProcessCommand(TakeBulk(h, c), c)
           r == Turn(s, c)
<1>1. s \in States /\ k \in Conn /\ Sound(k)
  BY GoodIs
<1>2. r = IF k.bulklen # -1
          THEN IF Len(k.querybuf) < k.bulklen THEN [s |-> s, again |-> FALSE]
               ELSE [s |-> b, again |-> FALSE]
          ELSE IF p = 0
          THEN IF Len(k.querybuf) >= MaxInline THEN [s |-> FreeClient(s, c), again |-> FALSE]
               ELSE [s |-> s, again |-> FALSE]
          ELSE IF line = <<>> THEN [s |-> g, again |-> FALSE]
          ELSE [s |-> t, again |-> IsOpen(t, c) /\ t.cl[c].querybuf # <<>>]
  BY DEF Turn
<1>3. line = Line(k) /\ p = LineEnd(k.querybuf)
  BY DEF Line
<1>4. /\ k.querybuf \in Units /\ k.argv \in Unit /\ k.bulk \in Units /\ k.bulklen \in Int
      /\ k.held \in BOOLEAN /\ BulkLenFits(k.bulklen)
  BY <1>1, ConnFields DEF Conn, Sound, Sized, BulkLenFits
<1>5. Keeps(s, s, c)
  BY AnsweredSame, AnsweredKeeps
<1>6. rest = [s EXCEPT !.cl[c].querybuf = Behind(k)]
  BY <1>1 DEF Behind, States
<1>7. h = [s EXCEPT !.cl[c] = Held(k)]
  <2>1. Held(k) = [k EXCEPT !.held = TRUE]
    BY <1>1 DEF Held, Reading, Conn
  <2> HIDE DEF k
  <2> QED
    BY <1>1, <2>1 DEF States, k
<1>8. x = [s EXCEPT !.cl[c] = Reading(k, Behind(k), Word(line), k.bulk, k.bulklen, k.held)]
  <2> DEFINE y == Behind(k)
             w == Word(line)
             m == [k EXCEPT !.querybuf = y, !.argv = w]
  <2>1. m = Reading(k, y, w, k.bulk, k.bulklen, k.held)
    BY <1>1 DEF Reading, Conn
  <2>2. x = [[s EXCEPT !.cl[c].querybuf = y] EXCEPT !.cl[c].argv = w]
    BY <1>6
  <2> HIDE DEF y, w
  <2>3. x = [s EXCEPT !.cl[c] = m]
    BY <1>1, <2>2 DEF States
  <2> QED
    BY <2>1, <2>3 DEF y, w
<1>9. g = [s EXCEPT !.cl[c] = Reading(k, Behind(k), k.argv, k.bulk, k.bulklen, TRUE)]
  <2> DEFINE y == Behind(k)
             m == [k EXCEPT !.querybuf = y, !.held = TRUE]
  <2>1. m = Reading(k, y, k.argv, k.bulk, k.bulklen, TRUE)
    BY <1>1 DEF Reading, Conn
  <2>2. g = [[s EXCEPT !.cl[c].querybuf = y] EXCEPT !.cl[c].held = TRUE]
    BY <1>6
  <2> HIDE DEF y
  <2>3. g = [s EXCEPT !.cl[c] = m]
    BY <1>1, <2>2 DEF States
  <2> QED
    BY <2>1, <2>3 DEF y
<1>15. PICK yes \in BOOLEAN : yes = TRUE
  OBVIOUS
<1>16. Held(k) = Reading(k, k.querybuf, k.argv, k.bulk, k.bulklen, yes)
  BY <1>15, Zenon DEF Held
<1>17. Reading(k, Behind(k), k.argv, k.bulk, k.bulklen, TRUE)
         = Reading(k, Behind(k), k.argv, k.bulk, k.bulklen, yes)
  BY <1>15, Zenon
<1> HIDE DEF rest, x, t, h, g, b, r, p, line, k
<1>10. CASE k.bulklen # -1 /\ Len(k.querybuf) < k.bulklen
  <2>1. r.s = s /\ r.again = FALSE
    BY <1>2, <1>10
  <2>2. Turned(k, k, FALSE)
    BY <1>10 DEF Turned
  <2> QED
    BY <1>5, <2>1, <2>2 DEF r, k
<1>11. CASE k.bulklen # -1 /\ ~(Len(k.querybuf) < k.bulklen)
  <2>1. r.s = b /\ r.again = FALSE
    BY <1>2, <1>11
  <2> DEFINE m == Held(k)
             v == TakeBulk(h, c)
  <2>2. m \in Conn /\ m.bulklen = k.bulklen /\ m.querybuf = k.querybuf
    BY <1>1, <1>4, <1>16, ReadingIs
  <2>3. Keeps(s, h, c) /\ h.cl[c] = m
    BY <1>4, <1>7, <1>16, ReadingKeeps DEF k
  <2>4. Good(h) /\ IsOpen(h, c)
    BY <2>3 DEF Keeps
  <2> HIDE DEF m
  <2>5. h.cl[c].bulklen \in 2 .. MaxBulk + 2 /\ h.cl[c].bulklen <= Len(h.cl[c].querybuf)
    <3>1. k.bulklen \in 2 .. MaxBulk + 2
      BY <1>4, <1>11 DEF BulkLenFits
    <3> DEFINE y == Len(k.querybuf)
    <3>2. y \in Nat
      BY <1>4 DEF Units
    <3>3. ~(y < k.bulklen)
      BY <1>11
    <3> HIDE DEF y
    <3>4. k.bulklen <= y
      BY <1>4, <3>2, <3>3
    <3> QED
      BY <2>2, <2>3, <3>1, <3>4 DEF y
  <2>6. Keeps(h, v, c) /\ v.cl[c] = Took(m)
    BY <2>3, <2>4, <2>5, TakeBulkKeeps DEF Took
  <2> HIDE DEF v
  <2>7. Good(v) /\ IsOpen(v, c)
    BY <2>6 DEF Keeps
  <2>8. b = ProcessCommand(v, c)
    BY DEF b, v
  <2>9. Frees(v, b, c) \/ (Keeps(v, b, c) /\ Processed(Took(m), b.cl[c]))
    BY <2>6, <2>7, <2>8, ProcessCommandIs
  <2>10. Keeps(s, v, c)
    BY <2>3, <2>6, KeepsTwice
  <2>11. Keeps(v, b, c) => Turned(k, b.cl[c], FALSE)
    <3>1. ASSUME Processed(Took(m), b.cl[c])
          PROVE  Turned(k, b.cl[c], FALSE)
      BY <1>11, <3>1 DEF Turned, m
    <3>2. Keeps(v, b, c) => ~Frees(v, b, c)
      BY FreesClosed DEF Keeps
    <3> QED
      BY <2>9, <3>1, <3>2
  <2>12. Frees(s, b, c) \/ (Keeps(s, b, c) /\ Keeps(v, b, c))
    <3>1. Frees(v, b, c) => Frees(s, b, c)
      BY <2>10, KeepsTwice
    <3>2. Keeps(v, b, c) => Keeps(s, b, c)
      BY <2>10, KeepsTwice
    <3> QED
      BY <2>9, <3>1, <3>2
  <2> QED
    BY <2>1, <2>11, <2>12 DEF r, k
<1>12. CASE k.bulklen = -1 /\ p = 0
  <2>1. CASE Len(k.querybuf) >= MaxInline
    <3>1. r.s = FreeClient(s, c) /\ r.again = FALSE
      BY <1>2, <1>12, <2>1
    <3> QED
      BY <3>1, FreeClientFrees DEF r
  <2>2. CASE ~(Len(k.querybuf) >= MaxInline)
    <3>1. r.s = s /\ r.again = FALSE
      BY <1>2, <1>12, <2>2
    <3>2. Turned(k, k, FALSE)
      BY <1>3, <1>12 DEF Turned
    <3> QED
      BY <1>5, <3>1, <3>2 DEF r, k
  <2> QED
    BY <2>1, <2>2
<1>13. CASE k.bulklen = -1 /\ p # 0 /\ line = <<>>
  <2>1. r.s = g /\ r.again = FALSE
    BY <1>2, <1>13
  <2> DEFINE l == Reading(k, Behind(k), k.argv, k.bulk, k.bulklen, TRUE)
  <2>2. Keeps(s, g, c) /\ g.cl[c] = l
    <3>1. Behind(k) \in Units
      BY <1>1, <1>3, <1>13, LineIs
    <3> DEFINE m == Reading(k, Behind(k), k.argv, k.bulk, k.bulklen, yes)
    <3>2. Keeps(s, [s EXCEPT !.cl[c] = m], c) /\ [s EXCEPT !.cl[c] = m].cl[c] = m
      BY <1>4, <3>1, ReadingKeeps DEF k
    <3>3. l = m
      BY <1>17
    <3>4. g = [s EXCEPT !.cl[c] = l]
      BY <1>9
    <3> HIDE DEF l, m
    <3> QED
      BY <3>2, <3>3, <3>4
  <2> HIDE DEF l
  <2>3. Turned(k, l, FALSE)
    BY <1>3, <1>13 DEF Turned, l
  <2> QED
    BY <2>1, <2>2, <2>3 DEF r, k
<1>14. CASE k.bulklen = -1 /\ p # 0 /\ line # <<>>
  <2> DEFINE again == IsOpen(t, c) /\ t.cl[c].querybuf # <<>>
  <2>1. r.s = t /\ r.again = again
    BY <1>2, <1>14
  <2> DEFINE l == Reading(k, Behind(k), Word(line), k.bulk, k.bulklen, k.held)
  <2>2. Behind(k) \in Units /\ line \in Units
    BY <1>1, <1>3, <1>14, LineIs
  <2>3. Word(line) \in Unit
    BY <1>14, <2>2, WordIs
  <2>4. Keeps(s, x, c) /\ x.cl[c] = l
    BY <1>4, <1>8, <2>2, <2>3, ReadingKeeps DEF k
  <2>5. l.argv = Word(line)
    BY <1>1, <1>4, <2>2, <2>3, ReadingIs
  <2> HIDE DEF l
  <2>6. Good(x) /\ IsOpen(x, c)
    BY <2>4 DEF Keeps
  <2>7. \/ Frees(x, t, c)
        \/ l.argv # "quit" /\ Keeps(x, t, c) /\ Processed(l, t.cl[c])
    BY <2>4, <2>6, ProcessCommandIs DEF t
  <2>8. CASE Frees(x, t, c)
    <3>1. Frees(s, t, c)
      BY <2>4, <2>8, KeepsTwice
    <3>2. ~IsOpen(t, c)
      BY <3>1, FreesClosed
    <3>3. r.again = FALSE
      BY <2>1, <3>2
    <3> QED
      BY <2>1, <3>1, <3>3 DEF r
  <2>9. CASE l.argv # "quit" /\ Keeps(x, t, c) /\ Processed(l, t.cl[c])
    <3>1. Keeps(s, t, c)
      BY <2>4, <2>9, KeepsTwice
    <3>2. IsOpen(t, c)
      BY <3>1 DEF Keeps
    <3>3. again \in BOOLEAN /\ (again <=> t.cl[c].querybuf # <<>>)
      BY <3>2
    <3> HIDE DEF again
    <3>4. Turned(k, t.cl[c], again)
      BY <1>3, <1>14, <2>5, <2>9, <3>3 DEF Turned, l
    <3> QED
      BY <2>1, <3>1, <3>3, <3>4 DEF r, k
  <2> QED
    BY <2>7, <2>8, <2>9
<1> QED
  BY <1>10, <1>11, <1>12, <1>13, <1>14

\* The states after each turn of readQueryFromClient.
Readings(f, s, c, m) ==
  f = [i \in 0 .. m |-> IF i = 0 THEN [s |-> s, again |-> TRUE]
                        ELSE IF f[i - 1].again THEN Turn(f[i - 1].s, c) ELSE f[i - 1]]

LEMMA ReadingsExist ==
  ASSUME NEW s, NEW c, NEW m \in Nat
  PROVE  \E f : Readings(f, s, c, m)
<1> DEFINE Next1(r) == IF r.again THEN Turn(r.s, c) ELSE r
           Steps(f, x) == f = [i \in 0 .. x |-> IF i = 0 THEN [s |-> s, again |-> TRUE]
                                                ELSE Next1(f[i - 1])]
           Fine == {x \in Nat : \E f : Steps(f, x)}
<1> HIDE DEF Next1
<1>1. 0 \in Fine
  <2>1. Steps([i \in 0 .. 0 |-> [s |-> s, again |-> TRUE]], 0)
    OBVIOUS
  <2>2. \E f : Steps(f, 0)
    BY <2>1
  <2> HIDE DEF Steps
  <2> QED
    BY <2>2
<1>2. ASSUME NEW x \in Nat, x \in Fine
      PROVE  x + 1 \in Fine
  <2>1. PICK f : Steps(f, x)
    BY <1>2
  <2> DEFINE r == [i \in 0 .. x + 1 |-> IF i = x + 1 THEN Next1(f[x]) ELSE f[i]]
  <2>2. ASSUME NEW i \in 0 .. x + 1
        PROVE  r[i] = IF i = 0 THEN [s |-> s, again |-> TRUE] ELSE Next1(r[i - 1])
    <3>1. CASE i = x + 1
      BY <3>1
    <3>2. CASE i \in 0 .. x
      <4>1. r[i] = f[i] /\ (i # 0 => r[i - 1] = f[i - 1])
        BY <3>2
      <4>2. f[i] = IF i = 0 THEN [s |-> s, again |-> TRUE] ELSE Next1(f[i - 1])
        BY <2>1, <3>2
      <4> HIDE DEF r
      <4> QED
        BY <4>1, <4>2
    <3> QED
      BY <3>1, <3>2
  <2>3. Steps(r, x + 1)
    BY <2>2
  <2> HIDE DEF r
  <2>4. \E g : Steps(g, x + 1)
    BY <2>3, Zenon
  <2> HIDE DEF Steps
  <2> QED
    BY <2>4
<1> HIDE DEF Fine
<1>3. m \in Fine
  BY <1>1, <1>2, NatRange
<1> QED
  BY <1>3 DEF Fine, Readings, Next1

LEMMA AgainIs ==
  ASSUME NEW s, NEW c, Len(s.cl[c].querybuf) \in Nat
  PROVE  \E f : Readings(f, s, c, Len(s.cl[c].querybuf))
                /\ Again(s, c) = f[Len(s.cl[c].querybuf)].s
<1> DEFINE n == Len(s.cl[c].querybuf)
           g == CHOOSE f : Readings(f, s, c, n)
<1>1. Readings(g, s, c, n)
  BY ReadingsExist
<1>2. Again(s, c) = g[n].s
  BY DEF Again, Readings
<1> QED
  BY <1>1, <1>2

LEMMA ReadingsKeep ==
  ASSUME NEW s, Good(s), NEW c \in Conns, IsOpen(s, c), NEW m \in Nat, NEW f, Readings(f, s, c, m)
  PROVE  \A i \in 0 .. m : /\ f[i].again \in BOOLEAN
                           /\ \/ Keeps(s, f[i].s, c)
                              \/ Frees(s, f[i].s, c) /\ ~f[i].again
<1> DEFINE Fits(r) == /\ r.again \in BOOLEAN
                      /\ \/ Keeps(s, r.s, c)
                         \/ Frees(s, r.s, c) /\ ~r.again
           Fine == {i \in Nat : i <= m => Fits(f[i])}
<1>1. 0 \in Fine
  <2> DEFINE r == [s |-> s, again |-> TRUE]
  <2>1. f[0] = r
    BY DEF Readings
  <2>2. Keeps(s, s, c)
    BY AnsweredSame, AnsweredKeeps
  <2>3. Fits(r)
    BY <2>2
  <2> HIDE DEF r, Fits
  <2> QED
    BY <2>1, <2>3
<1>2. ASSUME NEW i \in Nat, i \in Fine
      PROVE  i + 1 \in Fine
  <2> SUFFICES ASSUME i + 1 <= m
               PROVE  Fits(f[i + 1])
    OBVIOUS
  <2> DEFINE r == f[i]
             t == r.s
             x == Turn(t, c)
  <2>1. Fits(r)
    BY <1>2
  <2>2. f[i + 1] = IF r.again THEN x ELSE r
    BY DEF Readings
  <2> HIDE DEF r
  <2>3. CASE ~r.again
    <3>1. f[i + 1] = r
      BY <2>2, <2>3
    <3> HIDE DEF Fits
    <3> QED
      BY <2>1, <3>1
  <2>4. CASE r.again
    <3>1. f[i + 1] = x
      BY <2>2, <2>4
    <3>2. Keeps(s, t, c)
      BY <2>1, <2>4
    <3>3. Good(t) /\ IsOpen(t, c)
      BY <3>2 DEF Keeps
    <3>4. /\ x.again \in BOOLEAN
          /\ (Frees(t, x.s, c) /\ ~x.again) \/ Keeps(t, x.s, c)
      <4> HIDE DEF t
      <4> QED
        BY <3>3, TurnIs
    <3> HIDE DEF t, x
    <3>5. Fits(x)
      BY <3>2, <3>4, KeepsTwice
    <3> HIDE DEF Fits
    <3> QED
      BY <3>1, <3>5
  <2> QED
    BY <2>1, <2>3, <2>4
<1> HIDE DEF Fits
<1>3. Nat \subseteq Fine
  <2> HIDE DEF Fine
  <2> QED
    BY <1>1, <1>2, NatRange
<1>4. \A i \in 0 .. m : Fits(f[i])
  BY <1>3
<1> QED
  BY <1>4 DEF Fits

LEMMA AgainHandled ==
  ASSUME NEW s, Good(s), NEW c \in Conns, IsOpen(s, c)
  PROVE  Handled(s, Again(s, c), c)
<1> DEFINE n == Len(s.cl[c].querybuf)
<1>1. n \in Nat
  <2>1. s.cl[c] \in Conn
    BY GoodIs
  <2>2. s.cl[c].querybuf \in Units
    BY <2>1, ConnFields
  <2> QED
    BY <2>2 DEF Units
<1>2. PICK f : Readings(f, s, c, n) /\ Again(s, c) = f[n].s
  BY <1>1, AgainIs
<1> HIDE DEF n
<1>3. n \in 0 .. n
  BY <1>1
<1> QED
  BY <1>1, <1>2, <1>3, ReadingsKeep DEF Handled

\* What has been sent to the server goes into its buffer.
Receiving(k) ==
  [k EXCEPT !.querybuf = k.querybuf \o k.input, !.input = <<>>,
            !.received = k.received \o k.input, !.held = FALSE]

LEMMA ReceivingIs ==
  ASSUME NEW k \in Conn
  PROVE  LET l == Receiving(k)
         IN /\ l \in Conn /\ SameReplies(k, l) /\ l.bulklen = k.bulklen
            /\ l.querybuf = k.querybuf \o k.input /\ l.input = <<>>
            /\ l.received = k.received \o k.input /\ l.held = FALSE
            /\ l.executed = k.executed /\ l.argv = k.argv /\ l.bulk = k.bulk
<1> DEFINE a == k.querybuf \o k.input
           b == k.received \o k.input
           nul == <<>>
<1>1. a \in Units /\ b \in Units /\ nul \in Units
  <2>1. k.querybuf \in Units /\ k.input \in Units /\ k.received \in Units
    BY ConnFields
  <2>2. a \in Units
    BY <2>1, ConcatProperties DEF Units
  <2>3. b \in Units
    BY <2>1, ConcatProperties DEF Units
  <2>4. nul \in Units
    BY DEF Units
  <2> QED
    BY <2>2, <2>3, <2>4
<1> DEFINE l == [k EXCEPT !.querybuf = a, !.input = nul, !.received = b, !.held = FALSE]
<1>2. Receiving(k) = l
  BY DEF Receiving
<1> HIDE DEF a, b, nul
<1>3. l \in Conn
  BY <1>1 DEF Conn
<1>4. SameReplies(k, l)
  BY DEF Conn, SameReplies
<1>5. /\ l.bulklen = k.bulklen /\ l.querybuf = a /\ l.input = nul
      /\ l.received = b /\ l.held = FALSE
      /\ l.executed = k.executed /\ l.argv = k.argv /\ l.bulk = k.bulk
  BY DEF Conn
<1> QED
  BY <1>2, <1>3, <1>4, <1>5 DEF a, b, nul

LEMMA ReceivingKeeps ==
  ASSUME NEW s, Good(s), NEW c \in Conns, IsOpen(s, c)
  PROVE  LET k == s.cl[c]
             t == [s EXCEPT !.cl[c].querybuf = @ \o k.input, !.cl[c].input = <<>>,
                            !.cl[c].received = @ \o k.input, !.cl[c].held = FALSE]
         IN Keeps(s, t, c) /\ t.cl[c] = Receiving(k)
<1> DEFINE k == s.cl[c]
           t == [s EXCEPT !.cl[c].querybuf = @ \o k.input, !.cl[c].input = <<>>,
                          !.cl[c].received = @ \o k.input, !.cl[c].held = FALSE]
           l == Receiving(k)
<1>1. s \in States /\ k \in Conn /\ Sound(k)
  BY GoodIs
<1>2. t = [s EXCEPT !.cl[c] = l]
  <2> DEFINE a == k.querybuf \o k.input
             b == k.received \o k.input
             nul == <<>>
  <2>1. t = [s EXCEPT !.cl[c].querybuf = a, !.cl[c].input = nul,
                      !.cl[c].received = b, !.cl[c].held = FALSE]
    BY <1>1 DEF States
  <2>2. l = [k EXCEPT !.querybuf = a, !.input = nul, !.received = b, !.held = FALSE]
    BY DEF Receiving
  <2> HIDE DEF a, b, nul, l, t
  <2> QED
    BY <1>1, <2>1, <2>2 DEF States
<1>3. l \in Conn /\ SameReplies(k, l) /\ BulkLenFits(l.bulklen)
  BY <1>1, ReceivingIs DEF Sound, Sized, BulkLenFits
<1> HIDE DEF l
<1>4. Keeps(s, [s EXCEPT !.cl[c] = l], c) /\ [s EXCEPT !.cl[c] = l].cl[c] = l
  BY <1>3, SetKeeps
<1> QED
  BY <1>2, <1>4 DEF l

LEMMA ReadQueryHandled ==
  ASSUME NEW s, Good(s), NEW c \in Conns, IsOpen(s, c)
  PROVE  Handled(s, ReadQuery(s, c), c)
<1> DEFINE k == s.cl[c]
           t == [s EXCEPT !.cl[c].querybuf = @ \o k.input, !.cl[c].input = <<>>,
                          !.cl[c].received = @ \o k.input, !.cl[c].held = FALSE]
<1>1. ReadQuery(s, c) = IF k.input # <<>> THEN Again(t, c)
                        ELSE IF k.peer = "open" THEN s ELSE FreeClient(s, c)
  BY DEF ReadQuery
<1>2. Keeps(s, t, c)
  BY ReceivingKeeps
<1>3. Keeps(s, s, c)
  BY AnsweredSame, AnsweredKeeps
<1> HIDE DEF t
<1>4. Good(t) /\ IsOpen(t, c)
  BY <1>2 DEF Keeps
<1>5. Handled(s, Again(t, c), c)
  BY <1>2, <1>4, AgainHandled, KeepsTwice DEF Handled
<1>6. Handled(s, FreeClient(s, c), c)
  BY FreeClientFrees DEF Handled
<1> QED
  BY <1>1, <1>3, <1>5, <1>6 DEF Handled

-----------------------------------------------------------------------------
(* Sending.                                                                *)

LEMMA PutRecord ==
  ASSUME NEW s \in States, NEW c, NEW l, NEW q
  PROVE  Put(s, c, l, q) = [cl |-> [s.cl EXCEPT ![c] = l], ev |-> q, early |-> s.early]
<1> DEFINE x == [s.cl EXCEPT ![c] = l]
<1>1. Put(s, c, l, q) = [[s EXCEPT !.cl = x] EXCEPT !.ev = q]
  BY DEF Put
<1> HIDE DEF x
<1>2. s = [cl |-> s.cl, ev |-> s.ev, early |-> s.early]
  BY DEF States
<1>3. [s EXCEPT !.cl = x] = [cl |-> x, ev |-> s.ev, early |-> s.early]
  BY <1>2
<1>4. Put(s, c, l, q) = [cl |-> x, ev |-> q, early |-> s.early]
  BY <1>1, <1>3
<1> QED
  BY <1>4 DEF x

LEMMA DeleteWith ==
  ASSUME NEW s \in States, NEW c \in Conns, NEW l \in Conn \cup {Gone}, NEW fd,
         NEW mask \in Masks,
         \A i \in 1 .. Len(s.ev) : s.ev[i].fd = fd <=> s.ev[i].client = c
  PROVE  \E r : /\ Removed(s.ev, r, c, mask)
               /\ Delete([s EXCEPT !.cl[c] = l], fd, mask) = Put(s, c, l, r)
<1>1. ASSUME NEW u \in States, u = Put(s, c, l, s.ev), u.ev = s.ev
      PROVE  \E r : Removed(s.ev, r, c, mask) /\ Delete(u, fd, mask) = Put(s, c, l, r)
  <2>1. \A i \in 1 .. Len(u.ev) : u.ev[i].fd = fd <=> u.ev[i].client = c
    BY <1>1
  <2>2. PICK r : Removed(u.ev, r, c, mask) /\ Delete(u, fd, mask) = [u EXCEPT !.ev = r]
    BY <2>1, DeleteRemoves
  <2>3. [u EXCEPT !.ev = r] = Put(s, c, l, r)
    BY <1>1 DEF Put, States
  <2> QED
    BY <1>1, <2>2, <2>3
<1>2. s.ev \in Seq(FileEvent)
  BY DEF States
<1>3. Put(s, c, l, s.ev) \in States /\ Put(s, c, l, s.ev).ev = s.ev
  BY <1>2 DEF Put, States
<1>4. [s EXCEPT !.cl[c] = l] = Put(s, c, l, s.ev)
  BY SetIsPut
<1> QED
  BY <1>1, <1>3, <1>4

LEMMA DeleteOf ==
  ASSUME NEW s, Good(s), NEW c \in Conns, IsOpen(s, c),
         NEW l, Sound(l), l.fd = s.cl[c].fd
  PROVE  \E r : /\ Removed(s.ev, r, c, "writable")
               /\ Delete([s EXCEPT !.cl[c] = l], l.fd, "writable") = Put(s, c, l, r)
<1>1. /\ s \in States
      /\ \A i \in 1 .. Len(s.ev) : s.ev[i].fd = l.fd <=> s.ev[i].client = c
  BY GoodIs
<1>2. l \in Conn \cup {Gone} /\ "writable" \in Masks
  BY DEF Sound, Masks
<1> QED
  BY <1>1, <1>2, DeleteWith

\* A writable event is deleted.
LEMMA Deleted ==
  ASSUME NEW s, Good(s), NEW c \in Conns, IsOpen(s, c),
         NEW l, Sound(l), l.fd = s.cl[c].fd, l.repl = "bulk" <=> s.cl[c].repl = "bulk",
         LET n == Count(s.ev, Kind(c, "writable")) IN Fit(l, IF n = 0 THEN 0 ELSE n - 1)
  PROVE  LET t == Delete([s EXCEPT !.cl[c] = l], l.fd, "writable")
         IN Keeps(s, t, c) /\ t.cl[c] = l
<1> DEFINE n == Count(s.ev, Kind(c, "writable"))
<1>1. /\ s \in States /\ s.ev \in Seq(FileEvent) /\ Count(s.ev, Kind(c, "readable")) = 1
      /\ \A i \in 1 .. Len(s.ev) : /\ s.ev[i].fd = l.fd <=> s.ev[i].client = c
                                   /\ s.ev[i].client = c => Owned(s.cl[c], c, s.ev[i])
  BY GoodIs
<1>2. l \in Conn
  BY DEF Sound
<1>5. "readable" \in Masks /\ "writable" \in Masks /\ "readable" # "writable"
  BY DEF Masks
<1>6. PICK r : /\ Removed(s.ev, r, c, "writable")
               /\ Delete([s EXCEPT !.cl[c] = l], l.fd, "writable") = Put(s, c, l, r)
  BY DeleteOf
<1>8. r \in Seq(FileEvent)
  BY <1>6 DEF Removed
<1>9. \A d \in Conns \ {c}, m \in Masks : Count(r, Kind(d, m)) = Count(s.ev, Kind(d, m))
  BY <1>6 DEF Removed
<1>10. Count(r, Kind(c, "readable")) = 1
  BY <1>1, <1>5, <1>6 DEF Removed
<1>11. Count(r, Kind(c, "writable")) = IF n = 0 THEN 0 ELSE n - 1
  BY <1>5, <1>6 DEF Removed
<1>12. Fit(l, Count(r, Kind(c, "writable")))
  BY <1>11
<1>13. \A i \in 1 .. Len(r) :
         Owned(l, c, r[i]) \/ (r[i].client # c /\ \E j \in 1 .. Len(s.ev) : r[i] = s.ev[j])
  <2> SUFFICES ASSUME NEW i \in 1 .. Len(r)
               PROVE  Owned(l, c, r[i])
                        \/ (r[i].client # c /\ \E j \in 1 .. Len(s.ev) : r[i] = s.ev[j])
    OBVIOUS
  <2>1. PICK j \in 1 .. Len(s.ev) : r[i] = s.ev[j]
    BY <1>6 DEF Removed
  <2>2. s.ev[j].client = c => Owned(l, c, s.ev[j])
    BY <1>1, OwnedSame
  <2> QED
    BY <2>1, <2>2
<1>14. Keeps(s, Put(s, c, l, r), c) /\ Put(s, c, l, r).cl[c] = l
  BY <1>8, <1>9, <1>10, <1>12, <1>13, PutKeeps
<1> QED
  BY <1>6, <1>14

\* The writable event of a client is deleted, if there is one, and one is created.
LEMMA Replaced ==
  ASSUME NEW s, Good(s), NEW c \in Conns, IsOpen(s, c),
         Count(s.ev, Kind(c, "writable")) \in {0, 1},
         NEW l, Sound(l), l.fd = s.cl[c].fd, Fit(l, 1),
         NEW proc, proc = IF l.repl = "bulk" THEN "sendBulk" ELSE "sendReply"
  PROVE  LET t == Create(Delete([s EXCEPT !.cl[c] = l], l.fd, "writable"),
                         Event(l.fd, "writable", proc, c))
         IN Keeps(s, t, c) /\ t.cl[c] = l
<1> DEFINE e == Event(l.fd, "writable", proc, c)
<1>1. /\ s \in States /\ s.ev \in Seq(FileEvent) /\ Count(s.ev, Kind(c, "readable")) = 1
      /\ l.fd \in Fds
      /\ \A i \in 1 .. Len(s.ev) : /\ s.ev[i].fd = l.fd <=> s.ev[i].client = c
                                   /\ s.ev[i].client = c => Owned(s.cl[c], c, s.ev[i])
  BY GoodIs
<1>2. l \in Conn
  BY DEF Sound
<1>5. "readable" \in Masks /\ "writable" \in Masks /\ "readable" # "writable"
  BY DEF Masks
<1>6. PICK r : /\ Removed(s.ev, r, c, "writable")
               /\ Delete([s EXCEPT !.cl[c] = l], l.fd, "writable") = Put(s, c, l, r)
  BY DeleteOf
<1> DEFINE q == <<e>> \o r
<1>7. Create(Put(s, c, l, r), e) = Put(s, c, l, q)
  <2> HIDE DEF e
  <2>1. Put(s, c, l, r) = [cl |-> [s.cl EXCEPT ![c] = l], ev |-> r, early |-> s.early]
    BY <1>1, PutRecord
  <2>2. Put(s, c, l, q) = [cl |-> [s.cl EXCEPT ![c] = l], ev |-> q, early |-> s.early]
    BY <1>1, PutRecord
  <2> HIDE DEF q
  <2>3. Put(s, c, l, r).ev = r
    BY <2>1
  <2>4. Create(Put(s, c, l, r), e) = [Put(s, c, l, r) EXCEPT !.ev = q]
    BY <2>3 DEF Create, q
  <2>5. [Put(s, c, l, r) EXCEPT !.ev = q] = Put(s, c, l, q)
    BY <2>1, <2>2
  <2> QED
    BY <2>4, <2>5
<1>8. r \in Seq(FileEvent)
  BY <1>6 DEF Removed
<1>9. \A d \in Conns \ {c}, m \in Masks : Count(r, Kind(d, m)) = Count(s.ev, Kind(d, m))
  BY <1>6 DEF Removed
<1>10. Count(r, Kind(c, "readable")) = 1
  BY <1>1, <1>5, <1>6 DEF Removed
<1>11. Count(r, Kind(c, "writable")) = 0
  BY <1>5, <1>6 DEF Removed
<1>12. /\ q \in Seq(FileEvent)
       /\ \A d \in Conns \ {c}, m \in Masks : Count(q, Kind(d, m)) = Count(r, Kind(d, m))
       /\ Count(q, Kind(c, "readable")) = Count(r, Kind(c, "readable"))
       /\ Count(q, Kind(c, "writable")) = Count(r, Kind(c, "writable")) + 1
       /\ \A i \in 1 .. Len(q) : q[i] = e \/ \E j \in 1 .. Len(r) : q[i] = r[j]
  <2>1. proc \in {"sendReply", "sendBulk"}
    OBVIOUS
  <2>2. r \in Seq(FileEvent) /\ l.fd \in Fds
    BY <1>1, <1>8
  <2> QED
    BY <2>1, <2>2, OneMore
<1>13. Owned(l, c, e)
  BY DEF Owned, Event
<1> HIDE DEF q, e
<1>14. \A i \in 1 .. Len(q) :
         Owned(l, c, q[i]) \/ (q[i].client # c /\ \E j \in 1 .. Len(s.ev) : q[i] = s.ev[j])
  <2> SUFFICES ASSUME NEW i \in 1 .. Len(q), q[i] # e
               PROVE  Owned(l, c, q[i])
                        \/ (q[i].client # c /\ \E j \in 1 .. Len(s.ev) : q[i] = s.ev[j])
    BY <1>13
  <2>1. PICK x \in 1 .. Len(r) : q[i] = r[x]
    BY <1>12
  <2>2. PICK j \in 1 .. Len(s.ev) : r[x] = s.ev[j]
    BY <1>6 DEF Removed
  <2>3. r[x] \notin Kind(c, "writable")
    BY <1>8, <1>11, AtFinite
  <2>4. r[x] \in FileEvent
    BY <1>8
  <2>5. r[x].client = c => r[x].mask = "readable"
    BY <2>3, <2>4 DEF Kind, FileEvent
  <2>6. r[x].client = c => Owned(l, c, r[x])
    BY <1>1, <2>2, <2>5 DEF Owned
  <2> QED
    BY <2>1, <2>2, <2>6
<1>15. Keeps(s, Put(s, c, l, q), c) /\ Put(s, c, l, q).cl[c] = l
  <2>1. Fit(l, Count(q, Kind(c, "writable")))
    BY <1>11, <1>12
  <2>2. Count(q, Kind(c, "readable")) = 1
    BY <1>10, <1>12
  <2>3. \A d \in Conns \ {c}, m \in Masks : Count(q, Kind(d, m)) = Count(s.ev, Kind(d, m))
    BY <1>9, <1>12
  <2> QED
    BY <1>12, <1>14, <2>1, <2>2, <2>3, PutKeeps
<1> QED
  BY <1>6, <1>7, <1>15 DEF e, q

LEMMA SendReplyHandled ==
  ASSUME NEW s, Good(s), NEW c \in Conns, IsOpen(s, c),
         s.cl[c].repl \in {"none", "online"}
  PROVE  /\ Keeps(s, SendReply(s, c), c) => SameQuery(s.cl[c], SendReply(s, c).cl[c])
         /\ Handled(s, SendReply(s, c), c)
<1> DEFINE k0 == s.cl[c]
           k == GluedConn(k0)
           w == Written(k)
           t == [s EXCEPT !.cl[c] = w]
           n == Count(s.ev, Kind(c, "writable"))
<1>1. SendReply(s, c) = IF k.peer = "reset" /\ FlattenSeq(k.reply) # <<>> THEN FreeClient(s, c)
                        ELSE IF w.reply = <<>> THEN Delete(t, w.fd, "writable") ELSE t
  BY DEF SendReply, GluedConn
<1>2. s \in States /\ Sound(k0) /\ k0 \in Conn /\ Fit(k0, n) /\ s.ev \in Seq(FileEvent)
  BY GoodIs
<1>3. Sound(k) /\ OnlyWritten(k0, k) /\ (k.reply = <<>> <=> k0.reply = <<>>)
  BY <1>2, GluedSound
<1>4. k.repl = k0.repl /\ k \in Conn
  BY <1>2, <1>3, OnlyWrittenIs DEF Sound
<1>5. Sound(w) /\ OnlyWritten(k, w) /\ w \in Conn
  BY <1>3, <1>4, WrittenSound DEF Sound
<1>6. k.reply = <<>> => w = k
  <2> SUFFICES ASSUME k.reply = <<>>
               PROVE  w = k
    OBVIOUS
  <2> DEFINE f == CHOOSE g : Turns(g, k, 0)
  <2>1. Turns(f, k, 0)
    BY WritesExist
  <2>2. Len(k.reply) = 0
    OBVIOUS
  <2>3. w = f[0]
    BY <2>2 DEF Written, Turns
  <2> HIDE DEF f
  <2> QED
    BY <2>1, <2>3 DEF Turns
<1> HIDE DEF k, w
<1>7. OnlyWritten(k0, w)
  BY <1>2, <1>3, <1>4, <1>5, OnlyWrittenTwice
<1>8. w.fd = k0.fd /\ w.repl = k0.repl /\ SameQuery(k0, w)
  BY <1>2, <1>5, <1>7, OnlyWrittenIs DEF SameQuery
<1>9. n \in Nat
  BY <1>2, AtFinite
<1>10. CASE k.peer = "reset" /\ FlattenSeq(k.reply) # <<>>
  <2>1. SendReply(s, c) = FreeClient(s, c)
    BY <1>1, <1>10
  <2>2. Frees(s, FreeClient(s, c), c)
    BY FreeClientFrees
  <2>3. ~Keeps(s, FreeClient(s, c), c)
    BY <2>2, GoneIs DEF Frees, Keeps, IsOpen
  <2> QED
    BY <2>1, <2>2, <2>3 DEF Handled
<1>11. CASE ~(k.peer = "reset" /\ FlattenSeq(k.reply) # <<>>) /\ w.reply = <<>>
  <2>1. SendReply(s, c) = Delete(t, w.fd, "writable")
    BY <1>1, <1>11
  <2>2. Fit(w, IF n = 0 THEN 0 ELSE n - 1)
    <3>1. /\ Fit(k0, n) /\ k0.repl \in {"none", "online"} /\ w.repl = k0.repl
          /\ w.reply = <<>> /\ n \in Nat
      BY <1>2, <1>8, <1>9, <1>11
    <3> HIDE DEF n, k0
    <3>2. n \in 0 .. 2 /\ (k0.repl = "none" => n \in 0 .. 1)
      BY <3>1 DEF Fit
    <3> QED
      BY <3>1, <3>2 DEF Fit
  <2> HIDE DEF n
  <2>3. Keeps(s, Delete(t, w.fd, "writable"), c) /\ Delete(t, w.fd, "writable").cl[c] = w
    BY <1>5, <1>8, <2>2, Deleted DEF n
  <2> HIDE DEF t
  <2> QED
    BY <1>8, <2>1, <2>3 DEF Handled
<1>12. CASE ~(k.peer = "reset" /\ FlattenSeq(k.reply) # <<>>) /\ w.reply # <<>>
  <2>1. SendReply(s, c) = t
    BY <1>1, <1>12
  <2>2. Fit(w, n)
    <3>1. k0.reply # <<>>
      BY <1>3, <1>6, <1>12
    <3> HIDE DEF n, k0
    <3> QED
      BY <1>2, <1>8, <1>9, <1>12, <3>1 DEF Fit
  <2>3. Keeps(s, Put(s, c, w, s.ev), c) /\ Put(s, c, w, s.ev).cl[c] = w
    BY <1>5, <1>8, <2>2, SameEvents
  <2>4. t = Put(s, c, w, s.ev)
    BY <1>2, SetIsPut
  <2> HIDE DEF t
  <2> QED
    BY <1>8, <2>1, <2>3, <2>4 DEF Handled
<1> QED
  BY <1>10, <1>11, <1>12

LEMMA SendBulkHandled ==
  ASSUME NEW s, Good(s), NEW c \in Conns, IsOpen(s, c), s.cl[c].repl = "bulk",
         s.cl[c].peer = "reset" \/ s.cl[c].room >= LowWater
  PROVE  /\ Keeps(s, SendBulk(s, c), c) => SameQuery(s.cl[c], SendBulk(s, c).cl[c])
         /\ Handled(s, SendBulk(s, c), c)
<1> DEFINE k == s.cl[c]
           room == IF k.off = 0 THEN k.room - 1 ELSE k.room
           left == DumpSize - k.off
           n == Min({IoBuf, left, room})
           w == [k EXCEPT !.off = @ + n, !.room = room - n,
                          !.out = @ \o (IF k.off = 0 THEN <<"count">> ELSE <<>>)
                                    \o [i \in 1 .. n |-> "dump"]]
           v == Sent(k, n, "online")
           e == Event(k.fd, "writable", "sendReply", c)
           u == Create(Delete([s EXCEPT !.cl[c] = v], k.fd, "writable"), e)
           m == Count(s.ev, Kind(c, "writable"))
           nul == <<>>
<1>1. s \in States /\ Sound(k) /\ k \in Conn /\ Fit(k, m) /\ s.ev \in Seq(FileEvent)
  BY GoodIs
<1>2. k.off \in 0 .. DumpSize /\ k.off < DumpSize /\ k.room \in 0 .. Room /\ m = 1
  BY <1>1 DEF Sound, Ordered, Fit, Conn
<1>3. w = Sent(k, n, "bulk") /\ v = [w EXCEPT !.repl = "online"]
  <2> DEFINE o == k.off + n
             r == room - n
             x == k.out \o (IF k.off = 0 THEN <<"count">> ELSE <<>>)
                        \o [i \in 1 .. n |-> "dump"]
  <2>1. w = [k EXCEPT !.off = o, !.room = r, !.out = x]
    OBVIOUS
  <2>2. \A repl : Sent(k, n, repl) = [k EXCEPT !.off = o, !.room = r, !.out = x, !.repl = repl]
    BY DEF Sent
  <2> HIDE DEF o, r, x, w, n, room, k
  <2>3. [k EXCEPT !.off = o, !.room = r, !.out = x]
           = [k EXCEPT !.off = o, !.room = r, !.out = x, !.repl = "bulk"]
    BY <1>1 DEF Conn, k
  <2>4. [[k EXCEPT !.off = o, !.room = r, !.out = x] EXCEPT !.repl = "online"]
           = [k EXCEPT !.off = o, !.room = r, !.out = x, !.repl = "online"]
    BY <1>1 DEF Conn
  <2> QED
    BY <2>1, <2>2, <2>3, <2>4
<1>4. SendBulk(s, c) = IF k.peer = "reset" \/ n = 0 THEN FreeClient(s, c)
                       ELSE IF w.off < DumpSize THEN [s EXCEPT !.cl[c] = w]
                       ELSE AddReply(u, c, nul)
  BY <1>3 DEF SendBulk
<1>5. k.peer = "reset" \/ /\ n \in Nat /\ n <= left
                          /\ n <= room
  <2> SUFFICES ASSUME k.room >= LowWater
               PROVE  n \in Nat /\ n <= left /\ n <= room
    OBVIOUS
  <2>1. LowWater \in Nat /\ LowWater >= 1 /\ Room \in Nat /\ IoBuf \in Nat \ {0}
        /\ DumpSize \in Nat \ {0}
    <3>1. Room \in Nat /\ LowWater \in 1 .. Room /\ IoBuf \in Nat \ {0}
          /\ DumpSize \in Nat \ {0}
      BY ClientsAssumption
    <3> QED
      BY <3>1
  <2>2. left \in Nat /\ room \in Nat
    BY <1>2, <2>1
  <2> HIDE DEF left, room
  <2> DEFINE S == {IoBuf, left, room}
  <2>3. S \in SUBSET Nat /\ S # {}
    BY <2>1, <2>2
  <2>4. left \in S /\ room \in S
    OBVIOUS
  <2>5. n = Min(S)
    OBVIOUS
  <2> HIDE DEF S, n
  <2>6. n \in S /\ \A x \in S : n <= x
    BY <2>3, <2>5, MinIn
  <2> QED
    BY <2>3, <2>4, <2>6
<1>6. CASE k.peer = "reset" \/ n = 0
  <2>1. SendBulk(s, c) = FreeClient(s, c)
    BY <1>4, <1>6
  <2>2. Frees(s, FreeClient(s, c), c)
    BY FreeClientFrees
  <2>3. ~Keeps(s, FreeClient(s, c), c)
    BY <2>2, GoneIs DEF Frees, Keeps, IsOpen
  <2> QED
    BY <2>1, <2>2, <2>3 DEF Handled
<1>7. ASSUME ~(k.peer = "reset" \/ n = 0), NEW repl,
             repl = IF k.off + n < DumpSize THEN "bulk" ELSE "online"
      PROVE  LET l == Sent(k, n, repl)
             IN Sound(l) /\ l.fd = k.fd /\ l.repl = repl /\ SameQuery(k, l)
  <2>1. n \in Nat \ {0} /\ n <= DumpSize - k.off /\ n <= IF k.off = 0 THEN k.room - 1 ELSE k.room
    BY <1>5, <1>7
  <2>2. k.repl = "bulk"
    OBVIOUS
  <2>3. Sound(k)
    BY <1>1
  <2>4. k.input = Sent(k, n, repl).input
    BY <1>1 DEF Conn, Sent
  <2> HIDE DEF n, k
  <2> QED
    BY <1>7, <2>1, <2>2, <2>3, <2>4, SentSound DEF SameQuery
<1>8. w.off = k.off + n
  BY <1>1 DEF Conn
<1> HIDE DEF w
<1>9. CASE ~(k.peer = "reset" \/ n = 0) /\ w.off < DumpSize
  <2> DEFINE t == [s EXCEPT !.cl[c] = w]
  <2>1. SendBulk(s, c) = t
    BY <1>4, <1>9
  <2>2. Sound(w) /\ w.fd = k.fd /\ w.repl = "bulk" /\ SameQuery(k, w)
    <3>1. "bulk" = IF k.off + n < DumpSize THEN "bulk" ELSE "online"
      BY <1>8, <1>9
    <3> HIDE DEF k, n
    <3> QED
      BY <1>3, <1>7, <1>9, <3>1
  <2>3. Fit(w, m)
    BY <1>2, <2>2 DEF Fit
  <2> HIDE DEF m
  <2>4. Keeps(s, Put(s, c, w, s.ev), c) /\ Put(s, c, w, s.ev).cl[c] = w
    BY <2>2, <2>3, SameEvents DEF m
  <2>5. t = Put(s, c, w, s.ev)
    BY <1>1, SetIsPut
  <2> HIDE DEF t
  <2> QED
    BY <2>1, <2>2, <2>4, <2>5 DEF Handled
<1>10. CASE ~(k.peer = "reset" \/ n = 0) /\ ~(w.off < DumpSize)
  <2>1. SendBulk(s, c) = AddReply(u, c, nul)
    BY <1>4, <1>10
  <2>2. Sound(v) /\ v.fd = k.fd /\ v.repl = "online" /\ SameQuery(k, v)
    <3>1. "online" = IF k.off + n < DumpSize THEN "bulk" ELSE "online"
      BY <1>8, <1>10
    <3> HIDE DEF k, n
    <3> QED
      BY <1>7, <1>10, <3>1
  <2> HIDE DEF v
  <2>3. Keeps(s, u, c) /\ u.cl[c] = v
    <3>1. Fit(v, 1)
      BY <2>2 DEF Fit
    <3>2. "sendReply" = IF v.repl = "bulk" THEN "sendBulk" ELSE "sendReply"
      BY <2>2
    <3>3. Count(s.ev, Kind(c, "writable")) \in {0, 1}
      BY <1>2
    <3> DEFINE proc == "sendReply"
               x == Create(Delete([s EXCEPT !.cl[c] = v], v.fd, "writable"),
                           Event(v.fd, "writable", proc, c))
    <3>4. u = x
      BY <2>2
    <3>5. proc = IF v.repl = "bulk" THEN "sendBulk" ELSE "sendReply"
      BY <3>2
    <3>6. Sound(v) /\ v.fd = s.cl[c].fd
      BY <2>2
    <3> HIDE DEF proc, u, k
    <3>7. Keeps(s, x, c) /\ x.cl[c] = v
      BY <3>1, <3>3, <3>5, <3>6, Replaced
    <3> QED
      BY <3>4, <3>7
  <2> HIDE DEF u
  <2>4. Good(u) /\ IsOpen(u, c)
    BY <2>3 DEF Keeps
  <2>5. nul \in Units /\ Len(nul) = 0 /\ NoDump(nul)
    BY DEF Units, NoDump
  <2>6. Len(nul) <= 2
    BY <2>5
  <2> HIDE DEF nul
  <2>7. Keeps(u, AddReply(u, c, nul), c) /\ OnlyReplies(v, AddReply(u, c, nul).cl[c])
    BY <2>3, <2>4, <2>5, <2>6, AddReplyKeeps
  <2>8. Keeps(s, AddReply(u, c, nul), c)
    BY <2>3, <2>7, KeepsTwice
  <2>9. SameQuery(v, AddReply(u, c, nul).cl[c])
    <3> DEFINE l == AddReply(u, c, nul).cl[c]
    <3>1. l \in Conn /\ v \in Conn
      BY <2>2, <2>7, GoodIs DEF Keeps, Sound
    <3>2. OnlyReplies(v, l)
      BY <2>7
    <3> HIDE DEF l
    <3>3. SameQuery(v, l)
      BY <3>1, <3>2, OnlyRepliesIs DEF SameQuery
    <3> QED
      BY <3>3 DEF l
  <2>10. SameQuery(k, AddReply(u, c, nul).cl[c])
    BY <2>2, <2>9 DEF SameQuery
  <2> QED
    BY <2>1, <2>8, <2>10 DEF Handled
<1> QED
  BY <1>6, <1>9, <1>10

-----------------------------------------------------------------------------
(* serverCron.                                                             *)

\* What is left of a state once a client was freed early.
Shaped(s) == s = [cl |-> s.cl, ev |-> s.ev, early |-> s.early]
Lost(s) == Shaped(s) /\ s.early = TRUE

LEMMA DeleteLost ==
  ASSUME NEW s, Lost(s), NEW fd, NEW mask
  PROVE  Lost(Delete(s, fd, mask))
<1> DEFINE found == {i \in DOMAIN s.ev : Masked(s.ev[i], fd, mask)}
           q == RemoveAt(s.ev, Min(found))
<1>1. Delete(s, fd, mask) = IF found = {} THEN s ELSE [s EXCEPT !.ev = q]
  BY DEF Delete
<1> HIDE DEF q, found
<1>2. Lost([s EXCEPT !.ev = q])
  <2>1. [s EXCEPT !.ev = q] = [cl |-> s.cl, ev |-> q, early |-> s.early]
    BY DEF Lost, Shaped
  <2> QED
    BY <2>1 DEF Lost, Shaped
<1> QED
  BY <1>1, <1>2

LEMMA FreeClientLost ==
  ASSUME NEW s, Lost(s), NEW c
  PROVE  Lost(FreeClient(s, c))
<1> DEFINE fd == s.cl[c].fd
           many == Cardinality(Writers(s, c)) > 1
           t == Delete(Delete(s, fd, "readable"), fd, "writable")
           x == [t.cl EXCEPT ![c] = Gone]
<1>1. Lost(t)
  BY DeleteLost
<1>2. FreeClient(s, c) = [t EXCEPT !.cl[c] = Gone, !.early = @ \/ many]
  BY DEF FreeClient
<1> HIDE DEF t, many
<1>3. FreeClient(s, c) = [[t EXCEPT !.cl = x] EXCEPT !.early = @ \/ many]
  BY <1>2
<1> HIDE DEF x
<1>4. t = [cl |-> t.cl, ev |-> t.ev, early |-> t.early] /\ t.early = TRUE
  BY <1>1 DEF Lost, Shaped
<1>5. [t EXCEPT !.cl = x] = [cl |-> x, ev |-> t.ev, early |-> t.early]
  BY <1>4
<1>6. FreeClient(s, c) = [cl |-> x, ev |-> t.ev, early |-> t.early \/ many]
  BY <1>3, <1>5
<1>7. (t.early \/ many) = TRUE
  BY <1>4
<1>8. FreeClient(s, c) = [cl |-> x, ev |-> t.ev, early |-> TRUE]
  BY <1>6, <1>7
<1> QED
  BY <1>8 DEF Lost, Shaped

LEMMA SavedLost ==
  ASSUME NEW s, Lost(s), NEW c
  PROVE  Lost(Saved(s, c))
<1> DEFINE fd == s.cl[c].fd
           u == [s EXCEPT !.cl[c].repl = "bulk"]
           t == Delete(u, fd, "writable")
           e == Event(fd, "writable", "sendBulk", c)
           x == [s.cl EXCEPT ![c].repl = "bulk"]
           q == <<e>> \o t.ev
<1>1. Lost(u)
  <2>1. u = [s EXCEPT !.cl = x]
    OBVIOUS
  <2> HIDE DEF x
  <2>2. u = [cl |-> x, ev |-> s.ev, early |-> s.early]
    BY <2>1 DEF Lost, Shaped
  <2> QED
    BY <2>2 DEF Lost, Shaped
<1> HIDE DEF u
<1>2. Lost(t)
  BY <1>1, DeleteLost
<1>3. Saved(s, c) = Create(t, e)
  BY DEF Saved, u
<1> HIDE DEF t, e
<1>4. Create(t, e) = [t EXCEPT !.ev = q]
  BY DEF Create
<1> HIDE DEF q
<1>5. [t EXCEPT !.ev = q] = [cl |-> t.cl, ev |-> q, early |-> t.early]
  BY <1>2 DEF Lost, Shaped
<1> QED
  BY <1>2, <1>3, <1>4, <1>5 DEF Lost, Shaped

\* The loop of closeTimedoutClients, and the one over the slaves when their dump failed.
LEMMA FreeingExists ==
  ASSUME NEW s, NEW list, Len(list) \in Nat
  PROVE  \E f : /\ f = [i \in 0 .. Len(list) |-> IF i = 0 THEN s ELSE FreeClient(f[i - 1], list[i])]
                /\ ForEach(FreeClient, s, list) = f[Len(list)]
<1> DEFINE n == Len(list)
           Steps(f, m) == f = [i \in 0 .. m |-> IF i = 0 THEN s ELSE FreeClient(f[i - 1], list[i])]
           Fine == {m \in Nat : \E f : Steps(f, m)}
           g == CHOOSE f : Steps(f, n)
<1>1. ForEach(FreeClient, s, list) = g[n]
  BY DEF ForEach
<1>2. 0 \in Fine
  <2>1. Steps([i \in 0 .. 0 |-> s], 0)
    OBVIOUS
  <2>2. \E f : Steps(f, 0)
    BY <2>1
  <2> HIDE DEF Steps
  <2> QED
    BY <2>2
<1>3. ASSUME NEW m \in Nat, m \in Fine
      PROVE  m + 1 \in Fine
  <2>1. PICK f : Steps(f, m)
    BY <1>3
  <2> DEFINE r == [i \in 0 .. m + 1 |-> IF i = m + 1 THEN FreeClient(f[m], list[i]) ELSE f[i]]
  <2>2. ASSUME NEW i \in 0 .. m + 1
        PROVE  r[i] = IF i = 0 THEN s ELSE FreeClient(r[i - 1], list[i])
    <3>1. CASE i = m + 1
      BY <3>1
    <3>2. CASE i \in 0 .. m
      BY <2>1, <3>2
    <3> QED
      BY <3>1, <3>2
  <2>3. Steps(r, m + 1)
    BY <2>2
  <2> HIDE DEF r
  <2>4. \E h : Steps(h, m + 1)
    BY <2>3, Zenon
  <2> HIDE DEF Steps
  <2> QED
    BY <2>4
<1>4. Steps(g, n)
  <2> HIDE DEF Fine
  <2>1. n \in Fine
    BY <1>2, <1>3, NatRange
  <2>2. \E f : Steps(f, n)
    BY <2>1 DEF Fine
  <2> HIDE DEF Steps
  <2> QED
    BY <2>2
<1> HIDE DEF g
<1> QED
  BY <1>1, <1>4, Zenon

\* The loop of updateSalvesWaitingBgsave.
LEMMA SavingExists ==
  ASSUME NEW s, NEW list, Len(list) \in Nat
  PROVE  \E f : /\ f = [i \in 0 .. Len(list) |-> IF i = 0 THEN s ELSE Saved(f[i - 1], list[i])]
                /\ ForEach(Saved, s, list) = f[Len(list)]
<1> DEFINE n == Len(list)
           Steps(f, m) == f = [i \in 0 .. m |-> IF i = 0 THEN s ELSE Saved(f[i - 1], list[i])]
           Fine == {m \in Nat : \E f : Steps(f, m)}
           g == CHOOSE f : Steps(f, n)
<1>1. ForEach(Saved, s, list) = g[n]
  BY DEF ForEach
<1>2. 0 \in Fine
  <2>1. Steps([i \in 0 .. 0 |-> s], 0)
    OBVIOUS
  <2>2. \E f : Steps(f, 0)
    BY <2>1
  <2> HIDE DEF Steps
  <2> QED
    BY <2>2
<1>3. ASSUME NEW m \in Nat, m \in Fine
      PROVE  m + 1 \in Fine
  <2>1. PICK f : Steps(f, m)
    BY <1>3
  <2> DEFINE r == [i \in 0 .. m + 1 |-> IF i = m + 1 THEN Saved(f[m], list[i]) ELSE f[i]]
  <2>2. ASSUME NEW i \in 0 .. m + 1
        PROVE  r[i] = IF i = 0 THEN s ELSE Saved(r[i - 1], list[i])
    <3>1. CASE i = m + 1
      BY <3>1
    <3>2. CASE i \in 0 .. m
      BY <2>1, <3>2
    <3> QED
      BY <3>1, <3>2
  <2>3. Steps(r, m + 1)
    BY <2>2
  <2> HIDE DEF r
  <2>4. \E h : Steps(h, m + 1)
    BY <2>3, Zenon
  <2> HIDE DEF Steps
  <2> QED
    BY <2>4
<1>4. Steps(g, n)
  <2> HIDE DEF Fine
  <2>1. n \in Fine
    BY <1>2, <1>3, NatRange
  <2>2. \E f : Steps(f, n)
    BY <2>1 DEF Fine
  <2> HIDE DEF Steps
  <2> QED
    BY <2>2
<1> HIDE DEF g
<1> QED
  BY <1>1, <1>4, Zenon

LEMMA FreedAll ==
  ASSUME NEW s, NEW S \in SUBSET Conns,
         Lost(s) \/ (Good(s) /\ \A c \in S : IsOpen(s, c))
  PROVE  LET t == ForEach(FreeClient, s, SetToSeq(S))
         IN Lost(t) \/ /\ Good(s) /\ Good(t)
                       /\ \A d \in Conns : t.cl[d] = IF d \in S THEN Gone ELSE s.cl[d]
<1> DEFINE list == SetToSeq(S)
           n == Len(list)
<1>1. IsFiniteSet(S)
  BY ClientsAssumption, FS_Subset
<1>2. /\ n \in Nat /\ \A i \in 1 .. n : list[i] \in S
      /\ \A i, j \in 1 .. n : list[i] = list[j] => i = j
      /\ \A x \in S : \E i \in 1 .. n : list[i] = x
  BY <1>1, Listed
<1> HIDE DEF list
<1>3. PICK f : /\ f = [i \in 0 .. n |-> IF i = 0 THEN s ELSE FreeClient(f[i - 1], list[i])]
               /\ ForEach(FreeClient, s, list) = f[n]
  BY <1>2, FreeingExists
<1> DEFINE Freed(i, d) == \E j \in 1 .. i : list[j] = d
           Done(i) == Lost(f[i]) \/ /\ Good(s) /\ Good(f[i])
                                    /\ \A d \in Conns :
                                         f[i].cl[d] = IF Freed(i, d) THEN Gone ELSE s.cl[d]
           Fine == {i \in Nat : i <= n => Done(i)}
<1> HIDE DEF n
<1>4. 0 \in Fine
  <2>1. f[0] = s
    BY <1>2, <1>3
  <2>2. \A d \in Conns : ~Freed(0, d)
    OBVIOUS
  <2> HIDE DEF Freed
  <2> QED
    BY <2>1, <2>2
<1>5. ASSUME NEW i \in Nat, i \in Fine
      PROVE  i + 1 \in Fine
  <2> SUFFICES ASSUME i + 1 <= n
               PROVE  Done(i + 1)
    OBVIOUS
  <2> DEFINE t == f[i]
             c == list[i + 1]
  <2>1. Done(i)
    BY <1>2, <1>5
  <2>2. f[i + 1] = FreeClient(t, c) /\ i + 1 \in 1 .. n /\ (i + 1) - 1 = i
    <3>1. i + 1 \in 0 .. n /\ i + 1 # 0 /\ (i + 1) - 1 = i /\ i + 1 \in 1 .. n
      BY <1>2
    <3> QED
      BY <1>3, <3>1
  <2>3. c \in S /\ c \in Conns
    BY <1>2, <2>2
  <2>4. \A d : Freed(i + 1, d) <=> Freed(i, d) \/ d = c
    <3>1. 1 .. i + 1 = (1 .. i) \cup {i + 1}
      OBVIOUS
    <3> QED
      BY <3>1
  <2>5. ~Freed(i, c)
    <3> SUFFICES ASSUME NEW j \in 1 .. i, list[j] = c
                 PROVE  FALSE
      OBVIOUS
    <3>1. j \in 1 .. n /\ j # i + 1
      BY <1>2, <2>2
    <3> QED
      BY <1>2, <2>2, <3>1
  <2> HIDE DEF t, c, Freed
  <2>6. CASE Lost(t)
    BY <2>2, <2>6, FreeClientLost
  <2>7. CASE /\ Good(s) /\ Good(t)
             /\ \A d \in Conns : t.cl[d] = IF Freed(i, d) THEN Gone ELSE s.cl[d]
    <3> DEFINE u == FreeClient(t, c)
    <3>1. IsOpen(t, c)
      <4>1. IsOpen(s, c)
        <5>1. ~s.early
          BY <2>7 DEF Good, Sane
        <5> QED
          BY <2>3, <5>1 DEF Lost
      <4> QED
        BY <2>3, <2>5, <2>7, <4>1 DEF IsOpen
    <3>2. Frees(t, u, c) /\ u.cl = [t.cl EXCEPT ![c] = Gone]
      BY <2>3, <2>7, <3>1, FreeClientFrees
    <3>3. t.cl \in [Conns -> Conn \cup {Gone}]
      BY <2>7 DEF Good, Sane, States
    <3> HIDE DEF u
    <3>4. \A d \in Conns : u.cl[d] = IF Freed(i + 1, d) THEN Gone ELSE s.cl[d]
      BY <2>3, <2>4, <2>7, <3>2, <3>3
    <3>5. CASE Good(u)
      BY <2>2, <2>7, <3>4, <3>5 DEF u
    <3>6. CASE u.early
      <4>1. u \in States
        BY <3>2 DEF Frees
      <4>2. Lost(u)
        BY <3>6, <4>1 DEF States, Lost, Shaped
      <4> QED
        BY <2>2, <4>2 DEF u
    <3> QED
      BY <3>2, <3>5, <3>6 DEF Frees
  <2> QED
    BY <2>1, <2>6, <2>7 DEF t
<1>6. Done(n)
  <2> HIDE DEF Done
  <2>1. n \in Fine
    <3> HIDE DEF Fine
    <3> QED
      BY <1>2, <1>4, <1>5, NatRange
  <2> QED
    BY <1>2, <2>1
<1>7. \A d \in Conns : Freed(n, d) <=> d \in S
  BY <1>2
<1> HIDE DEF Freed
<1> QED
  BY <1>3, <1>6, <1>7 DEF list, n

LEMMA SavedKeeps ==
  ASSUME NEW s, Good(s), NEW c \in Conns, IsOpen(s, c), s.cl[c].repl = "wait"
  PROVE  Keeps(s, Saved(s, c), c) /\ SameQuery(s.cl[c], Saved(s, c).cl[c])
<1> DEFINE k == s.cl[c]
           l == [k EXCEPT !.repl = "bulk"]
           proc == "sendBulk"
           t == Create(Delete([s EXCEPT !.cl[c] = l], l.fd, "writable"),
                       Event(l.fd, "writable", proc, c))
<1>1. /\ s \in States /\ Sound(k) /\ k \in Conn
      /\ Fit(k, Count(s.ev, Kind(c, "writable")))
  BY GoodIs
<1>2. /\ l \in Conn /\ l.repl = "bulk" /\ l.fd = k.fd /\ l.state = k.state
      /\ l.role = k.role /\ l.bulklen = k.bulklen /\ l.sentlen = k.sentlen
      /\ l.reply = k.reply /\ l.out = k.out /\ l.owed = k.owed /\ l.off = k.off
      /\ SameQuery(k, l)
  BY <1>1 DEF Conn, SameQuery
<1>3. Saved(s, c) = t
  <2>1. [s EXCEPT !.cl[c].repl = "bulk"] = [s EXCEPT !.cl[c] = l]
    BY <1>1 DEF States
  <2> HIDE DEF l
  <2> QED
    BY <1>2, <2>1 DEF Saved
<1> HIDE DEF l, t
<1>4. Sound(l)
  <2>1. Rest(l) = Rest(k)
    BY <1>2 DEF Rest
  <2>2. k.off = 0 /\ DumpSize \in Nat \ {0}
    <3>1. DumpSize \in Nat \ {0}
      BY ClientsAssumption
    <3>2. k.repl = "wait" /\ Ordered(k)
      BY <1>1 DEF Sound
    <3>3. k.off = 0
      BY <3>2 DEF Ordered
    <3> QED
      BY <3>1, <3>3
  <2>3. Ordered(l)
    <3>1. Ordered(k) /\ k.repl = "wait"
      BY <1>1 DEF Sound
    <3>2. PICK pre \in Units, post \in Units :
            /\ k.out = (pre \o Dump(k.off)) \o post
            /\ (pre \o post) \o Rest(k) = k.owed
            /\ k.repl \in {"wait", "bulk"} => post = <<>>
      BY <3>1 DEF Ordered
    <3>3. /\ l.out = (pre \o Dump(l.off)) \o post
          /\ (pre \o post) \o Rest(l) = l.owed
          /\ post = <<>>
      BY <1>2, <2>1, <3>1, <3>2
    <3>4. NoDump(l.owed)
      BY <1>2, <3>1 DEF Ordered
    <3>5. l.off < DumpSize
      BY <1>2, <2>2
    <3> QED
      BY <1>2, <3>3, <3>4, <3>5 DEF Ordered
  <2>4. Sized(l)
    BY <1>1, <1>2 DEF Sound, Sized
  <2> QED
    BY <1>1, <1>2, <2>3, <2>4 DEF Sound
<1>5. Fit(l, 1) /\ proc = IF l.repl = "bulk" THEN "sendBulk" ELSE "sendReply"
  BY <1>2 DEF Fit
<1>6. Count(s.ev, Kind(c, "writable")) \in {0, 1}
  BY <1>1 DEF Fit
<1> HIDE DEF proc
<1>7. Keeps(s, t, c) /\ t.cl[c] = l
  BY <1>2, <1>4, <1>5, <1>6, Replaced DEF t
<1> QED
  BY <1>2, <1>3, <1>7

LEMMA SameQueryTwice ==
  ASSUME NEW k, NEW l, NEW m, SameQuery(k, l), SameQuery(l, m)
  PROVE  SameQuery(k, m)
BY DEF SameQuery

LEMMA OnlyRepliesQuery ==
  ASSUME NEW s, Good(s), NEW t, Good(t), NEW c \in Conns, IsOpen(s, c), IsOpen(t, c),
         OnlyReplies(s.cl[c], t.cl[c])
  PROVE  /\ SameQuery(s.cl[c], t.cl[c])
         /\ t.cl[c].repl = s.cl[c].repl /\ t.cl[c].fd = s.cl[c].fd
         /\ t.cl[c].peer = s.cl[c].peer /\ t.cl[c].room = s.cl[c].room
<1>1. s.cl[c] \in Conn /\ t.cl[c] \in Conn
  BY GoodIs
<1> QED
  BY <1>1, OnlyRepliesIs DEF SameQuery

LEMMA SavedAll ==
  ASSUME NEW s, NEW S \in SUBSET Conns,
         Lost(s) \/ (Good(s) /\ \A c \in S : IsOpen(s, c) /\ s.cl[c].repl = "wait")
  PROVE  LET t == ForEach(Saved, s, SetToSeq(S))
         IN Lost(t) \/ /\ Good(s) /\ Good(t)
                       /\ \A d \in Conns : IF IsOpen(s, d)
                                           THEN IsOpen(t, d) /\ SameQuery(s.cl[d], t.cl[d])
                                           ELSE t.cl[d] = s.cl[d]
<1> DEFINE list == SetToSeq(S)
           n == Len(list)
<1>1. IsFiniteSet(S)
  BY ClientsAssumption, FS_Subset
<1>2. /\ n \in Nat /\ \A i \in 1 .. n : list[i] \in S
      /\ \A i, j \in 1 .. n : list[i] = list[j] => i = j
  BY <1>1, Listed
<1> HIDE DEF list
<1>3. PICK f : /\ f = [i \in 0 .. n |-> IF i = 0 THEN s ELSE Saved(f[i - 1], list[i])]
               /\ ForEach(Saved, s, list) = f[n]
  BY <1>2, SavingExists
<1> DEFINE Like(t) == \A d \in Conns : IF IsOpen(s, d)
                                       THEN IsOpen(t, d) /\ SameQuery(s.cl[d], t.cl[d])
                                       ELSE t.cl[d] = s.cl[d]
           Waits(i, t) == \A j \in i + 1 .. n : t.cl[list[j]].repl = "wait"
           Done(i) == Lost(f[i]) \/ (Good(s) /\ Good(f[i]) /\ Like(f[i]) /\ Waits(i, f[i]))
           Fine == {i \in Nat : i <= n => Done(i)}
<1> HIDE DEF n
<1>4. 0 \in Fine
  <2>1. f[0] = s
    BY <1>2, <1>3
  <2>2. Like(s)
    BY DEF SameQuery
  <2>3. Good(s) /\ ~Lost(s) => Waits(0, s)
    BY <1>2
  <2> HIDE DEF Like, Waits
  <2> QED
    BY <2>1, <2>2, <2>3
<1>5. ASSUME NEW i \in Nat, i \in Fine
      PROVE  i + 1 \in Fine
  <2> SUFFICES ASSUME i + 1 <= n
               PROVE  Done(i + 1)
    OBVIOUS
  <2> DEFINE t == f[i]
             c == list[i + 1]
  <2>1. Done(i)
    BY <1>2, <1>5
  <2>2. f[i + 1] = Saved(t, c) /\ i + 1 \in 1 .. n
    <3>1. i + 1 \in 0 .. n /\ i + 1 # 0 /\ (i + 1) - 1 = i /\ i + 1 \in 1 .. n
      BY <1>2
    <3> QED
      BY <1>3, <3>1
  <2>3. c \in S /\ c \in Conns
    BY <1>2, <2>2
  <2>4. \A j \in (i + 1) + 1 .. n : j \in i + 1 .. n /\ list[j] # c /\ list[j] \in Conns
                                    /\ list[j] \in S
    <3> SUFFICES ASSUME NEW j \in (i + 1) + 1 .. n
                 PROVE  j \in i + 1 .. n /\ list[j] # c /\ list[j] \in S
      OBVIOUS
    <3>1. j \in 1 .. n /\ j \in i + 1 .. n /\ j # i + 1
      BY <1>2
    <3> QED
      BY <1>2, <2>2, <3>1
  <2>5. i + 1 \in i + 1 .. n
    BY <1>2
  <2> HIDE DEF t
  <2>6. CASE Lost(t)
    BY <2>2, <2>6, SavedLost
  <2>7. CASE Good(s) /\ Good(t) /\ Like(t) /\ Waits(i, t)
    <3> DEFINE u == Saved(t, c)
    <3>1. t.cl[c].repl = "wait"
      BY <2>5, <2>7
    <3>2. \A d \in S : IsOpen(s, d)
      <4>1. ~s.early
        BY <2>7 DEF Good, Sane
      <4> QED
        BY <4>1 DEF Lost
    <3>3. \A d \in S : IsOpen(t, d)
      BY <2>7, <3>2
    <3> HIDE DEF c
    <3>4. Keeps(t, u, c) /\ SameQuery(t.cl[c], u.cl[c])
      BY <2>3, <2>7, <3>1, <3>3, SavedKeeps
    <3> HIDE DEF u
    <3>5. Good(u) /\ IsOpen(u, c) /\ Spares(t, u, c)
      BY <3>4 DEF Keeps
    <3>6. ASSUME NEW d \in Conns
          PROVE  IF IsOpen(s, d) THEN IsOpen(u, d) /\ SameQuery(s.cl[d], u.cl[d])
                 ELSE u.cl[d] = s.cl[d]
      <4>1. CASE d = c
        BY <2>3, <2>7, <3>2, <3>4, <3>5, <4>1, SameQueryTwice
      <4>2. CASE d # c /\ IsOpen(s, d)
        <5>1. IsOpen(t, d) /\ SameQuery(s.cl[d], t.cl[d])
          BY <2>7, <4>2
        <5>2. IsOpen(u, d) /\ OnlyReplies(t.cl[d], u.cl[d])
          BY <3>5, <4>2, <5>1 DEF Spares
        <5>3. SameQuery(t.cl[d], u.cl[d])
          BY <2>7, <3>5, <5>1, <5>2, OnlyRepliesQuery
        <5> QED
          BY <4>2, <5>1, <5>2, <5>3, SameQueryTwice
      <4>3. CASE d # c /\ ~IsOpen(s, d)
        <5>1. t.cl[d] = s.cl[d]
          BY <2>7, <4>3
        <5>2. ~IsOpen(t, d)
          BY <4>3, <5>1 DEF IsOpen
        <5> QED
          BY <3>5, <4>3, <5>1, <5>2 DEF Spares
      <4> QED
        BY <4>1, <4>2, <4>3
    <3>7. ASSUME NEW j \in (i + 1) + 1 .. n
          PROVE  u.cl[list[j]].repl = "wait"
      <4> DEFINE d == list[j]
      <4>1. d \in Conns /\ d # c /\ d \in S /\ t.cl[d].repl = "wait"
        BY <2>4, <2>7
      <4> HIDE DEF d
      <4>2. IsOpen(t, d)
        BY <3>3, <4>1
      <4>3. IsOpen(u, d) /\ OnlyReplies(t.cl[d], u.cl[d])
        BY <3>5, <4>1, <4>2 DEF Spares
      <4>4. u.cl[d].repl = "wait"
        BY <2>7, <3>5, <4>1, <4>2, <4>3, OnlyRepliesQuery
      <4> QED
        BY <4>4 DEF d
    <3>8. Like(u)
      BY <3>6
    <3>9. Waits(i + 1, u)
      BY <3>7
    <3>10. f[i + 1] = u
      BY <2>2 DEF u
    <3> HIDE DEF Like, Waits
    <3> QED
      BY <2>7, <3>5, <3>8, <3>9, <3>10
  <2> HIDE DEF Like, Waits
  <2> QED
    BY <2>1, <2>6, <2>7 DEF t
<1>6. Done(n)
  <2> HIDE DEF Done
  <2>1. n \in Fine
    <3> HIDE DEF Fine
    <3> QED
      BY <1>2, <1>4, <1>5, NatRange
  <2> QED
    BY <1>2, <2>1
<1> QED
  BY <1>3, <1>6 DEF list, n

-----------------------------------------------------------------------------
(* Connections that are made.                                              *)

\* A connection that has not been accepted yet.
Unborn(k) ==
  \E script \in Units, state \in {"none", "backlog"} : k = [Fresh(script) EXCEPT !.state = state]

\* A connection that has done nothing.
Blank(k) ==
  /\ k.role = "normal" /\ k.repl = "none" /\ k.off = 0 /\ k.bulklen = -1
  /\ k.reply = <<>> /\ k.sentlen = 0 /\ k.owed = <<>> /\ k.out = <<>>
  /\ k.querybuf = <<>> /\ k.argv = "" /\ k.bulk = <<>> /\ k.input = <<>>
  /\ k.received = <<>> /\ k.executed = <<>> /\ k.held = FALSE

LEMMA FreshIs ==
  ASSUME NEW script \in Units
  PROVE  LET k == Fresh(script)
         IN k \in Conn /\ k.state = "none" /\ Blank(k)
<1> DEFINE nul == <<>>
           e == ""
           m == -1
           r == Room
           l == [state |-> "none", peer |-> "open", script |-> script, input |-> nul, room |-> r,
                 fd |-> Listener, role |-> "normal", repl |-> "none", off |-> 0,
                 querybuf |-> nul, argv |-> e, bulk |-> nul, bulklen |-> m,
                 reply |-> nul, sentlen |-> 0,
                 received |-> nul, executed |-> nul, held |-> FALSE, owed |-> nul, out |-> nul]
<1>1. Fresh(script) = l
  BY DEF Fresh
<1>2. nul \in Units /\ nul \in Seq(Units) /\ nul \in Seq(Unit \X Units)
  BY DEF Units
<1>3. e \in Unit /\ m \in Int /\ r \in 0 .. Room /\ 0 \in 0 .. DumpSize
  <2>1. e \in Unit
    BY ClientsAssumption
  <2>2. Room \in Nat /\ DumpSize \in Nat
    BY ClientsAssumption
  <2>3. r \in 0 .. Room /\ 0 \in 0 .. DumpSize
    BY <2>2
  <2>4. m \in Int
    OBVIOUS
  <2> HIDE DEF e, m, r
  <2> QED
    BY <2>1, <2>3, <2>4
<1>4. nul = <<>> /\ e = "" /\ m = -1
  OBVIOUS
<1> HIDE DEF nul, e, m, r
<1>5. l \in Conn
  BY <1>2, <1>3 DEF Conn
<1>6. l.state = "none" /\ Blank(l)
  BY <1>4 DEF Blank
<1> HIDE DEF l
<1> QED
  BY <1>1, <1>5, <1>6

LEMMA UnbornIs ==
  ASSUME NEW k, Unborn(k)
  PROVE  k \in Conn /\ k.state \in {"none", "backlog"} /\ Blank(k)
<1>1. PICK script \in Units, state \in {"none", "backlog"} :
        k = [Fresh(script) EXCEPT !.state = state]
  BY DEF Unborn
<1> DEFINE f == Fresh(script)
<1>2. f \in Conn /\ Blank(f) /\ k = [f EXCEPT !.state = state]
  BY <1>1, FreshIs
<1> HIDE DEF f
<1>3. k \in Conn /\ k.state = state
  BY <1>2 DEF Conn
<1>4. Blank(k)
  BY <1>2 DEF Conn, Blank
<1> QED
  BY <1>3, <1>4

LEMMA BornSound ==
  ASSUME NEW k \in Conn, Blank(k), k.state = "open", k.fd \in Fds
  PROVE  Sound(k) /\ Fit(k, 0)
<1> DEFINE nul == <<>>
<1>1. nul \in Units /\ nul \o nul = nul /\ Dump(0) = nul /\ FlattenSeq(nul) = nul
      /\ SubSeq(nul, 1, 0) = nul /\ Len(nul) = 0
  BY FlattenEmpty DEF Units, Dump
<1>2. Rest(k) = nul
  <2>1. k.reply = nul /\ k.sentlen = 0
    BY DEF Blank
  <2>2. Rest(k) = SubSeq(FlattenSeq(k.reply), k.sentlen + 1, Len(FlattenSeq(k.reply)))
    BY DEF Rest
  <2> HIDE DEF nul
  <2>3. k.sentlen + 1 = 1
    BY <2>1
  <2> QED
    BY <1>1, <2>1, <2>2, <2>3
<1>3. NoDump(nul)
  BY <1>1 DEF NoDump
<1>4. /\ k.owed = nul /\ k.out = nul /\ k.repl = "none" /\ k.off = 0 /\ k.reply = nul
      /\ k.sentlen = 0 /\ k.role = "normal" /\ k.bulklen = -1
  BY DEF Blank
<1> HIDE DEF nul
<1>5. Ordered(k)
  <2>1. k.out = (nul \o Dump(k.off)) \o nul /\ (nul \o nul) \o Rest(k) = k.owed
    BY <1>1, <1>2, <1>4
  <2> QED
    BY <1>1, <1>3, <1>4, <2>1 DEF Ordered
<1>6. Sized(k)
  <2>1. \A i \in 1 .. Len(k.reply) : FALSE
    BY <1>1, <1>4
  <2> QED
    BY <1>4, <2>1 DEF Sized
<1>7. Fit(k, 0)
  BY <1>4 DEF Fit, nul
<1> QED
  BY <1>5, <1>6, <1>7 DEF Sound

Opened(k, fd) == [k EXCEPT !.state = "open", !.fd = fd]

\* What acceptHandler makes of the connections.
Accepted(s, t, c) ==
  /\ t \in States /\ (t.early \/ Good(t))
  /\ \A d \in Conns \ {c} : t.cl[d] = s.cl[d]
  /\ t.cl[c] \in {s.cl[c], Gone}
       \/ \E fd \in Fds : t.cl[c] = Opened(s.cl[c], fd)

Born(s, c, fd) ==
  Create([s EXCEPT !.cl[c].state = "open", !.cl[c].fd = fd],
         Event(fd, "readable", "readQuery", c))

LEMMA BornKeeps ==
  ASSUME NEW s, Good(s), NEW c \in Conns, Unborn(s.cl[c]), NEW fd \in Fds,
         \A d \in Conns : IsOpen(s, d) => s.cl[d].fd # fd
  PROVE  LET t == Born(s, c, fd)
         IN /\ Sane(t) /\ IsOpen(t, c) /\ ~IsOpen(s, c)
            /\ t.cl[c] = Opened(s.cl[c], fd)
            /\ \A d \in Conns \ {c} : t.cl[d] = s.cl[d]
            /\ OpenIn(t) = OpenIn(s) \cup {c}
<1> DEFINE k == s.cl[c]
           l == Opened(k, fd)
           e == Event(fd, "readable", "readQuery", c)
           q == <<e>> \o s.ev
           t == Born(s, c, fd)
<1>1. s \in States /\ s.ev \in Seq(FileEvent) /\ s.cl \in [Conns -> Conn \cup {Gone}] /\ ~s.early
  BY DEF Good, Sane, States
<1>2. k \in Conn /\ k.state \in {"none", "backlog"} /\ Blank(k)
  BY UnbornIs
<1>3. ~IsOpen(s, c)
  BY <1>2 DEF IsOpen
<1>4. l \in Conn /\ l.state = "open" /\ l.fd = fd /\ Blank(l)
  <2>1. l \in Conn /\ l.state = "open" /\ l.fd = fd
    BY <1>2 DEF Conn, Opened
  <2>2. Blank(l)
    BY <1>2 DEF Conn, Blank, Opened
  <2> QED
    BY <2>1, <2>2
<1>5. e \in FileEvent /\ e.client = c /\ e.mask = "readable" /\ e.proc = "readQuery" /\ e.fd = fd
  BY DEF Event, FileEvent
<1>6. t = Put(s, c, l, q)
  <2> DEFINE u == [s EXCEPT !.cl[c].state = "open", !.cl[c].fd = fd]
  <2>1. u = [s EXCEPT !.cl[c] = l]
    BY <1>1 DEF States, Opened
  <2> HIDE DEF e, l
  <2>2. u.ev = s.ev
    BY <1>1, <2>1 DEF States
  <2>3. t = [u EXCEPT !.ev = q]
    <3>1. t = [u EXCEPT !.ev = <<e>> \o u.ev]
      BY DEF Create, Born, e
    <3> HIDE DEF u
    <3> QED
      BY <2>2, <3>1
  <2>4. u = [cl |-> [s.cl EXCEPT ![c] = l], ev |-> s.ev, early |-> s.early]
    <3>1. u = Put(s, c, l, s.ev)
      BY <1>1, <2>1, SetIsPut
    <3> QED
      BY <1>1, <3>1, PutRecord
  <2> HIDE DEF u, q
  <2>5. t = [cl |-> [s.cl EXCEPT ![c] = l], ev |-> q, early |-> s.early]
    BY <2>3, <2>4
  <2> QED
    BY <1>1, <2>5, PutRecord
<1> HIDE DEF e, l, t
<1>7. /\ q \in Seq(FileEvent) /\ Len(q) = Len(s.ev) + 1
      /\ \A i \in 1 .. Len(s.ev) + 1 : q[i] = IF i = 1 THEN e ELSE s.ev[i - 1]
  BY <1>1, <1>5, CountCreated
<1>8. /\ t \in States /\ t.cl[c] = l /\ t.ev = q /\ t.early = s.early
      /\ \A d \in Conns \ {c} : t.cl[d] = s.cl[d]
  <2>1. s \in States /\ l \in Conn \cup {Gone} /\ q \in Seq(FileEvent)
    BY <1>1, <1>4, <1>7
  <2> HIDE DEF q
  <2> QED
    BY <1>6, <2>1, PutIs
<1>9. \A i \in 1 .. Len(q) : q[i] = e \/ \E j \in 1 .. Len(s.ev) : q[i] = s.ev[j]
  <2> SUFFICES ASSUME NEW i \in 1 .. Len(s.ev) + 1
               PROVE  q[i] = e \/ \E j \in 1 .. Len(s.ev) : q[i] = s.ev[j]
    BY <1>7
  <2>1. i = 1 \/ i - 1 \in 1 .. Len(s.ev)
    OBVIOUS
  <2> QED
    BY <1>7, <2>1
<1>10. ASSUME NEW d \in Conns, NEW m \in Masks
       PROVE  Count(q, Kind(d, m)) =
                Count(s.ev, Kind(d, m)) + (IF d = c /\ m = "readable" THEN 1 ELSE 0)
  <2> DEFINE kind == Kind(d, m)
  <2>1. e \in kind <=> d = c /\ m = "readable"
    BY <1>5 DEF Kind
  <2> HIDE DEF kind
  <2>2. Count(q, kind) = Count(s.ev, kind) + (IF e \in kind THEN 1 ELSE 0)
    BY <1>1, <1>5, CountCreated
  <2> QED
    BY <2>1, <2>2 DEF kind
<1>11. "readable" \in Masks /\ "writable" \in Masks /\ "readable" # "writable"
  BY DEF Masks
<1>12. ASSUME NEW m \in Masks
       PROVE  Count(s.ev, Kind(c, m)) = 0
  <2>1. ASSUME NEW i \in 1 .. Len(s.ev)
        PROVE  s.ev[i] \notin Kind(c, m)
    <3>1. Known(s, s.ev[i])
      BY DEF Good, Sane
    <3>2. s.ev[i].client # c
      <4>1. "none" \notin Conns
        BY ClientsAssumption
      <4> QED
        BY <1>3, <3>1, <4>1 DEF Known, AcceptEvent, Event
    <3> QED
      BY <3>2 DEF Kind
  <2> QED
    BY <1>1, <2>1, AtFinite
<1>13. \A d \in Conns : IsOpen(t, d) <=> IsOpen(s, d) \/ d = c
  BY <1>4, <1>8 DEF IsOpen
<1>14. ASSUME NEW i \in 1 .. Len(t.ev)
       PROVE  Known(t, t.ev[i])
  <2>1. CASE q[i] = e
    <3>1. Owned(l, c, e)
      BY <1>4, <1>5 DEF Owned
    <3> QED
      BY <1>5, <1>8, <1>13, <2>1, <3>1 DEF Known
  <2>2. CASE \E j \in 1 .. Len(s.ev) : q[i] = s.ev[j]
    <3>1. Known(s, q[i])
      BY <2>2 DEF Good, Sane
    <3>2. q[i].client # c \/ q[i] = AcceptEvent
      BY <1>3, <3>1 DEF Known
    <3> QED
      BY <1>8, <1>13, <3>1, <3>2 DEF Known
  <2> QED
    BY <1>8, <1>9, <2>1, <2>2
<1>15. ASSUME NEW d \in Conns, IsOpen(t, d)
       PROVE  /\ Sound(t.cl[d])
              /\ Count(t.ev, Kind(d, "readable")) = 1
              /\ Fit(t.cl[d], Count(t.ev, Kind(d, "writable")))
  <2>1. /\ Count(q, Kind(d, "readable")) =
             Count(s.ev, Kind(d, "readable")) + (IF d = c THEN 1 ELSE 0)
        /\ Count(q, Kind(d, "writable")) = Count(s.ev, Kind(d, "writable")) + 0
    BY <1>10, <1>11
  <2>2. CASE d = c
    <3>1. Count(s.ev, Kind(c, "readable")) = 0 /\ Count(s.ev, Kind(c, "writable")) = 0
      BY <1>11, <1>12
    <3>2. Sound(l) /\ Fit(l, 0)
      BY <1>4, BornSound
    <3>3. Count(q, Kind(d, "readable")) = 1 /\ Count(q, Kind(d, "writable")) = 0
      BY <2>1, <2>2, <3>1
    <3> QED
      BY <1>8, <2>2, <3>2, <3>3
  <2>3. CASE d # c
    <3>1. /\ Sound(s.cl[d])
          /\ Count(s.ev, Kind(d, "readable")) = 1
          /\ Fit(s.cl[d], Count(s.ev, Kind(d, "writable")))
      BY <1>13, <1>15, <2>3 DEF Good, Sane
    <3>2. Count(s.ev, Kind(d, "writable")) \in Nat
      BY <1>1, AtFinite
    <3>3. /\ Count(q, Kind(d, "readable")) = 1
          /\ Count(q, Kind(d, "writable")) = Count(s.ev, Kind(d, "writable"))
      BY <2>1, <2>3, <3>1, <3>2
    <3> QED
      BY <1>8, <2>3, <3>1, <3>3
  <2> QED
    BY <2>2, <2>3
<1>16. ASSUME NEW d \in Conns, NEW x \in Conns, IsOpen(t, d), IsOpen(t, x), t.cl[d].fd = t.cl[x].fd
       PROVE  d = x
  <2>1. \A y \in Conns \ {c} : IsOpen(t, y) => t.cl[y].fd # fd /\ t.cl[y].fd = s.cl[y].fd /\ IsOpen(s, y)
    BY <1>8, <1>13
  <2>2. t.cl[c].fd = fd
    BY <1>4, <1>8
  <2> QED
    BY <1>16, <2>1, <2>2 DEF Good, Sane
<1>17. Sane(t)
  BY <1>1, <1>8, <1>14, <1>15, <1>16 DEF Sane
<1>18. OpenIn(t) = OpenIn(s) \cup {c}
  BY <1>13 DEF OpenIn
<1> QED
  BY <1>3, <1>8, <1>13, <1>17, <1>18 DEF l, t

LEMMA AcceptAccepts ==
  ASSUME NEW s, Good(s), NEW c \in Conns, Unborn(s.cl[c])
  PROVE  Accepted(s, Accept(s, c), c)
<1> DEFINE used == {s.cl[o].fd : o \in {x \in Conns : IsOpen(s, x)}}
           free == Fds \ used
           fd == Min(free)
           t == Born(s, c, fd)
           l == Opened(s.cl[c], fd)
           full == MaxClients # 0 /\ Cardinality({o \in Conns : IsOpen(t, o)}) > MaxClients
<1>1. Accept(s, c) = IF free = {} THEN s ELSE IF full THEN FreeClient(t, c) ELSE t
  BY DEF Accept, Born
<1>2. s \in States
  BY DEF Good, Sane
<1>3. CASE free = {}
  BY <1>1, <1>2, <1>3 DEF Accepted
<1>4. CASE free # {}
  <2>1. fd \in Fds /\ \A d \in Conns : IsOpen(s, d) => s.cl[d].fd # fd
    <3>1. free \in SUBSET Nat
      BY ClientsAssumption
    <3> HIDE DEF used
    <3>2. fd \in free
      <4> HIDE DEF free
      <4> QED
        BY <1>4, <3>1, MinIn
    <3> HIDE DEF fd
    <3> QED
      BY <3>2 DEF used
  <2> HIDE DEF fd, used
  <2>2. /\ Sane(t) /\ t.cl[c] = l /\ IsOpen(t, c)
        /\ \A d \in Conns \ {c} : t.cl[d] = s.cl[d]
        /\ OpenIn(t) = OpenIn(s) \cup {c} /\ ~IsOpen(s, c)
    BY <2>1, BornKeeps
  <2>3. full <=> MaxClients # 0 /\ Cardinality(OpenIn(t)) > MaxClients
    BY DEF OpenIn
  <2>4. MaxClients \in Nat /\ IsFiniteSet(OpenIn(t)) /\ Cardinality(OpenIn(t)) \in Nat
    <3>1. OpenIn(t) \subseteq Conns /\ IsFiniteSet(Conns)
      BY ClientsAssumption DEF OpenIn
    <3>2. IsFiniteSet(OpenIn(t))
      BY <3>1, FS_Subset
    <3> QED
      BY <3>2, ClientsAssumption, FS_CardinalityType
  <2>5. l = Opened(s.cl[c], fd)
    OBVIOUS
  <2> HIDE DEF l, full, t
  <2>6. CASE full
    <3> DEFINE u == FreeClient(t, c)
    <3>1. /\ u \in States /\ (u.early \/ Sane(u)) /\ u.cl = [t.cl EXCEPT ![c] = Gone]
          /\ OpenIn(u) = OpenIn(t) \ {c}
      BY <2>2, FreeClientSane
    <3>2. t.cl \in [Conns -> Conn \cup {Gone}]
      BY <2>2 DEF Sane, States
    <3>3. Accept(s, c) = u
      BY <1>1, <1>4, <2>6
    <3> HIDE DEF u
    <3>4. OpenIn(u) = OpenIn(s)
      BY <2>2, <3>1 DEF OpenIn
    <3>5. MaxClients = 0 \/ Cardinality(OpenIn(u)) <= MaxClients
      BY <3>4 DEF Good
    <3>6. u.cl[c] = Gone /\ \A d \in Conns \ {c} : u.cl[d] = s.cl[d]
      BY <2>2, <3>1, <3>2
    <3> QED
      BY <3>1, <3>3, <3>5, <3>6 DEF Accepted, Good
  <2>7. CASE ~full
    <3>1. Good(t)
      BY <2>2, <2>3, <2>4, <2>7 DEF Good
    <3>2. Accept(s, c) = t /\ t \in States
      BY <1>1, <1>4, <2>2, <2>7 DEF Sane
    <3> QED
      BY <2>1, <2>2, <2>5, <3>1, <3>2 DEF Accepted
  <2> QED
    BY <2>6, <2>7
<1> QED
  BY <1>3, <1>4

-----------------------------------------------------------------------------
(* The event loop.                                                         *)

\* What select found is about the connection that has the descriptor, and select
\* found it ready.
BitFits(s, b) ==
  \/ b[1] = Listener
  \/ /\ b[3] \in Conns /\ IsOpen(s, b[3]) /\ s.cl[b[3]].fd = b[1]
     /\ b[2] = "writable" => s.cl[b[3]].peer = "reset" \/ s.cl[b[3]].room >= LowWater

Settled(s, bs) ==
  /\ Good(s)
  /\ \A c \in Conns : s.cl[c].state \in {"none", "backlog"} => Unborn(s.cl[c])
  /\ \A b \in bs : BitFits(s, b)

LEMMA HandledSettles ==
  ASSUME NEW s, NEW bs, Settled(s, bs), NEW c \in Conns, IsOpen(s, c),
         NEW t, Handled(s, t, c), ~t.early, NEW fd, fd = s.cl[c].fd
  PROVE  Settled(t, {b \in bs : b[1] # fd})
<1>1. Good(s) /\ Good(t) /\ Spares(s, t, c)
  BY DEF Settled, Handled, Keeps, Frees
<1>2. t.cl[c].state \notin {"none", "backlog"}
  BY GoneIs DEF Handled, Keeps, Frees, IsOpen
<1>3. ASSUME NEW d \in Conns, t.cl[d].state \in {"none", "backlog"}
      PROVE  Unborn(t.cl[d])
  <2>1. d # c /\ ~IsOpen(t, d)
    BY <1>2, <1>3 DEF IsOpen
  <2>2. t.cl[d] = s.cl[d]
    BY <1>1, <2>1 DEF Spares
  <2> QED
    BY <1>3, <2>2 DEF Settled
<1>4. ASSUME NEW b \in bs, b[1] # fd
      PROVE  BitFits(t, b)
  <2>1. CASE b[1] = Listener
    BY <2>1 DEF BitFits
  <2>2. CASE b[1] # Listener
    <3> DEFINE d == b[3]
    <3>1. /\ d \in Conns /\ IsOpen(s, d) /\ s.cl[d].fd = b[1]
          /\ b[2] = "writable" => s.cl[d].peer = "reset" \/ s.cl[d].room >= LowWater
      BY <2>2 DEF Settled, BitFits
    <3> HIDE DEF d
    <3>2. d # c
      BY <1>4, <3>1
    <3>3. IsOpen(t, d) /\ OnlyReplies(s.cl[d], t.cl[d])
      BY <1>1, <3>1, <3>2 DEF Spares
    <3>4. t.cl[d].fd = s.cl[d].fd /\ t.cl[d].peer = s.cl[d].peer /\ t.cl[d].room = s.cl[d].room
      BY <1>1, <3>1, <3>3, OnlyRepliesQuery
    <3> QED
      BY <3>1, <3>3, <3>4 DEF BitFits, d
  <2> QED
    BY <2>1, <2>2
<1> QED
  BY <1>1, <1>3, <1>4 DEF Settled

LEMMA AcceptSettles ==
  ASSUME NEW s, NEW bs, Settled(s, bs), NEW c \in Conns, Unborn(s.cl[c]),
         NEW t, Accepted(s, t, c), ~t.early
  PROVE  Settled(t, {b \in bs : b[1] # Listener})
<1>1. Good(t) /\ \A d \in Conns \ {c} : t.cl[d] = s.cl[d]
  BY DEF Accepted
<1>2. t.cl[c] = s.cl[c] \/ t.cl[c] = Gone \/ \E fd \in Fds : t.cl[c] = Opened(s.cl[c], fd)
  BY DEF Accepted
<1>3. s.cl[c] \in Conn /\ s.cl[c].state # "open"
  BY UnbornIs
<1>4. t.cl[c] = s.cl[c] \/ t.cl[c].state \notin {"none", "backlog"}
  BY <1>2, <1>3, GoneIs DEF Opened, Conn
<1>5. \A d \in Conns : t.cl[d].state \in {"none", "backlog"} => Unborn(t.cl[d])
  BY <1>1, <1>4 DEF Settled
<1>6. ASSUME NEW b \in bs, b[1] # Listener
      PROVE  BitFits(t, b)
  <2> DEFINE d == b[3]
  <2>1. /\ d \in Conns /\ IsOpen(s, d) /\ s.cl[d].fd = b[1]
        /\ b[2] = "writable" => s.cl[d].peer = "reset" \/ s.cl[d].room >= LowWater
    BY <1>6 DEF Settled, BitFits
  <2> HIDE DEF d
  <2>2. d # c
    BY <1>3, <2>1 DEF IsOpen
  <2>3. t.cl[d] = s.cl[d]
    BY <1>1, <2>1, <2>2
  <2> QED
    BY <2>1, <2>3 DEF BitFits, IsOpen, d
<1> QED
  BY <1>1, <1>5, <1>6 DEF Settled

\* What the other end of a connection changes.
Moved(k, l) ==
  /\ l.state = k.state /\ l.fd = k.fd
  /\ l.role = k.role /\ l.repl = k.repl /\ l.off = k.off /\ l.reply = k.reply
  /\ l.sentlen = k.sentlen /\ l.owed = k.owed /\ l.out = k.out
  /\ l.querybuf = k.querybuf /\ l.argv = k.argv /\ l.bulk = k.bulk
  /\ l.bulklen = k.bulklen /\ l.received = k.received /\ l.executed = k.executed
  /\ l.held = k.held
  /\ k.peer = "reset" => l.peer = "reset"
  /\ l.peer = "reset" \/ l.room >= k.room

LEMMA MovedKeeps ==
  ASSUME NEW s, Good(s), NEW c \in Conns, IsOpen(s, c), NEW l \in Conn, Moved(s.cl[c], l)
  PROVE  Keeps(s, Put(s, c, l, s.ev), c) /\ Put(s, c, l, s.ev).cl[c] = l
<1> DEFINE k == s.cl[c]
           n == Count(s.ev, Kind(c, "writable"))
<1>1. Sound(k) /\ Fit(k, n)
  BY GoodIs
<1>2. Moved(k, l)
  OBVIOUS
<1>3. l.fd = k.fd /\ (l.repl = "bulk" <=> k.repl = "bulk")
  BY DEF Moved
<1> HIDE DEF k, n
<1>4. Fit(l, n)
  BY <1>1, <1>2 DEF Fit, Moved
<1>5. Rest(l) = Rest(k)
  BY <1>2 DEF Rest, Moved
<1>6. Ordered(l)
  BY <1>1, <1>2, <1>5 DEF Sound, Ordered, Moved
<1>7. Sized(l)
  BY <1>1, <1>2 DEF Sound, Sized, Moved
<1>8. Sound(l)
  BY <1>1, <1>2, <1>6, <1>7 DEF Sound, Moved
<1> QED
  BY <1>3, <1>4, <1>8, SameEvents DEF k, n

LEMMA MovedSettles ==
  ASSUME NEW s, NEW bs, Settled(s, bs), NEW c \in Conns, IsOpen(s, c),
         NEW l \in Conn, Moved(s.cl[c], l)
  PROVE  Settled(Put(s, c, l, s.ev), bs)
<1> DEFINE t == Put(s, c, l, s.ev)
<1>1. Good(s)
  BY DEF Settled
<1>2. Keeps(s, t, c) /\ t.cl[c] = l
  BY <1>1, MovedKeeps
<1>3. Good(t) /\ IsOpen(t, c)
  BY <1>2 DEF Keeps
<1>4. \A d \in Conns \ {c} : t.cl[d] = s.cl[d]
  BY <1>1 DEF Good, Sane, States, Put
<1> HIDE DEF t
<1>5. \A d \in Conns : t.cl[d].state \in {"none", "backlog"} => Unborn(t.cl[d])
  BY <1>3, <1>4 DEF Settled, IsOpen
<1>6. ASSUME NEW b \in bs, b[1] # Listener
      PROVE  BitFits(t, b)
  <2> DEFINE d == b[3]
  <2>1. /\ d \in Conns /\ IsOpen(s, d) /\ s.cl[d].fd = b[1]
        /\ b[2] = "writable" => s.cl[d].peer = "reset" \/ s.cl[d].room >= LowWater
    BY <1>6 DEF Settled, BitFits
  <2> HIDE DEF d
  <2>2. CASE d # c
    <3>1. t.cl[d] = s.cl[d]
      BY <1>4, <2>1, <2>2
    <3> QED
      BY <2>1, <3>1 DEF BitFits, IsOpen, d
  <2>3. CASE d = c
    <3>1. l.fd = b[1]
      BY <2>1, <2>3 DEF Moved
    <3>2. b[2] = "writable" => l.peer = "reset" \/ l.room >= LowWater
      <4>1. s.cl[c] \in Conn
        BY <1>1, GoodIs
      <4>2. l.room \in Nat /\ s.cl[c].room \in Nat /\ LowWater \in Nat
        <5>1. Room \in Nat
          BY ClientsAssumption
        <5>2. LowWater \in 1 .. Room
          BY ClientsAssumption
        <5>3. l.room \in 0 .. Room /\ s.cl[c].room \in 0 .. Room
          BY <4>1, ConnFields
        <5> QED
          BY <5>1, <5>2, <5>3
      <4>3. l.peer = "reset" \/ l.room >= s.cl[c].room
        BY DEF Moved
      <4>4. s.cl[c].peer = "reset" => l.peer = "reset"
        BY DEF Moved
      <4> QED
        BY <2>1, <2>3, <4>2, <4>3, <4>4
    <3> QED
      BY <1>2, <1>3, <2>3, <3>1, <3>2 DEF BitFits, d
  <2> QED
    BY <2>2, <2>3
<1>7. \A b \in bs : BitFits(t, b)
  BY <1>6 DEF BitFits
<1> QED
  BY <1>3, <1>5, <1>7 DEF Settled, t

\* A client connects.
LEMMA UnbornSettles ==
  ASSUME NEW s, NEW bs, Settled(s, bs), NEW c \in Conns, Unborn(s.cl[c]),
         NEW l, Unborn(l)
  PROVE  Settled(Put(s, c, l, s.ev), bs)
<1> DEFINE t == Put(s, c, l, s.ev)
<1>1. Good(s) /\ s \in States /\ s.ev \in Seq(FileEvent)
  BY DEF Settled, Good, Sane, States
<1>2. l \in Conn /\ l.state # "open" /\ s.cl[c].state # "open"
  BY UnbornIs
<1>3. /\ t \in States /\ t.cl[c] = l /\ t.ev = s.ev /\ t.early = s.early
      /\ \A d \in Conns \ {c} : t.cl[d] = s.cl[d]
  <2>1. l \in Conn \cup {Gone}
    BY <1>2
  <2> QED
    BY <1>1, <2>1, PutIs
<1> HIDE DEF t
<1>4. \A d \in Conns : (IsOpen(t, d) <=> IsOpen(s, d)) /\ (IsOpen(t, d) => d # c /\ t.cl[d] = s.cl[d])
  BY <1>2, <1>3 DEF IsOpen
<1>5. OpenIn(t) = OpenIn(s)
  BY <1>4 DEF OpenIn
<1>6. ASSUME NEW i \in 1 .. Len(t.ev)
      PROVE  Known(t, t.ev[i])
  <2>1. Known(s, s.ev[i])
    BY <1>1, <1>3 DEF Good, Sane
  <2> QED
    BY <1>3, <1>4, <2>1 DEF Known
<1>7. Good(t)
  <2>1. \A d \in Conns : IsOpen(t, d) =>
          /\ Sound(t.cl[d])
          /\ Count(t.ev, Kind(d, "readable")) = 1
          /\ Fit(t.cl[d], Count(t.ev, Kind(d, "writable")))
    BY <1>1, <1>3, <1>4 DEF Good, Sane
  <2>2. \A d, e \in Conns : IsOpen(t, d) /\ IsOpen(t, e) /\ t.cl[d].fd = t.cl[e].fd => d = e
    BY <1>1, <1>4 DEF Good, Sane
  <2>3. ~t.early /\ (MaxClients = 0 \/ Cardinality(OpenIn(t)) <= MaxClients)
    BY <1>1, <1>3, <1>5 DEF Good, Sane
  <2> QED
    BY <1>3, <1>6, <2>1, <2>2, <2>3 DEF Good, Sane
<1>8. \A d \in Conns : t.cl[d].state \in {"none", "backlog"} => Unborn(t.cl[d])
  BY <1>3 DEF Settled
<1>9. ASSUME NEW b \in bs
      PROVE  BitFits(t, b)
  BY <1>4 DEF Settled, BitFits
<1> QED
  BY <1>7, <1>8, <1>9 DEF Settled, t

-----------------------------------------------------------------------------
(* The invariant.                                                          *)

ClientsInv ==
  /\ loop \in {"select", "walk"} /\ timer \in {"set", "running", "overdue"}
  /\ early \in BOOLEAN
  /\ early \/ Settled(State, bits)

LEMMA StateIs == Shaped(State) /\ State.cl = cl /\ State.ev = ev /\ State.early = early
BY DEF State, Shaped

LEMMA StateSame == cl' = cl /\ ev' = ev /\ early' = early => State' = State
BY DEF State

LEMMA BecomesIs ==
  ASSUME early \in BOOLEAN, NEW t, Becomes(t), Shaped(t), t.early \in BOOLEAN
  PROVE  /\ early' \in BOOLEAN /\ (early \/ t.early => early')
         /\ ~early /\ ~t.early => State' = t
<1>1. cl' = t.cl /\ ev' = t.ev /\ early' = (early \/ t.early)
  BY DEF Becomes
<1>2. ASSUME ~early, ~t.early
      PROVE  State' = t
  <2>1. State' = [cl |-> cl', ev |-> ev', early |-> early']
    BY DEF State
  <2>2. early' = t.early
    BY <1>1, <1>2
  <2> QED
    BY <1>1, <2>1, <2>2 DEF Shaped
<1> QED
  BY <1>1, <1>2

LEMMA BecomesEarly ==
  ASSUME early = TRUE, NEW t, Becomes(t)
  PROVE  early' = TRUE
BY DEF Becomes

LEMMA StatesShaped ==
  ASSUME NEW s \in States
  PROVE  Shaped(s) /\ s.early \in BOOLEAN
BY DEF States, Shaped

\* What holds of the list of events when the server starts.
LEMMA ClientsInit == Init => ClientsInv
<1> SUFFICES ASSUME Init
             PROVE  ClientsInv
  OBVIOUS
<1> DEFINE s == State
<1>1. PICK scripts \in Scripts :
        cl = [c \in Conns |-> IF c \in DOMAIN scripts THEN Fresh(scripts[c]) ELSE Gone]
  BY DEF Init
<1>2. /\ s.cl = cl /\ s.ev = <<AcceptEvent>> /\ s.early = FALSE
      /\ s = [cl |-> cl, ev |-> <<AcceptEvent>>, early |-> FALSE]
  BY DEF Init, State, AcceptEvent
<1>3. \A c \in DOMAIN scripts : scripts[c] \in Units
  BY ClientsAssumption DEF Units
<1>4. \A c \in Conns : cl[c] = Gone \/ Unborn(cl[c])
  <2> SUFFICES ASSUME NEW c \in Conns, c \in DOMAIN scripts
               PROVE  Unborn(Fresh(scripts[c]))
    BY <1>1
  <2> DEFINE f == Fresh(scripts[c])
  <2>1. scripts[c] \in Units
    BY <1>3
  <2>2. f \in Conn /\ f.state = "none"
    BY <2>1, FreshIs
  <2> HIDE DEF f
  <2>3. f = [f EXCEPT !.state = "none"]
    BY <2>2 DEF Conn
  <2> QED
    BY <2>1, <2>3 DEF Unborn, f
<1>5. \A c \in Conns : cl[c] \in Conn \cup {Gone} /\ cl[c].state # "open"
  BY <1>4, UnbornIs, GoneIs
<1>6. AcceptEvent \in FileEvent
  BY DEF AcceptEvent, Event, FileEvent
<1>7. <<AcceptEvent>> \in Seq(FileEvent) /\ Len(<<AcceptEvent>>) = 1
      /\ <<AcceptEvent>>[1] = AcceptEvent
  <2> DEFINE e == AcceptEvent
  <2>1. Append(<<>>, e) = <<e>> /\ <<>> \in Seq(FileEvent)
    OBVIOUS
  <2> HIDE DEF e
  <2>2. Append(<<>>, e) \in Seq(FileEvent) /\ Len(Append(<<>>, e)) = 1 /\ Append(<<>>, e)[1] = e
    BY <1>6, <2>1 DEF e
  <2> QED
    BY <2>1, <2>2 DEF e
<1>8. s \in States
  <2> DEFINE q == <<AcceptEvent>>
  <2>1. cl \in [Conns -> Conn \cup {Gone}]
    <3>1. cl = [c \in Conns |-> cl[c]]
      BY <1>1
    <3> QED
      BY <1>5, <3>1
  <2>2. q \in Seq(FileEvent) /\ s = [cl |-> cl, ev |-> q, early |-> FALSE]
    BY <1>2, <1>7
  <2> HIDE DEF s, q
  <2> QED
    BY <2>1, <2>2 DEF States
<1> HIDE DEF s
<1>9. \A c \in Conns : ~IsOpen(s, c)
  BY <1>2, <1>5 DEF IsOpen
<1>10. OpenIn(s) = {}
  BY <1>9 DEF OpenIn
<1>11. Good(s)
  <2>1. \A i \in 1 .. Len(s.ev) : Known(s, s.ev[i])
    BY <1>2, <1>7 DEF Known
  <2>2. MaxClients = 0 \/ Cardinality(OpenIn(s)) <= MaxClients
    <3>1. Cardinality(OpenIn(s)) = 0 /\ MaxClients \in Nat
      BY <1>10, ClientsAssumption, FS_EmptySet
    <3> QED
      BY <3>1
  <2> QED
    BY <1>2, <1>8, <1>9, <2>1, <2>2 DEF Good, Sane
<1>12. \A c \in Conns : s.cl[c].state \in {"none", "backlog"} => Unborn(s.cl[c])
  BY <1>2, <1>4, GoneIs
<1>13. bits = {}
  BY DEF Init
<1>14. Settled(s, bits)
  BY <1>11, <1>12, <1>13 DEF Settled
<1> QED
  BY <1>14 DEF Init, ClientsInv, s

LEMMA SelectKeeps ==
  ASSUME ClientsInv, Select
  PROVE  ClientsInv'
<1>1. State' = State
  BY StateSame DEF Select
<1>2. ASSUME Settled(State, bits)
      PROVE  Settled(State', bits')
  <2> DEFINE s == State
  <2>1. s.cl = cl /\ s.ev = ev
    BY StateIs
  <2>2. Good(s) /\ Settled(s, bits)
    BY <1>2 DEF Settled
  <2>3. ASSUME NEW b \in bits'
        PROVE  BitFits(s, b)
    <3>1. PICK e \in ToSet(ev) : Ready(e) /\ b = <<e.fd, e.mask, e.client>>
      BY <2>3 DEF Select
    <3>2. PICK i \in 1 .. Len(ev) : e = ev[i]
      <4>1. ev \in Seq(FileEvent)
        BY <2>1, <2>2 DEF Good, Sane, States
      <4>2. DOMAIN ev = 1 .. Len(ev)
        BY <4>1
      <4> QED
        BY <3>1, <4>2 DEF ToSet
    <3>3. Known(s, e)
      BY <2>1, <2>2, <3>2 DEF Good, Sane
    <3>4. b[1] = e.fd /\ b[2] = e.mask /\ b[3] = e.client
      BY <3>1
    <3>5. CASE e.fd = Listener
      BY <3>4, <3>5 DEF BitFits
    <3>6. CASE e.fd # Listener
      <4>1. e.client \in Conns /\ IsOpen(s, e.client) /\ Owned(s.cl[e.client], e.client, e)
        BY <3>3, <3>6 DEF Known, AcceptEvent, Event
      <4>2. e.mask = "writable" =>
              cl[e.client].room >= LowWater \/ cl[e.client].peer = "reset"
        BY <3>1, <3>6 DEF Ready
      <4>3. e.fd = s.cl[e.client].fd
        BY <4>1 DEF Owned
      <4> HIDE DEF s
      <4> QED
        BY <2>1, <3>4, <4>1, <4>2, <4>3 DEF BitFits
    <3> QED
      BY <3>5, <3>6
  <2> HIDE DEF s
  <2>4. Settled(s, bits')
    BY <2>2, <2>3 DEF Settled
  <2> QED
    BY <1>1, <2>4 DEF s
<1>3. loop' = "walk" /\ timer' \in {"running", "overdue"} /\ early' = early
  BY DEF Select
<1> QED
  BY <1>2, <1>3 DEF ClientsInv

\* The event that aeProcessEvents handles is one that select has found ready: what its
\* handler does is done for the client that the event is about.
HandledFor(s, t, c) ==
  /\ IsOpen(s, c) /\ bits' = {b \in bits : b[1] # s.cl[c].fd}
  /\ Handled(s, t, c)
  /\ Keeps(s, t, c) => t = ReadQuery(s, c) \/ SameQuery(s.cl[c], t.cl[c])
AcceptedFor(s, t, c) ==
  Unborn(s.cl[c]) /\ bits' = {b \in bits : b[1] # Listener} /\ Accepted(s, t, c)

LEMMA HandleIs ==
  ASSUME ClientsInv, ~early, Handle
  PROVE  /\ loop' = loop /\ timer' = timer
         /\ \E t : Becomes(t) /\ \E c \in Conns : HandledFor(State, t, c) \/ AcceptedFor(State, t, c)
<1> DEFINE s == State
           set == {i \in DOMAIN ev : IsSet(ev[i])}
           e == ev[Min(set)]
<1>1. /\ set # {} /\ bits' = Cleared(e) /\ loop' = loop /\ timer' = timer
      /\ \/ e.proc = "readQuery" /\ Becomes(ReadQuery(s, e.client))
         \/ e.proc = "sendReply" /\ Becomes(SendReply(s, e.client))
         \/ e.proc = "sendBulk" /\ Becomes(SendBulk(s, e.client))
         \/ e.proc = "accept" /\ \E c \in Waiting : Becomes(Accept(s, c))
  BY DEF Handle
<1>2. bits' = {b \in bits : b[1] # e.fd}
  BY <1>1 DEF Cleared
<1>3. Good(s) /\ Settled(s, bits) /\ s.ev = ev /\ s.cl = cl /\ ev \in Seq(FileEvent)
  BY StateIs DEF ClientsInv, Settled, Good, Sane, States
<1>4. PICK i \in 1 .. Len(ev) : e = ev[i] /\ IsSet(e)
  <2>1. DOMAIN ev = 1 .. Len(ev) /\ set \in SUBSET Nat
    BY <1>3
  <2>2. Min(set) \in set
    <3> HIDE DEF set
    <3> QED
      BY <1>1, <2>1, MinIn
  <2> QED
    BY <2>1, <2>2
<1>5. e \in FileEvent /\ Known(s, e)
  BY <1>3, <1>4 DEF Good, Sane
<1>6. PICK b \in bits : b[1] = e.fd /\ b[2] = e.mask
  BY <1>4 DEF IsSet
<1> HIDE DEF s
<1>7. CASE e = AcceptEvent
  <2>1. e.fd = Listener /\ e.proc = "accept"
    BY <1>7 DEF AcceptEvent, Event
  <2>2. PICK c \in Waiting : Becomes(Accept(s, c))
    BY <1>1, <2>1 DEF s
  <2> DEFINE t == Accept(s, c)
  <2>3. c \in Conns /\ Unborn(s.cl[c])
    BY <1>3, <2>2 DEF Waiting, Settled
  <2>4. Accepted(s, t, c)
    BY <1>3, <2>3, AcceptAccepts
  <2>5. Becomes(t)
    BY <2>2
  <2> HIDE DEF t, e
  <2>6. AcceptedFor(s, t, c)
    BY <1>2, <2>1, <2>3, <2>4 DEF AcceptedFor
  <2> QED
    BY <1>1, <2>3, <2>5, <2>6 DEF s
<1>8. CASE /\ e.client \in Conns /\ IsOpen(s, e.client)
           /\ Owned(s.cl[e.client], e.client, e)
  <2> DEFINE c == e.client
             k == s.cl[c]
  <2>1. e.fd = k.fd /\ k.fd \in Fds /\ k.fd # Listener
    <3>1. e.fd = k.fd /\ k.fd \in Fds
      BY <1>3, <1>8, GoodIs DEF Owned
    <3> QED
      BY <3>1, ClientsAssumption DEF Listener
  <2>2. b[3] = c /\ (b[2] = "writable" => k.peer = "reset" \/ k.room >= LowWater)
    <3>1. /\ b[3] \in Conns /\ IsOpen(s, b[3]) /\ s.cl[b[3]].fd = b[1]
          /\ b[2] = "writable" => s.cl[b[3]].peer = "reset" \/ s.cl[b[3]].room >= LowWater
      BY <1>3, <1>6, <2>1 DEF Settled, BitFits
    <3>2. b[3] = c
      BY <1>3, <1>6, <1>8, <2>1, <3>1 DEF Good, Sane
    <3> QED
      BY <3>1, <3>2
  <2>3. k.repl \in {"none", "wait", "bulk", "online"}
    <3>1. k \in Conn
      BY <1>3, <1>8, GoodIs
    <3> QED
      BY <3>1 DEF Conn
  <2>4. ASSUME NEW t, Becomes(t), Handled(s, t, c),
               Keeps(s, t, c) => t = ReadQuery(s, c) \/ SameQuery(s.cl[c], t.cl[c])
        PROVE  \E x : Becomes(x) /\ \E d \in Conns : HandledFor(s, x, d) \/ AcceptedFor(s, x, d)
    <3>1. HandledFor(s, t, c)
      BY <1>2, <1>8, <2>1, <2>4 DEF HandledFor
    <3>2. c \in Conns
      BY <1>8
    <3> HIDE DEF c
    <3> QED
      BY <2>4, <3>1, <3>2
  <2>5. CASE e.mask = "readable"
    <3>1. e.proc = "readQuery"
      BY <1>8, <2>5 DEF Owned
    <3>2. Becomes(ReadQuery(s, c))
      BY <1>1, <3>1 DEF s
    <3>3. Handled(s, ReadQuery(s, c), c)
      BY <1>3, <1>8, ReadQueryHandled
    <3> HIDE DEF e
    <3> QED
      BY <1>1, <2>4, <3>2, <3>3 DEF s
  <2>6. CASE e.mask = "writable" /\ k.repl = "bulk"
    <3>1. e.proc = "sendBulk"
      BY <1>8, <2>6 DEF Owned
    <3>2. Becomes(SendBulk(s, c))
      BY <1>1, <3>1 DEF s
    <3>3. k.peer = "reset" \/ k.room >= LowWater
      BY <1>6, <2>2, <2>6
    <3>4. /\ Handled(s, SendBulk(s, c), c)
          /\ Keeps(s, SendBulk(s, c), c) => SameQuery(s.cl[c], SendBulk(s, c).cl[c])
      BY <1>3, <1>8, <2>6, <3>3, SendBulkHandled
    <3> HIDE DEF e
    <3> QED
      BY <1>1, <2>4, <3>2, <3>4 DEF s
  <2>7. CASE e.mask = "writable" /\ k.repl # "bulk"
    <3>1. e.proc = "sendReply"
      BY <1>8, <2>7 DEF Owned
    <3>2. Becomes(SendReply(s, c))
      BY <1>1, <3>1 DEF s
    <3>3. k.repl # "wait"
      <4>1. e \in Kind(c, "writable")
        BY <1>5, <2>7 DEF Kind
      <4>2. Count(ev, Kind(c, "writable")) # 0
        <5> HIDE DEF e
        <5> QED
          BY <1>3, <1>4, <4>1, AtFinite
      <4>3. Fit(k, Count(ev, Kind(c, "writable")))
        BY <1>3, <1>8, GoodIs
      <4> QED
        BY <4>2, <4>3 DEF Fit
    <3>4. k.repl \in {"none", "online"}
      BY <2>3, <2>7, <3>3
    <3>5. /\ Handled(s, SendReply(s, c), c)
          /\ Keeps(s, SendReply(s, c), c) => SameQuery(s.cl[c], SendReply(s, c).cl[c])
      BY <1>3, <1>8, <3>4, SendReplyHandled
    <3> HIDE DEF e
    <3> QED
      BY <1>1, <2>4, <3>2, <3>5 DEF s
  <2> QED
    BY <1>5, <2>5, <2>6, <2>7 DEF FileEvent
<1> QED
  BY <1>5, <1>7, <1>8 DEF Known

LEMMA HandleKeeps ==
  ASSUME ClientsInv, Handle
  PROVE  ClientsInv'
<1> DEFINE s == State
<1>1. CASE early = TRUE
  <2>1. early' = TRUE /\ loop' = loop /\ timer' = timer
    BY <1>1 DEF Handle, Becomes
  <2> QED
    BY <2>1 DEF ClientsInv
<1>2. CASE ~early
  <2>1. /\ loop' = loop /\ timer' = timer
        /\ \E t : Becomes(t) /\ \E c \in Conns : HandledFor(s, t, c) \/ AcceptedFor(s, t, c)
    BY <1>2, HandleIs
  <2>2. Settled(s, bits) /\ early \in BOOLEAN
    BY <1>2 DEF ClientsInv
  <2> HIDE DEF s
  <2>3. PICK t : Becomes(t) /\ \E c \in Conns : HandledFor(s, t, c) \/ AcceptedFor(s, t, c)
    BY <2>1
  <2>4. PICK c \in Conns : HandledFor(s, t, c) \/ AcceptedFor(s, t, c)
    BY <2>3
  <2>5. t \in States
    BY <2>4 DEF HandledFor, AcceptedFor, Handled, Keeps, Frees, Accepted, Good, Sane
  <2>6. Shaped(t) /\ t.early \in BOOLEAN
    BY <2>5, StatesShaped
  <2>7. /\ early' \in BOOLEAN /\ (early \/ t.early => early')
        /\ ~early /\ ~t.early => State' = t
    BY <2>2, <2>3, <2>6, BecomesIs
  <2>8. ~t.early => Settled(t, bits')
    <3>1. CASE HandledFor(s, t, c)
      BY <2>2, <3>1, HandledSettles DEF HandledFor
    <3>2. CASE AcceptedFor(s, t, c)
      BY <2>2, <3>2, AcceptSettles DEF AcceptedFor
    <3> QED
      BY <2>4, <3>1, <3>2
  <2> QED
    BY <1>2, <2>1, <2>7, <2>8 DEF ClientsInv
<1> QED
  BY <1>1, <1>2 DEF ClientsInv

-----------------------------------------------------------------------------
(* The other steps.                                                        *)

LEMMA IdleKeeps ==
  ASSUME ClientsInv, Idle
  PROVE  ClientsInv'
<1>1. State' = State /\ early' = early
  BY StateSame DEF Idle
<1>2. bits' = {} /\ loop' = "select" /\ timer' = timer
  BY DEF Idle, Walked
<1>3. ASSUME Settled(State, bits)
      PROVE  Settled(State', bits')
  <2> DEFINE s == State
  <2> HIDE DEF s
  <2>1. Settled(s, bits) => Settled(s, {})
    BY DEF Settled
  <2> QED
    BY <1>1, <1>2, <1>3, <2>1 DEF s
<1> QED
  BY <1>1, <1>2, <1>3 DEF ClientsInv

\* What the loops of serverCron leave: connections are freed or stay open.
CronLeaves(s, t) ==
  Lost(t) \/ /\ Good(t)
             /\ \A d \in Conns :
                  \/ t.cl[d] = s.cl[d] \/ t.cl[d] = Gone
                  \/ IsOpen(s, d) /\ IsOpen(t, d) /\ SameQuery(s.cl[d], t.cl[d])

LEMMA CronSettles ==
  ASSUME NEW s, NEW bs, Settled(s, bs), NEW t, CronLeaves(s, t), ~t.early
  PROVE  Settled(t, {})
<1>1. Good(t)
  BY DEF CronLeaves, Lost
<1>2. ASSUME NEW d \in Conns, t.cl[d].state \in {"none", "backlog"}
      PROVE  Unborn(t.cl[d])
  <2>1. t.cl[d] = s.cl[d]
    BY <1>2, GoneIs DEF CronLeaves, Lost, IsOpen
  <2> QED
    BY <1>2, <2>1 DEF Settled
<1> QED
  BY <1>1, <1>2 DEF Settled

LEMMA CronIs ==
  ASSUME ClientsInv, ~early, Cron
  PROVE  \E t : Becomes(t) /\ CronLeaves(State, t)
<1>1. PICK timedout \in SUBSET {c \in Open : cl[c].role = "normal"} :
        LET s == ForEach(FreeClient, State, SetToSeq(timedout))
            slaves == {c \in Open : cl[c].repl = "wait"}
        IN \/ Becomes(s)
           \/ slaves # {} /\ Becomes(ForEach(Saved, s, SetToSeq(slaves)))
           \/ slaves # {} /\ Becomes(ForEach(FreeClient, s, SetToSeq(slaves)))
  BY DEF Cron
<1> DEFINE r == State
           slaves == {c \in Open : cl[c].repl = "wait"}
           s == ForEach(FreeClient, r, SetToSeq(timedout))
           saved == ForEach(Saved, s, SetToSeq(slaves))
           freed == ForEach(FreeClient, s, SetToSeq(slaves))
<1>2. Becomes(s) \/ Becomes(saved) \/ Becomes(freed)
  BY <1>1
<1>3. Settled(r, bits) /\ r.cl = cl
  BY StateIs DEF ClientsInv
<1>4. Good(r) /\ timedout \in SUBSET Conns /\ slaves \in SUBSET Conns
  BY <1>3 DEF Settled, Open
<1>5. \A c \in timedout : IsOpen(r, c) /\ r.cl[c].role = "normal"
  BY <1>3 DEF Open, IsOpen
<1>6. \A c \in slaves : IsOpen(r, c) /\ r.cl[c].repl = "wait"
  BY <1>3 DEF Open, IsOpen
<1> HIDE DEF r, slaves
<1>7. \A c \in slaves : c \notin timedout
  <2> SUFFICES ASSUME NEW c \in slaves
               PROVE  r.cl[c].role # "normal"
    BY <1>5
  <2>1. Sound(r.cl[c])
    BY <1>4, <1>6, GoodIs
  <2> QED
    BY <1>6, <2>1 DEF Sound, Sized
<1>8. Lost(s) \/ (Good(s) /\ \A d \in Conns : s.cl[d] = IF d \in timedout THEN Gone ELSE r.cl[d])
  BY <1>4, <1>5, FreedAll
<1> HIDE DEF s
<1>9. Lost(s) \/ (Good(s) /\ \A c \in slaves : IsOpen(s, c) /\ s.cl[c].repl = "wait")
  BY <1>4, <1>6, <1>7, <1>8 DEF IsOpen
<1>10. Good(s) => ~Lost(s)
  BY DEF Good, Sane, Lost
<1>11. CronLeaves(r, s)
  BY <1>8 DEF CronLeaves
<1>12. CronLeaves(r, saved)
  <2>1. \/ Lost(saved)
        \/ /\ Good(s) /\ Good(saved)
           /\ \A d \in Conns : IF IsOpen(s, d)
                               THEN IsOpen(saved, d) /\ SameQuery(s.cl[d], saved.cl[d])
                               ELSE saved.cl[d] = s.cl[d]
    BY <1>4, <1>9, SavedAll
  <2> HIDE DEF saved
  <2>2. ASSUME Good(s), NEW d \in Conns, IsOpen(s, d)
        PROVE  IsOpen(r, d) /\ s.cl[d] = r.cl[d]
    BY <1>8, <1>10, <2>2, GoneIs DEF IsOpen
  <2> QED
    BY <1>8, <1>10, <2>1, <2>2 DEF CronLeaves
<1>13. CronLeaves(r, freed)
  <2>1. \/ Lost(freed)
        \/ /\ Good(s) /\ Good(freed)
           /\ \A d \in Conns : freed.cl[d] = IF d \in slaves THEN Gone ELSE s.cl[d]
    BY <1>4, <1>9, FreedAll
  <2> HIDE DEF freed
  <2> QED
    BY <1>8, <1>10, <2>1 DEF CronLeaves
<1> HIDE DEF saved, freed
<1> QED
  BY <1>2, <1>11, <1>12, <1>13 DEF r

LEMMA CronKeeps ==
  ASSUME ClientsInv, Cron
  PROVE  ClientsInv'
<1>1. bits' = {} /\ loop' = "select" /\ timer' = "set"
  BY DEF Cron, Walked
<1>2. CASE early = TRUE
  <2>1. \E t : Becomes(t)
    BY DEF Cron
  <2>2. early' = TRUE
    BY <1>2, <2>1, BecomesEarly
  <2> QED
    BY <1>1, <2>2 DEF ClientsInv
<1>3. CASE ~early
  <2> DEFINE r == State
  <2>1. Settled(r, bits) /\ early \in BOOLEAN
    BY <1>3 DEF ClientsInv
  <2>2. PICK t : Becomes(t) /\ CronLeaves(r, t)
    BY <1>3, CronIs
  <2> HIDE DEF r
  <2>3. Shaped(t) /\ t.early \in BOOLEAN
    <3>1. CASE Lost(t)
      BY <3>1 DEF Lost
    <3>2. CASE Good(t)
      BY <3>2, StatesShaped DEF Good, Sane
    <3> QED
      BY <2>2, <3>1, <3>2 DEF CronLeaves
  <2>4. /\ early' \in BOOLEAN /\ (early \/ t.early => early')
        /\ ~early /\ ~t.early => State' = t
    BY <2>1, <2>2, <2>3, BecomesIs
  <2>5. ~t.early => Settled(t, {})
    BY <2>1, <2>2, CronSettles
  <2> QED
    BY <1>1, <1>3, <2>4, <2>5 DEF ClientsInv
<1> QED
  BY <1>2, <1>3 DEF ClientsInv

-----------------------------------------------------------------------------
(* The other ends.                                                         *)

LEMMA ClientIs ==
  ASSUME NEW c, NEW k, Client(c, k)
  PROVE  /\ State' = Put(State, c, k, State.ev)
         /\ loop' = loop /\ timer' = timer /\ bits' = bits /\ early' = early
<1>1. /\ cl' = [cl EXCEPT ![c] = k] /\ ev' = ev /\ early' = early /\ loop' = loop
      /\ timer' = timer /\ bits' = bits
  BY DEF Client
<1>2. State' = [cl |-> cl', ev |-> ev', early |-> early']
  BY DEF State
<1> DEFINE x == [cl EXCEPT ![c] = k]
<1>3. Put(State, c, k, State.ev) = [cl |-> x, ev |-> ev, early |-> early]
  <2> DEFINE s == State
  <2>1. s = [cl |-> cl, ev |-> ev, early |-> early] /\ s.cl = cl /\ s.ev = ev
    BY DEF State
  <2>2. Put(s, c, k, s.ev) = [[s EXCEPT !.cl = x] EXCEPT !.ev = s.ev]
    BY <2>1 DEF Put
  <2> HIDE DEF x, s
  <2>3. [s EXCEPT !.cl = x] = [cl |-> x, ev |-> ev, early |-> early]
    BY <2>1
  <2> QED
    BY <2>1, <2>2, <2>3 DEF s
<1>4. cl' = x
  BY <1>1
<1> HIDE DEF x
<1>5. State' = [cl |-> x, ev |-> ev, early |-> early]
  BY <1>1, <1>2, <1>4
<1> QED
  BY <1>1, <1>3, <1>5

LEMMA MoveKeeps ==
  ASSUME ClientsInv, NEW c \in Conns, c \in Open, NEW k, Client(c, k),
         ~early => k \in Conn /\ Moved(cl[c], k)
  PROVE  ClientsInv'
<1>1. /\ State' = Put(State, c, k, State.ev)
      /\ loop' = loop /\ timer' = timer /\ bits' = bits /\ early' = early
  BY ClientIs
<1>2. ASSUME ~early
      PROVE  Settled(State', bits')
  <2> DEFINE s == State
  <2>1. Settled(s, bits) /\ s.cl = cl
    BY <1>2, StateIs DEF ClientsInv
  <2>2. IsOpen(s, c) /\ k \in Conn /\ Moved(s.cl[c], k)
    BY <1>2, <2>1 DEF IsOpen, Open
  <2> HIDE DEF s
  <2>3. Settled(Put(s, c, k, s.ev), bits)
    BY <2>1, <2>2, MovedSettles
  <2> QED
    BY <1>1, <2>3 DEF s
<1> QED
  BY <1>1, <1>2 DEF ClientsInv

LEMMA ConnectKeeps ==
  ASSUME ClientsInv, NEW c \in Conns, Connect(c)
  PROVE  ClientsInv'
<1> DEFINE k == [cl[c] EXCEPT !.state = "backlog"]
<1>0. cl[c].state = "none" /\ Client(c, k)
  BY DEF Connect
<1>1. /\ State' = Put(State, c, k, State.ev)
      /\ loop' = loop /\ timer' = timer /\ bits' = bits /\ early' = early
  <2> HIDE DEF k
  <2> QED
    BY <1>0, ClientIs
<1>2. ASSUME ~early
      PROVE  Settled(State', bits')
  <2> DEFINE s == State
  <2>1. Settled(s, bits) /\ s.cl = cl
    BY <1>2, StateIs DEF ClientsInv
  <2> HIDE DEF s
  <2>2. Unborn(cl[c])
    BY <1>0, <2>1 DEF Settled
  <2>3. Unborn(k)
    <3>1. PICK script \in Units, state \in {"none", "backlog"} :
            cl[c] = [Fresh(script) EXCEPT !.state = state]
      BY <2>2 DEF Unborn
    <3> DEFINE f == Fresh(script)
    <3>2. f \in Conn
      BY FreshIs
    <3>3. cl[c] = [f EXCEPT !.state = state]
      BY <3>1
    <3> HIDE DEF f
    <3>4. k = [f EXCEPT !.state = "backlog"]
      BY <3>2, <3>3 DEF Conn
    <3> QED
      BY <3>4 DEF Unborn, f
  <2> HIDE DEF k
  <2>4. Settled(Put(s, c, k, s.ev), bits)
    BY <2>1, <2>2, <2>3, UnbornSettles
  <2> QED
    BY <1>1, <2>4 DEF s
<1> HIDE DEF k
<1> QED
  BY <1>1, <1>2 DEF ClientsInv

LEMMA OpenIsConn ==
  ASSUME ClientsInv, ~early, NEW c \in Open
  PROVE  cl[c] \in Conn
<1> DEFINE s == State
<1>1. Good(s) /\ s.cl = cl
  BY StateIs DEF ClientsInv, Settled
<1>2. IsOpen(s, c) /\ c \in Conns
  BY <1>1 DEF IsOpen, Open
<1> HIDE DEF s
<1> QED
  BY <1>1, <1>2, GoodIs

LEMMA RoomOf ==
  ASSUME NEW k \in Conn
  PROVE  Room \in 0 .. Room /\ Room >= k.room /\ k.room >= k.room
<1>1. Room \in Nat
  BY ClientsAssumption
<1>2. k.room \in 0 .. Room
  BY DEF Conn
<1> QED
  BY <1>1, <1>2

LEMMA SendKeeps ==
  ASSUME ClientsInv, NEW c \in Conns, NEW n \in 1 .. MaxSent, Send(c, n)
  PROVE  ClientsInv'
<1> DEFINE script == cl[c].script
           k == [cl[c] EXCEPT !.input = @ \o SubSeq(script, 1, n),
                              !.script = SubSeq(@, n + 1, Len(@))]
<1>1. c \in Open /\ n <= Len(script) /\ Client(c, k)
  BY DEF Send
<1>2. ASSUME ~early
      PROVE  k \in Conn /\ Moved(cl[c], k)
  <2>1. cl[c] \in Conn
    BY <1>1, <1>2, OpenIsConn
  <2>2. script \in Units /\ cl[c].input \in Units
    BY <2>1 DEF Conn
  <2>3. n \in Nat /\ n <= Len(script) /\ Len(script) \in Nat /\ 0 \in Nat
    <3>1. MaxSent \in Nat
      BY ClientsAssumption
    <3> QED
      BY <1>1, <2>2, <3>1 DEF Units
  <2> DEFINE a == SubSeq(script, 1, n)
             b == SubSeq(script, n + 1, Len(script))
             i == cl[c].input \o a
  <2> HIDE DEF script
  <2>4. a \in Units
    <3>1. SubSeq(script, 0 + 1, n) \in Units
      BY <2>2, <2>3, SubUnits
    <3>2. 0 + 1 = 1
      OBVIOUS
    <3> QED
      BY <3>1, <3>2
  <2>5. b \in Units
    BY <2>2, <2>3, SubUnits
  <2>6. i \in Units
    <3> HIDE DEF a
    <3> QED
      BY <2>2, <2>4 DEF Units
  <2>7. k = [cl[c] EXCEPT !.input = i, !.script = b]
    BY <2>1 DEF Conn, script
  <2>8. cl[c].room >= cl[c].room
    BY <2>1, RoomOf
  <2> HIDE DEF a, b, i, k
  <2>9. k \in Conn /\ k.room = cl[c].room
    BY <2>1, <2>5, <2>6, <2>7 DEF Conn
  <2> QED
    BY <2>1, <2>7, <2>8, <2>9 DEF Conn, Moved
<1> HIDE DEF k
<1> QED
  BY <1>1, <1>2, MoveKeeps

LEMMA DrainKeeps ==
  ASSUME ClientsInv, NEW c \in Conns, Drain(c)
  PROVE  ClientsInv'
<1> DEFINE k == [cl[c] EXCEPT !.room = Room]
<1>1. c \in Open /\ Client(c, k)
  BY DEF Drain
<1>2. ASSUME ~early
      PROVE  k \in Conn /\ Moved(cl[c], k)
  <2>1. cl[c] \in Conn
    BY <1>1, <1>2, OpenIsConn
  <2>2. Room \in 0 .. Room /\ Room >= cl[c].room
    BY <2>1, RoomOf
  <2>3. k \in Conn /\ k.room = Room
    BY <2>1, <2>2 DEF Conn
  <2> QED
    BY <2>1, <2>2, <2>3 DEF Conn, Moved
<1> HIDE DEF k
<1> QED
  BY <1>1, <1>2, MoveKeeps

LEMMA CloseKeeps ==
  ASSUME ClientsInv, NEW c \in Conns, Close(c)
  PROVE  ClientsInv'
<1> DEFINE empty == <<>>
           k == [cl[c] EXCEPT !.peer = "closed", !.script = empty]
<1>1. c \in Open /\ Client(c, k) /\ cl[c].peer = "open"
  BY DEF Close
<1>2. ASSUME ~early
      PROVE  k \in Conn /\ Moved(cl[c], k)
  <2>1. cl[c] \in Conn
    BY <1>1, <1>2, OpenIsConn
  <2>2. empty \in Units
    BY DEF Units
  <2>3. cl[c].room >= cl[c].room
    BY <2>1, RoomOf
  <2> HIDE DEF empty
  <2>4. k \in Conn /\ k.room = cl[c].room
    BY <2>1, <2>2 DEF Conn
  <2> QED
    BY <1>1, <2>1, <2>3, <2>4 DEF Conn, Moved
<1> HIDE DEF k
<1> QED
  BY <1>1, <1>2, MoveKeeps

LEMMA BreakKeeps ==
  ASSUME ClientsInv, NEW c \in Conns, Break(c)
  PROVE  ClientsInv'
<1> DEFINE empty == <<>>
           k == [cl[c] EXCEPT !.peer = "reset", !.script = empty, !.input = empty]
<1>1. c \in Open /\ Client(c, k)
  BY DEF Break
<1>2. ASSUME ~early
      PROVE  k \in Conn /\ Moved(cl[c], k)
  <2>1. cl[c] \in Conn
    BY <1>1, <1>2, OpenIsConn
  <2>2. empty \in Units
    BY DEF Units
  <2> HIDE DEF empty
  <2> QED
    BY <1>1, <2>1, <2>2 DEF Conn, Moved
<1> HIDE DEF k
<1> QED
  BY <1>1, <1>2, MoveKeeps

LEMMA ClientsNext ==
  ASSUME ClientsInv, [Next]_vars
  PROVE  ClientsInv'
<1>1. CASE Loop
  BY <1>1, SelectKeeps, HandleKeeps, IdleKeeps, CronKeeps DEF Loop
<1>2. ASSUME NEW c \in Conns, Connect(c) \/ Drain(c) \/ Close(c) \/ Break(c)
      PROVE  ClientsInv'
  BY <1>2, ConnectKeeps, DrainKeeps, CloseKeeps, BreakKeeps
<1>3. ASSUME NEW c \in Conns, NEW n \in 1 .. MaxSent, Send(c, n)
      PROVE  ClientsInv'
  BY <1>3, SendKeeps
<1>4. CASE UNCHANGED vars
  <2>1. State' = State
    BY <1>4, StateSame DEF vars
  <2>2. Settled(State, bits) => Settled(State', bits')
    BY <1>4, <2>1 DEF vars
  <2> QED
    BY <1>4, <2>2 DEF vars, ClientsInv
<1> QED
  BY <1>1, <1>2, <1>3, <1>4 DEF Next

\* The inductive invariant of the event loop: what holds between two handlers, and that
\* what select found is about the connections that have the descriptors.
THEOREM ClientsInvariant == Spec => []ClientsInv
<1>1. Init => ClientsInv
  BY ClientsInit
<1>2. ClientsInv /\ [Next]_vars => ClientsInv'
  BY ClientsNext
<1> QED
  BY <1>1, <1>2, PTL DEF Spec

-----------------------------------------------------------------------------
(* What the invariant says.                                                *)

LEMMA OpenSound ==
  ASSUME ClientsInv, ~early
  PROVE  /\ Good(State) /\ Settled(State, bits) /\ OpenIn(State) = Open
         /\ State.cl = cl /\ State.ev = ev /\ ev \in Seq(FileEvent) /\ Open \subseteq Conns
         /\ \A c \in Open : /\ c \in Conns /\ IsOpen(State, c) /\ Sound(cl[c])
                            /\ Fit(cl[c], Count(ev, Kind(c, "writable")))
                            /\ Count(ev, Kind(c, "readable")) = 1
<1> DEFINE s == State
<1>1. Good(s) /\ Settled(s, bits) /\ s.cl = cl /\ s.ev = ev
  BY StateIs DEF ClientsInv, Settled
<1>2. OpenIn(s) = Open /\ \A c \in Open : c \in Conns /\ IsOpen(s, c)
  BY <1>1 DEF OpenIn, IsOpen, Open
<1> HIDE DEF s
<1>3. ev \in Seq(FileEvent)
  BY <1>1 DEF Good, Sane, States
<1>4. \A c \in Open : /\ Sound(cl[c])
                      /\ Fit(cl[c], Count(ev, Kind(c, "writable")))
                      /\ Count(ev, Kind(c, "readable")) = 1
  BY <1>1, <1>2 DEF Good, Sane
<1> QED
  BY <1>1, <1>2, <1>3, <1>4 DEF s

LEMMA SentlenFits ==
  ASSUME NEW k, Sound(k)
  PROVE  k.sentlen \in 0 .. GlueMax /\ (k.reply = <<>> => k.sentlen = 0)
<1>1. k.reply \in Seq(Units) /\ k.sentlen \in Nat
  BY ConnFields DEF Sound
<1>2. GlueMax \in Nat \ {0}
  BY ClientsAssumption
<1>3. k.sentlen = 0 \/ (k.reply # <<>> /\ k.sentlen < Len(k.reply[1]))
  BY DEF Sound, Sized
<1>4. CASE k.reply # <<>>
  <2>1. 1 \in 1 .. Len(k.reply)
    BY <1>1, <1>4
  <2>2. Len(k.reply[1]) <= 2 \/ Len(k.reply[1]) <= GlueMax
    BY <2>1 DEF Sound, Sized
  <2>3. Len(k.reply[1]) \in Nat
    BY <1>1, <2>1 DEF Units
  <2> QED
    BY <1>1, <1>2, <1>3, <1>4, <2>2, <2>3
<1>5. CASE k.reply = <<>>
  BY <1>1, <1>2, <1>3, <1>5
<1> QED
  BY <1>4, <1>5

LEMMA InvTypes ==
  ASSUME ClientsInv, ~early
  PROVE  TypeOK
<1>1. /\ Good(State) /\ OpenIn(State) = Open /\ State.cl = cl
      /\ \A c \in Open : c \in Conns /\ IsOpen(State, c) /\ Sound(cl[c])
  BY OpenSound
<1>2. \A c \in Conns : cl[c].state \in {"none", "backlog", "open", "freed"}
  <2>1. cl \in [Conns -> Conn \cup {Gone}]
    BY <1>1 DEF Good, Sane, States
  <2>2. \A k \in Conn : k.state \in {"none", "backlog", "open"}
    BY DEF Conn
  <2>3. Gone.state = "freed"
    BY DEF Gone
  <2> QED
    BY <2>1, <2>2, <2>3
<1>3. ASSUME NEW c \in Open
      PROVE  /\ cl[c].fd \in Fds /\ cl[c].room \in 0 .. Room
             /\ cl[c].role \in {"normal", "slave", "monitor"}
             /\ cl[c].role # "slave" <=> cl[c].repl = "none"
             /\ cl[c].repl \in {"none", "wait", "bulk", "online"}
             /\ cl[c].off \in 0 .. DumpSize
             /\ cl[c].bulklen = -1 \/ cl[c].bulklen \in 2 .. MaxBulk + 2
             /\ cl[c].sentlen \in 0 .. GlueMax
             /\ cl[c].reply = <<>> => cl[c].sentlen = 0
  <2> DEFINE k == cl[c]
  <2>1. Sound(k)
    BY <1>1
  <2> HIDE DEF k
  <2>2. k.sentlen \in 0 .. GlueMax /\ (k.reply = <<>> => k.sentlen = 0)
    BY <2>1, SentlenFits
  <2>3. /\ k.room \in 0 .. Room /\ k.role \in {"normal", "slave", "monitor"}
        /\ k.repl \in {"none", "wait", "bulk", "online"} /\ k.off \in 0 .. DumpSize
    BY <2>1 DEF Sound, Conn
  <2>4. /\ k.fd \in Fds /\ (k.role # "slave" <=> k.repl = "none")
        /\ k.bulklen = -1 \/ k.bulklen \in 2 .. MaxBulk + 2
    BY <2>1 DEF Sound, Sized
  <2> QED
    BY <2>2, <2>3, <2>4 DEF k
<1>4. \A c1, c2 \in Open : cl[c1].fd = cl[c2].fd => c1 = c2
  BY <1>1 DEF Good, Sane
<1>5. MaxClients = 0 \/ Cardinality(Open) <= MaxClients
  BY <1>1 DEF Good
<1>6. loop \in {"select", "walk"} /\ timer \in {"set", "running", "overdue"} /\ early \in BOOLEAN
  BY DEF ClientsInv
<1> QED
  BY <1>2, <1>3, <1>4, <1>5, <1>6 DEF TypeOK

LEMMA InvBits ==
  ASSUME ClientsInv, ~early
  PROVE  BitsAreCurrent
<1> DEFINE s == State
<1>1. /\ Good(s) /\ Settled(s, bits) /\ s.cl = cl
      /\ \A c \in Open : c \in Conns /\ IsOpen(s, c)
  BY OpenSound
<1> HIDE DEF s
<1> SUFFICES ASSUME NEW b \in bits, b[1] # Listener,
                    NEW c \in Open, cl[c].fd = b[1]
             PROVE  b[3] = c
  BY DEF BitsAreCurrent
<1>2. b[3] \in Conns /\ IsOpen(s, b[3]) /\ s.cl[b[3]].fd = b[1]
  BY <1>1 DEF Settled, BitFits
<1> QED
  BY <1>1, <1>2 DEF Good, Sane

LEMMA FrontIs ==
  ASSUME NEW u \in Units, NEW a \in Units, NEW n \in Nat, n = Len(a), n <= Len(u),
         \A i \in 1 .. n : u[i] = a[i]
  PROVE  SubSeq(u, 1, n) = a
<1> DEFINE l == SubSeq(u, 1, n)
<1>1. l \in Units /\ Len(l) = n /\ \A i \in 1 .. n : l[i] = u[i]
  <2> DEFINE z == 0
             y == SubSeq(u, z + 1, n)
  <2>1. z \in Nat /\ z + 1 = 1 /\ z <= n /\ n - z = n /\ \A i \in 1 .. n : z + i = i
    OBVIOUS
  <2> HIDE DEF z
  <2>2. /\ y \in Units /\ Len(y) = n - z /\ \A i \in 1 .. n - z : y[i] = u[z + i]
    BY <2>1, SubUnits
  <2>3. l = y
    BY <2>1
  <2> HIDE DEF l, y
  <2> QED
    BY <2>1, <2>2, <2>3
<1> HIDE DEF l
<1>2. l = a
  BY <1>1, SeqEqual DEF Units
<1> QED
  BY <1>2 DEF l

LEMMA BackIs ==
  ASSUME NEW u \in Units, NEW b \in Units, NEW j \in Nat, NEW m, m = Len(b),
         Len(u) = j + m, \A i \in 1 .. m : u[j + i] = b[i]
  PROVE  SubSeq(u, j + 1, Len(u)) = b
<1> DEFINE l == SubSeq(u, j + 1, Len(u))
<1>1. Len(u) \in Nat /\ m \in Nat /\ j <= Len(u) /\ Len(u) - j = m
  BY DEF Units
<1>2. /\ l \in Units /\ Len(l) = Len(u) - j
      /\ \A i \in 1 .. Len(u) - j : l[i] = u[j + i]
  BY <1>1, SubUnits
<1> HIDE DEF l
<1>3. l = b
  BY <1>1, <1>2, SeqEqual DEF Units
<1> QED
  BY <1>3 DEF l

\* u is made of a, d and b.
InPieces(u, a, d, b) ==
  LET at == Len(a)
      n  == Len(d)
      m  == Len(b)
  IN /\ Len(u) = (at + n) + m
     /\ SubSeq(u, 1, at) = a /\ SubSeq(u, at + n + 1, Len(u)) = b
     /\ \A i \in 1 .. at : u[i] = a[i]
     /\ \A i \in 1 .. n : u[at + i] = d[i]
     /\ \A i \in 1 .. m : u[(at + n) + i] = b[i]

LEMMA Pieces ==
  ASSUME NEW a \in Units, NEW d \in Units, NEW b \in Units
  PROVE  InPieces((a \o d) \o b, a, d, b)
<1> DEFINE at == Len(a)
           n == Len(d)
           m == Len(b)
           out == (a \o d) \o b
<1> DEFINE x == a \o d
<1>1. at \in Nat /\ n \in Nat /\ m \in Nat
  BY DEF Units
<1>2. /\ x \in Units /\ Len(x) = at + n /\ m = Len(b) /\ at = Len(a)
      /\ \A i \in 1 .. at + n : x[i] = IF i <= at THEN a[i] ELSE d[i - at]
  BY ConcatProperties DEF Units
<1>3. out = x \o b
  OBVIOUS
<1> HIDE DEF x, out, at, n, m
<1> DEFINE y == x \o b
<1>4. /\ out \in Units /\ Len(out) = (at + n) + m
      /\ \A i \in 1 .. (at + n) + m : out[i] = IF i <= at + n THEN x[i] ELSE b[i - (at + n)]
  <2>0. x \in Seq(Unit) /\ b \in Seq(Unit)
    BY <1>2 DEF Units
  <2>1. /\ y \in Units /\ Len(y) = Len(x) + Len(b)
        /\ \A i \in 1 .. Len(x) + Len(b) : y[i] = IF i <= Len(x) THEN x[i] ELSE b[i - Len(x)]
    BY <2>0, ConcatProperties DEF Units
  <2> HIDE DEF y
  <2>2. out = y
    BY <1>3 DEF y
  <2> QED
    BY <1>2, <2>1, <2>2
<1>5. \A i \in 1 .. at : out[i] = a[i]
  <2> SUFFICES ASSUME NEW i \in 1 .. at
               PROVE  out[i] = a[i]
    OBVIOUS
  <2>1. i \in 1 .. at + n /\ i \in 1 .. (at + n) + m /\ i <= at /\ i <= at + n
    BY <1>1
  <2> QED
    BY <1>2, <1>4, <2>1
<1>6. \A i \in 1 .. n : out[at + i] = d[i]
  <2> SUFFICES ASSUME NEW i \in 1 .. n
               PROVE  out[at + i] = d[i]
    OBVIOUS
  <2>1. /\ at + i \in 1 .. at + n /\ at + i \in 1 .. (at + n) + m /\ ~(at + i <= at)
        /\ at + i <= at + n /\ (at + i) - at = i
    BY <1>1
  <2> QED
    BY <1>2, <1>4, <2>1
<1>7. \A i \in 1 .. m : out[(at + n) + i] = b[i]
  <2> SUFFICES ASSUME NEW i \in 1 .. m
               PROVE  out[(at + n) + i] = b[i]
    OBVIOUS
  <2>1. /\ (at + n) + i \in 1 .. (at + n) + m /\ ~((at + n) + i <= at + n)
        /\ ((at + n) + i) - (at + n) = i
    BY <1>1
  <2> QED
    BY <1>4, <2>1
<1>8. SubSeq(out, 1, at) = a
  <2>1. out \in Units /\ at \in Nat /\ at <= Len(out)
    BY <1>1, <1>4
  <2> QED
    BY <1>2, <1>5, <2>1, FrontIs
<1>9. SubSeq(out, at + n + 1, Len(out)) = b
  <2> DEFINE j == at + n
  <2>1. j \in Nat /\ Len(out) = j + m
    BY <1>1, <1>4
  <2>2. \A i \in 1 .. m : out[j + i] = b[i]
    BY <1>7
  <2> HIDE DEF j
  <2>3. SubSeq(out, j + 1, Len(out)) = b
    <3>1. out \in Units /\ m = Len(b)
      BY <1>2, <1>4
    <3> QED
      BY <2>1, <2>2, <3>1, BackIs
  <2> QED
    BY <2>3 DEF j
<1> QED
  BY <1>4, <1>5, <1>6, <1>7, <1>8, <1>9 DEF InPieces, out, at, n, m

LEMMA SoundReplies ==
  ASSUME NEW k, Sound(k)
  PROVE  LET queued == FlattenSeq(k.reply)
             n      == IF k.off = 0 THEN 0 ELSE k.off + 1
         IN \E at \in 0 .. Len(k.out) :
              /\ {i \in DOMAIN k.out : IsDump(k.out[i])} = at + 1 .. at + n
              /\ SubSeq(k.out, 1, at) \o SubSeq(k.out, at + n + 1, Len(k.out))
                   \o SubSeq(queued, k.sentlen + 1, Len(queued)) = k.owed
              /\ 0 < k.off /\ k.off < DumpSize => at + n = Len(k.out)
<1> DEFINE n == IF k.off = 0 THEN 0 ELSE k.off + 1
           out == k.out
           rest == Rest(k)
           d == Dump(k.off)
<1>1. Sound(k)
  OBVIOUS
<1>2. PICK pre, post \in Units :
        /\ out = (pre \o d) \o post
        /\ (pre \o post) \o rest = k.owed
        /\ k.repl \in {"wait", "bulk"} => post = <<>>
  BY <1>1 DEF Sound, Ordered
<1>3. out \in Units /\ k.off \in 0 .. DumpSize /\ rest \in Units /\ k.owed \in Units
  <2>1. k.reply \in Seq(Units) /\ k.sentlen \in Nat
    BY <1>1, ConnFields DEF Sound
  <2>2. FlattenSeq(k.reply) \in Units
    BY <2>1, FlattenType
  <2>3. rest \in Units
    BY <2>1, <2>2 DEF Rest, Units
  <2> QED
    BY <1>1, <2>3, ConnFields DEF Sound
<1> DEFINE at == Len(pre)
           m == Len(post)
<1>4. /\ d \in Units /\ Len(d) = n /\ n \in Nat /\ at \in Nat /\ m \in Nat
      /\ \A i \in 1 .. n : IsDump(d[i])
  <2>1. k.off \in Nat
    <3>1. DumpSize \in Nat
      BY ClientsAssumption
    <3> QED
      BY <1>3, <3>1
  <2>2. n \in Nat
    BY <2>1
  <2>3. d \in Units /\ Len(d) = n /\ \A i \in 1 .. Len(d) : IsDump(d[i])
    BY <2>1, DumpIs
  <2>4. at \in Nat /\ m \in Nat
    BY <1>2 DEF Units
  <2> HIDE DEF n, d
  <2> QED
    BY <2>2, <2>3, <2>4
<1> HIDE DEF d, n, at, m, out
<1>5. /\ Len(out) = (at + n) + m
      /\ SubSeq(out, 1, at) = pre /\ SubSeq(out, at + n + 1, Len(out)) = post
      /\ \A i \in 1 .. at : out[i] = pre[i]
      /\ \A i \in 1 .. n : out[at + i] = d[i]
      /\ \A i \in 1 .. m : out[(at + n) + i] = post[i]
  <2>1. out = (pre \o d) \o post
    BY <1>2
  <2>2. pre \in Units /\ d \in Units /\ post \in Units
    BY <1>2, <1>4
  <2>3. at = Len(pre) /\ n = Len(d) /\ m = Len(post)
    BY <1>4 DEF at, m
  <2> HIDE DEF at, m, n, d, out
  <2>4. InPieces(out, pre, d, post)
    BY <2>1, <2>2, Pieces
  <2> QED
    BY <2>3, <2>4 DEF InPieces
<1>6. /\ \A i \in 1 .. at : ~IsDump(pre[i])
      /\ \A i \in 1 .. m : ~IsDump(post[i])
  <2> DEFINE owed == k.owed
             both == pre \o post
  <2>1. NoDump(owed) /\ owed = both \o rest
    BY <1>1, <1>2 DEF Sound, Ordered
  <2>2. both \in Units /\ Len(both) = at + m
        /\ \A i \in 1 .. at + m : both[i] = IF i <= at THEN pre[i] ELSE post[i - at]
    BY <1>2, ConcatProperties DEF Units, at, m
  <2> HIDE DEF both, owed, rest
  <2> DEFINE y == both \o rest
  <2>3. /\ Len(rest) \in Nat /\ Len(owed) = (at + m) + Len(rest)
        /\ \A i \in 1 .. (at + m) + Len(rest) :
             owed[i] = IF i <= at + m THEN both[i] ELSE rest[i - (at + m)]
    <3>1. /\ Len(y) = Len(both) + Len(rest)
          /\ \A i \in 1 .. Len(both) + Len(rest) :
               y[i] = IF i <= Len(both) THEN both[i] ELSE rest[i - Len(both)]
      BY <1>3, <2>2, ConcatProperties DEF Units
    <3>2. Len(rest) \in Nat
      BY <1>3 DEF Units
    <3> HIDE DEF y
    <3>3. owed = y
      BY <2>1 DEF y
    <3> QED
      BY <2>2, <3>1, <3>2, <3>3
  <2>4. \A i \in 1 .. at + m : ~IsDump(both[i])
    BY <1>4, <2>1, <2>3 DEF NoDump
  <2>5. ASSUME NEW i \in 1 .. at
        PROVE  ~IsDump(pre[i])
    <3>1. i \in 1 .. at + m /\ i <= at
      BY <1>4
    <3> QED
      BY <2>2, <2>4, <3>1
  <2>6. ASSUME NEW i \in 1 .. m
        PROVE  ~IsDump(post[i])
    <3>1. at + i \in 1 .. at + m /\ ~(at + i <= at) /\ (at + i) - at = i
      BY <1>4
    <3> QED
      BY <2>2, <2>4, <3>1
  <2> QED
    BY <2>5, <2>6
<1> DEFINE D == {i \in DOMAIN out : IsDump(out[i])}
<1>7. D = at + 1 .. at + n
  <2>1. DOMAIN out = 1 .. (at + n) + m
    BY <1>3, <1>5 DEF Units
  <2> HIDE DEF out
  <2>2. ASSUME NEW i \in 1 .. (at + n) + m
        PROVE  IsDump(out[i]) <=> i \in at + 1 .. at + n
    <3>1. CASE i <= at
      BY <1>4, <1>5, <1>6, <3>1
    <3>2. CASE i \in at + 1 .. at + n
      <4>1. i - at \in 1 .. n /\ at + (i - at) = i
        BY <1>4, <3>2
      <4> QED
        BY <1>4, <1>5, <3>2, <4>1
    <3>3. CASE i > at + n
      <4>1. i - (at + n) \in 1 .. m /\ (at + n) + (i - (at + n)) = i /\ i \notin at + 1 .. at + n
        BY <1>4, <3>3
      <4> QED
        BY <1>5, <1>6, <4>1
    <3> QED
      BY <1>4, <3>1, <3>2, <3>3
  <2>3. \A i \in at + 1 .. at + n : i \in 1 .. (at + n) + m
    BY <1>4
  <2> QED
    BY <2>1, <2>2, <2>3
<1>8. 0 < k.off /\ k.off < DumpSize => at + n = Len(out)
  <2> SUFFICES ASSUME 0 < k.off, k.off < DumpSize
               PROVE  at + n = Len(out)
    OBVIOUS
  <2>1. k.repl \in {"none", "wait", "bulk", "online"}
    <3>1. k \in Conn
      BY <1>1 DEF Sound
    <3> QED
      BY <3>1 DEF Conn
  <2>2. k.repl \in {"wait", "bulk"}
    <3>0. DumpSize \in Nat
      BY ClientsAssumption
    <3>1. k.off # 0 /\ k.off # DumpSize
      BY <1>3, <3>0
    <3>2. /\ k.repl \in {"none", "wait"} => k.off = 0
          /\ k.repl = "online" => k.off = DumpSize
      BY <1>1 DEF Sound, Ordered
    <3> QED
      BY <2>1, <3>1, <3>2
  <2>3. m = 0
    BY <1>2, <2>2 DEF m
  <2> HIDE DEF out
  <2> QED
    BY <1>4, <1>5, <2>3
<1>9. at \in 0 .. Len(out)
  <2> HIDE DEF out
  <2> QED
    BY <1>4, <1>5
<1>10. /\ SubSeq(out, 1, at) \o SubSeq(out, at + n + 1, Len(out)) \o rest = k.owed
  <2> HIDE DEF out, rest
  <2> QED
    BY <1>2, <1>5
<1> QED
  BY <1>7, <1>8, <1>9, <1>10 DEF Rest, n, out

LEMMA InvReplies ==
  ASSUME ClientsInv, ~early
  PROVE  RepliesInOrder
<1>1. \A c \in Open : Sound(cl[c])
  BY OpenSound
<1> QED
  BY <1>1, SoundReplies DEF RepliesInOrder

LEMMA InvEvents ==
  ASSUME ClientsInv
  PROVE  EventsHaveClients
<1> SUFFICES ASSUME ~early
             PROVE  /\ \A e \in ToSet(ev) :
                         e.fd = Listener \/ (e.client \in Open /\ cl[e.client].fd = e.fd)
                    /\ \A c \in Open :
                         LET writers == Cardinality(Writers(State, c))
                         IN /\ Cardinality({i \in DOMAIN ev : ev[i].client = c}) = writers + 1
                            /\ CASE cl[c].repl = "none"   ->
                                        writers = IF cl[c].reply = <<>> THEN 0 ELSE 1
                                 [] cl[c].repl = "wait"   -> writers = 0
                                 [] cl[c].repl = "bulk"   -> writers = 1
                                 [] cl[c].repl = "online" ->
                                        cl[c].reply # <<>> => writers \in 1 .. 2
  BY DEF EventsHaveClients
<1> DEFINE s == State
<1>1. /\ Good(s) /\ OpenIn(s) = Open /\ s.cl = cl /\ s.ev = ev /\ ev \in Seq(FileEvent)
      /\ \A c \in Open : /\ c \in Conns /\ IsOpen(s, c) /\ Sound(cl[c])
                         /\ Fit(cl[c], Count(ev, Kind(c, "writable")))
                         /\ Count(ev, Kind(c, "readable")) = 1
  BY OpenSound
<1> HIDE DEF s
<1>2. DOMAIN ev = 1 .. Len(ev)
  BY <1>1
<1>3. ASSUME NEW e \in ToSet(ev)
      PROVE  e.fd = Listener \/ (e.client \in Open /\ cl[e.client].fd = e.fd)
  <2>1. PICK i \in 1 .. Len(ev) : e = ev[i]
    BY <1>2 DEF ToSet
  <2>2. Known(s, e)
    BY <1>1, <2>1 DEF Good, Sane
  <2>3. CASE e = AcceptEvent
    BY <2>3 DEF AcceptEvent, Event
  <2>4. CASE e.client \in Conns /\ IsOpen(s, e.client) /\ Owned(s.cl[e.client], e.client, e)
    BY <1>1, <2>4 DEF Owned, OpenIn
  <2> QED
    BY <2>2, <2>3, <2>4 DEF Known
<1>4. ASSUME NEW c \in Open
      PROVE  LET writers == Cardinality(Writers(State, c))
             IN /\ Cardinality({i \in DOMAIN ev : ev[i].client = c}) = writers + 1
                /\ CASE cl[c].repl = "none"   -> writers = IF cl[c].reply = <<>> THEN 0 ELSE 1
                     [] cl[c].repl = "wait"   -> writers = 0
                     [] cl[c].repl = "bulk"   -> writers = 1
                     [] cl[c].repl = "online" -> cl[c].reply # <<>> => writers \in 1 .. 2
  <2> DEFINE R == At(ev, Kind(c, "readable"))
             W == At(ev, Kind(c, "writable"))
             A == {i \in DOMAIN ev : ev[i].client = c}
             k == cl[c]
  <2>1. \A i \in DOMAIN ev : ev[i] \in FileEvent /\ ev[i].mask \in {"readable", "writable"}
    <3>1. \A i \in DOMAIN ev : ev[i] \in FileEvent
      <4>1. ev \in Seq(FileEvent)
        BY <1>1
      <4> QED
        BY <4>1
    <3> QED
      BY <3>1 DEF FileEvent
  <2>2. W = Writers(State, c)
    <3>1. State.ev = ev
      BY <1>1 DEF s
    <3> QED
      BY <2>1, <3>1 DEF At, Kind, Writers
  <2>3. A = R \cup W /\ R \cap W = {}
    BY <2>1 DEF At, Kind
  <2> DEFINE n == Cardinality(W)
  <2>4. IsFiniteSet(R) /\ IsFiniteSet(W) /\ n \in Nat /\ Cardinality(R) = 1
    BY <1>1, AtFinite DEF Count
  <2>5. Cardinality(A) = n + 1
    <3> HIDE DEF R, W, A
    <3>1. Cardinality(R \cup W) = Cardinality(R) + Cardinality(W) - Cardinality(R \cap W)
      BY <2>4, FS_Union
    <3>2. Cardinality(R \cap W) = 0
      BY <2>3, FS_EmptySet
    <3> QED
      BY <2>3, <2>4, <3>1, <3>2
  <2>6. Fit(k, n)
    BY <1>1 DEF Count
  <2> HIDE DEF n, k
  <2>11. k.repl \in {"none", "wait", "bulk", "online"}
    BY <1>1 DEF Sound, Conn, k
  <2>12. (CASE k.repl = "none"   -> n = IF k.reply = <<>> THEN 0 ELSE 1
            [] k.repl = "wait"   -> n = 0
            [] k.repl = "bulk"   -> n = 1
            [] k.repl = "online" -> k.reply # <<>> => n \in 1 .. 2)
    <3>1. k.repl = "none" => n = IF k.reply = <<>> THEN 0 ELSE 1
      BY <2>6 DEF Fit
    <3>2. k.repl = "wait" => n = 0
      BY <2>6 DEF Fit
    <3>3. k.repl = "bulk" => n = 1
      BY <2>6 DEF Fit
    <3>4. k.repl = "online" => (k.reply # <<>> => n \in 1 .. 2)
      BY <2>6 DEF Fit
    <3> QED
      BY <2>11, <3>1, <3>2, <3>3, <3>4
  <2> QED
    BY <2>2, <2>5, <2>12 DEF n, k
<1> QED
  BY <1>3, <1>4

-----------------------------------------------------------------------------
(* The theorems.                                                           *)

\* TypeOK.  Of its parts, that two clients never share a descriptor and that there are
\* never more than maxclients of them rest on Accept's order: the event is created,
\* then the clients are counted, then the one too many is freed with its event.
THEOREM ClientsTypes == Spec => [](~early => TypeOK)
<1>1. ClientsInv => (~early => TypeOK)
  BY InvTypes
<1> QED
  BY <1>1, ClientsInvariant, PTL

\* Events die with their client, and a client that has something to be written has an
\* event for it: in every order of commands, replies, saves, time-outs and failures.
THEOREM ClientsEvents == Spec => []EventsHaveClients
<1>1. ClientsInv => EventsHaveClients
  BY InvEvents
<1> QED
  BY <1>1, ClientsInvariant, PTL

\* What select found of a descriptor is handled for the connection it was found of, or
\* not at all: a descriptor that was closed and accepted again meanwhile has no bit.
THEOREM ClientsBits == Spec => [](~early => BitsAreCurrent)
<1>1. ClientsInv => (~early => BitsAreCurrent)
  BY InvBits
<1> QED
  BY <1>1, ClientsInvariant, PTL

\* What a client is written is what it is owed, in order, with the dump in one piece:
\* for any split of the writes, any glueing and any replies queued meanwhile.
THEOREM ClientsReplies == Spec => [](~early => RepliesInOrder)
<1>1. ClientsInv => (~early => RepliesInOrder)
  BY InvReplies
<1> QED
  BY <1>1, ClientsInvariant, PTL

-----------------------------------------------------------------------------
(* What a stream says.                                                     *)

Calls == Seq(Unit \X Units)

\* The word on the first line of a stream, what is behind the line, and behind an
\* argument of n units.
FirstWord(u) == Word(SubSeq(u, 1, LineEnd(u) - 1))
After(u) == SubSeq(u, LineEnd(u) + 1, Len(u))
Past(u, n) == SubSeq(u, n + 3, Len(u))
LengthOf(word) == IF word \in DOMAIN BulkLength THEN BulkLength[word] ELSE -1

\* The argument of a command and what follows; the same for a line.
WithBulk(f, word, n, u) ==
  IF Len(u) < n + 2 THEN <<>> ELSE << <<word, SubSeq(u, 1, n)>> >> \o f[Past(u, n)]
WithLine(f, u) ==
  LET n == LengthOf(FirstWord(u))
  IN IF LineEnd(u) = 0 THEN <<>>
     ELSE IF LineEnd(u) = 1 THEN f[After(u)]
     ELSE IF n \notin 0 .. MaxBulk THEN << <<FirstWord(u), <<>>>> >> \o f[After(u)]
     ELSE WithBulk(f, FirstWord(u), n, After(u))

LEMMA AfterIs ==
  ASSUME NEW u \in Units, LineEnd(u) # 0
  PROVE  After(u) \in Units /\ Len(After(u)) = Len(u) - LineEnd(u) /\ Len(After(u)) < Len(u)
<1> DEFINE p == LineEnd(u)
           n == Len(u)
<1>1. n \in Nat /\ p \in 0 .. n
  <2>1. n \in Nat
    BY DEF Units
  <2> QED
    BY <2>1, LineEndIs
<1>2. p # 0
  OBVIOUS
<1> HIDE DEF p, n
<1>3. p \in Nat /\ n <= n /\ p <= n /\ n - p < n
  BY <1>1, <1>2
<1>4. SubSeq(u, p + 1, n) \in Units /\ Len(SubSeq(u, p + 1, n)) = n - p
  BY <1>1, <1>3, SubUnits DEF n
<1> QED
  BY <1>3, <1>4 DEF After, p, n

LEMMA PastIs ==
  ASSUME NEW u \in Units, NEW n \in Nat, Len(u) >= n + 2
  PROVE  /\ Past(u, n) \in Units /\ Len(Past(u, n)) < Len(u)
         /\ SubSeq(u, 1, n) \in Units
<1> DEFINE m == Len(u)
           a == n + 2
<1>1. m \in Nat
  BY DEF Units
<1>2. a \in Nat /\ a <= m /\ m <= m /\ a + 1 = n + 3 /\ m - a < m /\ n <= m /\ 0 + 1 = 1
  BY <1>1
<1> HIDE DEF m, a
<1>3. SubSeq(u, a + 1, m) \in Units /\ Len(SubSeq(u, a + 1, m)) = m - a
  BY <1>1, <1>2, SubUnits DEF m
<1>4. SubSeq(u, 0 + 1, n) \in Units
  BY <1>2, SubUnits DEF m
<1> QED
  BY <1>2, <1>3, <1>4 DEF Past, m

LEMMA LengthIs ==
  ASSUME NEW n, n \in 0 .. MaxBulk
  PROVE  n \in Nat
<1>1. MaxBulk \in Nat
  BY ClientsAssumption
<1> QED
  BY <1>1

\* What a stream says depends on what shorter ones say.
LEMMA WithLineShorter ==
  ASSUME NEW u \in Units, NEW f, NEW g,
         \A x \in Units : Len(x) < Len(u) => f[x] = g[x]
  PROVE  WithLine(f, u) = WithLine(g, u)
<1> DEFINE w == FirstWord(u)
           n == LengthOf(w)
           r == After(u)
<1>1. CASE LineEnd(u) = 0
  BY <1>1 DEF WithLine
<1>2. CASE LineEnd(u) # 0
  <2>1. r \in Units /\ Len(r) < Len(u) /\ f[r] = g[r]
    BY <1>2, AfterIs
  <2>2. n \in 0 .. MaxBulk => WithBulk(f, w, n, r) = WithBulk(g, w, n, r)
    <3> SUFFICES ASSUME n \in 0 .. MaxBulk
                 PROVE  WithBulk(f, w, n, r) = WithBulk(g, w, n, r)
      OBVIOUS
    <3> HIDE DEF w, n, r
    <3>1. n \in Nat /\ Len(r) \in Nat /\ Len(u) \in Nat
      BY <2>1, LengthIs DEF Units
    <3>2. CASE Len(r) < n + 2
      BY <3>2 DEF WithBulk
    <3>3. CASE ~(Len(r) < n + 2)
      <4> DEFINE x == Past(r, n)
      <4>1. Len(r) >= n + 2
        BY <3>1, <3>3
      <4>2. x \in Units /\ Len(x) < Len(r)
        BY <2>1, <3>1, <4>1, PastIs
      <4>3. Len(x) \in Nat
        BY <4>2 DEF Units
      <4>4. Len(x) < Len(u)
        BY <2>1, <3>1, <4>2, <4>3
      <4>5. f[x] = g[x]
        BY <4>2, <4>4
      <4> QED
        BY <4>5 DEF WithBulk
    <3> QED
      BY <3>2, <3>3
  <2> HIDE DEF w, n, r
  <2> QED
    BY <2>1, <2>2 DEF WithLine, w, n, r
<1> QED
  BY <1>1, <1>2

\* A function that follows the rule on the streams shorter than n.
Follows(f, n) == \A u \in Units : Len(u) < n => f[u] = WithLine(f, u)

LEMMA FollowsExists ==
  ASSUME NEW n \in Nat
  PROVE  \E f : Follows(f, n)
<1> DEFINE Fine == {m \in Nat : \E f : Follows(f, m)}
<1>1. 0 \in Fine
  <2>1. \A u \in Units : ~(Len(u) < 0)
    BY DEF Units
  <2>2. \A f : Follows(f, 0)
    BY <2>1 DEF Follows
  <2> QED
    BY <2>2
<1>2. ASSUME NEW m \in Nat, m \in Fine
      PROVE  m + 1 \in Fine
  <2>1. PICK f : Follows(f, m)
    BY <1>2
  <2> DEFINE g == [u \in Units |-> IF Len(u) < m THEN f[u] ELSE WithLine(f, u)]
  <2>2. ASSUME NEW u \in Units, Len(u) < m + 1
        PROVE  g[u] = WithLine(g, u)
    <3>1. g[u] = WithLine(f, u)
      <4>1. g[u] = IF Len(u) < m THEN f[u] ELSE WithLine(f, u)
        OBVIOUS
      <4>2. Len(u) < m => f[u] = WithLine(f, u)
        BY <2>1 DEF Follows
      <4> HIDE DEF g
      <4> QED
        BY <4>1, <4>2
    <3>2. ASSUME NEW x \in Units, Len(x) < Len(u)
          PROVE  f[x] = g[x]
      <4>1. Len(x) < m
        BY <2>2, <3>2 DEF Units
      <4> QED
        BY <4>1
    <3> HIDE DEF g
    <3> QED
      BY <3>1, <3>2, WithLineShorter
  <2> HIDE DEF g
  <2>3. Follows(g, m + 1)
    BY <2>2 DEF Follows
  <2>4. \E h : Follows(h, m + 1)
    BY <2>3
  <2> QED
    BY <2>4
<1> HIDE DEF Fine
<1>3. n \in Fine
  BY <1>1, <1>2, NatRange
<1> QED
  BY <1>3 DEF Fine

\* Two of them agree on those streams.
LEMMA FollowsAgree ==
  ASSUME NEW n \in Nat, NEW f, NEW g, Follows(f, n), Follows(g, n)
  PROVE  \A u \in Units : Len(u) < n => f[u] = g[u]
<1> DEFINE Fine == {m \in Nat : \A u \in Units : Len(u) < n /\ Len(u) < m => f[u] = g[u]}
<1>1. 0 \in Fine
  <2>1. \A u \in Units : ~(Len(u) < 0)
    BY DEF Units
  <2> QED
    BY <2>1
<1>2. ASSUME NEW m \in Nat, m \in Fine
      PROVE  m + 1 \in Fine
  <2> SUFFICES ASSUME NEW u \in Units, Len(u) < n, Len(u) < m + 1
               PROVE  f[u] = g[u]
    OBVIOUS
  <2>1. f[u] = WithLine(f, u) /\ g[u] = WithLine(g, u)
    BY DEF Follows
  <2>2. ASSUME NEW x \in Units, Len(x) < Len(u)
        PROVE  f[x] = g[x]
    <3>1. Len(x) < n /\ Len(x) < m
      BY <2>2 DEF Units
    <3> QED
      BY <1>2, <3>1
  <2>3. WithLine(f, u) = WithLine(g, u)
    BY <2>2, WithLineShorter
  <2> QED
    BY <2>1, <2>3
<1>3. n \in Fine
  <2> HIDE DEF Fine
  <2> QED
    BY <1>1, <1>2, NatRange
<1> QED
  BY <1>3

LEMMA RuleHasFunction == \E h : h = [u \in Units |-> WithLine(h, u)]
<1> DEFINE Level(n) == CHOOSE f : Follows(f, n)
           h == [u \in Units |-> Level(Len(u) + 1)[u]]
<1>1. \A n \in Nat : Follows(Level(n), n)
  BY FollowsExists
<1> HIDE DEF Level
<1>2. ASSUME NEW u \in Units
      PROVE  h[u] = WithLine(h, u)
  <2> DEFINE n == Len(u)
             f == Level(n + 1)
  <2>1. n \in Nat /\ n < n + 1 /\ n + 1 \in Nat
    BY DEF Units
  <2>2. Follows(f, n + 1)
    BY <1>1, <2>1
  <2>3. h[u] = f[u]
    OBVIOUS
  <2>4. f[u] = WithLine(f, u)
    <3> HIDE DEF f
    <3> QED
      BY <2>1, <2>2 DEF Follows
  <2>5. ASSUME NEW x \in Units, Len(x) < Len(u)
        PROVE  f[x] = h[x]
    <3> DEFINE m == Len(x) + 1
               g == Level(m)
    <3>1. m \in Nat /\ m <= n + 1 /\ Len(x) \in Nat /\ Len(x) < m
      BY <2>1, <2>5 DEF Units
    <3>2. h[x] = g[x]
      OBVIOUS
    <3>3. Follows(g, m)
      BY <1>1, <3>1
    <3> HIDE DEF f, g, h, m, n
    <3>4. Follows(f, m)
      <4>1. \A y \in Units : Len(y) < m => Len(y) < n + 1
        BY <2>1, <3>1 DEF Units
      <4> QED
        BY <2>2, <4>1 DEF Follows
    <3> QED
      BY <3>1, <3>2, <3>3, <3>4, FollowsAgree
  <2> HIDE DEF f, h
  <2>6. WithLine(f, u) = WithLine(h, u)
    BY <2>5, WithLineShorter
  <2> QED
    BY <2>3, <2>4, <2>6
<1>3. h = [u \in Units |-> h[u]]
  OBVIOUS
<1> HIDE DEF h
<1>4. h = [u \in Units |-> WithLine(h, u)]
  BY <1>2, <1>3
<1> QED
  BY <1>4, Zenon

LEMMA ParsedRule ==
  Parsed = [u \in Units |-> WithLine(Parsed, u)]
<1>1. Parsed = CHOOSE h : h = [u \in Units |-> WithLine(h, u)]
  BY DEF Parsed, WithLine, WithBulk, FirstWord, After, Past, LengthOf, Units
<1> QED
  BY <1>1, RuleHasFunction

LEMMA ParsedIs ==
  ASSUME NEW u \in Units
  PROVE  Parsed[u] = WithLine(Parsed, u)
<1> DEFINE P == Parsed
<1>1. P = [x \in Units |-> WithLine(P, x)]
  BY ParsedRule
<1> HIDE DEF P
<1>2. P[u] = WithLine(P, u)
  BY <1>1
<1> QED
  BY <1>2 DEF P

LEMMA OneCall ==
  ASSUME NEW w \in Unit, NEW b \in Units
  PROVE  << <<w, b>> >> \in Calls
<1> DEFINE e == <<w, b>>
<1>1. e \in Unit \X Units
  OBVIOUS
<1>2. Append(<<>>, e) = <<e>> /\ <<>> \in Seq(Unit \X Units)
  OBVIOUS
<1> HIDE DEF e
<1>3. Append(<<>>, e) \in Seq(Unit \X Units)
  BY <1>1, <1>2
<1> QED
  BY <1>2, <1>3 DEF Calls, e

LEMMA CallsConcat ==
  ASSUME NEW a \in Calls, NEW b \in Calls
  PROVE  a \o b \in Calls
BY ConcatProperties DEF Calls

LEMMA CallsAssociative ==
  ASSUME NEW a \in Calls, NEW b \in Calls, NEW d \in Calls
  PROVE  (a \o b) \o d = a \o (b \o d)
BY ConcatAssociative DEF Calls

LEMMA FirstWordIs ==
  ASSUME NEW u \in Units, LineEnd(u) # 0, LineEnd(u) # 1
  PROVE  FirstWord(u) \in Unit
<1> DEFINE p == LineEnd(u)
           n == Len(u)
           m == p - 1
           line == SubSeq(u, 0 + 1, m)
<1>1. n \in Nat
  BY DEF Units
<1>2. p \in 0 .. n
  BY <1>1, LineEndIs
<1>3. p # 0 /\ p # 1
  OBVIOUS
<1> HIDE DEF p, n
<1>4. m \in Nat /\ m # 0 /\ m <= n /\ 0 <= m /\ m - 0 = m
  BY <1>1, <1>2, <1>3
<1> HIDE DEF m
<1>5. line \in Units /\ Len(line) = m
  BY <1>4, SubUnits DEF n
<1>6. FirstWord(u) = Word(line)
  BY DEF FirstWord, m, p
<1> HIDE DEF line
<1>7. line # <<>>
  BY <1>4, <1>5
<1> QED
  BY <1>5, <1>6, <1>7, WordIs

LEMMA WithBulkType ==
  ASSUME NEW f, NEW word \in Unit, NEW n \in Nat, NEW u \in Units,
         \A x \in Units : Len(x) < Len(u) => f[x] \in Calls
  PROVE  WithBulk(f, word, n, u) \in Calls
<1>1. CASE Len(u) < n + 2
  BY <1>1 DEF WithBulk, Calls
<1>2. CASE ~(Len(u) < n + 2)
  <2> DEFINE b == SubSeq(u, 1, n)
             x == Past(u, n)
             a == << <<word, b>> >>
             z == f[x]
  <2>1. Len(u) >= n + 2
    BY <1>2 DEF Units
  <2>2. b \in Units /\ x \in Units /\ Len(x) < Len(u)
    BY <2>1, PastIs
  <2>3. WithBulk(f, word, n, u) = a \o z
    BY <1>2 DEF WithBulk
  <2> HIDE DEF b, x
  <2>4. a \in Calls /\ z \in Calls
    BY <2>2, OneCall
  <2> HIDE DEF a, z
  <2> QED
    BY <2>3, <2>4, CallsConcat
<1> QED
  BY <1>1, <1>2

LEMMA WithLineType ==
  ASSUME NEW f, NEW u \in Units, \A x \in Units : Len(x) < Len(u) => f[x] \in Calls
  PROVE  WithLine(f, u) \in Calls
<1> DEFINE w == FirstWord(u)
           n == LengthOf(w)
           r == After(u)
           empty == <<>>
           a == << <<w, empty>> >>
           z == f[r]
<1>1. empty \in Units /\ empty \in Calls
  BY DEF Units, Calls
<1>2. WithLine(f, u) = IF LineEnd(u) = 0 THEN empty
                       ELSE IF LineEnd(u) = 1 THEN z
                       ELSE IF n \notin 0 .. MaxBulk THEN a \o z
                       ELSE WithBulk(f, w, n, r)
  BY DEF WithLine
<1>3. LineEnd(u) # 0 => r \in Units /\ Len(r) < Len(u) /\ z \in Calls
  BY AfterIs
<1>4. LineEnd(u) # 0 /\ LineEnd(u) # 1 => w \in Unit
  BY FirstWordIs
<1> HIDE DEF w, n, r, empty, z
<1>5. w \in Unit => a \in Calls
  BY <1>1, OneCall
<1> HIDE DEF a
<1>6. ASSUME LineEnd(u) # 0, LineEnd(u) # 1, n \in 0 .. MaxBulk
      PROVE  WithBulk(f, w, n, r) \in Calls
  <2>1. n \in Nat
    BY <1>6, LengthIs
  <2>2. \A x \in Units : Len(x) < Len(r) => f[x] \in Calls
    <3> SUFFICES ASSUME NEW x \in Units, Len(x) < Len(r)
                 PROVE  Len(x) < Len(u)
      OBVIOUS
    <3>1. Len(x) \in Nat /\ Len(r) \in Nat /\ Len(u) \in Nat /\ Len(r) < Len(u)
      BY <1>3, <1>6 DEF Units
    <3> QED
      BY <3>1
  <2> QED
    BY <1>3, <1>4, <1>6, <2>1, <2>2, WithBulkType
<1>7. CASE LineEnd(u) = 0
  BY <1>1, <1>2, <1>7
<1>8. CASE LineEnd(u) = 1
  BY <1>2, <1>3, <1>8
<1>9. CASE LineEnd(u) # 0 /\ LineEnd(u) # 1
  BY <1>2, <1>3, <1>4, <1>5, <1>6, <1>9, CallsConcat
<1> QED
  BY <1>7, <1>8, <1>9

LEMMA ParsedType ==
  ASSUME NEW u \in Units
  PROVE  Parsed[u] \in Calls
<1> DEFINE Fine == {m \in Nat : \A x \in Units : Len(x) < m => Parsed[x] \in Calls}
<1>1. 0 \in Fine
  <2>1. \A x \in Units : ~(Len(x) < 0)
    BY DEF Units
  <2> QED
    BY <2>1
<1>2. ASSUME NEW m \in Nat, m \in Fine
      PROVE  m + 1 \in Fine
  <2> SUFFICES ASSUME NEW x \in Units, Len(x) < m + 1
               PROVE  Parsed[x] \in Calls
    OBVIOUS
  <2>1. ASSUME NEW y \in Units, Len(y) < Len(x)
        PROVE  Parsed[y] \in Calls
    <3>1. Len(y) < m
      BY <2>1 DEF Units
    <3> QED
      BY <1>2, <3>1
  <2>2. WithLine(Parsed, x) \in Calls
    BY <2>1, WithLineType
  <2> QED
    BY <2>2, ParsedIs
<1>3. Len(u) \in Nat /\ Len(u) + 1 \in Nat /\ Len(u) < Len(u) + 1
  BY DEF Units
<1>4. Len(u) + 1 \in Fine
  <2> HIDE DEF Fine
  <2> QED
    BY <1>1, <1>2, <1>3, NatRange
<1> QED
  BY <1>3, <1>4

-----------------------------------------------------------------------------
(* A stream of which more is read.                                         *)

LEMMA SubFront ==
  ASSUME NEW u \in Units, NEW x \in Units, NEW a \in Nat, a <= Len(u)
  PROVE  SubSeq(u \o x, 1, a) = SubSeq(u, 1, a)
<1> DEFINE v == u \o x
           n == Len(u)
           z == 0
<1>1. n \in Nat /\ Len(x) \in Nat /\ a <= n /\ z \in Nat /\ z <= a /\ a - z = a /\ z + 1 = 1
  BY DEF Units
<1>2. /\ v \in Units /\ Len(v) = n + Len(x)
      /\ \A i \in 1 .. n + Len(x) : v[i] = IF i <= n THEN u[i] ELSE x[i - n]
  BY ConcatProperties DEF Units
<1>3. \A i : z + i = 0 + i
  OBVIOUS
<1> HIDE DEF v, z
<1>4. a <= Len(v)
  BY <1>1, <1>2
<1> DEFINE l == SubSeq(v, z + 1, a)
           m == SubSeq(u, z + 1, a)
<1>5. l \in Units /\ Len(l) = a /\ \A i \in 1 .. a : l[i] = v[z + i]
  <2>1. /\ l \in Units /\ Len(l) = IF z <= a THEN a - z ELSE 0
        /\ \A i \in 1 .. a - z : l[i] = v[z + i]
    BY <1>1, <1>2, <1>4, SubUnits
  <2> HIDE DEF l
  <2> QED
    BY <1>1, <2>1
<1>6. m \in Units /\ Len(m) = a /\ \A i \in 1 .. a : m[i] = u[z + i]
  <2>1. /\ m \in Units /\ Len(m) = IF z <= a THEN a - z ELSE 0
        /\ \A i \in 1 .. a - z : m[i] = u[z + i]
    BY <1>1, SubUnits
  <2> HIDE DEF m
  <2> QED
    BY <1>1, <2>1
<1> HIDE DEF l, m
<1>7. \A i \in 1 .. a : l[i] = m[i]
  <2> SUFFICES ASSUME NEW i \in 1 .. a
               PROVE  l[i] = m[i]
    OBVIOUS
  <2>1. z + i \in 1 .. n + Len(x) /\ z + i <= n
    BY <1>1
  <2> QED
    BY <1>2, <1>5, <1>6, <2>1
<1>8. l = m
  BY <1>5, <1>6, <1>7, SeqEqual DEF Units
<1> QED
  BY <1>1, <1>8 DEF l, m, v

LEMMA ConcatIs ==
  ASSUME NEW u \in Units, NEW x \in Units
  PROVE  /\ u \o x \in Units /\ Len(u \o x) = Len(u) + Len(x)
         /\ \A i \in 1 .. Len(u) : i \in 1 .. Len(u \o x) /\ (u \o x)[i] = u[i]
         /\ u \o <<>> = u
<1> DEFINE v == u \o x
<1>1. /\ v \in Units /\ Len(v) = Len(u) + Len(x)
      /\ \A i \in 1 .. Len(u) + Len(x) : v[i] = IF i <= Len(u) THEN u[i] ELSE x[i - Len(u)]
  BY ConcatProperties DEF Units
<1>2. Len(u) \in Nat /\ Len(x) \in Nat
  BY DEF Units
<1>3. u \o <<>> = u
  BY ConcatEmptySeq DEF Units
<1> HIDE DEF v
<1>4. \A i \in 1 .. Len(u) : i \in 1 .. Len(v) /\ v[i] = u[i]
  BY <1>1, <1>2
<1> QED
  BY <1>1, <1>3, <1>4 DEF v

\* The first line stays what it is.
LEMMA LineOfMore ==
  ASSUME NEW u \in Units, NEW x \in Units, LineEnd(u) # 0
  PROVE  /\ LineEnd(u \o x) = LineEnd(u) /\ FirstWord(u \o x) = FirstWord(u)
         /\ After(u \o x) = After(u) \o x
<1> DEFINE v == u \o x
           p == LineEnd(u)
           q == LineEnd(v)
           n == Len(u)
           m == p - 1
<1>1. /\ v \in Units /\ Len(v) = n + Len(x) /\ n \in Nat /\ Len(x) \in Nat
      /\ \A i \in 1 .. n : i \in 1 .. Len(v) /\ v[i] = u[i]
  BY ConcatIs DEF Units
<1>2. p \in 0 .. n /\ p # 0 /\ u[p] = "nl" /\ \A i \in 1 .. p - 1 : u[i] # "nl"
  BY LineEndIs
<1> HIDE DEF v
<1>3. /\ q \in 0 .. Len(v)
      /\ q = 0 <=> \A i \in 1 .. Len(v) : v[i] # "nl"
      /\ q # 0 => v[q] = "nl" /\ \A i \in 1 .. q - 1 : v[i] # "nl"
  BY <1>1, LineEndIs
<1> HIDE DEF p, q
<1>4. p \in 1 .. n /\ p \in 1 .. Len(v) /\ v[p] = "nl"
  <2>1. p \in 1 .. n
    BY <1>1, <1>2
  <2> QED
    BY <1>1, <1>2, <2>1
<1>5. q # 0 /\ q \in 1 .. Len(v)
  BY <1>1, <1>3, <1>4
<1>6. ~(p < q)
  <2> SUFFICES ASSUME p < q
               PROVE  FALSE
    OBVIOUS
  <2>1. p \in 1 .. q - 1
    BY <1>1, <1>4, <1>5
  <2> QED
    BY <1>3, <1>4, <1>5, <2>1
<1>7. ~(q < p)
  <2> SUFFICES ASSUME q < p
               PROVE  FALSE
    OBVIOUS
  <2>1. q \in 1 .. p - 1 /\ q \in 1 .. n
    BY <1>1, <1>4, <1>5
  <2>2. v[q] = "nl" /\ v[q] = u[q]
    BY <1>1, <1>3, <1>5, <2>1
  <2> QED
    BY <1>2, <2>1, <2>2
<1>8. q = p
  BY <1>1, <1>4, <1>5, <1>6, <1>7
<1>9. m \in Nat /\ m <= n /\ p \in Nat /\ p <= n
  BY <1>1, <1>4
<1> HIDE DEF m
<1>10. SubSeq(u \o x, 1, m) = SubSeq(u, 1, m)
  BY <1>9, SubFront DEF n
<1>11. SubSeq(u \o x, p + 1, Len(u \o x)) = SubSeq(u, p + 1, Len(u)) \o x
  BY <1>9, SubConcat DEF n
<1>12. LineEnd(u \o x) = p /\ LineEnd(u) = p
  BY <1>8 DEF p, q, v
<1>13. FirstWord(u \o x) = FirstWord(u)
  BY <1>10, <1>12 DEF FirstWord, m
<1>14. After(u \o x) = After(u) \o x
  BY <1>11, <1>12 DEF After
<1> QED
  BY <1>12, <1>13, <1>14

\* An argument that is complete stays what it is.
LEMMA BulkOfMore ==
  ASSUME NEW u \in Units, NEW x \in Units, NEW n \in Nat, Len(u) >= n + 2
  PROVE  /\ Len(u \o x) >= n + 2 /\ SubSeq(u \o x, 1, n) = SubSeq(u, 1, n)
         /\ Past(u \o x, n) = Past(u, n) \o x
<1> DEFINE a == n + 2
<1>1. Len(u \o x) = Len(u) + Len(x) /\ Len(u) \in Nat /\ Len(x) \in Nat
  BY ConcatIs DEF Units
<1>2. Len(u \o x) >= n + 2
  <2> DEFINE v == u \o x
  <2> HIDE DEF v
  <2>1. Len(v) = Len(u) + Len(x)
    BY <1>1 DEF v
  <2>2. Len(v) >= n + 2
    BY <1>1, <2>1
  <2> QED
    BY <2>2 DEF v
<1>3. a \in Nat /\ a <= Len(u) /\ n <= Len(u) /\ a + 1 = n + 3
  BY <1>1
<1> HIDE DEF a
<1>4. SubSeq(u \o x, 1, n) = SubSeq(u, 1, n)
  BY <1>3, SubFront
<1>5. SubSeq(u \o x, a + 1, Len(u \o x)) = SubSeq(u, a + 1, Len(u)) \o x
  BY <1>3, SubConcat
<1> QED
  BY <1>2, <1>3, <1>4, <1>5 DEF Past

-----------------------------------------------------------------------------
(* What a connection has executed of a stream, and what it will.           *)

\* What its buffer and x after it say.
From(k, x) ==
  IF k.bulklen = -1 THEN Parsed[k.querybuf \o x]
  ELSE WithBulk(Parsed, k.argv, k.bulklen - 2, k.querybuf \o x)

Says(k, x) == k.executed \o From(k, x)

\* Wherever what was received is cut, it and what follows say the same.
Cut(k) == k.bulk = <<>> /\ \A x \in Units : Parsed[k.received \o x] = Says(k, x)
Quiet(k) == k.held \/ From(k, <<>>) = <<>>

\* What a word and the stream behind its line say.
OfWord(word, u) ==
  IF LengthOf(word) \notin 0 .. MaxBulk THEN << <<word, <<>>>> >> \o Parsed[u]
  ELSE WithBulk(Parsed, word, LengthOf(word), u)

LEMMA ParsedOfWord ==
  ASSUME NEW u \in Units
  PROVE  Parsed[u] = IF LineEnd(u) = 0 THEN <<>>
                     ELSE IF LineEnd(u) = 1 THEN Parsed[After(u)]
                     ELSE OfWord(FirstWord(u), After(u))
<1>1. Parsed[u] = WithLine(Parsed, u)
  BY ParsedIs
<1>2. WithLine(Parsed, u) = IF LineEnd(u) = 0 THEN <<>>
                            ELSE IF LineEnd(u) = 1 THEN Parsed[After(u)]
                            ELSE OfWord(FirstWord(u), After(u))
  BY DEF WithLine, OfWord
<1> QED
  BY <1>1, <1>2

LEMMA BufferLength ==
  ASSUME NEW k \in Conn
  PROVE  Len(k.querybuf) \in Nat
<1>1. k.querybuf \in Units
  BY ConnFields
<1> QED
  BY <1>1 DEF Units

\* An argument of n units has been taken from the buffer of k.
Taking(k, n, t) ==
  /\ n \in Nat /\ Len(k.querybuf) >= n + 2
  /\ t.querybuf = Past(k.querybuf, n) /\ t.argv = k.argv
  /\ t.bulk = SubSeq(k.querybuf, 1, n) /\ t.executed = k.executed

LEMMA ExecutedSays ==
  ASSUME NEW k \in Conn, NEW l \in Conn, Executed(k, l), NEW x \in Units
  PROVE  Says(l, x) = k.executed \o (<< <<k.argv, k.bulk>> >> \o Parsed[k.querybuf \o x])
<1> DEFINE e == <<k.argv, k.bulk>>
           a == <<e>>
           done == k.executed
           u == k.querybuf \o x
           p == Parsed[u]
<1>1. k.querybuf \in Units /\ k.argv \in Unit /\ k.bulk \in Units /\ done \in Calls
  BY ConnFields DEF Calls
<1>2. a \in Calls
  BY <1>1, OneCall
<1>3. u \in Units
  BY <1>1, ConcatIs
<1>4. p \in Calls
  <2> HIDE DEF u
  <2> QED
    BY <1>3, ParsedType
<1>5. l.executed = Append(done, e) /\ l.bulklen = -1 /\ l.querybuf = k.querybuf
  BY DEF Executed
<1>6. From(l, x) = p
  BY <1>5 DEF From
<1> HIDE DEF p, u, done
<1>7. Append(done, e) = done \o a
  <2>1. e \in Unit \X Units
    BY <1>1
  <2> HIDE DEF e
  <2> QED
    BY <1>1, <2>1, AppendIsConcat DEF Calls
<1> HIDE DEF a, e
<1>8. Says(l, x) = (done \o a) \o p
  BY <1>5, <1>6, <1>7 DEF Says
<1>9. (done \o a) \o p = done \o (a \o p)
  BY <1>1, <1>2, <1>4, CallsAssociative
<1> QED
  BY <1>8, <1>9 DEF done, a, e, p, u

\* An argument of n units is complete in the buffer of k.
SaysBulk(k, n, x) == k.executed \o WithBulk(Parsed, k.argv, n, k.querybuf \o x)

LEMMA BulkSays ==
  ASSUME NEW k \in Conn, NEW t \in Conn, NEW l \in Conn, NEW x \in Units,
         NEW n, Taking(k, n, t), Executed(t, l)
  PROVE  Says(l, x) = SaysBulk(k, n, x)
<1> DEFINE q == k.querybuf
           u == q \o x
           b == SubSeq(q, 1, n)
<1>0. n \in Nat /\ Len(q) >= n + 2
  BY DEF Taking
<1>1. q \in Units
  BY ConnFields
<1>2. Len(u) >= n + 2 /\ SubSeq(u, 1, n) = b /\ Past(u, n) = Past(q, n) \o x /\ Len(u) \in Nat
  <2>1. u \in Units
    BY <1>1, ConcatIs
  <2> HIDE DEF q
  <2>2. Len(u) >= n + 2 /\ SubSeq(u, 1, n) = b /\ Past(u, n) = Past(q, n) \o x
    BY <1>0, <1>1, BulkOfMore
  <2> HIDE DEF u
  <2>3. Len(u) \in Nat
    BY <2>1 DEF Units
  <2> QED
    BY <2>2, <2>3
<1>3. Says(l, x) = t.executed \o (<< <<t.argv, t.bulk>> >> \o Parsed[t.querybuf \o x])
  BY ExecutedSays
<1>4. Says(l, x) = k.executed \o (<< <<k.argv, b>> >> \o Parsed[Past(q, n) \o x])
  <2>1. t.executed = k.executed /\ t.argv = k.argv /\ t.bulk = b /\ t.querybuf = Past(q, n)
    BY DEF Taking
  <2> HIDE DEF b, q
  <2> QED
    BY <1>3, <2>1
<1> HIDE DEF q, u, b
<1>5. ~(Len(u) < n + 2)
  BY <1>0, <1>2
<1>6. WithBulk(Parsed, k.argv, n, u) = << <<k.argv, b>> >> \o Parsed[Past(q, n) \o x]
  BY <1>2, <1>5 DEF WithBulk
<1> QED
  BY <1>4, <1>6 DEF SaysBulk, u, q

LEMMA TakenParts ==
  ASSUME NEW k \in Conn, NEW n \in 0 .. MaxBulk, k.bulklen = n + 2,
         Len(k.querybuf) >= n + 2, NEW held \in BOOLEAN
  PROVE  LET t == Reading(k, Left(k), k.argv, Taken(k), k.bulklen, held)
         IN /\ t \in Conn /\ Taking(k, n, t) /\ t.received = k.received /\ t.held = held
            /\ t.bulklen = k.bulklen /\ Len(t.querybuf) < Len(k.querybuf)
<1> DEFINE q == k.querybuf
           t == Reading(k, Left(k), k.argv, Taken(k), k.bulklen, held)
<1>1. q \in Units /\ k.argv \in Unit /\ k.bulklen \in Int
  BY ConnFields
<1>2. n \in Nat
  BY LengthIs
<1>3. (n + 2) - 2 = n /\ (n + 2) + 1 = n + 3
  BY <1>2
<1>4. Taken(k) = SubSeq(q, 1, n)
  BY <1>3 DEF Taken
<1>5. Left(k) = Past(q, n)
  BY <1>3 DEF Left, Past
<1>6. Past(q, n) \in Units /\ Len(Past(q, n)) < Len(q) /\ SubSeq(q, 1, n) \in Units
  BY <1>1, <1>2, PastIs
<1>7. Taken(k) \in Units /\ Left(k) \in Units
  BY <1>4, <1>5, <1>6
<1>8. /\ t \in Conn /\ t.querybuf = Left(k) /\ t.argv = k.argv /\ t.bulk = Taken(k)
      /\ t.held = held /\ t.received = k.received /\ t.executed = k.executed
      /\ t.bulklen = k.bulklen
  BY <1>1, <1>7, ReadingIs
<1> HIDE DEF t, q
<1>9. Len(t.querybuf) < Len(q)
  BY <1>5, <1>6, <1>8
<1> QED
  BY <1>4, <1>5, <1>8, <1>9 DEF Taking, q, t

\* An empty buffer says nothing.
LEMMA EmptySays ==
  ASSUME NEW k, k.querybuf = <<>>, k.bulklen = -1
  PROVE  From(k, <<>>) = <<>>
<1> DEFINE empty == <<>>
<1>1. empty \in Units /\ empty \o empty = empty /\ Len(empty) = 0
  BY DEF Units
<1>2. k.querybuf = empty
  OBVIOUS
<1> HIDE DEF empty
<1>3. LineEnd(empty) = 0
  <2>1. LineEnd(empty) \in 0 .. Len(empty)
    BY <1>1, LineEndIs
  <2> QED
    BY <1>1, <2>1
<1>4. Parsed[empty] = <<>>
  BY <1>1, <1>3, ParsedOfWord
<1>5. From(k, empty) = Parsed[k.querybuf \o empty]
  BY DEF From
<1>6. From(k, empty) = <<>>
  BY <1>1, <1>2, <1>4, <1>5
<1> QED
  BY <1>6 DEF empty

LEMMA ProcessedSays ==
  ASSUME NEW k \in Conn, k.bulk = <<>>, k.bulklen = -1, NEW l \in Conn, Processed(k, l)
  PROVE  /\ l.bulk = <<>> /\ l.received = k.received /\ l.held = k.held
         /\ Len(l.querybuf) <= Len(k.querybuf)
         /\ \A x \in Units : Says(l, x) = k.executed \o OfWord(k.argv, k.querybuf \o x)
         /\ l.querybuf = <<>> => From(l, <<>>) = <<>>
<1> DEFINE w == k.argv
           n == LengthOf(w)
           q == k.querybuf
           m == Reading(k, q, w, k.bulk, n + 2, k.held)
           t == Took(m)
<1>1. q \in Units /\ w \in Unit /\ k.bulk \in Units /\ k.held \in BOOLEAN /\ Len(q) \in Nat
  BY ConnFields DEF Conn, Units
<1>2. Length(k) = n
  BY DEF Length, LengthOf
<1>3. w \notin DOMAIN BulkLength => n \notin 0 .. MaxBulk
  BY DEF LengthOf
<1>4. IF n \notin 0 .. MaxBulk THEN Executed(k, l)
      ELSE IF Len(q) >= n + 2 THEN Executed(t, l)
      ELSE l = m
  BY <1>2, <1>3 DEF Processed
<1>5. \A x \in Units : q \o x \in Units
  BY <1>1, ConcatIs
<1>6. q = <<>> /\ l.bulklen = -1 /\ l.querybuf = q => From(l, <<>>) = <<>>
  BY EmptySays
<1>7. CASE n \notin 0 .. MaxBulk
  <2>1. Executed(k, l)
    BY <1>4, <1>7
  <2>2. l.bulk = <<>> /\ l.received = k.received /\ l.held = k.held /\ l.querybuf = q /\ l.bulklen = -1
    BY <2>1 DEF Executed
  <2>3. ASSUME NEW x \in Units
        PROVE  Says(l, x) = k.executed \o OfWord(w, q \o x)
    <3>1. Says(l, x) = k.executed \o (<< <<k.argv, k.bulk>> >> \o Parsed[k.querybuf \o x])
      BY <2>1, ExecutedSays
    <3>2. OfWord(w, q \o x) = << <<w, k.bulk>> >> \o Parsed[q \o x]
      BY <1>7 DEF OfWord
    <3> QED
      BY <3>1, <3>2
  <2> HIDE DEF q
  <2>4. Len(l.querybuf) <= Len(q)
    BY <1>1, <2>2
  <2>5. l.querybuf = <<>> => From(l, <<>>) = <<>>
    BY <1>6, <2>2
  <2> QED
    BY <2>2, <2>3, <2>4, <2>5 DEF q
<1>8. CASE n \in 0 .. MaxBulk
  <2>1. n \in Nat /\ n + 2 \in Int /\ (n + 2) - 2 = n /\ n + 2 # -1
    <3> HIDE DEF n
    <3>1. n \in Nat
      BY <1>8, LengthIs
    <3> QED
      BY <3>1
  <2>2. /\ m \in Conn /\ m.querybuf = q /\ m.argv = w /\ m.bulk = k.bulk /\ m.bulklen = n + 2
        /\ m.held = k.held /\ m.received = k.received /\ m.executed = k.executed
    <3> HIDE DEF n, q, w
    <3> QED
      BY <1>1, <2>1, ReadingIs DEF q, w
  <2>3. \A x \in Units : OfWord(w, q \o x) = WithBulk(Parsed, w, n, q \o x)
    BY <1>8 DEF OfWord
  <2> HIDE DEF n, m
  <2>4. CASE Len(q) >= n + 2
    <3>1. Executed(t, l)
      BY <1>4, <1>8, <2>4
    <3>2. /\ t \in Conn /\ Taking(m, n, t) /\ t.received = m.received /\ t.held = m.held
          /\ Len(t.querybuf) < Len(m.querybuf)
      <4>1. Len(m.querybuf) >= n + 2 /\ m.held \in BOOLEAN
        BY <1>1, <2>2, <2>4
      <4> QED
        BY <1>8, <2>2, <4>1, TakenParts DEF Took
    <3> HIDE DEF t
    <3>3. /\ l.bulk = <<>> /\ l.received = k.received /\ l.held = k.held
          /\ l.querybuf = t.querybuf /\ l.bulklen = -1
      BY <2>2, <3>1, <3>2 DEF Executed
    <3>4. ASSUME NEW x \in Units
          PROVE  Says(l, x) = k.executed \o OfWord(w, q \o x)
      <4>1. m \in Conn /\ t \in Conn /\ Taking(m, n, t)
        BY <2>2, <3>2
      <4>2. Says(l, x) = SaysBulk(m, n, x)
        BY <3>1, <4>1, BulkSays
      <4> QED
        BY <2>2, <2>3, <4>2 DEF SaysBulk
    <3>5. Len(l.querybuf) <= Len(q)
      <4>1. Len(t.querybuf) \in Nat
        BY <3>2, ConnFields DEF Units
      <4> HIDE DEF q
      <4> QED
        BY <1>1, <2>2, <3>2, <3>3, <4>1
    <3>6. l.querybuf = <<>> => From(l, <<>>) = <<>>
      BY <3>3, EmptySays
    <3> QED
      BY <3>3, <3>4, <3>5, <3>6
  <2>5. CASE ~(Len(q) >= n + 2)
    <3>1. l = m
      BY <1>4, <1>8, <2>5
    <3>2. ASSUME NEW x \in Units
          PROVE  Says(l, x) = k.executed \o OfWord(w, q \o x)
      <4>1. From(m, x) = WithBulk(Parsed, w, n, q \o x)
        BY <2>1, <2>2 DEF From
      <4> QED
        BY <2>2, <2>3, <3>1, <4>1 DEF Says
    <3>3. l.querybuf = <<>> => From(l, <<>>) = <<>>
      <4> SUFFICES ASSUME q = <<>>
                   PROVE  From(m, <<>>) = <<>>
        BY <2>2, <3>1
      <4>1. q \o <<>> = q /\ Len(q) = 0
        BY <1>1, ConcatIs
      <4>2. From(m, <<>>) = WithBulk(Parsed, w, n, q)
        BY <2>1, <2>2, <4>1 DEF From
      <4>3. Len(q) < n + 2
        BY <2>1, <4>1
      <4> HIDE DEF q
      <4> QED
        BY <4>2, <4>3 DEF WithBulk
    <3>4. Len(l.querybuf) <= Len(q)
      BY <1>1, <2>2, <3>1
    <3> QED
      BY <2>2, <3>1, <3>2, <3>3, <3>4
  <2> QED
    BY <2>4, <2>5
<1> QED
  BY <1>7, <1>8

LEMMA LineLength ==
  ASSUME NEW u \in Units, LineEnd(u) # 0
  PROVE  SubSeq(u, 1, LineEnd(u) - 1) = <<>> <=> LineEnd(u) = 1
<1> DEFINE p == LineEnd(u)
           n == Len(u)
           m == p - 1
           line == SubSeq(u, 0 + 1, m)
<1>1. n \in Nat
  BY DEF Units
<1>2. p \in 0 .. n
  BY <1>1, LineEndIs
<1>3. p # 0
  OBVIOUS
<1> HIDE DEF p, n
<1>4. m \in Nat /\ m <= n /\ 0 <= m /\ m - 0 = m /\ (m = 0 <=> p = 1)
  BY <1>1, <1>2, <1>3
<1> HIDE DEF m
<1>5. line \in Units /\ Len(line) = m
  BY <1>4, SubUnits DEF n
<1>6. SubSeq(u, 1, LineEnd(u) - 1) = line
  BY DEF m, p
<1> HIDE DEF line
<1>7. line = <<>> <=> m = 0
  BY <1>4, <1>5, EmptySeq DEF Units
<1> QED
  BY <1>4, <1>6, <1>7 DEF p

\* A turn of readQueryFromClient changes what has been executed, but not what it makes
\* with what the buffer says.
TurnSays(k, l, again) ==
  /\ l.bulk = <<>> /\ l.received = k.received
  /\ \A x \in Units : Says(l, x) = Says(k, x)
  /\ again => l.querybuf # <<>> /\ Len(l.querybuf) < Len(k.querybuf)
  /\ ~again => Quiet(l)

LEMMA WaitingSays ==
  ASSUME NEW k \in Conn, k.bulk = <<>>, From(k, <<>>) = <<>>
  PROVE  TurnSays(k, k, FALSE)
BY DEF TurnSays, Quiet

LEMMA BulkTurn ==
  ASSUME NEW k \in Conn, k.bulk = <<>>, k.bulklen \in 2 .. MaxBulk + 2,
         NEW l \in Conn, NEW again \in BOOLEAN, Turned(k, l, again)
  PROVE  TurnSays(k, l, again)
<1> DEFINE q == k.querybuf
           n == k.bulklen - 2
           h == Held(k)
           t == Took(h)
<1>1. q \in Units /\ k.argv \in Unit /\ k.bulk \in Units /\ Len(q) \in Nat /\ k.bulklen \in Int
  BY ConnFields DEF Units
<1>2. n \in 0 .. MaxBulk /\ n \in Nat /\ k.bulklen = n + 2 /\ k.bulklen # -1
  <2>1. MaxBulk \in Nat
    BY ClientsAssumption
  <2> QED
    BY <2>1
<1> HIDE DEF n
<1>3. ~again /\ IF Len(q) < k.bulklen THEN l = k ELSE Processed(t, l)
  BY <1>2 DEF Turned
<1>4. \A x \in Units : From(k, x) = WithBulk(Parsed, k.argv, n, q \o x)
  BY <1>2 DEF From, n
<1>5. CASE Len(q) < k.bulklen
  <2>1. <<>> \in Units /\ q \o <<>> = q
    BY <1>1, ConcatIs DEF Units
  <2>2. From(k, <<>>) = WithBulk(Parsed, k.argv, n, q)
    BY <1>4, <2>1
  <2>3. Len(q) < n + 2
    BY <1>2, <1>5
  <2>4. From(k, <<>>) = <<>>
    BY <2>2, <2>3 DEF WithBulk
  <2>5. l = k /\ again = FALSE
    BY <1>3, <1>5
  <2> QED
    BY <2>4, <2>5, WaitingSays
<1>6. CASE ~(Len(q) < k.bulklen)
  <2>1. Len(q) >= n + 2
    BY <1>1, <1>2, <1>6
  <2>2. /\ h \in Conn /\ h.querybuf = q /\ h.argv = k.argv /\ h.bulklen = k.bulklen
        /\ h.held = TRUE /\ h.received = k.received /\ h.executed = k.executed
    <3> DEFINE yes == TRUE
    <3>1. yes \in BOOLEAN /\ h = Reading(k, q, k.argv, k.bulk, k.bulklen, yes)
      BY DEF Held
    <3> HIDE DEF q, h, yes
    <3>2. /\ h \in Conn /\ h.querybuf = q /\ h.argv = k.argv /\ h.bulklen = k.bulklen
          /\ h.held = yes /\ h.received = k.received /\ h.executed = k.executed
      BY <1>1, <3>1, ReadingIs
    <3> QED
      BY <3>2 DEF yes
  <2> HIDE DEF h
  <2>3. /\ t \in Conn /\ Taking(h, n, t) /\ t.received = h.received /\ t.held = h.held
        /\ t.bulklen = h.bulklen
    <3>1. h.bulklen = n + 2 /\ Len(h.querybuf) >= n + 2 /\ h.held \in BOOLEAN
      BY <1>2, <2>1, <2>2
    <3>2. n \in 0 .. MaxBulk /\ h \in Conn
      BY <1>2, <2>2
    <3> QED
      BY <3>1, <3>2, TakenParts DEF Took
  <2>4. t.bulklen = k.bulklen
    BY <2>2, <2>3
  <2> HIDE DEF t
  <2>5. Executed(t, l)
    <3>1. Processed(t, l)
      BY <1>3, <1>6
    <3> QED
      BY <1>2, <2>4, <3>1 DEF Processed
  <2>6. l.bulk = <<>> /\ l.received = k.received /\ l.held = TRUE
    BY <2>2, <2>3, <2>5 DEF Executed
  <2>7. ASSUME NEW x \in Units
        PROVE  Says(l, x) = Says(k, x)
    <3>1. Says(l, x) = SaysBulk(h, n, x)
      <4>1. h \in Conn /\ t \in Conn /\ Taking(h, n, t)
        BY <2>2, <2>3
      <4> QED
        BY <2>5, <4>1, BulkSays
    <3> QED
      BY <1>4, <2>2, <3>1 DEF Says, SaysBulk
  <2> QED
    BY <1>3, <2>6, <2>7 DEF TurnSays, Quiet
<1> QED
  BY <1>5, <1>6

LEMMA BehindRead ==
  ASSUME NEW k \in Conn, NEW l, NEW b, NEW held,
         l = Reading(k, b, k.argv, k.bulk, k.bulklen, held)
  PROVE  /\ l.querybuf = b /\ l.bulk = k.bulk /\ l.bulklen = k.bulklen /\ l.held = held
         /\ l.received = k.received /\ l.executed = k.executed
BY DEF Reading, Conn

LEMMA LineTurn ==
  ASSUME NEW k \in Conn, k.bulk = <<>>, k.bulklen = -1,
         NEW l \in Conn, NEW again \in BOOLEAN, Turned(k, l, again)
  PROVE  TurnSays(k, l, again)
<1> DEFINE q == k.querybuf
           b == Behind(k)
           w == Word(Line(k))
           r == Reading(k, b, w, k.bulk, k.bulklen, k.held)
           empty == <<>>
<1>1. /\ q \in Units /\ k.argv \in Unit /\ k.bulk \in Units /\ Len(q) \in Nat
      /\ k.bulklen \in Int /\ k.held \in BOOLEAN
  BY ConnFields DEF Units, Conn
<1>2. \A x \in Units : q \o x \in Units /\ Says(k, x) = k.executed \o Parsed[q \o x]
  BY <1>1, ConcatIs DEF Says, From
<1>3. CASE LineEnd(q) = 0
  <2>1. l = k /\ again = FALSE
    BY <1>3 DEF Turned
  <2>2. empty \in Units /\ q \o empty = q
    BY <1>1, ConcatIs DEF Units
  <2>3. Parsed[q] = empty
    BY <1>1, <1>3, ParsedOfWord
  <2>4. From(k, empty) = empty
    <3> HIDE DEF empty
    <3> QED
      BY <2>2, <2>3 DEF From
  <2> QED
    BY <2>1, <2>4, WaitingSays
<1>4. ASSUME LineEnd(q) # 0
      PROVE  /\ b \in Units /\ Line(k) \in Units /\ b = After(q) /\ Len(b) < Len(q)
             /\ Line(k) = <<>> <=> LineEnd(q) = 1
             /\ w = FirstWord(q)
             /\ \A x \in Units : /\ LineEnd(q \o x) = LineEnd(q)
                                 /\ FirstWord(q \o x) = w /\ After(q \o x) = b \o x
  <2>1. b \in Units /\ Line(k) \in Units
    BY <1>4, LineIs
  <2>2. b = After(q) /\ w = FirstWord(q)
    BY DEF Behind, After, Line, FirstWord
  <2>3. Line(k) = <<>> <=> LineEnd(q) = 1
    BY <1>1, <1>4, LineLength DEF Line
  <2>4. Len(After(q)) < Len(q)
    BY <1>1, <1>4, AfterIs
  <2>5. \A x \in Units : /\ LineEnd(q \o x) = LineEnd(q)
                         /\ FirstWord(q \o x) = FirstWord(q) /\ After(q \o x) = After(q) \o x
    BY <1>1, <1>4, LineOfMore
  <2> QED
    BY <2>1, <2>2, <2>3, <2>4, <2>5
<1>5. CASE LineEnd(q) = 1
  <2>1. l = Reading(k, b, k.argv, k.bulk, k.bulklen, TRUE) /\ ~again
    BY <1>4, <1>5 DEF Turned
  <2>2. /\ l.querybuf = b /\ l.bulk = k.bulk /\ l.bulklen = k.bulklen /\ l.held = TRUE
        /\ l.received = k.received /\ l.executed = k.executed
    <3> DEFINE yes == TRUE
    <3>1. yes \in BOOLEAN /\ l = Reading(k, b, k.argv, k.bulk, k.bulklen, yes)
      BY <2>1
    <3> HIDE DEF b, yes
    <3>2. /\ l.querybuf = b /\ l.bulk = k.bulk /\ l.bulklen = k.bulklen /\ l.held = yes
          /\ l.received = k.received /\ l.executed = k.executed
      BY <3>1, BehindRead
    <3> QED
      BY <3>2 DEF yes
  <2>3. ASSUME NEW x \in Units
        PROVE  Says(l, x) = Says(k, x)
    <3>1. Parsed[q \o x] = Parsed[b \o x]
      <4> DEFINE u == q \o x
      <4>0. LineEnd(q) # 0
        BY <1>5
      <4>1. u \in Units /\ LineEnd(u) = 1 /\ LineEnd(u) # 0 /\ After(u) = b \o x
        BY <1>2, <1>4, <1>5, <4>0
      <4> HIDE DEF u, b
      <4>2. Parsed[u] = Parsed[After(u)]
        BY <4>1, ParsedOfWord
      <4> QED
        BY <4>1, <4>2 DEF u
    <3> DEFINE p == Parsed[b \o x]
               e == k.executed
    <3>2. l.executed = e /\ From(l, x) = p
      BY <2>2 DEF From
    <3>3. Says(l, x) = l.executed \o From(l, x)
      BY DEF Says
    <3>4. Says(k, x) = e \o Parsed[q \o x]
      BY <1>2
    <3> HIDE DEF b, e, p, q
    <3>5. Parsed[q \o x] = p
      BY <3>1 DEF p
    <3> QED
      BY <3>2, <3>3, <3>4, <3>5
  <2> QED
    BY <2>1, <2>2, <2>3 DEF TurnSays, Quiet
<1>6. CASE LineEnd(q) # 0 /\ LineEnd(q) # 1
  <2>1. Processed(r, l) /\ (again <=> l.querybuf # <<>>)
    BY <1>4, <1>6 DEF Turned
  <2>2. w \in Unit
    BY <1>1, <1>4, <1>6, FirstWordIs
  <2>3. /\ r \in Conn /\ r.querybuf = b /\ r.argv = w /\ r.bulk = k.bulk
        /\ r.bulklen = k.bulklen /\ r.held = k.held /\ r.received = k.received
        /\ r.executed = k.executed
    <3> HIDE DEF b, w
    <3> QED
      BY <1>1, <1>4, <1>6, <2>2, ReadingIs
  <2> HIDE DEF r
  <2>4. /\ l.bulk = <<>> /\ l.received = r.received /\ l.held = r.held
        /\ Len(l.querybuf) <= Len(r.querybuf)
        /\ \A x \in Units : Says(l, x) = r.executed \o OfWord(r.argv, r.querybuf \o x)
        /\ l.querybuf = <<>> => From(l, <<>>) = <<>>
    BY <2>1, <2>3, ProcessedSays
  <2>5. ASSUME NEW x \in Units
        PROVE  Says(l, x) = Says(k, x)
    <3>1. Parsed[q \o x] = OfWord(w, b \o x)
      <4> DEFINE u == q \o x
      <4>1. /\ u \in Units /\ LineEnd(u) # 0 /\ LineEnd(u) # 1
            /\ FirstWord(u) = w /\ After(u) = b \o x
        BY <1>2, <1>4, <1>6
      <4> HIDE DEF u, b, w
      <4>2. Parsed[u] = OfWord(FirstWord(u), After(u))
        BY <4>1, ParsedOfWord
      <4> QED
        BY <4>1, <4>2 DEF u
    <3>2. Says(l, x) = r.executed \o OfWord(r.argv, r.querybuf \o x)
      BY <2>4
    <3>3. r.executed = k.executed /\ r.argv = w /\ r.querybuf = b
      BY <2>3
    <3>4. Says(k, x) = k.executed \o Parsed[q \o x]
      BY <1>2
    <3> HIDE DEF b, q, w
    <3> QED
      BY <3>1, <3>2, <3>3, <3>4
  <2>6. Len(l.querybuf) < Len(q)
    <3>1. Len(l.querybuf) \in Nat /\ Len(b) \in Nat
      <4>1. b \in Units
        BY <1>4, <1>6
      <4> HIDE DEF b
      <4> QED
        BY <4>1, BufferLength DEF Units
    <3> HIDE DEF q, b
    <3> QED
      BY <1>1, <1>4, <1>6, <2>3, <2>4, <3>1
  <2> QED
    BY <2>1, <2>3, <2>4, <2>5, <2>6 DEF TurnSays, Quiet
<1> QED
  BY <1>3, <1>5, <1>6

LEMMA TurnedSays ==
  ASSUME NEW k, Sound(k), Cut(k), NEW l \in Conn, NEW again \in BOOLEAN, Turned(k, l, again)
  PROVE  TurnSays(k, l, again) /\ Cut(l)
<1>1. k \in Conn /\ k.bulk = <<>> /\ (k.bulklen = -1 \/ k.bulklen \in 2 .. MaxBulk + 2)
  BY DEF Sound, Sized, Cut
<1>2. TurnSays(k, l, again)
  BY <1>1, BulkTurn, LineTurn
<1>3. Cut(l)
  BY <1>2 DEF TurnSays, Cut
<1> QED
  BY <1>2, <1>3

LEMMA ReadingsStep ==
  ASSUME NEW f, NEW s, NEW c, NEW n \in Nat, Readings(f, s, c, n), NEW i \in Nat, i + 1 <= n
  PROVE  f[i + 1] = IF f[i].again THEN Turn(f[i].s, c) ELSE f[i]
<1> DEFINE j == i + 1
<1>1. j \in 0 .. n /\ j # 0 /\ j - 1 = i
  OBVIOUS
<1> HIDE DEF j
<1>2. f = [m \in 0 .. n |-> IF m = 0 THEN [s |-> s, again |-> TRUE]
                             ELSE IF f[m - 1].again THEN Turn(f[m - 1].s, c) ELSE f[m - 1]]
  BY DEF Readings
<1>3. f[j] = IF j = 0 THEN [s |-> s, again |-> TRUE]
             ELSE IF f[j - 1].again THEN Turn(f[j - 1].s, c) ELSE f[j - 1]
  BY <1>1, <1>2
<1> QED
  BY <1>1, <1>3 DEF j

\* Every turn that leads to another has taken a line from the buffer.
LEMMA ReadingsSay ==
  ASSUME NEW s, Good(s), NEW c \in Conns, IsOpen(s, c), Cut(s.cl[c]), s.cl[c].querybuf # <<>>,
         NEW n \in Nat, n = Len(s.cl[c].querybuf), NEW f, Readings(f, s, c, n)
  PROVE  \A i \in 0 .. n : Keeps(s, f[i].s, c) =>
           LET k == f[i].s.cl[c]
           IN /\ Cut(k)
              /\ f[i].again => k.querybuf # <<>> /\ Len(k.querybuf) + i <= n
              /\ ~f[i].again => Quiet(k)
<1> DEFINE Says1(k, again, i) == /\ Cut(k)
                                 /\ again => k.querybuf # <<>> /\ Len(k.querybuf) + i <= n
                                 /\ ~again => Quiet(k)
           Fine == {i \in Nat : i <= n => (Keeps(s, f[i].s, c) => Says1(f[i].s.cl[c], f[i].again, i))}
<1>0. \A i \in 0 .. n : /\ f[i].again \in BOOLEAN
                        /\ Keeps(s, f[i].s, c) \/ (Frees(s, f[i].s, c) /\ ~f[i].again)
  BY ReadingsKeep
<1>1. 0 \in Fine
  <2> DEFINE r == [s |-> s, again |-> TRUE]
  <2>1. f[0] = r
    BY DEF Readings
  <2>2. Says1(s.cl[c], TRUE, 0)
    OBVIOUS
  <2>3. r.s = s /\ r.again = TRUE
    OBVIOUS
  <2> HIDE DEF r, Says1
  <2> QED
    BY <2>1, <2>2, <2>3
<1>2. ASSUME NEW i \in Nat, i \in Fine
      PROVE  i + 1 \in Fine
  <2> HIDE DEF Says1
  <2> SUFFICES ASSUME i + 1 <= n, Keeps(s, f[i + 1].s, c)
               PROVE  Says1(f[i + 1].s.cl[c], f[i + 1].again, i + 1)
    OBVIOUS
  <2> USE DEF Says1
  <2> DEFINE r == f[i]
             t == r.s
             k == t.cl[c]
             x == Turn(t, c)
             l == x.s.cl[c]
  <2>1. /\ i \in 0 .. n /\ r.again \in BOOLEAN
        /\ Keeps(s, t, c) \/ (Frees(s, t, c) /\ ~r.again)
        /\ Keeps(s, t, c) => Says1(k, r.again, i)
    <3>1. i \in 0 .. n /\ i <= n
      OBVIOUS
    <3> QED
      BY <1>0, <1>2, <3>1
  <2>2. f[i + 1] = IF r.again THEN x ELSE r
    <3>1. f[i + 1] = IF f[i].again THEN Turn(f[i].s, c) ELSE f[i]
      <4> HIDE DEF Says1, Fine
      <4> QED
        BY ReadingsStep
    <3> QED
      BY <3>1
  <2> HIDE DEF r
  <2>3. CASE ~r.again
    <3>1. f[i + 1] = r
      BY <2>2, <2>3
    <3>2. Says1(k, r.again, i)
      BY <2>1, <3>1
    <3>3. Says1(k, r.again, i + 1)
      BY <2>3, <3>2
    <3> HIDE DEF Says1
    <3> QED
      BY <3>1, <3>3
  <2>4. CASE r.again
    <3>1. f[i + 1] = x
      BY <2>2, <2>4
    <3>2. Good(t) /\ IsOpen(t, c) /\ Says1(k, TRUE, i)
      BY <2>1, <2>4 DEF Keeps
    <3>3. Sound(k) /\ Len(k.querybuf) \in Nat
      <4>1. Sound(k) /\ k \in Conn
        BY <3>2, GoodIs
      <4> QED
        BY <4>1, BufferLength
    <3>4. IsOpen(x.s, c)
      BY <3>1 DEF Keeps
    <3>5. x.again \in BOOLEAN /\ Keeps(t, x.s, c) /\ Turned(k, l, x.again)
      <4>1. /\ x.again \in BOOLEAN
            /\ \/ Frees(t, x.s, c) /\ ~x.again
               \/ Keeps(t, x.s, c) /\ Turned(k, l, x.again)
        <5> HIDE DEF t
        <5> QED
          BY <3>2, TurnIs
      <4> HIDE DEF x, t
      <4> QED
        BY <3>4, <4>1, FreesClosed
    <3> HIDE DEF x, t
    <3>6. l \in Conn /\ Len(l.querybuf) \in Nat
      <4>1. l \in Conn
        BY <3>4, <3>5, GoodIs DEF Keeps
      <4> QED
        BY <4>1, BufferLength
    <3> HIDE DEF k, l
    <3>7. TurnSays(k, l, x.again) /\ Cut(l)
      BY <3>2, <3>3, <3>5, <3>6, TurnedSays
    <3>8. Len(k.querybuf) + i <= n
      BY <3>2
    <3>9. x.again => l.querybuf # <<>> /\ Len(l.querybuf) + (i + 1) <= n
      <4> DEFINE a == Len(k.querybuf)
                 b == Len(l.querybuf)
      <4>1. x.again => l.querybuf # <<>> /\ b < a
        BY <3>7 DEF TurnSays
      <4>2. a \in Nat /\ b \in Nat /\ a + i <= n
        BY <3>3, <3>6, <3>8
      <4> HIDE DEF a, b
      <4>3. b < a => b + (i + 1) <= n
        BY <4>2
      <4> QED
        BY <4>1, <4>3 DEF b
    <3>10. Says1(l, x.again, i + 1)
      BY <3>7, <3>9 DEF TurnSays
    <3> HIDE DEF Says1
    <3> QED
      BY <3>1, <3>10 DEF l
  <2> QED
    BY <2>1, <2>3, <2>4
<1> HIDE DEF Says1
<1>3. Nat \subseteq Fine
  <2> HIDE DEF Fine
  <2> QED
    BY <1>1, <1>2, NatRange
<1>4. \A i \in 0 .. n : Keeps(s, f[i].s, c) => Says1(f[i].s.cl[c], f[i].again, i)
  BY <1>3
<1> QED
  BY <1>4 DEF Says1

Framed(k) == Cut(k) /\ Quiet(k)

LEMMA AgainSays ==
  ASSUME NEW s, Good(s), NEW c \in Conns, IsOpen(s, c), Cut(s.cl[c]), s.cl[c].querybuf # <<>>,
         Keeps(s, Again(s, c), c)
  PROVE  Framed(Again(s, c).cl[c])
<1> DEFINE n == Len(s.cl[c].querybuf)
<1>1. n \in Nat
  <2>1. s.cl[c] \in Conn
    BY GoodIs
  <2> QED
    BY <2>1, ConnFields DEF Units
<1>2. PICK f : Readings(f, s, c, n) /\ Again(s, c) = f[n].s
  BY <1>1, AgainIs
<1>3. \A i \in 0 .. n : Keeps(s, f[i].s, c) =>
        LET k == f[i].s.cl[c]
        IN /\ Cut(k)
           /\ f[i].again => k.querybuf # <<>> /\ Len(k.querybuf) + i <= n
           /\ ~f[i].again => Quiet(k)
  BY <1>1, <1>2, ReadingsSay
<1> HIDE DEF n
<1> DEFINE k == f[n].s.cl[c]
<1>4. /\ Cut(k)
      /\ f[n].again => k.querybuf # <<>> /\ Len(k.querybuf) + n <= n
      /\ ~f[n].again => Quiet(k)
  BY <1>1, <1>2, <1>3
<1>5. k \in Conn
  BY <1>2, GoodIs DEF Keeps
<1> HIDE DEF k
<1>6. ~(k.querybuf # <<>> /\ Len(k.querybuf) + n <= n)
  <2>1. k.querybuf \in Units
    BY <1>5, ConnFields
  <2>2. Len(k.querybuf) \in Nat /\ (k.querybuf = <<>> <=> Len(k.querybuf) = 0)
    BY <2>1, EmptySeq DEF Units
  <2> QED
    BY <1>1, <2>2
<1>7. Framed(k)
  BY <1>4, <1>6 DEF Framed
<1> QED
  BY <1>2, <1>7 DEF k

LEMMA ReceivingSays ==
  ASSUME NEW k \in Conn, Cut(k), k.input # <<>>
  PROVE  Cut(Receiving(k)) /\ Receiving(k).querybuf # <<>>
<1> DEFINE l == Receiving(k)
           i == k.input
           q == k.querybuf
           d == k.received
<1>1. i \in Units /\ q \in Units /\ d \in Units
  BY ConnFields
<1>2. /\ l.bulk = k.bulk /\ l.bulklen = k.bulklen /\ l.argv = k.argv /\ l.executed = k.executed
      /\ l.querybuf = q \o i /\ l.received = d \o i
  BY ReceivingIs
<1>3. i # <<>>
  OBVIOUS
<1>4. \A x \in Units : Parsed[d \o x] = Says(k, x)
  BY DEF Cut
<1>5. \A x \in Units : From(k, x) = IF k.bulklen = -1 THEN Parsed[q \o x]
                                    ELSE WithBulk(Parsed, k.argv, k.bulklen - 2, q \o x)
  BY DEF From
<1>6. \A x \in Units : From(l, x) = IF l.bulklen = -1 THEN Parsed[l.querybuf \o x]
                                    ELSE WithBulk(Parsed, l.argv, l.bulklen - 2, l.querybuf \o x)
  BY DEF From
<1> HIDE DEF l, i, q, d
<1>7. ASSUME NEW x \in Units
      PROVE  Parsed[l.received \o x] = Says(l, x)
  <2> DEFINE y == i \o x
  <2>1. y \in Units
    BY <1>1, ConcatIs
  <2>2. (d \o i) \o x = d \o y /\ (q \o i) \o x = q \o y
    BY <1>1, Associative
  <2> HIDE DEF y
  <2>3. Parsed[d \o y] = k.executed \o From(k, y)
    BY <1>4, <2>1 DEF Says
  <2>4. From(l, x) = From(k, y)
    <3>1. From(k, y) = IF k.bulklen = -1 THEN Parsed[q \o y]
                       ELSE WithBulk(Parsed, k.argv, k.bulklen - 2, q \o y)
      BY <1>5, <2>1
    <3>2. From(l, x) = IF l.bulklen = -1 THEN Parsed[l.querybuf \o x]
                       ELSE WithBulk(Parsed, l.argv, l.bulklen - 2, l.querybuf \o x)
      BY <1>6
    <3>3. l.querybuf \o x = q \o y
      BY <1>2, <2>2
    <3> QED
      BY <1>2, <3>1, <3>2, <3>3
  <2> QED
    BY <1>2, <2>2, <2>3, <2>4 DEF Says
<1>8. l.bulk = <<>>
  BY <1>2 DEF Cut
<1>9. q \o i # <<>>
  BY <1>1, <1>3, ConcatEqualIffEmpty DEF Units
<1> QED
  BY <1>2, <1>7, <1>8, <1>9 DEF Cut, l

LEMMA ReadQuerySays ==
  ASSUME NEW s, Good(s), NEW c \in Conns, IsOpen(s, c), Framed(s.cl[c]),
         Keeps(s, ReadQuery(s, c), c)
  PROVE  Framed(ReadQuery(s, c).cl[c])
<1> DEFINE k == s.cl[c]
           t == [s EXCEPT !.cl[c].querybuf = @ \o k.input, !.cl[c].input = <<>>,
                          !.cl[c].received = @ \o k.input, !.cl[c].held = FALSE]
<1>1. ReadQuery(s, c) = IF k.input # <<>> THEN Again(t, c)
                        ELSE IF k.peer = "open" THEN s ELSE FreeClient(s, c)
  BY DEF ReadQuery
<1>2. Keeps(s, t, c) /\ t.cl[c] = Receiving(k)
  BY ReceivingKeeps
<1> HIDE DEF t
<1>3. IsOpen(ReadQuery(s, c), c)
  BY DEF Keeps
<1>4. CASE k.input # <<>>
  <2> DEFINE u == Again(t, c)
  <2>1. ReadQuery(s, c) = u
    BY <1>1, <1>4
  <2>2. Good(t) /\ IsOpen(t, c)
    BY <1>2 DEF Keeps
  <2>3. k \in Conn /\ Cut(k)
    BY GoodIs DEF Framed
  <2> HIDE DEF k
  <2>4. Cut(t.cl[c]) /\ t.cl[c].querybuf # <<>>
    BY <1>2, <1>4, <2>3, ReceivingSays
  <2>5. Handled(t, u, c)
    BY <2>2, AgainHandled
  <2>6. Keeps(t, u, c)
    <3> HIDE DEF u
    <3> QED
      BY <1>3, <2>1, <2>5, FreesClosed DEF Handled
  <2>7. Framed(u.cl[c])
    BY <2>2, <2>4, <2>6, AgainSays
  <2> QED
    BY <2>1, <2>7
<1>5. CASE k.input = <<>> /\ k.peer = "open"
  BY <1>1, <1>5
<1>6. CASE k.input = <<>> /\ k.peer # "open"
  <2>1. ReadQuery(s, c) = FreeClient(s, c)
    BY <1>1, <1>6
  <2>2. Frees(s, FreeClient(s, c), c)
    BY FreeClientFrees
  <2> QED
    BY <1>3, <2>1, <2>2, FreesClosed
<1> QED
  BY <1>4, <1>5, <1>6

-----------------------------------------------------------------------------
(* Every step of the loop.                                                 *)

\* Nothing that framing looks at is changed.
SameRead(k, l) ==
  /\ l.querybuf = k.querybuf /\ l.argv = k.argv /\ l.bulk = k.bulk
  /\ l.bulklen = k.bulklen /\ l.received = k.received /\ l.executed = k.executed
  /\ l.held = k.held

LEMMA SameReadFramed ==
  ASSUME NEW k, NEW l, SameRead(k, l), Framed(k)
  PROVE  Framed(l)
<1>1. \A x : From(l, x) = From(k, x)
  BY DEF SameRead, From
<1>2. \A x : Says(l, x) = Says(k, x)
  BY <1>1 DEF SameRead, Says
<1>3. Cut(l)
  BY <1>2 DEF SameRead, Framed, Cut
<1>4. Quiet(l)
  BY <1>1 DEF SameRead, Framed, Quiet
<1> QED
  BY <1>3, <1>4 DEF Framed

LEMMA BlankFramed ==
  ASSUME NEW k, Blank(k)
  PROVE  Framed(k)
<1> DEFINE nul == <<>>
           q == k.querybuf
           d == k.received
           e == k.executed
<1>1. nul \in Units /\ q = nul /\ d = nul /\ e = nul /\ k.bulk = nul
  <2>1. q = nul /\ d = nul /\ e = nul /\ k.bulk = nul
    BY DEF Blank
  <2>2. nul \in Units
    BY DEF Units
  <2> QED
    BY <2>1, <2>2
<1>2. k.bulklen = -1 /\ From(k, <<>>) = <<>>
  BY EmptySays DEF Blank
<1>3. \A x : From(k, x) = Parsed[q \o x]
  BY <1>2 DEF From
<1> HIDE DEF q, d, e, nul
<1>4. ASSUME NEW x \in Units
      PROVE  Parsed[d \o x] = Says(k, x)
  <2> DEFINE u == nul \o x
             p == Parsed[u]
  <2>1. u \in Units
    BY <1>1, ConcatIs
  <2>2. d \o x = u /\ q \o x = u
    BY <1>1
  <2> HIDE DEF u
  <2>3. p \in Calls
    BY <2>1, ParsedType
  <2>4. Says(k, x) = e \o p
    BY <1>3, <2>2 DEF Says, e
  <2>5. Parsed[d \o x] = p
    BY <2>2
  <2> HIDE DEF p
  <2>6. nul \o p = p
    BY <2>3, ConcatEmptySeq DEF Calls, nul
  <2> QED
    BY <1>1, <2>4, <2>5, <2>6
<1>5. k.bulk = <<>>
  BY <1>1 DEF nul
<1> QED
  BY <1>2, <1>4, <1>5 DEF Framed, Cut, Quiet, d

AllFramed(s) == \A d \in Conns : IsOpen(s, d) => Framed(s.cl[d])

LEMMA HandledFramed ==
  ASSUME NEW s, Good(s), AllFramed(s), NEW t, NEW c \in Conns, HandledFor(s, t, c), ~t.early
  PROVE  AllFramed(t)
<1>1. /\ IsOpen(s, c) /\ Framed(s.cl[c])
      /\ Handled(s, t, c)
      /\ Keeps(s, t, c) => t = ReadQuery(s, c) \/ SameQuery(s.cl[c], t.cl[c])
  BY DEF HandledFor, AllFramed
<1>2. Good(t) /\ Spares(s, t, c)
  BY <1>1 DEF Handled, Keeps, Frees
<1>3. ASSUME NEW d \in Conns, d # c, IsOpen(t, d)
      PROVE  Framed(t.cl[d])
  <2>1. CASE IsOpen(s, d)
    <3>1. OnlyReplies(s.cl[d], t.cl[d])
      BY <1>2, <1>3, <2>1 DEF Spares
    <3>2. SameQuery(s.cl[d], t.cl[d])
      BY <1>2, <1>3, <2>1, <3>1, OnlyRepliesQuery
    <3>3. SameRead(s.cl[d], t.cl[d]) /\ Framed(s.cl[d])
      BY <2>1, <3>2 DEF SameQuery, SameRead, AllFramed
    <3> QED
      BY <3>3, SameReadFramed
  <2>2. CASE ~IsOpen(s, d)
    BY <1>2, <1>3, <2>2 DEF Spares, IsOpen
  <2> QED
    BY <2>1, <2>2
<1>4. ASSUME IsOpen(t, c)
      PROVE  Framed(t.cl[c])
  <2>1. Keeps(s, t, c)
    BY <1>1, <1>4, FreesClosed DEF Handled
  <2>2. CASE t = ReadQuery(s, c)
    BY <1>1, <2>1, <2>2, ReadQuerySays
  <2>3. CASE SameQuery(s.cl[c], t.cl[c])
    <3>1. SameRead(s.cl[c], t.cl[c])
      BY <2>3 DEF SameQuery, SameRead
    <3> QED
      BY <1>1, <3>1, SameReadFramed
  <2> QED
    BY <1>1, <2>1, <2>2, <2>3
<1> QED
  BY <1>3, <1>4 DEF AllFramed

LEMMA AcceptedFramed ==
  ASSUME NEW s, AllFramed(s), NEW t, NEW c \in Conns, AcceptedFor(s, t, c)
  PROVE  AllFramed(t)
<1>1. /\ \A d \in Conns \ {c} : t.cl[d] = s.cl[d]
      /\ \/ t.cl[c] = s.cl[c] \/ t.cl[c] = Gone
         \/ \E fd \in Fds : t.cl[c] = Opened(s.cl[c], fd)
  BY DEF AcceptedFor, Accepted
<1>2. s.cl[c] \in Conn /\ Blank(s.cl[c])
  BY UnbornIs DEF AcceptedFor
<1>3. Framed(s.cl[c])
  BY <1>2, BlankFramed
<1>4. ASSUME NEW fd \in Fds, t.cl[c] = Opened(s.cl[c], fd)
      PROVE  Framed(t.cl[c])
  <2>1. SameRead(s.cl[c], t.cl[c])
    BY <1>2, <1>4 DEF Opened, SameRead, Conn
  <2> QED
    BY <1>3, <2>1, SameReadFramed
<1>5. IsOpen(t, c) => Framed(t.cl[c])
  BY <1>1, <1>3, <1>4, GoneIs DEF IsOpen
<1> QED
  BY <1>1, <1>5 DEF AllFramed, IsOpen

LEMMA CronFramed ==
  ASSUME NEW s, AllFramed(s), NEW t, CronLeaves(s, t), ~t.early
  PROVE  AllFramed(t)
<1> SUFFICES ASSUME NEW d \in Conns, IsOpen(t, d)
             PROVE  Framed(t.cl[d])
  BY DEF AllFramed
<1>1. t.cl[d] # Gone
  BY GoneIs DEF IsOpen
<1>2. CASE t.cl[d] = s.cl[d]
  BY <1>2 DEF AllFramed, IsOpen
<1>3. CASE IsOpen(s, d) /\ SameQuery(s.cl[d], t.cl[d])
  <2>1. SameRead(s.cl[d], t.cl[d]) /\ Framed(s.cl[d])
    BY <1>3 DEF SameQuery, SameRead, AllFramed
  <2> QED
    BY <2>1, SameReadFramed
<1> QED
  BY <1>1, <1>2, <1>3 DEF CronLeaves, Lost

\* What every client has executed is what its stream says, wherever it is cut.
CutsInv == early \/ AllFramed(State)

LEMMA ClientFramed ==
  ASSUME ClientsInv, CutsInv, NEW c \in Conns, NEW k, Client(c, k),
         (~early /\ k.state = "open") => IsOpen(State, c) /\ SameRead(cl[c], k)
  PROVE  CutsInv'
<1>1. /\ State' = Put(State, c, k, State.ev) /\ early' = early
  BY ClientIs
<1>2. CASE early
  BY <1>1, <1>2 DEF CutsInv
<1>3. CASE ~early
  <2> DEFINE s == State
             t == Put(s, c, k, s.ev)
  <2>1. s.cl = cl /\ s \in States /\ AllFramed(s)
    BY <1>3, StateIs DEF ClientsInv, Settled, Good, Sane, CutsInv
  <2>2. (IsOpen(s, c) /\ SameRead(s.cl[c], k)) \/ k.state # "open"
    BY <1>3, <2>1
  <2> HIDE DEF s
  <2>3. t.cl[c] = k /\ \A d \in Conns \ {c} : t.cl[d] = s.cl[d]
    BY <2>1 DEF Put, States
  <2> HIDE DEF t
  <2>4. IsOpen(t, c) => Framed(t.cl[c])
    BY <2>1, <2>2, <2>3, SameReadFramed DEF IsOpen, AllFramed
  <2>5. AllFramed(t)
    BY <2>1, <2>3, <2>4 DEF AllFramed, IsOpen
  <2> QED
    BY <1>1, <2>5 DEF CutsInv, s, t
<1> QED
  BY <1>2, <1>3

LEMMA EndsFramed ==
  ASSUME ClientsInv, CutsInv, NEW c \in Conns,
         Connect(c) \/ Drain(c) \/ Close(c) \/ Break(c) \/ \E n \in 1 .. MaxSent : Send(c, n)
  PROVE  CutsInv'
<1>1. CASE Connect(c)
  <2> DEFINE k == [cl[c] EXCEPT !.state = "backlog"]
  <2>1. Client(c, k) /\ cl[c].state = "none"
    BY <1>1 DEF Connect
  <2>2. ~early => k.state # "open"
    <3> SUFFICES ASSUME ~early
                 PROVE  k.state # "open"
      OBVIOUS
    <3>1. cl[c] \in Conn
      <4> DEFINE s == State
      <4>1. Settled(s, bits) /\ s.cl = cl
        BY StateIs DEF ClientsInv
      <4> HIDE DEF s
      <4> QED
        BY <2>1, <4>1, UnbornIs DEF Settled
    <3> QED
      BY <3>1 DEF Conn
  <2> HIDE DEF k
  <2> QED
    BY <2>1, <2>2, ClientFramed
<1>2. CASE Drain(c) \/ Close(c) \/ Break(c) \/ \E n \in 1 .. MaxSent : Send(c, n)
  <2>1. c \in Open
    BY <1>2 DEF Drain, Close, Break, Send
  <2>2. ~early => IsOpen(State, c)
    BY <2>1, OpenSound
  <2>3. ~early => cl[c] \in Conn
    BY <2>1, OpenIsConn
  <2>4. \E k : Client(c, k) /\ (~early => SameRead(cl[c], k))
    <3>1. CASE Drain(c)
      <4> DEFINE k == [cl[c] EXCEPT !.room = Room]
      <4>1. Client(c, k)
        BY <3>1 DEF Drain
      <4>2. ~early => SameRead(cl[c], k)
        BY <2>3 DEF SameRead, Conn
      <4> HIDE DEF k
      <4> QED
        BY <4>1, <4>2
    <3>2. CASE Close(c)
      <4> DEFINE k == [cl[c] EXCEPT !.peer = "closed", !.script = <<>>]
      <4>1. Client(c, k)
        BY <3>2 DEF Close
      <4>2. ~early => SameRead(cl[c], k)
        BY <2>3 DEF SameRead, Conn
      <4> HIDE DEF k
      <4> QED
        BY <4>1, <4>2
    <3>3. CASE Break(c)
      <4> DEFINE k == [cl[c] EXCEPT !.peer = "reset", !.script = <<>>, !.input = <<>>]
      <4>1. Client(c, k)
        BY <3>3 DEF Break
      <4>2. ~early => SameRead(cl[c], k)
        BY <2>3 DEF SameRead, Conn
      <4> HIDE DEF k
      <4> QED
        BY <4>1, <4>2
    <3>4. ASSUME NEW n \in 1 .. MaxSent, Send(c, n)
          PROVE  \E k : Client(c, k) /\ (~early => SameRead(cl[c], k))
      <4> DEFINE i == cl[c].input \o SubSeq(cl[c].script, 1, n)
                 b == SubSeq(cl[c].script, n + 1, Len(cl[c].script))
                 k == [cl[c] EXCEPT !.input = i, !.script = b]
                 l == [cl[c] EXCEPT !.input = @ \o SubSeq(cl[c].script, 1, n),
                                    !.script = SubSeq(@, n + 1, Len(@))]
      <4>1. Client(c, l)
        BY <3>4 DEF Send
      <4>2. ~early => l = k
        BY <2>3 DEF Conn
      <4> HIDE DEF i, b, l
      <4>3. ~early => SameRead(cl[c], l)
        BY <2>3, <4>2 DEF SameRead, Conn
      <4> QED
        BY <4>1, <4>3
    <3> QED
      BY <1>2, <3>1, <3>2, <3>3, <3>4
  <2> QED
    BY <2>2, <2>4, ClientFramed
<1> QED
  BY <1>1, <1>2

LEMMA LoopFramed ==
  ASSUME ClientsInv, CutsInv, Loop
  PROVE  CutsInv'
<1> DEFINE s == State
<1>1. CASE Select \/ Idle
  <2>1. State' = State /\ early' = early
    BY <1>1, StateSame DEF Select, Idle
  <2> QED
    BY <2>1 DEF CutsInv
<1>2. CASE (Handle \/ Cron) /\ early
  <2>1. \E t : Becomes(t)
    BY <1>2 DEF Handle, Cron
  <2>2. early = TRUE
    BY <1>2 DEF ClientsInv
  <2>3. early' = TRUE
    BY <2>1, <2>2, BecomesEarly
  <2> QED
    BY <2>3 DEF CutsInv
<1>3. CASE (Handle \/ Cron) /\ ~early
  <2>1. Good(s) /\ AllFramed(s) /\ early \in BOOLEAN
    BY <1>3 DEF ClientsInv, CutsInv, Settled
  <2>2. \E t : Becomes(t) /\ \/ CronLeaves(s, t)
                             \/ \E c \in Conns : HandledFor(s, t, c) \/ AcceptedFor(s, t, c)
    BY <1>3, HandleIs, CronIs
  <2> HIDE DEF s
  <2>3. PICK t : Becomes(t) /\ \/ CronLeaves(s, t)
                               \/ \E c \in Conns : HandledFor(s, t, c) \/ AcceptedFor(s, t, c)
    BY <2>2
  <2>4. ~t.early => AllFramed(t)
    BY <2>1, <2>3, CronFramed, HandledFramed, AcceptedFramed
  <2>5. Shaped(t) /\ t.early \in BOOLEAN
    <3>1. Lost(t) \/ t \in States
      BY <2>3 DEF CronLeaves, HandledFor, AcceptedFor, Handled, Keeps, Frees, Accepted, Good, Sane
    <3> QED
      BY <3>1, StatesShaped DEF Lost
  <2>6. (t.early => early') /\ (~t.early => State' = t)
    BY <1>3, <2>1, <2>3, <2>5, BecomesIs
  <2> QED
    BY <2>4, <2>6 DEF CutsInv
<1> QED
  BY <1>1, <1>2, <1>3 DEF Loop

LEMMA CutsNext ==
  ASSUME ClientsInv, CutsInv, [Next]_vars
  PROVE  CutsInv'
<1>1. CASE Loop
  BY <1>1, LoopFramed
<1>2. CASE UNCHANGED vars
  <2>1. State' = State /\ early' = early
    BY <1>2, StateSame DEF vars
  <2> QED
    BY <2>1 DEF CutsInv
<1> QED
  BY <1>1, <1>2, EndsFramed DEF Next

LEMMA CutsInit == Init => CutsInv
<1> SUFFICES ASSUME Init
             PROVE  AllFramed(State)
  BY DEF CutsInv
<1>1. PICK scripts \in Scripts :
        cl = [c \in Conns |-> IF c \in DOMAIN scripts THEN Fresh(scripts[c]) ELSE Gone]
  BY DEF Init
<1>2. \A c \in DOMAIN scripts : scripts[c] \in Units
  BY ClientsAssumption DEF Units
<1>3. ASSUME NEW c \in Conns
      PROVE  cl[c].state # "open"
  <2>1. cl[c] = Gone \/ (c \in DOMAIN scripts /\ cl[c] = Fresh(scripts[c]))
    BY <1>1
  <2>2. \A u \in Units : Fresh(u).state = "none"
    BY FreshIs
  <2> QED
    BY <1>2, <2>1, <2>2, GoneIs
<1> QED
  BY <1>3, StateIs DEF AllFramed, IsOpen

-----------------------------------------------------------------------------
(* What it says of the commands.                                           *)

LEMMA CallsPrefix ==
  ASSUME NEW a \in Calls, NEW b \in Calls
  PROVE  IsPrefix(a, a \o b)
<1> DEFINE n == Len(a)
           v == a \o b
<1>1. n \in Nat /\ Len(b) \in Nat /\ v \in Calls /\ Len(v) = n + Len(b)
  BY ConcatProperties DEF Calls
<1>2. SubSeq(v, 1, n) = a /\ SubSeq(a, 1, n) = a
  BY SubSeqOfConcat1, SubSeqFull DEF Calls
<1> HIDE DEF v, n
<1>3. n <= Len(v)
  BY <1>1
<1> QED
  BY <1>2, <1>3 DEF IsPrefix, n, v

LEMMA FramedSays ==
  ASSUME NEW k, Sound(k), Framed(k)
  PROVE  /\ IsPrefix(k.executed, Parsed[k.received])
         /\ k.held \/ k.executed = Parsed[k.received]
<1> DEFINE nul == <<>>
           d == k.received
           q == k.querybuf
           done == k.executed
           f == From(k, nul)
<1>1. /\ k \in Conn /\ d \in Units /\ q \in Units /\ k.argv \in Unit /\ done \in Calls
      /\ k.bulklen = -1 \/ k.bulklen \in 2 .. MaxBulk + 2
  BY ConnFields DEF Sound, Sized, Calls
<1>2. nul \in Units /\ d \o nul = d /\ q \o nul = q /\ \A a \in Calls : a \o nul = a
  BY <1>1, ConcatEmptySeq, ConcatIs DEF Units, Calls
<1>3. f = IF k.bulklen = -1 THEN Parsed[q \o nul]
          ELSE WithBulk(Parsed, k.argv, k.bulklen - 2, q \o nul)
  BY DEF From
<1>4. (\A x \in Units : Parsed[d \o x] = done \o From(k, x)) /\ (k.held \/ f = nul)
  BY DEF Framed, Cut, Quiet, Says
<1> HIDE DEF nul, d, q, done, f
<1>5. f \in Calls
  <2>1. CASE k.bulklen = -1
    BY <1>1, <1>2, <1>3, <2>1, ParsedType
  <2>2. CASE k.bulklen # -1
    <3> DEFINE n == k.bulklen - 2
    <3>1. n \in Nat
      <4>1. MaxBulk \in Nat
        BY ClientsAssumption
      <4> QED
        BY <1>1, <2>2, <4>1
    <3>2. f = WithBulk(Parsed, k.argv, n, q)
      BY <1>2, <1>3, <2>2
    <3> HIDE DEF n
    <3>3. WithBulk(Parsed, k.argv, n, q) \in Calls
      BY <1>1, <3>1, ParsedType, WithBulkType
    <3> QED
      BY <3>2, <3>3
  <2> QED
    BY <2>1, <2>2
<1>6. Parsed[d] = done \o f
  BY <1>2, <1>4 DEF f
<1>7. IsPrefix(done, Parsed[d])
  BY <1>1, <1>5, <1>6, CallsPrefix
<1>8. k.held \/ done = Parsed[d]
  BY <1>1, <1>2, <1>4, <1>6
<1> QED
  BY <1>7, <1>8 DEF done, d

LEMMA CutsSay ==
  ASSUME ClientsInv, CutsInv, ~early
  PROVE  CutsDoNotMatter
<1>1. \A c \in Open : c \in Conns /\ IsOpen(State, c) /\ Sound(cl[c]) /\ State.cl = cl
  BY OpenSound
<1>2. \A c \in Open : Framed(cl[c])
  BY <1>1 DEF CutsInv, AllFramed
<1> QED
  BY <1>1, <1>2, FramedSays DEF CutsDoNotMatter

\* The commands that a client has executed are the first of those that its stream says,
\* and all of them, unless the last read ended behind an empty line or behind a bulk
\* argument that came later than its line, where the program leaves the rest in the
\* buffer until more arrives: for every stream, and every way of cutting it into reads.
THEOREM ClientsCuts == Spec => [](~early => CutsDoNotMatter)
<1>1. Init => CutsInv
  BY CutsInit
<1>2. ClientsInv /\ CutsInv /\ [Next]_vars => CutsInv'
  BY CutsNext
<1>3. ClientsInv /\ CutsInv => (~early => CutsDoNotMatter)
  BY CutsSay
<1> QED
  BY <1>1, <1>2, <1>3, ClientsInvariant, PTL DEF Spec

===============================================================================
