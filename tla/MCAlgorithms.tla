----------------------------- MODULE MCAlgorithms -----------------------------
(***************************************************************************)
(* The inputs of Algorithms: the edges of every encoding, and everything   *)
(* small.  Characters are codes; 48 .. 57 are the digits.                  *)
(***************************************************************************)
EXTENDS Algorithms, TLC

Long(n, byte) == [i \in 1 .. n |-> byte]

\* No two bytes of it are alike, one after the other.
Mixed(n) == [i \in 1 .. n |-> i % 251]

Seqs(S, n) == UNION {[1 .. m -> S] : m \in 0 .. n}

\* Digits of the limits of 8, 16 and 32 bits, up to one off in the last digit.
Limits == {<<49, 50, 55>>, <<51, 50, 55, 54, 55>>,
           <<50, 49, 52, 55, 52, 56, 51, 54, 52, 55>>,
           <<57, 57, 57, 57, 57, 57, 57, 57, 57, 57>>,
           <<50, 49, 52, 55, 52, 56, 51, 54, 52, 56, 48>>}

Edges == {[l EXCEPT ![Len(l)] = @ + i] : l \in Limits, i \in {-1, 0, 1, 2}}

MCObjects ==
  Edges \cup {<<45>> \o e : e \in Edges}
  \cup Seqs({45, 48, 49, 32, 0}, 3)
  \cup {Mixed(n) : n \in {12, 20, 21, 63, 64, 255, 256, 16383, 16384}}
  \cup {Long(n, 49) : n \in {11, 12, 20, 21, 63, 64, 16384}}

MCLengths ==
  0 .. 300 \cup 16380 .. 16390 \cup 65530 .. 65540
  \cup {16777215, 16777216, 2147483646, 2147483647}

Entry(k, t, v, e) == [key |-> k, type |-> t, val |-> v, expire |-> e]

Values1 == {<<REDIS_STRING, <<49>>>>, <<REDIS_STRING, Long(21, 97)>>, <<REDIS_LIST, <<>>>>,
            <<REDIS_LIST, <<<<98>>, <<255>>>>>>, <<REDIS_SET, <<<<49, 48>>, <<253>>>>>>}

Entries1 == {Entry(k, v[1], v[2], e) : k \in {<<97>>, <<254>>}, v \in Values1, e \in {Never, 1, 255}}

MCDatasets ==
  {<<a, b>> : a, b \in {<<>>} \cup {<<e>> : e \in Entries1}}
  \cup {<<<<x, y>>, <<>>>> : x, y \in {e \in Entries1 : e.type # REDIS_SET}}

Clean == {d \in MCDatasets : \A j \in DOMAIN d : \A m, n \in DOMAIN d[j] :
            d[j][m].key = d[j][n].key => m = n}

Numbers == {0, 1, 2, 10}
MCRank == [n \in Numbers |-> CASE n = 0 -> 0 [] n = 1 -> 1 [] n = 10 -> 2 [] n = 2 -> 3]

Options == [by : {"none", "const", "key"}, desc : BOOLEAN, alpha : BOOLEAN,
            start : {-1, 0, 1, 3}, count : {-1, 0, 1, 2}, gets : {0, 2}]

Weights == {[n \in Numbers |-> IF n = 0 THEN <<>> ELSE <<n>>],
            [n \in Numbers |-> IF n = 2 THEN <<>> ELSE <<1>>]}

\* Windows that end at the last int, and behind it.
MCLimits ==
  [elems : Seqs({2, 10}, 3),
   o : [by : {"none"}, desc : {FALSE}, alpha : {FALSE}, start : {0, 1, 2, 127},
        count : {1, 126, 127}, gets : {0, 42}],
   weight : {[n \in Numbers |-> <<>>]}]

\* Short vectors with every option; long enough ones for pqsort to split, with a
\* window, and very long ones, where the pivot is a median of nine.
MCSorts ==
  MCLimits
  \cup [elems : Seqs({0, 2, 10}, 3), o : Options, weight : Weights]
  \cup [elems : [1 .. 7 -> {0, 1, 2}] \cup [1 .. 9 -> {1, 2}],
        o : [by : {"key"}, desc : {FALSE}, alpha : {FALSE}, start : {0, 2, 5}, count : {1, 2}, gets : {0}],
        weight : {[n \in Numbers |-> <<n>>]}]
  \cup [elems : {[i \in 1 .. 45 |-> (i * k) % m] : k \in 1 .. 9, m \in {2, 5, 13, 47}},
        o : [by : {"key"}, desc : BOOLEAN, alpha : {FALSE}, start : {3, 20, 44}, count : {1, 9},
             gets : {0}],
        weight : {[n \in 0 .. 47 |-> <<n>>]}]

a == 97
b == 98
c == 99

Chr(x) == [kind |-> "char", c |-> x, quoted |-> FALSE]
Quoted(x) == [kind |-> "char", c |-> x, quoted |-> TRUE]
Interval(x, y) == [kind |-> "range", from |-> x, to |-> y]
Bracket(not, items) == [kind |-> "class", not |-> not, items |-> items]

\* *, ?, a, \*, [ac], [^a], [a-b], [c-b*], [\b], [^], [-a^]
Pieces == {[kind |-> "star"], [kind |-> "any"], Chr(a), Quoted(Star),
           Bracket(FALSE, <<Chr(a), Chr(c)>>), Bracket(TRUE, <<Chr(a)>>),
           Bracket(FALSE, <<Interval(a, b)>>), Bracket(FALSE, <<Interval(c, b), Chr(Star)>>),
           Bracket(FALSE, <<Quoted(b)>>), Bracket(TRUE, <<>>), Bracket(FALSE, <<Chr(Dash), Chr(a), Chr(Caret)>>)}

MCGlobs == Seqs(Pieces, 3)

MCKeynames == Seqs({a, b, c, Star}, 3) \ {<<>>}

MCLists == Seqs({1, 2}, 4)
MCIndexes == -6 .. 6
MCSets == SUBSET {1, 2, 3}
MCLines == Seqs({1, 2, 3}, 5)
MCSeparators == {<<1>>, <<1, 2>>, <<1, 1>>}
=============================================================================
