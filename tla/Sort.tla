--------------------------------- MODULE Sort ---------------------------------
(***************************************************************************)
(* SORT: the vector of the elements with what they are compared by, the    *)
(* window of LIMIT, and pqsort, a quicksort that leaves alone what the     *)
(* window does not need.  Arrays are sequences, from 1; the indexes of the *)
(* program are from 0.                                                     *)
(***************************************************************************)
EXTENDS Integers, FiniteSets, SequencesExt

CONSTANT IntMax  \* the greatest int, for what sortCommand computes of LIMIT and GET

ASSUME IntMaxAssumption == IntMax \in Nat \ {0}

Ints == -IntMax - 1 .. IntMax

\* The int that x becomes: gcc's additions and multiplications wrap around.
AsInt(x) == ((x + IntMax + 1) % (2 * IntMax + 2)) - IntMax - 1

\* The elements with what sortCommand loads for them: `by` is "none" for the elements
\* themselves, "const" for a BY without a star, which is not sorted, or "key" for the
\* strings under other keys; weight[e] is <<>> if there is none.  An element, or a
\* weight, is a number; its rank is its place in strcoll's order.
Null == -1

SortKey(e, o, weight, rank) ==
  IF o.by = "none" THEN IF o.alpha THEN rank[e] ELSE e
  ELSE IF weight[e] = <<>> THEN IF o.alpha THEN Null ELSE 0
  ELSE IF o.alpha THEN rank[weight[e][1]] ELSE weight[e][1]

Vector(elems, o, weight, rank) ==
  [i \in DOMAIN elems |-> [obj |-> elems[i], key |-> SortKey(elems[i], o, weight, rank)]]

\* sortCompare.
Cmp(desc, x, y) ==
  LET c == IF x.key > y.key THEN 1 ELSE IF x.key < y.key THEN -1 ELSE 0
  IN IF desc THEN -c ELSE c

\* "a bit of sanity check on the LIMIT option": the window of the sorted vector.
Window(len, start, count) ==
  LET from == IF start < 0 THEN 0 ELSE start
      to   == IF count < 0 THEN len - 1 ELSE AsInt(from + count - 1)
      last == IF from >= len THEN len - 2 ELSE to
  IN [start |-> IF from >= len THEN len - 1 ELSE from,
      end   |-> IF last >= len THEN len - 1 ELSE last]

-----------------------------------------------------------------------------
(* pqsort.c.  Less, equal, greater is what `desc` makes of it.             *)

Swap(a, i, j) == [a EXCEPT ![i] = a[j], ![j] = a[i]]

\* vecswap of r elements from i and from j, which have none in common.
SwapBlocks(a, i, j, r) ==
  [k \in DOMAIN a |-> IF k \in i .. i + r - 1 THEN a[k - i + j]
                      ELSE IF k \in j .. j + r - 1 THEN a[k - j + i] ELSE a[k]]

SmallerOf(x, y) == IF x < y THEN x ELSE y

\* Insertion sort: element m sinks below those from lo on that are greater.
Sunk(a, lo, m, desc) ==
  LET p == CHOOSE p \in lo .. m :
             /\ \A i \in p .. m - 1 : Cmp(desc, a[i], a[m]) > 0
             /\ p = lo \/ Cmp(desc, a[p - 1], a[m]) <= 0
  IN [i \in DOMAIN a |-> IF i = p THEN a[m] ELSE IF i \in p + 1 .. m THEN a[i - 1] ELSE a[i]]

\* Of the n elements from lo.
Insertion(a, lo, n, desc) ==
  LET after[k \in 0 .. n] == IF k = 0 THEN a ELSE Sunk(after[k - 1], lo, lo + k - 1, desc)
  IN after[n]

\* med3: the index of the median of three elements.
Median(a, i, j, k, desc) ==
  IF Cmp(desc, a[i], a[j]) < 0
  THEN IF Cmp(desc, a[j], a[k]) < 0 THEN j ELSE IF Cmp(desc, a[i], a[k]) < 0 THEN k ELSE i
  ELSE IF Cmp(desc, a[j], a[k]) > 0 THEN j ELSE IF Cmp(desc, a[i], a[k]) < 0 THEN i ELSE k

Pivot(a, lo, n, desc) ==
  LET mid  == lo + n \div 2
      high == lo + n - 1
      d    == n \div 8
  IN IF n = 7 THEN mid
     ELSE IF n <= 40 THEN Median(a, lo, mid, high, desc)
     ELSE Median(a, Median(a, lo, lo + d, lo + 2 * d, desc),
                    Median(a, mid - d, mid, mid + d, desc),
                    Median(a, high - 2 * d, high - d, high, desc), desc)

\* A turn of the loops that split the array around the pivot, at lo: elements equal to
\* it gather before pa and behind pd, smaller ones before pb, greater ones behind pc.
SplitStep(t, lo, desc) ==
  LET up   == Cmp(desc, t.a[t.pb], t.a[lo])
      down == Cmp(desc, t.a[t.pc], t.a[lo])
  IN IF t.pb > t.pc THEN t
     ELSE IF up < 0 THEN [t EXCEPT !.pb = @ + 1]
     ELSE IF up = 0
     THEN [t EXCEPT !.a = Swap(@, t.pa, t.pb), !.pa = @ + 1, !.pb = @ + 1, !.swap_cnt = 1]
     ELSE IF down > 0 THEN [t EXCEPT !.pc = @ - 1]
     ELSE IF down = 0
     THEN [t EXCEPT !.a = Swap(@, t.pc, t.pd), !.pc = @ - 1, !.pd = @ - 1, !.swap_cnt = 1]
     ELSE [t EXCEPT !.a = Swap(@, t.pb, t.pc), !.pb = @ + 1, !.pc = @ - 1, !.swap_cnt = 1]

\* All of them, for n elements: the pivot goes to lo, and a turn is done with one of the
\* others at least.
Partition(a, lo, n, desc) ==
  LET start == [a |-> Swap(a, lo, Pivot(a, lo, n, desc)), pa |-> lo + 1, pb |-> lo + 1,
                pc |-> lo + n - 1, pd |-> lo + n - 1, swap_cnt |-> 0]
      after[k \in 0 .. n] == IF k = 0 THEN start ELSE SplitStep(after[k - 1], lo, desc)
  IN after[n]

\* The elements equal to the pivot go to the middle.
Gathered(t, lo, n) ==
  LET end  == lo + n
      low  == SmallerOf(t.pa - lo, t.pb - t.pa)
      high == SmallerOf(t.pd - t.pc, end - t.pd - 1)
  IN SwapBlocks(SwapBlocks(t.a, lo, t.pb - low, low), t.pb, end - high, high)

\* Mutant of Needed: a part is sorted only if the window begins or ends in it.
NeededAtEnds(lo, n, l, r) == l \in lo .. lo + n - 1 \/ r \in lo .. lo + n - 1

\* Does the window from l to r concern the n elements from lo?
Needed(lo, n, l, r) == ~(l < lo /\ r < lo) /\ ~(l > lo + n - 1 /\ r > lo + n - 1)

\* pqsort of v.  sort[n] is _pqsort of n elements: of an array and where they begin.
PqSort(v, l, r, desc) ==
  LET sort[n \in 0 .. Len(v)] ==
        LET Part(a, lo, m) == IF m > 1 /\ Needed(lo, m, l, r) THEN sort[m][a][lo] ELSE a
            Parts(t, lo) ==
              LET greater == t.pd - t.pc
              IN IF t.swap_cnt = 0 THEN Insertion(t.a, lo, n, desc)
                 ELSE Part(Part(Gathered(t, lo, n), lo, t.pb - t.pa), lo + n - greater, greater)
        IN [a \in [DOMAIN v -> Range(v)] |-> [lo \in 1 .. Len(v) - n + 1 |->
              IF n < 7 THEN Insertion(a, lo, n, desc) ELSE Parts(Partition(a, lo, n, desc), lo)]]
  IN sort[Len(v)][v][1]

\* sortCommand: how many values the reply announces, and the elements that follow, or
\* that the values of o.gets GETs are looked up for.  qsort leaves open the order of
\* equal elements; here it is that of pqsort with everything in its window.
SortReply(elems, o, weight, rank) ==
  LET v   == Vector(elems, o, weight, rank)
      len == Len(elems)
      w   == Window(len, o.start, o.count)
      partial == o.by = "key" /\ (w.start # 0 \/ w.end # len - 1)
      sorted  == IF o.by = "const" THEN v
                 ELSE IF partial THEN PqSort(v, w.start + 1, w.end + 1, o.desc)
                 ELSE PqSort(v, 1, len, o.desc)
      shown   == AsInt(w.end - w.start + 1)
  IN [outputlen |-> IF o.gets > 0 THEN AsInt(o.gets * shown) ELSE shown,
      objs      |-> SubSeq(sorted, w.start + 1, w.end + 1)]

=============================================================================
