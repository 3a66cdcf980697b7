------------------------------ MODULE Algorithms ------------------------------
(***************************************************************************)
(* The pure algorithms of the server - the dump format, SORT, the patterns *)
(* of KEYS, the index arithmetic of lists, the algebra of sets, the        *)
(* cutting of strings - each on every input of a set, against a definition *)
(* that says what the result is and not how it is found.                   *)
(***************************************************************************)
EXTENDS Rdb, Sort, Glob, Strings, Values

CONSTANTS
  Objects,   \* string objects
  Lengths,   \* lengths written in a dump
  Datasets,  \* what is dumped
  Clock,     \* times at which dumps are written and loaded
  Sorts,     \* records of elems, weight, o: a SORT
  Rank,      \* strcoll's order of elements and weights
  Globs,     \* patterns, as sequences of pieces
  Keynames,  \* the strings they are matched with
  Lists, Indexes, Sets, Lines, Separators

\* A string object: an argument of a command has at most 2^30 bytes.
IsText(s) == s \in Seq(0 .. 255) /\ Len(s) <= 2147483647

IsSeqOf(s, Is(_)) == s \in Seq(Range(s)) /\ \A x \in Range(s) : Is(x)

IsTexts(l) == IsSeqOf(l, IsText) /\ Len(l) <= 2147483647

\* The time of an expire is written in four bytes.
IsTime(t) == t \in Int /\ t >= -2147483647 - 1 /\ t <= 2147483647

IsDumpedEntry(e) ==
  /\ e = [key |-> e.key, type |-> e.type, val |-> e.val, expire |-> e.expire]
  /\ IsText(e.key) /\ IsTime(e.expire) /\ e.type \in {REDIS_STRING, REDIS_LIST, REDIS_SET}
  /\ IF e.type = REDIS_STRING THEN IsText(e.val) ELSE IsTexts(e.val)

\* A dictionary has no key twice.
IsDatabase(db) ==
  IsSeqOf(db, IsDumpedEntry) /\ \A i, k \in DOMAIN db : db[i].key = db[k].key => i = k

-----------------------------------------------------------------------------
(* The patterns of KEYS.  A piece is a star, a question mark, a character,  *)
(* or a class, negated or not, of characters and ranges.                   *)

Character(x) == IF x.quoted THEN <<Backslash, x.c>> ELSE <<x.c>>

ItemText(x) == IF x.kind = "range" THEN <<x.from, Dash, x.to>> ELSE Character(x)

Text(t) ==
  CASE t.kind = "star"  -> <<Star>>
    [] t.kind = "any"   -> <<Question>>
    [] t.kind = "char"  -> Character(t)
    [] OTHER            -> (IF t.not THEN <<Open, Caret>> ELSE <<Open>>)
                           \o (FlattenSeq([k \in DOMAIN t.items |-> ItemText(t.items[k])])
                           \o <<Close>>)

StandsFor(t, c) ==
  CASE t.kind = "any"   -> TRUE
    [] t.kind = "char"  -> c = t.c
    [] OTHER            ->
         t.not # \E k \in DOMAIN t.items :
                   LET x == t.items[k]
                   IN IF x.kind = "range" THEN c \in (x.from .. x.to) \cup (x.to .. x.from)
                      ELSE c = x.c

\* A character of which something else is made stands behind a backslash.
IsCharacter(x, special) ==
  x.quoted \in BOOLEAN /\ x.c \in Int /\ (x.c \in special => x.quoted)

IsItem(x) ==
  IF x.kind = "range" THEN x.from \in Int \ {Backslash, Close} /\ x.to \in Int
  ELSE IsCharacter(x, {Backslash, Close})

\* A dash behind a character makes a range, and a caret negates where a class begins.
IsClass(t) ==
  /\ t.not \in BOOLEAN /\ t.items \in Seq(Range(t.items))
  /\ \A k \in DOMAIN t.items :
       /\ IsItem(t.items[k])
       /\ k = 1 /\ ~t.not => ItemText(t.items[k])[1] # Caret
       /\ k > 1 /\ Len(ItemText(t.items[k - 1])) = 1 => ItemText(t.items[k])[1] # Dash

IsPiece(t) ==
  CASE t.kind \in {"star", "any"} -> TRUE
    [] t.kind = "char"  -> IsCharacter(t, {Star, Question, Open, Backslash})
    [] t.kind = "class" -> IsClass(t)
    [] OTHER -> FALSE

\* What the elements that are sorted are compared by is a number.
IsSorting(s) ==
  /\ s.elems \in Seq(Range(s.elems)) /\ Len(s.elems) <= IntMax
  /\ s.o.start \in Ints /\ s.o.count \in Ints /\ s.o.gets \in 0 .. IntMax
  /\ \A e \in Range(s.elems) : s.o.by = "const" \/ SortKey(e, s.o, s.weight, Rank) \in Int

-----------------------------------------------------------------------------
ASSUME ObjectsAssumption  == \A s \in Objects : IsText(s)
ASSUME LengthsAssumption  == \A n \in Lengths : n \in Nat /\ n <= 2147483647
ASSUME DatasetsAssumption == \A dbs \in Datasets : IsSeqOf(dbs, IsDatabase) /\ Len(dbs) <= 2147483647
ASSUME ClockAssumption    == Clock \subseteq Int
ASSUME SortsAssumption    == \A s \in Sorts : IsSorting(s)
ASSUME GlobsAssumption    ==
  \A p \in Globs : p \in Seq(Range(p)) /\ \A t \in Range(p) : IsPiece(t)
ASSUME KeynamesAssumption == \A s \in Keynames : s \in Seq(Int) /\ s # <<>>
ASSUME ListsAssumption    == \A l \in Lists : l \in Seq(Range(l))
ASSUME IndexesAssumption  == Indexes \subseteq Int
ASSUME SetsAssumption     == \A S \in Sets : IsFiniteSet(S)
ASSUME LinesAssumption    ==
  /\ \A s \in Lines : s \in Seq(Range(s))
  /\ \A sep \in Separators : sep \in Seq(Range(sep)) /\ sep # <<>>

VARIABLE input

Init == input = [kind |-> "none"]

Choose(i) == input' = i

Next ==
  /\ input.kind = "none"
  /\ \/ \E s \in Objects : Choose([kind |-> "object", s |-> s])
     \/ \E n \in Lengths : Choose([kind |-> "length", n |-> n])
     \/ \E d \in Datasets, saved, loaded \in Clock :
          Choose([kind |-> "dump", dbs |-> d, saved |-> saved, loaded |-> loaded])
     \/ \E s \in Sorts : Choose([kind |-> "sort", s |-> s])
     \/ \E p \in Globs, s \in Keynames : Choose([kind |-> "glob", p |-> p, s |-> s])
     \/ \E l \in Lists, i, j \in Indexes :
          Choose([kind |-> "list", list |-> l, i |-> i, j |-> j])
     \/ \E x, y, z \in Sets : Choose([kind |-> "sets", dv |-> <<x, y, z>>])
     \/ \E s \in Lines, sep \in Separators : Choose([kind |-> "line", s |-> s, sep |-> sep])

Spec == Init /\ [][Next]_input

-----------------------------------------------------------------------------
(* What is expected.                                                       *)

\* The entries that have not expired when the dump is written, nor when it is read.
Lasts(e, saved, loaded) == e.expire = Never \/ (e.expire >= saved /\ e.expire >= loaded)

Unexpired(dbs, saved, loaded) ==
  [j \in DOMAIN dbs |->
     FlattenSeq([i \in DOMAIN dbs[j] |->
       IF Lasts(dbs[j][i], saved, loaded) THEN <<dbs[j][i]>> ELSE <<>>])]

\* Whatever a string looks like it is what it was after a dump and a load - a number
\* is written as one only if it would be printed the same - and so is a length at the
\* edge of each encoding, and a dataset.  Of a dump that is cut short nothing is
\* accepted: its last byte tells that it is whole.
DumpsRoundTrip ==
  CASE input.kind = "object" ->
         LET read == LoadString(SaveString(input.s))
         IN read.ok /\ read.val = input.s /\ read.rest = <<>>
    [] input.kind = "length" ->
         LET read == LoadLen(SaveLen(input.n))
         IN read.ok /\ ~read.encoded /\ read.val = input.n /\ read.rest = <<>>
    [] input.kind = "dump" ->
         LET f      == SaveDump(input.dbs, input.saved)
             dbnum  == Len(input.dbs)
             loaded == LoadDump(f, dbnum, input.loaded)
         IN /\ loaded.ok /\ loaded.val = Unexpired(input.dbs, input.saved, input.loaded)
            /\ \A n \in 0 .. Len(f) - 1 : ~LoadDump(SubSeq(f, 1, n), dbnum, input.loaded).ok
    [] OTHER -> TRUE

\* Element k of the reply is the one that has its place, from LIMIT's first one on, when
\* all are in order: fewer than that many are before it, and at least as many not behind
\* it.  The reply has as many as LIMIT asks for and there are, none more often than in
\* the list or set, and announces what it holds.
SortIsRight(s) ==
  LET reply == SortReply(s.elems, s.o, s.weight, Rank)
      objs  == [k \in DOMAIN reply.objs |-> reply.objs[k].obj]
      Key(e) == SortKey(e, s.o, s.weight, Rank)
      Before(x, y) == IF s.o.desc THEN x > y ELSE x < y
      n     == Len(s.elems)
      from  == IF s.o.start < 0 THEN 1 ELSE s.o.start + 1
      to    == IF s.o.count < 0 \/ from + s.o.count - 1 > n THEN n ELSE from + s.o.count - 1
      Times(seq, e) == Cardinality({i \in DOMAIN seq : seq[i] = e})
  IN /\ Len(objs) = Cardinality(from .. to)
     /\ reply.outputlen = Len(objs) * (IF s.o.gets = 0 THEN 1 ELSE s.o.gets)
     /\ \A e \in Range(objs) : Times(objs, e) <= Times(s.elems, e)
     /\ \A k \in DOMAIN objs :
          IF s.o.by = "const" THEN objs[k] = s.elems[from + k - 1]
          ELSE LET x == Key(objs[k])
               IN /\ Cardinality({i \in 1 .. n : Before(Key(s.elems[i]), x)}) < from + k - 1
                  /\ Cardinality({i \in 1 .. n : ~Before(x, Key(s.elems[i]))}) >= from + k - 1

\* What sortCommand computes of LIMIT and GET, for n elements, fits an int.  Otherwise it
\* may announce elements that it does not send: 2147483647 of three for LIMIT 2 2147483647.
IntsFit(o, n) == o.start + o.count - 1 <= IntMax /\ o.gets * n <= IntMax

\* SORT answers with the elements that LIMIT asks for, in order.
SortsAreRight ==
  input.kind = "sort" /\ IntsFit(input.s.o, Len(input.s.elems)) => SortIsRight(input.s)

\* What the pieces from i of a pattern fit begins at fits[i].
Fits(pieces, s) ==
  LET fits[i \in 1 .. Len(pieces) + 1] ==
        IF i > Len(pieces) THEN {Len(s) + 1}
        ELSE IF pieces[i].kind = "star"
        THEN {j \in 1 .. Len(s) + 1 : \E k \in fits[i + 1] : j <= k}
        ELSE {j \in 1 .. Len(s) : StandsFor(pieces[i], s[j]) /\ j + 1 \in fits[i + 1]}
  IN 1 \in fits[1]

\* A key is in the reply to KEYS if, and only if, it is made of what the pieces of the
\* pattern stand for.
GlobsAreRight ==
  input.kind = "glob" =>
    Matches(FlattenSeq([i \in DOMAIN input.p |-> Text(input.p[i])]), input.s)
      = Fits(input.p, input.s)

\* The elements at the positions from i to j, where a negative position is from the end.
ListIsRight(list, i, j) ==
  LET n == Len(list)
      Position(k) == IF k < 0 THEN n + k ELSE k
      At0(k)      == Position(k) + 1
      asked == [k \in 1 .. Cardinality({k \in 1 .. n : At0(i) <= k /\ k <= At0(j)}) |->
                  list[(IF At0(i) < 1 THEN 1 ELSE At0(i)) + k - 1]]
      times == IF i < 0 THEN -i ELSE i
      gone(e) == {k \in 1 .. n : list[k] = e}
      most(e) == IF i = 0 \/ Cardinality(gone(e)) < times THEN Cardinality(gone(e)) ELSE times
      side(e) == CHOOSE S \in SUBSET gone(e) :
                   /\ Cardinality(S) = most(e)
                   /\ \A k \in S, l \in gone(e) \ S : IF i < 0 THEN k > l ELSE k < l
      left(e) == 1 .. n \ side(e)
  IN /\ Position(j) >= 0 => Lrange(list, i, j) = asked /\ Ltrim(list, i, j) = asked
     /\ ListIndex(list, i) = IF At0(i) \in 1 .. n THEN <<list[At0(i)]>> ELSE <<>>
     /\ \A e \in Range(list) :
          LET result == Lrem(list, i, e)
          IN /\ result.removed = most(e)
             /\ result.left = [k \in 1 .. n - most(e) |->
                  list[CHOOSE l \in left(e) : Cardinality({h \in left(e) : h <= l}) = k]]

SetsAreRight(dv) ==
  /\ Sinter(dv) = {e \in UNION Range(dv) : \A i \in DOMAIN dv : e \in dv[i]}
  /\ Sunion(dv) = {e \in UNION Range(dv) : \E i \in DOMAIN dv : e \in dv[i]}
  /\ Sdiff(dv)  = {e \in dv[1] : \A i \in DOMAIN dv \ {1} : e \notin dv[i]}

Joined(tokens, sep) ==
  FlattenSeq([i \in DOMAIN tokens |-> IF i = 1 THEN tokens[i] ELSE sep \o tokens[i]])

Occurs(sep, s) == \E i \in 1 .. Len(s) - Len(sep) + 1 : SubSeq(s, i, i + Len(sep) - 1) = sep

\* LRANGE, LTRIM, LINDEX and LREM find the elements that their indexes and counts mean,
\* and SINTER, SUNION and SDIFF are the operations of set algebra.
ValuesAreRight ==
  /\ input.kind = "list" => ListIsRight(input.list, input.i, input.j)
  /\ input.kind = "sets" => SetsAreRight(input.dv)

\* Tokens have no separator in them and make the line again; trimming leaves a piece
\* with neither end in the set; cutting n characters off, as from a query buffer, leaves
\* the others; a string has no less room than it needs, nor more than it has.
LineIsRight(s, sep) ==
  LET tokens  == Split(s, sep)
      trimmed == Trimmed(s, Range(sep))
  IN /\ Joined(tokens, sep) = s
     /\ \A i \in DOMAIN tokens : ~Occurs(sep, tokens[i])
     /\ trimmed # <<>> => Range(sep) \cap {trimmed[1], Last(trimmed)} = {}
     /\ \E i, j \in 0 .. Len(s) :
          /\ Range(SubSeq(s, 1, i) \o SubSeq(s, j + 1, Len(s))) \subseteq Range(sep)
          /\ trimmed = SubSeq(s, i + 1, j)
     /\ \A n \in 0 .. Len(s) : Range0(s, n, -1) = SubSeq(s, n + 1, Len(s))
     /\ \A n \in 0 .. 3 : LET sh == Cat([len |-> Len(s), free |-> 1], n)
                          IN sh.len = Len(s) + n /\ sh.free >= 0

\* A line, or an argument, is cut where it should be.
LinesAreRight == input.kind = "line" => LineIsRight(input.s, input.sep)

=============================================================================
