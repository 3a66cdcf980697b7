-------------------------------- MODULE Strings -------------------------------
(***************************************************************************)
(* Dynamic strings, sds.c: the functions that cut lines and arguments out  *)
(* of what a client or a configuration file sent, and the room a string    *)
(* has to grow.  A string is a sequence of characters.                     *)
(***************************************************************************)
EXTENDS Integers, SequencesExt

\* sdsrange.  Indexes are from 0, negative ones from the end.
Range0(s, start, end) ==
  LET len == Len(s)
      FromEnd(i) == IF i >= 0 THEN i ELSE IF len + i < 0 THEN 0 ELSE len + i
      Inside(i)  == IF i >= len THEN len - 1 ELSE i
  IN IF len = 0 \/ FromEnd(start) > FromEnd(end) THEN <<>>
     ELSE SubSeq(s, Inside(FromEnd(start)) + 1, Inside(FromEnd(end)) + 1)

\* sdstrim: sp and ep meet where nothing is left.
Trimmed(s, cset) ==
  LET kept == {i \in DOMAIN s : s[i] \notin cset}
      sp   == CHOOSE i \in kept : \A j \in kept : i <= j
      ep   == CHOOSE i \in kept : \A j \in kept : j <= i
  IN IF kept = {} THEN <<>> ELSE SubSeq(s, sp, ep)

Here(s, sep, j) == SubSeq(s, j, j + Len(sep) - 1) = sep

\* Mutant of Searched: the search goes on behind the first character of the separator.
SearchedOverlapping(w, s, sep, j) ==
  IF j < w.start - Len(sep) + 1 \/ ~Here(s, sep, j) THEN w
  ELSE [tokens |-> Append(w.tokens, SubSeq(s, w.start, j - 1)), start |-> j + Len(sep)]

\* A turn of sdssplitlen, at position j; a separator that is found is skipped.
Searched(w, s, sep, j) ==
  IF j < w.start \/ ~Here(s, sep, j) THEN w
  ELSE [tokens |-> Append(w.tokens, SubSeq(s, w.start, j - 1)), start |-> j + Len(sep)]

\* sdssplitlen.  Two separators side by side have an empty token between them.
Split(s, sep) ==
  LET turns == IF Len(s) < Len(sep) THEN 0 ELSE Len(s) - Len(sep) + 1
      after[j \in 0 .. turns] ==
        IF j = 0 THEN [tokens |-> <<>>, start |-> 1] ELSE Searched(after[j - 1], s, sep, j)
      ends == after[turns]
  IN Append(ends.tokens, SubSeq(s, ends.start, Len(s)))

\* sdsMakeRoomFor, and sdscatlen of n characters: the fields of the header.
Cat(sh, n) ==
  LET free == IF sh.free >= n THEN sh.free ELSE (sh.len + n) * 2 - sh.len
  IN [len |-> sh.len + n, free |-> free - n]

=============================================================================
