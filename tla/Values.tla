------------------------------- MODULE Values --------------------------------
(***************************************************************************)
(* What the commands compute from the objects they look up: index          *)
(* arithmetic on lists, the algebra of sets.  A list is a sequence and a   *)
(* set of the program a set; indexes are the program's, from 0 or, from    *)
(* the tail, from -1.                                                      *)
(***************************************************************************)
EXTENDS Integers, FiniteSets, SequencesExt

\* listIndex: the node at an index, <<>> for NULL.
ListIndex(list, index) ==
  LET n == IF index < 0 THEN Len(list) - (-index - 1) ELSE index + 1
  IN IF n \in 1 .. Len(list) THEN <<list[n]>> ELSE <<>>

\* "convert negative indexes"
Converted(index, llen) ==
  LET fromHead == IF index < 0 THEN llen + index ELSE index
  IN IF fromHead < 0 THEN 0 ELSE fromHead

\* lrangeCommand: the elements of the reply.
Lrange(list, from, to) ==
  LET llen  == Len(list)
      start == Converted(from, llen)
      end   == Converted(to, llen)
      last  == IF end >= llen THEN llen - 1 ELSE end
  IN IF start > end \/ start >= llen THEN <<>> ELSE SubSeq(list, start + 1, last + 1)

\* Mutant of Ltrim: the end is not brought inside the list.
LtrimTooFar(list, from, to) ==
  LET llen  == Len(list)
      start == Converted(from, llen)
      end   == Converted(to, llen)
      none  == start > end \/ start >= llen
      ltrim == IF none THEN llen ELSE start
      rtrim == IF none THEN 0 ELSE IF end > llen THEN 0 ELSE llen - end
  IN SubSeq(list, ltrim + 1, llen - rtrim)

\* ltrimCommand: what is left after ltrim deletions at the head, rtrim at the tail.
Ltrim(list, from, to) ==
  LET llen  == Len(list)
      start == Converted(from, llen)
      end   == Converted(to, llen)
      none  == start > end \/ start >= llen
      ltrim == IF none THEN llen ELSE start
      rtrim == IF none \/ end >= llen THEN 0 ELSE llen - end - 1
  IN SubSeq(list, ltrim + 1, llen - rtrim)

\* lremCommand walks from the head, or from the tail if toremove is negative, and
\* stops when |toremove| elements equal to e are gone; 0 never stops it.
Lrem(list, toremove, e) ==
  LET n == IF toremove < 0 THEN -toremove ELSE toremove
      Visit(walk, ele) ==
        IF ele = e /\ (n = 0 \/ walk.removed < n)
        THEN [walk EXCEPT !.removed = @ + 1]
        ELSE [walk EXCEPT !.left = Append(@, ele)]
      Walk(l) ==
        LET after[i \in 0 .. Len(l)] ==
              IF i = 0 THEN [left |-> <<>>, removed |-> 0] ELSE Visit(after[i - 1], l[i])
        IN after[Len(l)]
  IN IF toremove < 0
     THEN [Walk(Reverse(list)) EXCEPT !.left = Reverse(@)]
     ELSE Walk(list)

\* sinterGenericCommand: the elements of the smallest set that no other set lacks.
Sinter(dv) ==
  LET smallest == CHOOSE j \in DOMAIN dv :
                    \A i \in DOMAIN dv : Cardinality(dv[j]) <= Cardinality(dv[i])
  IN {ele \in dv[smallest] : \A j \in DOMAIN dv \ {smallest} : ele \in dv[j]}

\* sunionDiffGenericCommand; a set that does not exist is {}.
Sunion(dv) == UNION {dv[j] : j \in DOMAIN dv}

\* With REDIS_OP_DIFF sets are taken away from the first, until nothing is left.
Sdiff(dv) ==
  LET after[i \in 1 .. Len(dv)] ==
        IF i = 1 THEN dv[1]
        ELSE IF after[i - 1] = {} THEN {} ELSE after[i - 1] \ dv[i]
  IN after[Len(dv)]

=============================================================================
