--------------------------------- MODULE Glob ---------------------------------
(***************************************************************************)
(* stringmatchlen, with which KEYS selects keys: a pattern and a string    *)
(* are sequences of character codes.  The pattern of a command ends with a *)
(* NUL that the code sometimes looks at.                                   *)
(***************************************************************************)
EXTENDS Integers, SequencesExt

Star == 42
Question == 63
Open == 91
Close == 93
Caret == 94
Dash == 45
Backslash == 92

At(s, i) == IF i \in DOMAIN s THEN s[i] ELSE 0

Between(c, x, y) == (x <= c /\ c <= y) \/ (y <= c /\ c <= x)

\* The loop over a class, from position k, behind its bracket and its caret: whether c is
\* in it, and the position behind it, that of the end if no bracket closes it.
Class(p, k, c) ==
  LET class[i \in 1 .. Len(p) + 2] ==
        LET Or(hit, next) == [match |-> hit \/ class[next].match, next |-> class[next].next]
        IN IF At(p, i) = Backslash THEN Or(At(p, i + 1) = c, i + 2)
           ELSE IF i > Len(p) \/ At(p, i) = Close
           THEN [match |-> FALSE, next |-> IF i > Len(p) THEN Len(p) + 1 ELSE i + 1]
           ELSE IF At(p, i + 1) = Dash /\ i + 2 <= Len(p)
           THEN Or(Between(c, p[i], p[i + 2]), i + 3)
           ELSE Or(p[i] = c, i + 1)
  IN class[k]

AllStars(p, i) == \A k \in i .. Len(p) : p[k] = Star

\* Mutant of StarMatches: the star takes at least one character.
StarMatchesOne(p, i, s, j, behind) == AllStars(p, i) \/ \E k \in j + 1 .. Len(s) : k \in behind

\* What is behind a star matches at the positions `behind`.  The star does not take the
\* whole string unless nothing follows it in the pattern.
StarMatches(p, i, s, j, behind) == AllStars(p, i) \/ \E k \in j .. Len(s) : k \in behind

\* stringmatchlen: matches[i] are the positions from which the string matches the
\* pattern from i.
Matches(p, s) ==
  LET matches[i \in 1 .. Len(p) + 1] ==
        LET not      == At(p, i + 1) = Caret
            Hit(j)   == Class(p, IF not THEN i + 2 ELSE i + 1, At(s, j))
            here     == IF p[i] = Backslash /\ i < Len(p) THEN i + 1 ELSE i
            next     == IF p[i] = Open THEN Hit(1).next ELSE here + 1
            behind   == matches[next]
            Rest(j)  == IF j = Len(s) THEN AllStars(p, next) ELSE j + 1 \in behind
            One(j)   == CASE p[i] = Question -> j <= Len(s)
                          [] p[i] = Open     -> Hit(j).match # not
                          [] OTHER           -> p[here] = At(s, j)
        IN IF i > Len(p) THEN {Len(s) + 1}
           ELSE {j \in 1 .. Len(s) + 1 :
                   IF p[i] = Star THEN StarMatches(p, i, s, j, behind) ELSE One(j) /\ Rest(j)}
  IN 1 \in matches[1]

=============================================================================
