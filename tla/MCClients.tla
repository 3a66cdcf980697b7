------------------------------ MODULE MCClients ------------------------------
EXTENDS Clients

Alphabet ==
  {"", "nl", "cr", "x", "words", "set", "get", "sync", "monitor", "neg", "quit",
   "+", "-", "$", "g1", "g2", "count", "dump"}

\* Bulk lengths: of two units, and one that is not accepted.
Lengths == [set |-> 2, neg |-> -3]

\* A payload with a command in it and another behind it, beside a slave; a bad count and
\* an empty line, beside a monitor that quits; a line without end, beside one client
\* more than there may be.
Streams ==
  { [a |-> <<"set", "nl", "get", "nl", "cr", "nl", "get", "nl">>, b |-> <<"sync", "nl">>],
    [a |-> <<"neg", "nl", "nl", "get", "nl">>, b |-> <<"monitor", "nl", "quit", "nl">>],
    [a |-> <<"get", "nl", "get", "nl">>, b |-> <<"x", "x", "x">>, c |-> <<>>] }

\* What follows a stale event is undefined.
StopAtStale == ~early

=============================================================================
