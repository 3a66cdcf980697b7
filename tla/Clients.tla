------------------------------- MODULE Clients -------------------------------
(***************************************************************************)
(* The connections of a server: its event loop, the framing of what        *)
(* clients send, the reply lists and what is written of them.              *)
(*                                                                         *)
(* A stream is a sequence of units.  "nl" ends a line, a word of the       *)
(* command table stands for the rest of one, any unit may be part of a     *)
(* bulk argument.  A reply object is a sequence of units as well.          *)
(*                                                                         *)
(* A handler runs to its end before another does: it is an operator on     *)
(* [cl, ev, early], the clients, the list of file events and a history.    *)
(***************************************************************************)
EXTENDS Integers, FiniteSets, SequencesExt

CONSTANTS
  Unit,        \* the units
  Conns,       \* connections that may be made
  Unsteady,    \* those that may be closed or broken
  Fds,         \* descriptors the server may get for them
  Scripts,     \* each gives some connections the streams they may send
  Inline,      \* the commands whose arguments are all in their line
  BulkLength,  \* BulkLength[w]: the length at the end of the line of w
  MaxBulk,     \* 1 GB
  Writes,      \* the commands that change server.dirty
  MaxClients,  \* server.maxclients, 0 for no limit
  MaxInline,   \* 32 KB
  GlueMax,     \* 1024
  MaxSent,     \* bound: units sent at once
  Room,        \* units in a socket's buffer
  LowWater,    \* select finds a socket writable with so much room
  DumpSize,    \* server.dbfilename, in units
  IoBuf        \* REDIS_IOBUF_LEN

ASSUME ClientsAssumption ==
  /\ IsFiniteSet(Conns) /\ "none" \notin Conns
  /\ Fds \subseteq Nat \ {0}
  /\ \A scripts \in Scripts :
       \A c \in DOMAIN scripts : c \in Conns /\ scripts[c] \in Seq(Unit)
  /\ {"", "nl", "words", "+", "-", "$", "g1", "g2", "count", "dump"} \subseteq Unit
  /\ Inline \subseteq Unit /\ DOMAIN BulkLength \subseteq Unit \ Inline
  /\ \A w \in DOMAIN BulkLength : BulkLength[w] \in Int
  /\ {"count", "dump"} \cap (Inline \cup DOMAIN BulkLength) = {}
  /\ {MaxClients, MaxInline, MaxSent, MaxBulk, Room} \subseteq Nat
  /\ {GlueMax, IoBuf, DumpSize} \subseteq Nat \ {0}
  /\ LowWater \in 1 .. Room

VARIABLES
  cl,    \* the connections, seen from both ends
  ev,    \* eventLoop->fileEventHead
  bits,  \* rfds and wfds: what is left to handle of what select found
  loop,  \* where aeProcessEvents is
  timer, \* serverCron's: set by the last round, running, or overdue before select
  early  \* history: a client was freed that had two writable events

vars == <<cl, ev, bits, loop, timer, early>>

Listener == 0
Commands == Inline \cup DOMAIN BulkLength

\* A connection: what its client has still to send, what is in the sockets, and the
\* redisClient.  The last five are history.
Fresh(script) ==
  [state |-> "none", peer |-> "open", script |-> script, input |-> <<>>, room |-> Room,
   fd |-> Listener, role |-> "normal", repl |-> "none", off |-> 0,
   querybuf |-> <<>>, argv |-> "", bulk |-> <<>>, bulklen |-> -1,
   reply |-> <<>>, sentlen |-> 0,
   received |-> <<>>, executed |-> <<>>, held |-> FALSE, owed |-> <<>>, out |-> <<>>]
Gone == [state |-> "freed", peer |-> "closed", role |-> "normal"]

Event(fd, mask, proc, c) == [fd |-> fd, mask |-> mask, proc |-> proc, client |-> c]

IsOpen(s, c) == s.cl[c].state = "open"
Open == {c \in Conns : cl[c].state = "open"}
Masked(e, fd, mask) == e.fd = fd /\ e.mask = mask
Writers(s, c) ==
  {i \in DOMAIN s.ev : s.ev[i].client = c /\ s.ev[i].mask = "writable"}

Init ==
  /\ \E scripts \in Scripts :
       cl = [c \in Conns |-> IF c \in DOMAIN scripts THEN Fresh(scripts[c]) ELSE Gone]
  /\ ev = <<Event(Listener, "readable", "accept", "none")>>
  /\ bits = {} /\ loop = "select" /\ timer = "set" /\ early = FALSE

-----------------------------------------------------------------------------
(* File events.                                                            *)

\* aeCreateFileEvent puts it at the head.
Create(s, e) == [s EXCEPT !.ev = <<e>> \o @]

\* aeDeleteFileEvent removes the first.
Delete(s, fd, mask) ==
  LET found == {i \in DOMAIN s.ev : Masked(s.ev[i], fd, mask)}
  IN IF found = {} THEN s ELSE [s EXCEPT !.ev = RemoveAt(@, Min(found))]

\* Mutant of FreeClient: the writable event is forgotten.
FreeClientReading(s, c) ==
  [Delete(s, s.cl[c].fd, "readable") EXCEPT !.cl[c] = Gone]

\* freeClient
FreeClient(s, c) ==
  LET fd == s.cl[c].fd
  IN [Delete(Delete(s, fd, "readable"), fd, "writable") EXCEPT
        !.cl[c] = Gone, !.early = @ \/ Cardinality(Writers(s, c)) > 1]

\* A handler that goes through a list.
ForEach(Do(_, _), s, list) ==
  LET Done[i \in 0 .. Len(list)] == IF i = 0 THEN s ELSE Do(Done[i - 1], list[i])
  IN Done[Len(list)]

-----------------------------------------------------------------------------
(* Replies.                                                                *)

\* addReply
AddReply(s, c, obj) ==
  LET k == s.cl[c]
      t == IF k.reply = <<>> /\ k.repl \in {"none", "online"}
           THEN Create(s, Event(k.fd, "writable", "sendReply", c)) ELSE s
  IN [t EXCEPT !.cl[c].reply = Append(@, obj), !.cl[c].owed = @ \o obj]

AddReplies(s, c, objs) == ForEach(LAMBDA t, obj : AddReply(t, c, obj), s, objs)

\* replicationFeedSlaves: one object stands for a command.
Feed(s, cmd, role) ==
  LET fed == {c \in Conns : s.cl[c].state = "open" /\ s.cl[c].role = role}
  IN ForEach(LAMBDA t, c : AddReply(t, c, <<cmd>>), s, SetToSeq(fed))

\* Mutant of Glued: glued from where the first one was left.
GluedRest(k) ==
  LET all == FlattenSeq(k.reply)
  IN IF Len(k.reply) > 1 /\ Len(all) \in 1 .. GlueMax
     THEN <<SubSeq(all, k.sentlen + 1, Len(all))>> ELSE k.reply

\* glueReplyBuffersIfNeeded
Glued(k) ==
  LET all == FlattenSeq(k.reply)
  IN IF Len(k.reply) > 1 /\ Len(all) \in 1 .. GlueMax THEN <<all>> ELSE k.reply

\* A turn of the loop of sendReplyToClient: the object at the head is written as far as
\* there is room, and leaves the list when it is complete.
WriteHead(k) ==
  LET obj  == Head(k.reply)
      rest == Len(obj) - k.sentlen
      n    == IF rest <= k.room THEN rest ELSE k.room
      w    == [k EXCEPT !.room = @ - n,
                        !.out = @ \o SubSeq(obj, k.sentlen + 1, k.sentlen + n)]
  IN IF k.reply = <<>> \/ (k.room = 0 /\ obj # <<>>) THEN k
     ELSE IF n = rest THEN [w EXCEPT !.reply = Tail(@), !.sentlen = 0]
     ELSE [w EXCEPT !.sentlen = @ + n]

\* The loop.  Where it breaks, a turn changes nothing.
Written(k) ==
  LET Turn[i \in 0 .. Len(k.reply)] == IF i = 0 THEN k ELSE WriteHead(Turn[i - 1])
  IN Turn[Len(k.reply)]

\* sendReplyToClient
SendReply(s, c) ==
  LET k == [s.cl[c] EXCEPT !.reply = Glued(s.cl[c])]
      w == Written(k)
      t == [s EXCEPT !.cl[c] = w]
  IN IF k.peer = "reset" /\ FlattenSeq(k.reply) # <<>> THEN FreeClient(s, c)
     ELSE IF w.reply = <<>> THEN Delete(t, w.fd, "writable")
     ELSE t

\* sendBulkToSlave: the count, in front of the first block, then a block.
SendBulk(s, c) ==
  LET k == s.cl[c]
      room == IF k.off = 0 THEN k.room - 1 ELSE k.room
      n == Min({IoBuf, DumpSize - k.off, room})
      w == [k EXCEPT !.off = @ + n, !.room = room - n,
                     !.out = @ \o (IF k.off = 0 THEN <<"count">> ELSE <<>>)
                               \o [i \in 1 .. n |-> "dump"]]
      t == Delete([s EXCEPT !.cl[c] = [w EXCEPT !.repl = "online"]], k.fd, "writable")
  IN IF k.peer = "reset" \/ n = 0 THEN FreeClient(s, c)
     ELSE IF w.off < DumpSize THEN [s EXCEPT !.cl[c] = w]
     ELSE AddReply(Create(t, Event(k.fd, "writable", "sendReply", c)), c, <<>>)

-----------------------------------------------------------------------------
(* Commands.                                                               *)

\* resetClient; the history notes what had been read as a command.
Reset(s, c) ==
  LET k == s.cl[c]
  IN [s EXCEPT !.cl[c].argv = "", !.cl[c].bulk = <<>>, !.cl[c].bulklen = -1,
               !.cl[c].executed = Append(@, <<k.argv, k.bulk>>)]

Answer(cmd) == IF cmd = "get" THEN << <<"$">>, <<"g1", "g2">> >> ELSE << <<"+">> >>

\* cmd->proc, as far as it concerns connections.  SYNC starts a child; that another may
\* be running is in Replication.
Proc(s, c, cmd) ==
  LET k == s.cl[c]
  IN CASE cmd = "sync" ->
            IF k.role # "normal" THEN s
            ELSE IF k.reply # <<>> THEN AddReply(s, c, <<"-">>)
            ELSE [s EXCEPT !.cl[c].role = "slave", !.cl[c].repl = "wait"]
       [] cmd = "monitor" ->
            IF k.role # "normal" THEN s
            ELSE AddReply([s EXCEPT !.cl[c].role = "monitor"], c, <<"+">>)
       [] OTHER -> AddReplies(s, c, Answer(cmd))

Exec(s, c) ==
  LET cmd == s.cl[c].argv
      t == Proc(s, c, cmd)
      u == IF cmd \in Writes THEN Feed(t, cmd, "slave") ELSE t
  IN Reset(Feed(u, cmd, "monitor"), c)

\* Mutant of TakeBulk: the two units after the argument stay.
TakeBulkOnly(s, c) ==
  LET n == s.cl[c].bulklen - 2
  IN [s EXCEPT !.cl[c].bulk = SubSeq(@, 1, 0) \o SubSeq(s.cl[c].querybuf, 1, n),
               !.cl[c].querybuf = SubSeq(@, n + 1, Len(@))]

\* The argument leaves the buffer with the two units after it.
TakeBulk(s, c) ==
  LET n == s.cl[c].bulklen
  IN [s EXCEPT !.cl[c].bulk = SubSeq(s.cl[c].querybuf, 1, n - 2),
               !.cl[c].querybuf = SubSeq(@, n + 1, Len(@))]

\* processCommand
ProcessCommand(s, c) ==
  LET k == s.cl[c]
      n == IF k.argv \in DOMAIN BulkLength THEN BulkLength[k.argv] ELSE -1
      t == [s EXCEPT !.cl[c].bulklen = n + 2]
  IN IF k.argv = "quit" THEN FreeClient(s, c)
     ELSE IF k.argv \notin Commands THEN Reset(AddReply(s, c, <<"-">>), c)
     ELSE IF k.argv \in Inline \/ k.bulklen # -1 THEN Exec(s, c)
     ELSE IF n \notin 0 .. MaxBulk THEN Reset(AddReply(s, c, <<"-">>), c)
     ELSE IF Len(k.querybuf) >= n + 2 THEN Exec(TakeBulk(t, c), c)
     ELSE t

LineEnd(buf) == SelectInSeq(buf, LAMBDA unit : unit = "nl")
Word(line) == IF Len(line) = 1 THEN line[1] ELSE "words"

\* From `again` in readQueryFromClient, where it leads and whether it goes there again.
Turn(s, c) ==
  LET k    == s.cl[c]
      p    == LineEnd(k.querybuf)
      line == SubSeq(k.querybuf, 1, p - 1)
      rest == [s EXCEPT !.cl[c].querybuf = SubSeq(@, p + 1, Len(@))]
      t    == ProcessCommand([rest EXCEPT !.cl[c].argv = Word(line)], c)
      End(u) == [s |-> u, again |-> FALSE]
  IN IF k.bulklen # -1
     THEN IF Len(k.querybuf) < k.bulklen THEN End(s)
          ELSE End(ProcessCommand(TakeBulk([s EXCEPT !.cl[c].held = TRUE], c), c))
     ELSE IF p = 0
     THEN IF Len(k.querybuf) >= MaxInline THEN End(FreeClient(s, c)) ELSE End(s)
     ELSE IF line = <<>> THEN End([rest EXCEPT !.cl[c].held = TRUE])
     ELSE [s |-> t, again |-> IsOpen(t, c) /\ t.cl[c].querybuf # <<>>]

\* Every turn but the last takes a line from the buffer.
Again(s, c) ==
  LET Turns[i \in 0 .. Len(s.cl[c].querybuf)] ==
        IF i = 0 THEN [s |-> s, again |-> TRUE]
        ELSE IF Turns[i - 1].again THEN Turn(Turns[i - 1].s, c) ELSE Turns[i - 1]
  IN Turns[Len(s.cl[c].querybuf)].s

\* readQueryFromClient
ReadQuery(s, c) ==
  LET k == s.cl[c]
  IN IF k.input # <<>>
     THEN Again([s EXCEPT !.cl[c].querybuf = @ \o k.input, !.cl[c].input = <<>>,
                          !.cl[c].received = @ \o k.input, !.cl[c].held = FALSE], c)
     ELSE IF k.peer = "open" THEN s
     ELSE FreeClient(s, c)

\* Mutant of Accept: as many clients as there are descriptors.
AcceptAll(s, c) ==
  LET free == Fds \ {s.cl[o].fd : o \in {x \in Conns : IsOpen(s, x)}}
  IN IF free = {} THEN s
     ELSE Create([s EXCEPT !.cl[c].state = "open", !.cl[c].fd = Min(free)],
                 Event(Min(free), "readable", "readQuery", c))

\* acceptHandler, createClient.  Without a descriptor accept fails.
Accept(s, c) ==
  LET free == Fds \ {s.cl[o].fd : o \in {x \in Conns : IsOpen(s, x)}}
      t == Create([s EXCEPT !.cl[c].state = "open", !.cl[c].fd = Min(free)],
                  Event(Min(free), "readable", "readQuery", c))
  IN IF free = {} THEN s
     ELSE IF MaxClients # 0 /\ Cardinality({o \in Conns : IsOpen(t, o)}) > MaxClients
     THEN FreeClient(t, c)
     ELSE t

-----------------------------------------------------------------------------
(* The event loop.                                                         *)

State == [cl |-> cl, ev |-> ev, early |-> early]
Becomes(s) == cl' = s.cl /\ ev' = s.ev /\ early' = (early \/ s.early)

Waiting == {c \in Conns : cl[c].state = "backlog"}

Ready(e) ==
  CASE e.fd = Listener        -> Waiting # {}
    [] e.mask = "readable"    -> cl[e.client].input # <<>> \/ cl[e.client].peer # "open"
    [] OTHER                  -> cl[e.client].room >= LowWater \/ cl[e.client].peer = "reset"

\* Mutant of Late: the timer is set again from the time it was due.
LateAlways == timer # "overdue"

\* The nearest timer is overdue when select is called: its timeout is negative, and
\* it fails.  A timer that has just been set again is not.
Late == timer = "running"

Select ==
  /\ loop = "select" /\ loop' = "walk"
  /\ \/ /\ bits' = {<<e.fd, e.mask, e.client>> : e \in {x \in ToSet(ev) : Ready(x)}}
        /\ timer' = "running"
     \/ Late /\ bits' = {} /\ timer' = "overdue"
  /\ UNCHANGED <<cl, ev, early>>

IsSet(e) == \E b \in bits : b[1] = e.fd /\ b[2] = e.mask

\* Mutant of Cleared: FD_CLR for the mask that was handled.
ClearedMask(e) == {b \in bits : b[1] # e.fd \/ b[2] # e.mask}

\* FD_CLR, in all sets
Cleared(e) == {b \in bits : b[1] # e.fd}

\* The walk starts again at the head after every handler, so the next event is always
\* the first that is set.
Handle ==
  /\ loop = "walk"
  /\ LET set == {i \in DOMAIN ev : IsSet(ev[i])}
         e == ev[Min(set)]
     IN /\ set # {}
        /\ bits' = Cleared(e)
        /\ \/ e.proc = "readQuery" /\ Becomes(ReadQuery(State, e.client))
           \/ e.proc = "sendReply" /\ Becomes(SendReply(State, e.client))
           \/ e.proc = "sendBulk" /\ Becomes(SendBulk(State, e.client))
           \/ e.proc = "accept" /\ \E c \in Waiting : Becomes(Accept(State, c))
  /\ UNCHANGED <<loop, timer>>

\* Nothing is set any more, for an event that is still in the list.
Walked ==
  /\ loop = "walk" /\ loop' = "select"
  /\ bits' = {}
  /\ \A i \in DOMAIN ev : ~IsSet(ev[i])

\* No timer is due.
Idle ==
  /\ Walked
  /\ timer # "overdue"
  /\ UNCHANGED <<cl, ev, timer, early>>

\* updateSalvesWaitingBgsave, for the slaves whose dump has been saved.
Saved(s, c) ==
  Create(Delete([s EXCEPT !.cl[c].repl = "bulk"], s.cl[c].fd, "writable"),
         Event(s.cl[c].fd, "writable", "sendBulk", c))

\* serverCron: closeTimedoutClients, then a child that has ended.
Cron ==
  /\ Walked
  /\ timer' = "set"
  /\ \E timedout \in SUBSET {c \in Open : cl[c].role = "normal"} :
       LET s == ForEach(FreeClient, State, SetToSeq(timedout))
           slaves == {c \in Open : cl[c].repl = "wait"}
       IN \/ Becomes(s)
          \/ slaves # {} /\ Becomes(ForEach(Saved, s, SetToSeq(slaves)))
          \/ slaves # {} /\ Becomes(ForEach(FreeClient, s, SetToSeq(slaves)))

-----------------------------------------------------------------------------
(* The other ends.                                                         *)

Client(c, k) ==
  /\ cl' = [cl EXCEPT ![c] = k]
  /\ UNCHANGED <<ev, bits, loop, timer, early>>

Connect(c) ==
  /\ cl[c].state = "none"
  /\ Client(c, [cl[c] EXCEPT !.state = "backlog"])

\* What is sent before the last piece is read is as good as a longer piece.
Send(c, n) ==
  /\ c \in Open /\ cl[c].peer = "open" /\ cl[c].input = <<>>
  /\ n <= Len(cl[c].script)
  /\ Client(c, [cl[c] EXCEPT !.input = @ \o SubSeq(cl[c].script, 1, n),
                             !.script = SubSeq(@, n + 1, Len(@))])

\* The client reads what has been written to it.
Drain(c) ==
  /\ c \in Open /\ cl[c].peer = "open" /\ cl[c].room < Room
  /\ Client(c, [cl[c] EXCEPT !.room = Room])

Close(c) ==
  /\ c \in Open \cap Unsteady /\ cl[c].peer = "open"
  /\ Client(c, [cl[c] EXCEPT !.peer = "closed", !.script = <<>>])

Break(c) ==
  /\ c \in Open \cap Unsteady /\ cl[c].peer # "reset"
  /\ Client(c, [cl[c] EXCEPT !.peer = "reset", !.script = <<>>, !.input = <<>>])

Loop == Select \/ Handle \/ Idle \/ Cron

Next ==
  \/ Loop
  \/ \E c \in Conns : \/ Connect(c) \/ Drain(c) \/ Close(c) \/ Break(c)
                      \/ \E n \in 1 .. MaxSent : Send(c, n)

Spec == Init /\ [][Next]_vars

\* The server's process runs - a step of its loop is always possible, so that weak
\* fairness is just []<> - and clients that stay read what they are sent.
Fairness == []<><<Loop>>_vars /\ \A c \in Conns : WF_vars(Drain(c))
FairSpec == Spec /\ Fairness

-----------------------------------------------------------------------------
(* Properties.                                                             *)

TypeOK ==
  /\ \A c \in Conns : cl[c].state \in {"none", "backlog", "open", "freed"}
  /\ \A c \in Open : /\ cl[c].fd \in Fds /\ cl[c].room \in 0 .. Room
                     /\ cl[c].role \in {"normal", "slave", "monitor"}
                     /\ cl[c].role # "slave" <=> cl[c].repl = "none"
                     /\ cl[c].repl \in {"none", "wait", "bulk", "online"}
                     /\ cl[c].off \in 0 .. DumpSize
                     /\ cl[c].bulklen = -1 \/ cl[c].bulklen \in 2 .. MaxBulk + 2
                     /\ cl[c].sentlen \in 0 .. GlueMax
                     /\ cl[c].reply = <<>> => cl[c].sentlen = 0
  /\ \A c1, c2 \in Open : cl[c1].fd = cl[c2].fd => c1 = c2
  /\ MaxClients = 0 \/ Cardinality(Open) <= MaxClients
  /\ loop \in {"select", "walk"} /\ timer \in {"set", "running", "overdue"}
  /\ early \in BOOLEAN

\* The commands of a stream, whatever the pieces it comes in.
Parsed[stream \in Seq(Unit)] ==
  LET p    == LineEnd(stream)
      word == Word(SubSeq(stream, 1, p - 1))
      rest == SubSeq(stream, p + 1, Len(stream))
      n    == IF word \in DOMAIN BulkLength THEN BulkLength[word] ELSE -1
  IN IF p = 0 THEN <<>>
     ELSE IF p = 1 THEN Parsed[rest]
     ELSE IF n \notin 0 .. MaxBulk THEN << <<word, <<>>>> >> \o Parsed[rest]
     ELSE IF Len(rest) < n + 2 THEN <<>>
     ELSE << <<word, SubSeq(rest, 1, n)>> >> \o Parsed[SubSeq(rest, n + 3, Len(rest))]

\* What a client has executed is what its stream says, in whatever pieces it was read;
\* and nothing complete waits for more input, except behind a bulk argument that came
\* later than its line, or behind an empty line.
CutsDoNotMatter ==
  \A c \in Open : /\ IsPrefix(cl[c].executed, Parsed[cl[c].received])
                  /\ cl[c].held \/ cl[c].executed = Parsed[cl[c].received]

IsDump(unit) == unit \in {"count", "dump"}

\* Partial writes, glueing and the dump of a slave neither lose, repeat nor reorder
\* anything of the replies; the dump is written in one piece, before all that was
\* queued meanwhile.
RepliesInOrder ==
  \A c \in Open :
    LET k      == cl[c]
        queued == FlattenSeq(k.reply)
        n      == IF k.off = 0 THEN 0 ELSE k.off + 1
    IN \E at \in 0 .. Len(k.out) :
         /\ {i \in DOMAIN k.out : IsDump(k.out[i])} = at + 1 .. at + n
         /\ SubSeq(k.out, 1, at) \o SubSeq(k.out, at + n + 1, Len(k.out))
              \o SubSeq(queued, k.sentlen + 1, Len(queued)) = k.owed
         /\ 0 < k.off /\ k.off < DumpSize => at + n = Len(k.out)

\* A client has one readable event, and a writable one when there is something to write;
\* events die with their client.  Between the end of its dump and its next reply a
\* slave may have two writable events, of which freeClient deletes one: a slave that
\* is freed then leaves an event behind, with a freed client in it.
EventsHaveClients ==
  ~early =>
  /\ \A e \in ToSet(ev) : e.fd = Listener \/ (e.client \in Open /\ cl[e.client].fd = e.fd)
  /\ \A c \in Open :
       LET writers == Cardinality(Writers(State, c))
       IN /\ Cardinality({i \in DOMAIN ev : ev[i].client = c}) = writers + 1
          /\ CASE cl[c].repl = "none"   -> writers = IF cl[c].reply = <<>> THEN 0 ELSE 1
               [] cl[c].repl = "wait"   -> writers = 0
               [] cl[c].repl = "bulk"   -> writers = 1
               [] cl[c].repl = "online" -> cl[c].reply # <<>> => writers \in 1 .. 2

\* The walk never takes a descriptor for the connection that had it when select was
\* called, once accept has given it to another.
BitsAreCurrent ==
  \A b \in bits : b[1] = Listener \/ \A c \in Open : cl[c].fd = b[1] => b[3] = c

\* Whatever arrives is read, and every reply is sent as long as its client reads: no
\* timer, and no order of the events in the list, starves a client.
Served ==
  \A c \in Conns :
    /\ (c \in Open /\ cl[c].input # <<>>) ~> (c \notin Open \/ cl[c].input = <<>>)
    /\ (c \in Open /\ cl[c].repl \in {"none", "online"} /\ cl[c].reply # <<>>)
         ~> (c \notin Open \/ cl[c].reply = <<>>)

=============================================================================
