----------------------------- MODULE Replication -----------------------------
(***************************************************************************)
(* A master and the connections of its slaves: syncCommand,                *)
(* replicationFeedSlaves, updateSalvesWaitingBgsave, sendBulkToSlave, and  *)
(* what the slave at the other end of each connection holds.               *)
(*                                                                         *)
(* The n-th change made to the dataset is hist[n].  A dataset is named by  *)
(* the number of changes it holds: `image`, `dump` and `bulk` are such     *)
(* numbers.  The saving child is reduced to how it ends; Persistence has   *)
(* the rest, and shows that the server never has more than one.            *)
(***************************************************************************)
EXTENDS Integers, FiniteSets, Sequences

CONSTANTS
  Slaves,     \* the slaves, with at most one connection each
  Dbs,        \* the databases clients select; 0 is one of them
  Ops,        \* the kinds of change clients make, a subset of AllOps
  Faults,     \* what the environment may do, a subset of AllFaults
  MaxChanges, \* bound: changes made to the dataset
  MaxSyncs    \* bound: SYNC commands received

AllOps == {"write",     \* a command that counts in server.dirty
           "silent",    \* one that changes the dataset and does not: EXPIRE, or a
                        \* SINTERSTORE that deletes its target
           "flushall"}

AllFaults == {"fork",   \* fork fails
              "child",  \* the saving child exits with an error
              "kill",   \* the saving child is killed
              "save",   \* the rdbSave of FLUSHALL fails
              "open",   \* the dump cannot be opened after a save
              "link"}   \* a connection breaks

ASSUME ReplicationAssumption ==
  /\ IsFiniteSet(Slaves)
  /\ Dbs \subseteq Nat /\ 0 \in Dbs
  /\ Ops \subseteq AllOps /\ Faults \subseteq AllFaults
  /\ MaxChanges \in Nat /\ MaxSyncs \in Nat

VARIABLES
  up,      \* is the master alive?
  hist,    \* the changes made, a sequence of [op, db] records
  dirty,   \* server.dirty
  child,   \* the saving child: "none", "running", or how it ended
  image,   \* the dataset the child saves
  dump,    \* the dataset in server.dbfilename
  conn,    \* per slave: "closed", or the replstate of its connection
  reply,   \* per slave: c->reply, the changes queued for it
  seldb,   \* per slave: c->slaveseldb
  bulk,    \* per slave: the dataset in the file c->repldbfd has open
  copy,    \* per slave: its dataset, and the database its commands go to
  syncs,   \* history: the SYNC commands received
  excuse   \* history, per slave: what went wrong since its last SYNC

master == <<up, hist, dirty, child, image, dump>>
slaves == <<conn, reply, seldb, bulk, copy, excuse>>
vars   == <<master, slaves, syncs>>

NoSelect == -1
Version  == Len(hist)
Bgsave   == child # "none"      \* server.bgsaveinprogress

Excuses == {"unfed",   \* a change was made and not queued for it
            "late",    \* changes are queued for it since before its save began
            "killed"}  \* its save was reported done by a child that was killed

Start  == {s \in Slaves : conn[s] = "start"}   \* REDIS_REPL_WAIT_BGSAVE_START
End    == {s \in Slaves : conn[s] = "end"}     \* REDIS_REPL_WAIT_BGSAVE_END
Bulk   == {s \in Slaves : conn[s] = "bulk"}    \* REDIS_REPL_SEND_BULK
Online == {s \in Slaves : conn[s] = "online"}  \* REDIS_REPL_ONLINE

\* Mutant of Fed: the slaves that wait for a save to begin are fed as well.
FedAll == {s \in Slaves : conn[s] # "closed"}

Fed == End \cup Bulk \cup Online

Item == [change : 1 .. MaxChanges, sel : Dbs \cup {NoSelect}]
Copy == [data : Seq((1 .. MaxChanges) \X Dbs), db : Dbs]

TypeOK ==
  /\ up \in BOOLEAN
  /\ hist \in Seq([op : AllOps, db : Dbs]) /\ Version <= MaxChanges
  /\ dirty \in Nat
  /\ child \in {"none", "running", "ok", "err", "killed"}
  /\ image \in 0 .. Version /\ dump \in 0 .. Version
  /\ conn \in [Slaves -> {"closed", "start", "end", "bulk", "online"}]
  /\ reply \in [Slaves -> Seq(Item)]
  /\ seldb \in [Slaves -> Dbs]
  /\ bulk \in [Slaves -> 0 .. Version]
  /\ copy \in [Slaves -> Copy]
  /\ syncs \in 0 .. MaxSyncs
  /\ excuse \in [Slaves -> SUBSET Excuses]

Init ==
  /\ up = TRUE /\ hist = <<>> /\ dirty = 0
  /\ child = "none" /\ image = 0 /\ dump = 0
  /\ conn = [s \in Slaves |-> "closed"]
  /\ reply = [s \in Slaves |-> <<>>]
  /\ seldb = [s \in Slaves |-> 0]
  /\ bulk = [s \in Slaves |-> 0]
  /\ copy = [s \in Slaves |-> [data |-> <<>>, db |-> 0]]
  /\ syncs = 0
  /\ excuse = [s \in Slaves |-> {}]

-----------------------------------------------------------------------------
(* Datasets: the changes made since the last FLUSHALL, each with the       *)
(* database it was made in.                                                *)

\* The changes among the first n that no FLUSHALL followed.
Kept(n) == {i \in 1 .. n : \A j \in i .. n : hist[j].op # "flushall"}

DatasetAt(n) ==
  LET flush == n - Cardinality(Kept(n))
  IN [i \in 1 .. n - flush |-> <<flush + i, hist[flush + i].db>>]

\* A slave executes the head of what was queued for it: SELECT, then the change.
Apply(c, item) ==
  LET db == IF item.sel = NoSelect THEN c.db ELSE item.sel
  IN [data |-> IF hist[item.change].op = "flushall" THEN <<>>
               ELSE Append(c.data, <<item.change, db>>),
      db   |-> db]

\* The dataset of a slave that loads c, then executes all of `items`.
Replay(c, items) ==
  LET after[i \in 0 .. Len(items)] ==
        IF i = 0 THEN c ELSE Apply(after[i - 1], items[i])
  IN after[Len(items)].data

\* rdbLoad of a dump; the connection to the master starts in database 0.
Load(n) == [data |-> DatasetAt(n), db |-> 0]

\* freeClient: nothing is left of the connections of the slaves in `gone`.  What a
\* slave holds is followed only while it is connected.
Free(gone) ==
  /\ reply' = [s \in Slaves |-> IF s \in gone THEN <<>> ELSE reply[s]]
  /\ seldb' = [s \in Slaves |-> IF s \in gone THEN 0 ELSE seldb[s]]
  /\ copy' = [s \in Slaves |-> IF s \in gone THEN [data |-> <<>>, db |-> 0] ELSE copy[s]]

-----------------------------------------------------------------------------
(* Changes, and the feeding of the slaves.                                 *)

\* Mutant of FeedSlaves: slaveseldb is not set after the SELECT.
FeedSlavesOneSelect(d) ==
  /\ reply' = [s \in Slaves |->
       IF s \in Fed
       THEN Append(reply[s], [change |-> Version + 1,
                              sel |-> IF seldb[s] = d THEN NoSelect ELSE d])
       ELSE reply[s]]
  /\ UNCHANGED <<seldb, excuse>>

\* replicationFeedSlaves: hist's next change, made in database d, goes to every
\* slave but those that wait for a save to begin.
FeedSlaves(d) ==
  /\ reply' = [s \in Slaves |->
       IF s \in Fed
       THEN Append(reply[s], [change |-> Version + 1,
                              sel |-> IF seldb[s] = d THEN NoSelect ELSE d])
       ELSE reply[s]]
  /\ seldb' = [s \in Slaves |-> IF s \in Fed THEN d ELSE seldb[s]]
  /\ UNCHANGED excuse

\* processCommand finds dirty as it was before: nothing is fed.
LeaveOut ==
  /\ excuse' = [s \in Slaves |-> IF s \in Fed THEN excuse[s] \cup {"unfed"} ELSE excuse[s]]
  /\ UNCHANGED <<reply, seldb>>

\* processCommand: cmd->proc makes the change, then the slaves are fed if
\* dirty is not what it was.
Change(op, d) ==
  /\ up /\ Version < MaxChanges /\ op \in Ops
  /\ hist' = Append(hist, [op |-> op, db |-> d])
  /\ IF dirty' # dirty THEN FeedSlaves(d) ELSE LeaveOut
  /\ UNCHANGED <<up, child, image, conn, bulk, copy, syncs>>

Write(d) ==
  /\ dirty' = dirty + 1
  /\ Change("write", d)
  /\ UNCHANGED dump

Silent(d) ==
  /\ UNCHANGED dirty
  /\ Change("silent", d)
  /\ UNCHANGED dump

\* flushallCommand: rdbSave makes dirty 0 if it succeeds, and it ends one higher.
Flushall(d) ==
  \/ /\ dirty' = 1
     /\ Change("flushall", d)
     /\ dump' = Version + 1
  \/ /\ "save" \in Faults
     /\ dirty' = dirty + 1
     /\ Change("flushall", d)
     /\ UNCHANGED dump

-----------------------------------------------------------------------------
(* Saving.                                                                 *)

\* saveCommand, when no child is saving and rdbSave succeeds.
Save ==
  /\ up /\ ~Bgsave
  /\ dump' = Version /\ dirty' = 0
  /\ UNCHANGED <<up, hist, child, image, slaves, syncs>>

Fork == child' = "running" /\ image' = Version

\* rdbSaveBackground, for a client or for a save point.
BgsaveStarts ==
  /\ up /\ ~Bgsave
  /\ Fork
  /\ UNCHANGED <<up, hist, dirty, dump, slaves, syncs>>

ChildEnds(how) ==
  /\ child = "running"
  /\ how = "err" => "child" \in Faults
  /\ how = "killed" => "kill" \in Faults
  /\ child' = how
  /\ dump' = IF how = "ok" THEN image ELSE dump
  /\ UNCHANGED <<up, hist, dirty, image, slaves, syncs>>

\* Mutant of DirtyAfter: what the child saved is subtracted.
DirtyLess == IF child = "err" THEN dirty ELSE dirty - 1

DirtyAfter == IF child = "err" THEN dirty ELSE 0

\* Mutant of StateAfter: those that wait for a save to begin go on waiting.
StateAfterForgets(s, lost) ==
  IF s \in lost THEN "closed" ELSE IF s \in End THEN "bulk" ELSE conn[s]

\* updateSalvesWaitingBgsave, for slave s.
StateAfter(s, lost) ==
  IF s \in lost THEN "closed"
  ELSE IF s \in End THEN "bulk"
  ELSE IF s \in Start THEN "end" ELSE conn[s]

\* serverCron reaps the child and runs updateSalvesWaitingBgsave.  WEXITSTATUS
\* of a killed child is 0.  The slaves of `lost` cannot open the dump.
CronReap ==
  /\ up /\ child \in {"ok", "err", "killed"}
  /\ dirty' = DirtyAfter
  /\ \E lost \in SUBSET End :
       /\ child = "err" => lost = End
       /\ lost # {} => child = "err" \/ "open" \in Faults
       /\ conn' = [s \in Slaves |-> StateAfter(s, lost)]
       /\ Free(lost)
       /\ bulk' = [s \in Slaves |-> IF s \in End \ lost THEN dump ELSE bulk[s]]
       /\ \/ Start # {} /\ Fork
          \/ /\ Start = {} \/ "fork" \in Faults
             /\ child' = "none" /\ UNCHANGED image
       /\ excuse' = [s \in Slaves |->
            IF s \in lost THEN {}
            ELSE IF s \in End /\ child = "killed" THEN excuse[s] \cup {"killed"}
            ELSE IF s \in Start /\ child' = "none" THEN {"late"} ELSE excuse[s]]
  /\ UNCHANGED <<up, hist, dump, syncs>>

-----------------------------------------------------------------------------
(* Connections.                                                            *)

\* A slave connects and sends SYNC; syncCommand leaves it in state r.  If it shares
\* the save of another slave it misses what that one was left without.
Accept(s, r, without) ==
  /\ conn' = [conn EXCEPT ![s] = r]
  /\ excuse' = [excuse EXCEPT ![s] = without]
  /\ seldb' = [seldb EXCEPT ![s] = 0]
  /\ UNCHANGED <<up, hist, dirty, dump, reply, bulk, copy>>

Received(s) ==
  /\ up /\ conn[s] = "closed" /\ syncs < MaxSyncs
  /\ syncs' = syncs + 1

\* No child is saving: fork one.  If fork fails the slave gets an error for a
\* dump, and breaks the connection.
SyncForks(s) ==
  /\ Received(s) /\ ~Bgsave
  /\ \/ Fork /\ Accept(s, "end", {})
     \/ "fork" \in Faults /\ Accept(s, "closed", {}) /\ UNCHANGED <<child, image>>

\* Mutant of SyncWaits: any save will do.
SyncJoins(s) ==
  /\ Received(s) /\ Bgsave /\ End = {}
  /\ Accept(s, "end", {})
  /\ UNCHANGED <<child, image>>

\* A child is saving, for no slave.
SyncWaits(s) ==
  /\ Received(s) /\ Bgsave /\ End = {}
  /\ Accept(s, "start", {})
  /\ UNCHANGED <<child, image>>

\* A child is saving for another slave: share the save, and a copy of the changes
\* queued so far.  (The code takes the first such slave, this any.)  listDup can
\* copy no reply at all: it returns NULL for a list with an element, and the server
\* aborts in oom().
SyncShares(s) ==
  /\ Received(s) /\ Bgsave
  /\ \E t \in End :
       \/ /\ reply[t] = <<>>
          /\ Accept(s, "end", excuse[t] \cap {"unfed"})
          /\ UNCHANGED <<child, image>>
       \/ /\ reply[t] # <<>>
          /\ up' = FALSE
          /\ conn' = [r \in Slaves |-> "closed"]
          /\ Free(Slaves)
          /\ bulk' = [r \in Slaves |-> 0]
          /\ excuse' = [r \in Slaves |-> {}]
          /\ UNCHANGED <<hist, dirty, child, image, dump>>

\* sendBulkToSlave sends the last of the dump, and the slave loads it.
BulkSent(s) ==
  /\ up /\ s \in Bulk
  /\ conn' = [conn EXCEPT ![s] = "online"]
  /\ copy' = [copy EXCEPT ![s] = Load(bulk[s])]
  /\ bulk' = [bulk EXCEPT ![s] = 0]
  /\ UNCHANGED <<master, reply, seldb, excuse, syncs>>

\* sendReplyToClient, and the slave executes what it receives.
Deliver(s) ==
  /\ up /\ s \in Online /\ reply[s] # <<>>
  /\ reply' = [reply EXCEPT ![s] = Tail(@)]
  /\ copy' = [copy EXCEPT ![s] = Apply(@, Head(reply[s]))]
  /\ UNCHANGED <<master, conn, seldb, bulk, excuse, syncs>>

\* freeClient, when the connection breaks or the slave closes it.
LinkDown(s) ==
  /\ up /\ "link" \in Faults /\ conn[s] # "closed"
  /\ conn' = [conn EXCEPT ![s] = "closed"]
  /\ Free({s})
  /\ bulk' = [bulk EXCEPT ![s] = 0]
  /\ excuse' = [excuse EXCEPT ![s] = {}]
  /\ UNCHANGED <<master, syncs>>

Next ==
  \/ \E d \in Dbs : Write(d) \/ Silent(d) \/ Flushall(d)
  \/ Save \/ BgsaveStarts \/ CronReap
  \/ \E how \in {"ok", "err", "killed"} : ChildEnds(how)
  \/ \E s \in Slaves : \/ SyncForks(s) \/ SyncWaits(s) \/ SyncShares(s)
                       \/ BulkSent(s) \/ Deliver(s) \/ LinkDown(s)

Spec == Init /\ [][Next]_vars

-----------------------------------------------------------------------------
(* Properties.                                                             *)

\* What slave s will hold when it has received all that is on its way to it.
\* While the save it waits for is running, that is the image the child writes.
Eventually(s) ==
  CASE s \in End /\ child = "running" -> Replay(Load(image), reply[s])
    [] s \in End /\ child # "running" -> Replay(Load(dump), reply[s])
    [] s \in Bulk                      -> Replay(Load(bulk[s]), reply[s])
    [] OTHER                           -> Replay(copy[s], reply[s])

\* The snapshot that a slave gets and the changes queued for it since the fork
\* make the dataset of the master, none missing, none twice, whoever asked for
\* the save and whoever shares it; this fails only for the recorded excuses.
\* (A slave whose child is known to fail is about to be closed.)
SnapshotPlusBuffer ==
  \A s \in Fed :
    excuse[s] = {} /\ ~(s \in End /\ child \in {"err", "killed"})
      => Eventually(s) = DatasetAt(Version)

\* Whatever went wrong before, the SELECTs put in front of the changes make a
\* slave execute every one of them in the database it was made in.
RightDatabase ==
  \A s \in Slaves : \A i \in 1 .. Len(copy[s].data) :
    LET change == copy[s].data[i] IN change[2] = hist[change[1]].db

\* A slave executes no change twice and none before an older one, also when
\* FLUSHALL replaced the dump it was about to be sent.
NoChangeTwice ==
  \A s \in Online : "late" \notin excuse[s] =>
    \A i, j \in 1 .. Len(copy[s].data) :
      i < j => copy[s].data[i][1] < copy[s].data[j][1]

\* A slave that asks for synchronization is sent a dump or disconnected, except
\* when the fork for those that had to wait fails: it then waits for a save
\* that nobody is to start.
SyncServed ==
  \A s \in Slaves :
    s \in Start \cup End ~> s \in Online \/ conn[s] = "closed" \/ "late" \in excuse[s]

\* doc/ReplicationHowto.html: slaves are exact copies of the master.  Not so after
\* a FLUSHALL that leaves dirty at 1, where it was.
ExactCopies ==
  \A s \in Online : reply[s] = <<>> => copy[s].data = DatasetAt(Version)

\* doc/ReplicationHowto.html: a master serves concurrent synchronization requests
\* with one save.  Not so once a change has been queued for the first.
MasterSurvives == up

=============================================================================
