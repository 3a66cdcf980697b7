-------------------------- MODULE ReplicationProofs ---------------------------
(***************************************************************************)
(* Theorems about Replication, for any slaves, databases, commands and     *)
(* failures, and any bounds: its types, RightDatabase, NoChangeTwice, and  *)
(* that what a slave is sent makes it a copy of the master; and about      *)
(* SlaveSync, where one of the slaves is a server too.                     *)
(*                                                                         *)
(* Two facts meet in the last one on Replication.  The queue of a slave    *)
(* that was fed every change is an unbroken piece of hist that ends with   *)
(* the newest change; and the dataset it is to be executed on is the one   *)
(* that piece begins after, or any at all if a FLUSHALL is still in the    *)
(* queue.  The second is what SYNC, the fork, the end of the child and     *)
(* FLUSHALL's own rdbSave must keep between them, with the dump changing   *)
(* hands three times.                                                      *)
(*                                                                         *)
(* For every set of connections and every choice of failures, what a slave *)
(* says of its master is consistent whenever it is read; what has arrived  *)
(* of a dump when a synchronization fails never takes the place of the     *)
(* slave's dump, but for the empty file of an -ERR and one whose last      *)
(* block was written in part, which the slave takes for whole; and a slave *)
(* that is connected is a copy of its master, up to the changes on their   *)
(* way, unless its own child replaced the dump it was to load.  None of    *)
(* these is inductive.  What holds in the loop was prepared inside         *)
(* syncWithMaster, and what is renamed over the dump was received before:  *)
(* SyncInv says, for each place in syncWithMaster, what the server has.    *)
(* Every step of SlaveSync is one of Replication, or none: what is proved  *)
(* of a master and its connections holds when one of the slaves is a       *)
(* server.                                                                 *)
(***************************************************************************)
EXTENDS SlaveSync, Induction, FiniteSetTheorems, SequenceTheorems

Event   == [op : AllOps, db : Dbs]
Changes == (1 .. MaxChanges) \X Dbs

-----------------------------------------------------------------------------
(* What the operators on datasets return.                                  *)

\* A dataset holds some of the changes 1 .. n, without gaps at its end.
LEMMA KeptSize ==
  ASSUME NEW n \in Nat
  PROVE  /\ Cardinality(Kept(n)) \in Nat
         /\ n - Cardinality(Kept(n)) \in 0 .. n
<1>1. IsFiniteSet(1 .. n) /\ Cardinality(1 .. n) = n
  BY FS_Interval
<1>2. Kept(n) \in SUBSET (1 .. n)
  BY DEF Kept
<1>3. IsFiniteSet(Kept(n)) /\ Cardinality(Kept(n)) <= n
  BY <1>1, <1>2, FS_Subset
<1>4. Cardinality(Kept(n)) \in Nat
  BY <1>3, FS_CardinalityType
<1> QED
  BY <1>3, <1>4

\* Each change in it is one of hist, with the database it was made in.
LEMMA DatasetChanges ==
  ASSUME hist \in Seq(Event), NEW n \in 0 .. Version, Version <= MaxChanges
  PROVE  /\ DatasetAt(n) \in Seq(Changes)
         /\ \A i \in 1 .. Len(DatasetAt(n)) :
              /\ DatasetAt(n)[i][1] \in 1 .. Version
              /\ DatasetAt(n)[i][2] = hist[DatasetAt(n)[i][1]].db
<1> DEFINE f == n - Cardinality(Kept(n))
           e(i) == <<f + i, hist[f + i].db>>
<1>1. Version \in Nat /\ n \in Nat /\ MaxChanges \in Nat
  BY ReplicationAssumption, LenProperties DEF Version
<1>2. f \in 0 .. n
  BY <1>1, KeptSize
<1>3. DatasetAt(n) = [i \in 1 .. n - f |-> e(i)]
  BY DEF DatasetAt
<1> HIDE DEF f
<1>4. ASSUME NEW i \in 1 .. n - f PROVE f + i \in 1 .. Version /\ e(i) \in Changes
  <2>1. f + i \in 1 .. Version
    BY <1>1, <1>2
  <2>2. hist[f + i] \in Event
    BY <2>1, ElementOfSeq DEF Version
  <2> QED
    BY <1>1, <2>1, <2>2 DEF Changes, Event
<1>5. n - f \in Nat
  BY <1>1, <1>2
<1> HIDE DEF e
<1>6. [i \in 1 .. n - f |-> e(i)] \in Seq(Changes)
  <2>1. [i \in 1 .. n - f |-> e(i)] \in [1 .. n - f -> Changes]
    BY <1>4
  <2> QED
    BY <1>5, <2>1, SeqDef
<1>7. Len(DatasetAt(n)) = n - f
  BY <1>3, <1>5
<1>8. ASSUME NEW i \in 1 .. Len(DatasetAt(n))
      PROVE  /\ DatasetAt(n)[i][1] \in 1 .. Version
             /\ DatasetAt(n)[i][2] = hist[DatasetAt(n)[i][1]].db
  <2>1. i \in 1 .. n - f /\ DatasetAt(n)[i] = e(i)
    BY <1>3, <1>7, <1>8
  <2>2. f + i \in 1 .. Version
    BY <1>4, <2>1
  <2>3. e(i)[1] = f + i /\ e(i)[2] = hist[f + i].db
    BY DEF e
  <2> QED
    BY <2>1, <2>2, <2>3
<1> QED
  BY <1>3, <1>6, <1>8

\* A slave that loads a dump has a dataset,
LEMMA LoadType ==
  ASSUME hist \in Seq(Event), NEW n \in 0 .. Version, Version <= MaxChanges
  PROVE  Load(n) \in Copy
BY DatasetChanges, ReplicationAssumption DEF Load, Copy, Changes

\* and so has one that executes a change.
LEMMA ApplyType ==
  ASSUME NEW c \in Copy, NEW item \in Item
  PROVE  Apply(c, item) \in Copy
<1> DEFINE db == IF item.sel = NoSelect THEN c.db ELSE item.sel
<1>1. c.data \in Seq(Changes) /\ c.db \in Dbs
  BY DEF Copy, Changes
<1>2. db \in Dbs
  BY <1>1 DEF Item
<1>3. <<item.change, db>> \in Changes
  BY <1>2 DEF Item, Changes
<1>4. Append(c.data, <<item.change, db>>) \in Seq(Changes) /\ <<>> \in Seq(Changes)
  BY <1>1, <1>3, AppendProperties
<1> HIDE DEF db
<1>5. (IF hist[item.change].op = "flushall" THEN <<>>
       ELSE Append(c.data, <<item.change, db>>)) \in Seq(Changes)
  BY <1>4
<1>6. Apply(c, item) = [data |-> IF hist[item.change].op = "flushall" THEN <<>>
                                 ELSE Append(c.data, <<item.change, db>>),
                        db |-> db]
  BY DEF Apply, db
<1> QED
  BY <1>2, <1>5, <1>6 DEF Copy, Changes

-----------------------------------------------------------------------------
(* TypeOK.                                                                 *)

\* What is left of the connections that are closed is of the right type.
LEMMA FreeType ==
  ASSUME TypeOK, NEW gone, Free(gone)
  PROVE  /\ reply' \in [Slaves -> Seq(Item)]
         /\ seldb' \in [Slaves -> Dbs]
         /\ copy' \in [Slaves -> Copy]
<1>1. <<>> \in Seq(Item) /\ [data |-> <<>>, db |-> 0] \in Copy /\ 0 \in Dbs
  BY ReplicationAssumption DEF Copy
<1> QED
  BY <1>1 DEF TypeOK, Free

\* A change is added at the end of hist, and takes no earlier one away.
LEMMA HistGrows ==
  ASSUME TypeOK, NEW op, NEW d \in Dbs, Change(op, d)
  PROVE  /\ hist' \in Seq(Event)
         /\ Version \in Nat /\ Version' = Version + 1 /\ Version' <= MaxChanges
         /\ \A i \in 1 .. Version : hist'[i] = hist[i]
         /\ hist'[Version + 1].db = d
<1> DEFINE e == [op |-> op, db |-> d]
<1>1. e \in Event
  BY ReplicationAssumption DEF Change, Event
<1>2. hist \in Seq(Event) /\ Version \in Nat
  BY LenProperties DEF TypeOK, Event, Version
<1>3. hist' = Append(hist, e) /\ Version < MaxChanges
  BY DEF Change
<1>4. e.db = d
  OBVIOUS
<1> HIDE DEF e
<1>5. MaxChanges \in Nat
  BY ReplicationAssumption
<1> QED
  BY <1>1, <1>2, <1>3, <1>4, <1>5, AppendProperties DEF Version

\* What is queued for the slaves when a change is made.
LEMMA ChangeType ==
  ASSUME TypeOK, NEW op, NEW d \in Dbs, Change(op, d)
  PROVE  /\ reply' \in [Slaves -> Seq(Item)]
         /\ seldb' \in [Slaves -> Dbs]
         /\ excuse' \in [Slaves -> SUBSET Excuses]
<1>1. CASE FeedSlaves(d)
  <2> DEFINE item(s) == [change |-> Version + 1,
                         sel |-> IF seldb[s] = d THEN NoSelect ELSE d]
  <2>1. Version + 1 \in 1 .. MaxChanges
    BY HistGrows
  <2>2. ASSUME NEW s \in Slaves PROVE item(s) \in Item
    BY <2>1 DEF Item
  <2> HIDE DEF item
  <2>3. ASSUME NEW s \in Slaves PROVE Append(reply[s], item(s)) \in Seq(Item)
    BY <2>2, AppendProperties DEF TypeOK
  <2>4. reply' = [s \in Slaves |-> IF s \in Fed THEN Append(reply[s], item(s)) ELSE reply[s]]
    BY <1>1 DEF FeedSlaves, item
  <2>5. reply' \in [Slaves -> Seq(Item)]
    BY <2>3, <2>4 DEF TypeOK
  <2> QED
    BY <1>1, <2>5 DEF FeedSlaves, TypeOK
<1>2. CASE LeaveOut
  BY <1>2 DEF LeaveOut, TypeOK, Excuses
<1> QED
  BY <1>1, <1>2 DEF Change

\* A change leaves everything of the right type, whatever it does to dirty and dump.
LEMMA ChangeTypeOK ==
  ASSUME TypeOK, NEW op, NEW d \in Dbs, Change(op, d),
         dirty' \in Nat, dump' \in 0 .. Version'
  PROVE  TypeOK'
<1>1. /\ hist' \in Seq(Event)
      /\ Version \in Nat /\ Version' = Version + 1 /\ Version' <= MaxChanges
  BY HistGrows
<1>2. image' \in 0 .. Version' /\ bulk' \in [Slaves -> 0 .. Version']
  <2>1. image \in 0 .. Version /\ bulk \in [Slaves -> 0 .. Version]
        /\ image' = image /\ bulk' = bulk
    BY DEF TypeOK, Change
  <2>2. 0 .. Version \subseteq 0 .. Version'
    BY <1>1
  <2> QED
    BY <2>1, <2>2
<1>3. /\ up' \in BOOLEAN /\ child' \in {"none", "running", "ok", "err", "killed"}
      /\ conn' \in [Slaves -> {"closed", "start", "end", "bulk", "online"}]
      /\ copy' \in [Slaves -> Copy]
      /\ syncs' \in 0 .. MaxSyncs
  BY DEF TypeOK, Change
<1> QED
  BY <1>1, <1>2, <1>3, ChangeType DEF TypeOK, Event

LEMMA TypeInit == Init => TypeOK
<1> SUFFICES ASSUME Init PROVE TypeOK
  OBVIOUS
<1>1. hist \in Seq([op : AllOps, db : Dbs]) /\ Version = 0
  BY DEF Init, Version
<1>2. MaxChanges \in Nat /\ MaxSyncs \in Nat /\ 0 \in Dbs
  BY ReplicationAssumption
<1>3. <<>> \in Seq(Item) /\ [data |-> <<>>, db |-> 0] \in Copy
  BY <1>2 DEF Copy
<1>4. up \in BOOLEAN
  BY DEF Init
<1>5. /\ conn \in [Slaves -> {"closed", "start", "end", "bulk", "online"}]
      /\ excuse \in [Slaves -> SUBSET Excuses]
  BY DEF Init
<1> QED
  BY <1>1, <1>2, <1>3, <1>4, <1>5 DEF Init, TypeOK

LEMMA TypeStep == TypeOK /\ [Next]_vars => TypeOK'
<1> SUFFICES ASSUME TypeOK, [Next]_vars PROVE TypeOK'
  OBVIOUS
<1> USE DEF master, slaves
<1>1. Version \in Nat /\ hist \in Seq(Event) /\ Version <= MaxChanges
  BY LenProperties DEF TypeOK, Version, Event
<1>2. ASSUME hist' = hist PROVE Version' = Version
  BY <1>2 DEF Version
<1>3. ASSUME NEW d \in Dbs, Write(d) PROVE TypeOK'
  <2>1. Version' = Version + 1
    BY <1>3, HistGrows DEF Write
  <2>2. dump' \in 0 .. Version' /\ dirty' \in Nat
    BY <1>1, <1>3, <2>1 DEF Write, TypeOK
  <2> QED
    BY <1>3, <2>2, ChangeTypeOK DEF Write
<1>4. ASSUME NEW d \in Dbs, Silent(d) PROVE TypeOK'
  <2>1. Version' = Version + 1
    BY <1>4, HistGrows DEF Silent
  <2>2. dump' \in 0 .. Version' /\ dirty' \in Nat
    BY <1>1, <1>4, <2>1 DEF Silent, TypeOK
  <2> QED
    BY <1>4, <2>2, ChangeTypeOK DEF Silent
<1>5. ASSUME NEW d \in Dbs, Flushall(d) PROVE TypeOK'
  <2>1. Version' = Version + 1 /\ Change("flushall", d)
    BY <1>5, HistGrows DEF Flushall
  <2>2. dump' \in 0 .. Version' /\ dirty' \in Nat
    BY <1>1, <1>5, <2>1 DEF Flushall, TypeOK
  <2> QED
    BY <2>1, <2>2, ChangeTypeOK
<1>6. CASE Save
  BY <1>1, <1>2, <1>6 DEF Save, TypeOK
<1>7. CASE BgsaveStarts
  BY <1>1, <1>2, <1>7 DEF BgsaveStarts, Fork, TypeOK
<1>8. CASE CronReap
  <2> PICK lost \in SUBSET End :
             /\ conn' = [s \in Slaves |-> StateAfter(s, lost)]
             /\ Free(lost)
             /\ bulk' = [s \in Slaves |-> IF s \in End \ lost THEN dump ELSE bulk[s]]
             /\ \/ Fork
                \/ child' = "none" /\ UNCHANGED image
             /\ excuse' = [s \in Slaves |->
                  IF s \in lost THEN {}
                  ELSE IF s \in End /\ child = "killed" THEN excuse[s] \cup {"killed"}
                  ELSE IF s \in Start /\ child' = "none" THEN {"late"} ELSE excuse[s]]
    BY <1>8 DEF CronReap
  <2>1. UNCHANGED <<up, hist, dump, syncs>> /\ dirty' = DirtyAfter
    BY <1>8 DEF CronReap
  <2>2. dirty' \in Nat
    BY <2>1 DEF DirtyAfter, TypeOK
  <2>3. child' \in {"none", "running", "ok", "err", "killed"} /\ image' \in 0 .. Version'
    BY <1>1, <1>2, <2>1 DEF Fork, TypeOK
  <2>4. conn' \in [Slaves -> {"closed", "start", "end", "bulk", "online"}]
    BY DEF StateAfter, TypeOK
  <2>5. bulk' \in [Slaves -> 0 .. Version']
    BY <1>2, <2>1 DEF TypeOK
  <2>6. excuse' \in [Slaves -> SUBSET Excuses]
    BY DEF TypeOK, Excuses
  <2> QED
    BY <1>2, <2>1, <2>2, <2>3, <2>4, <2>5, <2>6, FreeType DEF TypeOK
<1>9. ASSUME NEW how \in {"ok", "err", "killed"}, ChildEnds(how) PROVE TypeOK'
  BY <1>2, <1>9 DEF ChildEnds, TypeOK
<1>10. ASSUME NEW s \in Slaves, SyncForks(s) PROVE TypeOK'
  <2>1. syncs' \in 0 .. MaxSyncs
    BY <1>10, ReplicationAssumption DEF SyncForks, Received, TypeOK
  <2>2. PICK r \in {"end", "closed"} : Accept(s, r, {})
    BY <1>10 DEF SyncForks
  <2>3. Version' = Version
    BY <1>2, <2>2 DEF Accept
  <2>4. child' \in {"none", "running", "ok", "err", "killed"} /\ image' \in 0 .. Version'
    BY <1>1, <1>10, <2>3 DEF SyncForks, Fork, TypeOK
  <2> QED
    BY <2>1, <2>2, <2>3, <2>4, ReplicationAssumption DEF Accept, TypeOK
<1>11. ASSUME NEW s \in Slaves, SyncWaits(s) PROVE TypeOK'
  BY <1>1, <1>2, <1>11, ReplicationAssumption DEF SyncWaits, Received, Accept, TypeOK
<1>12. ASSUME NEW s \in Slaves, SyncShares(s) PROVE TypeOK'
  <2>1. PICK t \in End :
       \/ /\ Accept(s, "end", excuse[t] \cap {"unfed"})
          /\ UNCHANGED <<child, image>>
       \/ /\ up' = FALSE
          /\ conn' = [r \in Slaves |-> "closed"]
          /\ Free(Slaves)
          /\ bulk' = [r \in Slaves |-> 0]
          /\ excuse' = [r \in Slaves |-> {}]
          /\ UNCHANGED <<hist, dirty, child, image, dump>>
    BY <1>12 DEF SyncShares
  <2>2. syncs' \in 0 .. MaxSyncs
    BY <1>12, ReplicationAssumption DEF SyncShares, Received, TypeOK
  <2>3. CASE Accept(s, "end", excuse[t] \cap {"unfed"}) /\ UNCHANGED <<child, image>>
    BY <1>2, <2>2, <2>3, ReplicationAssumption DEF Accept, TypeOK, Excuses
  <2>4. CASE /\ up' = FALSE
             /\ conn' = [r \in Slaves |-> "closed"]
             /\ Free(Slaves)
             /\ bulk' = [r \in Slaves |-> 0]
             /\ excuse' = [r \in Slaves |-> {}]
             /\ UNCHANGED <<hist, dirty, child, image, dump>>
    <3>1. /\ reply' \in [Slaves -> Seq(Item)]
          /\ seldb' \in [Slaves -> Dbs]
          /\ copy' \in [Slaves -> Copy]
      BY <2>4, FreeType
    <3>2. bulk' \in [Slaves -> 0 .. Version']
      BY <1>1, <1>2, <2>4
    <3>3. up' \in BOOLEAN
      BY <2>4
    <3>4. /\ conn' \in [Slaves -> {"closed", "start", "end", "bulk", "online"}]
          /\ excuse' \in [Slaves -> SUBSET Excuses]
      BY <2>4
    <3> QED
      BY <1>2, <2>2, <2>4, <3>1, <3>2, <3>3, <3>4 DEF TypeOK
  <2> QED
    BY <2>1, <2>3, <2>4
<1>13. ASSUME NEW s \in Slaves, BulkSent(s) PROVE TypeOK'
  <2>1. Load(bulk[s]) \in Copy
    BY <1>1, LoadType DEF TypeOK
  <2> QED
    BY <1>1, <1>2, <1>13, <2>1 DEF BulkSent, TypeOK
<1>14. ASSUME NEW s \in Slaves, Deliver(s) PROVE TypeOK'
  <2>1. Head(reply[s]) \in Item /\ Tail(reply[s]) \in Seq(Item)
    BY <1>14, HeadTailProperties DEF Deliver, TypeOK
  <2>2. Apply(copy[s], Head(reply[s])) \in Copy
    BY <2>1, ApplyType DEF TypeOK
  <2> QED
    BY <1>1, <1>2, <1>14, <2>1, <2>2 DEF Deliver, TypeOK
<1>15. ASSUME NEW s \in Slaves, LinkDown(s) PROVE TypeOK'
  BY <1>1, <1>2, <1>15, FreeType DEF LinkDown, TypeOK
<1>16. CASE UNCHANGED vars
  BY <1>2, <1>16 DEF vars, TypeOK
<1> QED
  BY <1>3, <1>4, <1>5, <1>6, <1>7, <1>8, <1>9, <1>10, <1>11, <1>12, <1>13, <1>14,
     <1>15, <1>16 DEF Next

\* Every variable of the master and of the connections keeps its type: dumps and
\* images are datasets the master has had, queued changes are ones it has made, and
\* slaves hold databases only, whatever is killed, lost or shared.
THEOREM ReplicationTypeOK == Spec => []TypeOK
<1>1. TypeOK /\ [Next]_vars => TypeOK'
  BY TypeStep
<1> QED
  BY <1>1, TypeInit, PTL DEF Spec

-----------------------------------------------------------------------------
(* RightDatabase.  It is not inductive: what a queued change does to a slave   *)
(* depends on the database the slave will be in when it gets there.            *)

Base(s) == IF conn[s] = "online" THEN copy[s].db ELSE 0

\* The database slave s is in when it has executed the first i of its queue.
DbAt(s, i) == IF i = 0 THEN Base(s) ELSE hist[reply[s][i].change].db

\* A SELECT stands in front of a queued change exactly where one is needed,
Queued(s) ==
  \A i \in 1 .. Len(reply[s]) :
    /\ reply[s][i].change \in 1 .. Version
    /\ reply[s][i].sel = IF DbAt(s, i - 1) = hist[reply[s][i].change].db THEN NoSelect
                         ELSE hist[reply[s][i].change].db

\* slaveseldb is where the end of the queue leaves a slave that is fed, and
\* nothing is queued for the others,
Cursor(s) ==
  IF s \in Fed THEN seldb[s] = DbAt(s, Len(reply[s]))
  ELSE reply[s] = <<>> /\ seldb[s] = 0

\* and what it holds was made where it holds it.
Faithful(s) ==
  \A i \in 1 .. Len(copy[s].data) :
    /\ copy[s].data[i][1] \in 1 .. Version
    /\ copy[s].data[i][2] = hist[copy[s].data[i][1]].db

SlaveOK(s) == Queued(s) /\ Cursor(s) /\ Faithful(s)

IInv == TypeOK /\ \A s \in Slaves : SlaveOK(s)

\* hist keeps what it holds.
HistKept == Version <= Version' /\ \A i \in 1 .. Version : hist'[i] = hist[i]

LEMMA SameHist ==
  ASSUME TypeOK, hist' = hist
  PROVE  HistKept /\ Version' = Version
BY LenProperties DEF HistKept, TypeOK, Version

\* What a slave holds stays right while it is not touched.
LEMMA FaithfulKept ==
  ASSUME TypeOK, HistKept, NEW s \in Slaves, Faithful(s), copy'[s] = copy[s]
  PROVE  Faithful(s)'
<1>1. Version \in Nat /\ Version' \in Int
  BY LenProperties DEF TypeOK, Version, HistKept
<1> QED
  BY <1>1 DEF Faithful, HistKept

\* The queue of a slave that is not fed, and executes nothing, stays as it should be,
LEMMA QueueKept ==
  ASSUME TypeOK, HistKept, NEW s \in Slaves, SlaveOK(s), Faithful(s)',
         reply'[s] = reply[s], seldb'[s] = seldb[s],
         Base(s)' = Base(s), s \in Fed <=> (s \in Fed)'
  PROVE  SlaveOK(s)'
<1>1. Len(reply[s]) \in Nat
  BY LenProperties DEF TypeOK
<1>2. \A i \in 1 .. Len(reply[s]) :
        hist'[reply[s][i].change] = hist[reply[s][i].change]
        /\ reply[s][i].change \in 1 .. Version'
  <2>1. Version \in Nat /\ Version' \in Int
    BY LenProperties DEF TypeOK, Version, HistKept
  <2> QED
    BY <2>1 DEF SlaveOK, Queued, HistKept
<1>3. \A i \in 0 .. Len(reply[s]) : DbAt(s, i)' = DbAt(s, i)
  BY <1>1, <1>2 DEF DbAt
<1>4. Queued(s)'
  <2> SUFFICES ASSUME NEW i \in 1 .. Len(reply[s])
               PROVE  /\ reply'[s][i].change \in 1 .. Version'
                      /\ reply'[s][i].sel =
                           IF DbAt(s, i - 1)' = hist'[reply'[s][i].change].db THEN NoSelect
                           ELSE hist'[reply'[s][i].change].db
    BY DEF Queued
  <2>1. DbAt(s, i - 1)' = DbAt(s, i - 1)
    BY <1>1, <1>3
  <2> QED
    BY <1>2, <2>1 DEF SlaveOK, Queued
<1>5. Cursor(s)'
  <2>1. DbAt(s, Len(reply[s]))' = DbAt(s, Len(reply[s]))
    BY <1>1, <1>3
  <2> QED
    BY <2>1 DEF SlaveOK, Cursor
<1> QED
  BY <1>4, <1>5 DEF SlaveOK

\* and so does one that is about to be sent its dump, or closed.
LEMMA Fresh ==
  ASSUME NEW s \in Slaves, Faithful(s)', conn'[s] # "online",
         reply'[s] = <<>>, seldb'[s] = 0
  PROVE  SlaveOK(s)'
<1>1. Len(reply'[s]) = 0
  OBVIOUS
<1>2. Queued(s)'
  BY <1>1 DEF Queued
<1>3. Cursor(s)'
  BY <1>1 DEF Cursor, DbAt, Base
<1> QED
  BY <1>2, <1>3 DEF SlaveOK

\* The slaves that are fed a change stay as they should be.
LEMMA Feeding ==
  ASSUME TypeOK, NEW op, NEW d \in Dbs, Change(op, d),
         NEW s \in Slaves, SlaveOK(s), s \in Fed, FeedSlaves(d)
  PROVE  SlaveOK(s)'
<1> DEFINE n == Len(reply[s])
           item == [change |-> Version + 1, sel |-> IF seldb[s] = d THEN NoSelect ELSE d]
<1>1. /\ Version \in Nat /\ Version' = Version + 1
      /\ \A i \in 1 .. Version : hist'[i] = hist[i]
      /\ hist'[Version + 1].db = d
  BY HistGrows
<1>2. HistKept
  BY <1>1 DEF HistKept
<1>3. conn' = conn /\ copy' = copy
  BY DEF Change
<1>4. n \in Nat /\ reply[s] \in Seq(Item) /\ Version + 1 \in 1 .. MaxChanges
  BY HistGrows, LenProperties DEF TypeOK
<1>5. item \in Item
  BY <1>4 DEF Item
<1>6. item.change = Version + 1 /\ item.sel = IF seldb[s] = d THEN NoSelect ELSE d
  OBVIOUS
<1>7. reply'[s] = Append(reply[s], item) /\ seldb'[s] = d
  BY DEF FeedSlaves, TypeOK
<1> HIDE DEF item
<1>8. /\ Len(reply'[s]) = n + 1
      /\ \A i \in 1 .. n : reply'[s][i] = reply[s][i]
      /\ reply'[s][n + 1] = item
  BY <1>4, <1>5, <1>7, AppendProperties
<1>9. \A i \in 1 .. n : reply[s][i].change \in 1 .. Version
  BY DEF SlaveOK, Queued
<1>10. \A i \in 0 .. n : DbAt(s, i)' = DbAt(s, i)
  <2>1. Base(s)' = Base(s)
    BY <1>3 DEF Base
  <2> QED
    BY <1>1, <1>4, <1>8, <1>9, <2>1 DEF DbAt
<1>11. Queued(s)'
  <2> SUFFICES ASSUME NEW i \in 1 .. n + 1
               PROVE  /\ reply'[s][i].change \in 1 .. Version'
                      /\ reply'[s][i].sel =
                           IF DbAt(s, i - 1)' = hist'[reply'[s][i].change].db THEN NoSelect
                           ELSE hist'[reply'[s][i].change].db
    BY <1>8 DEF Queued
  <2>1. DbAt(s, i - 1)' = DbAt(s, i - 1)
    BY <1>4, <1>10
  <2>2. CASE i = n + 1
    <3>1. DbAt(s, i - 1) = seldb[s]
      BY <1>4, <2>2 DEF SlaveOK, Cursor
    <3> QED
      BY <1>1, <1>6, <1>8, <2>1, <2>2, <3>1
  <2>3. CASE i \in 1 .. n
    <3>1. hist'[reply[s][i].change] = hist[reply[s][i].change]
          /\ reply[s][i].change \in 1 .. Version'
      BY <1>1, <1>9, <2>3
    <3> QED
      BY <1>8, <2>1, <2>3, <3>1 DEF SlaveOK, Queued
  <2> QED
    BY <1>4, <2>2, <2>3
<1>12. DbAt(s, Len(reply[s]))' = d
  BY <1>1, <1>4, <1>6, <1>8 DEF DbAt
<1>13. Cursor(s)'
  BY <1>3, <1>7, <1>12 DEF Cursor, Fed, End, Bulk, Online
<1>14. Faithful(s)'
  BY <1>2, <1>3, FaithfulKept DEF SlaveOK
<1> QED
  BY <1>11, <1>13, <1>14 DEF SlaveOK

\* So does the slave that executes the head of what was queued for it,
LEMMA Delivering ==
  ASSUME TypeOK, NEW s \in Slaves, SlaveOK(s), Deliver(s)
  PROVE  SlaveOK(s)'
<1> DEFINE n == Len(reply[s])
           item == Head(reply[s])
           db == IF item.sel = NoSelect THEN copy[s].db ELSE item.sel
<1>1. hist' = hist /\ conn' = conn /\ seldb' = seldb /\ Version' = Version
  BY DEF Deliver, master, Version
<1>2. conn[s] = "online" /\ s \in Fed
  BY DEF Deliver, Online, Fed
<1>3. /\ reply[s] \in Seq(Item) /\ reply[s] # <<>> /\ n \in Nat \ {0}
      /\ item = reply[s][1]
      /\ Len(Tail(reply[s])) = n - 1
      /\ \A i \in 1 .. n - 1 : Tail(reply[s])[i] = reply[s][i + 1]
  BY HeadTailProperties, EmptySeq, LenProperties DEF Deliver, TypeOK
<1>4. reply'[s] = Tail(reply[s]) /\ copy'[s] = Apply(copy[s], item)
  BY DEF Deliver, TypeOK
<1>5. item.change \in 1 .. Version /\ db = hist[item.change].db /\ db \in Dbs
  <2>1. DbAt(s, 0) = copy[s].db
    BY <1>2 DEF DbAt, Base
  <2>2. /\ item.change \in 1 .. Version
        /\ item.sel = IF DbAt(s, 0) = hist[item.change].db THEN NoSelect
                      ELSE hist[item.change].db
    BY <1>3 DEF SlaveOK, Queued
  <2>3. hist[item.change].db \in Dbs
    <3>1. hist \in Seq(Event)
      BY DEF TypeOK, Event
    <3>2. hist[item.change] \in Event
      BY <2>2, <3>1, ElementOfSeq DEF Version
    <3> QED
      BY <3>2 DEF Event
  <2>4. hist[item.change].db # NoSelect
    BY <2>3, ReplicationAssumption DEF NoSelect
  <2> QED
    BY <2>1, <2>2, <2>3, <2>4
<1> HIDE DEF db
<1>6. /\ copy'[s].db = db
      /\ copy'[s].data = IF hist[item.change].op = "flushall" THEN <<>>
                         ELSE Append(copy[s].data, <<item.change, db>>)
  BY <1>4 DEF Apply, db
<1>7. \A i \in 0 .. n - 1 : DbAt(s, i)' = DbAt(s, i + 1)
  <2>1. Base(s)' = DbAt(s, 1)
    BY <1>1, <1>2, <1>3, <1>5, <1>6 DEF Base, DbAt
  <2> QED
    BY <1>1, <1>3, <1>4, <2>1 DEF DbAt
<1>8. Queued(s)'
  <2> SUFFICES ASSUME NEW i \in 1 .. n - 1
               PROVE  /\ reply'[s][i].change \in 1 .. Version'
                      /\ reply'[s][i].sel =
                           IF DbAt(s, i - 1)' = hist'[reply'[s][i].change].db THEN NoSelect
                           ELSE hist'[reply'[s][i].change].db
    BY <1>3, <1>4 DEF Queued
  <2>1. DbAt(s, i - 1)' = DbAt(s, i) /\ reply'[s][i] = reply[s][i + 1] /\ i + 1 \in 1 .. n
        /\ (i + 1) - 1 = i
    BY <1>3, <1>4, <1>7
  <2> QED
    BY <1>1, <2>1 DEF SlaveOK, Queued
<1>9. Cursor(s)'
  <2>1. DbAt(s, Len(reply[s]))' = DbAt(s, n)
    BY <1>3, <1>4, <1>7
  <2> QED
    BY <1>1, <1>2, <2>1 DEF SlaveOK, Cursor, Fed, End, Bulk, Online
<1>10. Faithful(s)'
  <2>1. CASE hist[item.change].op = "flushall"
    BY <1>6, <2>1 DEF Faithful
  <2>2. CASE hist[item.change].op # "flushall"
    <3>1. copy[s].data \in Seq(Changes)
      BY DEF TypeOK, Copy, Changes
    <3>2. item \in Item
      BY <1>3, ElementOfSeq
    <3> DEFINE made == <<item.change, db>>
    <3>3. made \in Changes
      BY <1>5, <3>2 DEF Item, Changes
    <3>4. made[1] = item.change /\ made[2] = db
      OBVIOUS
    <3>5. copy'[s].data = Append(copy[s].data, made)
      BY <1>6, <2>2
    <3> HIDE DEF made
    <3>6. /\ Len(copy'[s].data) = Len(copy[s].data) + 1
          /\ \A i \in 1 .. Len(copy[s].data) : copy'[s].data[i] = copy[s].data[i]
          /\ copy'[s].data[Len(copy[s].data) + 1] = made
          /\ Len(copy[s].data) \in Nat
      BY <3>1, <3>3, <3>5, AppendProperties, LenProperties
    <3> SUFFICES ASSUME NEW i \in 1 .. Len(copy[s].data) + 1
                 PROVE  /\ copy'[s].data[i][1] \in 1 .. Version
                        /\ copy'[s].data[i][2] = hist[copy'[s].data[i][1]].db
      BY <1>1, <3>6 DEF Faithful
    <3>7. CASE i = Len(copy[s].data) + 1
      BY <1>5, <3>4, <3>6, <3>7
    <3>8. CASE i \in 1 .. Len(copy[s].data)
      BY <3>6, <3>8 DEF SlaveOK, Faithful
    <3> QED
      BY <3>6, <3>7, <3>8
  <2> QED
    BY <2>1, <2>2
<1> QED
  BY <1>8, <1>9, <1>10 DEF SlaveOK

\* one that nothing happens to stays as it should be,
LEMMA Untouched ==
  ASSUME TypeOK, HistKept, NEW s \in Slaves, SlaveOK(s),
         conn'[s] = conn[s] \/ {conn[s], conn'[s]} \subseteq {"end", "bulk"},
         copy'[s] = copy[s], reply'[s] = reply[s], seldb'[s] = seldb[s]
  PROVE  SlaveOK(s)'
<1>1. Faithful(s)'
  BY FaithfulKept DEF SlaveOK
<1>2. Base(s)' = Base(s)
  BY DEF Base
<1>3. s \in Fed <=> (s \in Fed)'
  BY DEF Fed, End, Bulk, Online
<1> QED
  BY <1>1, <1>2, <1>3, QueueKept

\* and nothing is wrong with one whose connection is freed.
LEMMA Freed ==
  ASSUME NEW gone, Free(gone), NEW s \in Slaves, s \in gone, conn'[s] # "online"
  PROVE  SlaveOK(s)'
<1>1. reply'[s] = <<>> /\ seldb'[s] = 0 /\ copy'[s].data = <<>>
  BY DEF Free
<1>2. Faithful(s)'
  BY <1>1 DEF Faithful
<1> QED
  BY <1>1, <1>2, Fresh

\* A slave that has loaded its dump is as it should be.
LEMMA Loading ==
  ASSUME TypeOK, NEW s \in Slaves, SlaveOK(s), BulkSent(s)
  PROVE  SlaveOK(s)'
<1>1. /\ hist' = hist /\ reply' = reply /\ seldb' = seldb
      /\ conn[s] = "bulk" /\ conn'[s] = "online"
      /\ copy'[s] = Load(bulk[s])
  BY DEF BulkSent, Bulk, master, TypeOK
<1>2. Base(s)' = 0 /\ Base(s) = 0
  BY <1>1 DEF Base, Load
<1>3. Faithful(s)'
  <2>1. hist \in Seq(Event) /\ bulk[s] \in 0 .. Version /\ Version <= MaxChanges
    BY DEF TypeOK, Event
  <2>2. \A i \in 1 .. Len(DatasetAt(bulk[s])) :
          /\ DatasetAt(bulk[s])[i][1] \in 1 .. Version
          /\ DatasetAt(bulk[s])[i][2] = hist[DatasetAt(bulk[s])[i][1]].db
    BY <2>1, DatasetChanges
  <2>3. copy'[s].data = DatasetAt(bulk[s])
    BY <1>1 DEF Load
  <2> QED
    BY <1>1, <2>2, <2>3, SameHist DEF Faithful
<1>4. s \in Fed <=> (s \in Fed)'
  BY <1>1 DEF Fed, End, Bulk, Online
<1> QED
  BY <1>1, <1>2, <1>3, <1>4, SameHist, QueueKept

\* The slave that serverCron closes, tells to start or leaves alone.
LEMMA Reaping ==
  ASSUME TypeOK, NEW s \in Slaves, SlaveOK(s), CronReap
  PROVE  SlaveOK(s)'
<1>1. PICK lost \in SUBSET End :
        conn' = [r \in Slaves |-> StateAfter(r, lost)] /\ Free(lost)
  BY DEF CronReap
<1>2. HistKept
  BY SameHist DEF CronReap
<1>3. CASE s \in lost
  <2>1. conn'[s] = "closed"
    BY <1>1, <1>3 DEF StateAfter
  <2> QED
    BY <1>1, <1>3, <2>1, Freed
<1>4. CASE s \notin lost
  <2>1. copy'[s] = copy[s] /\ reply'[s] = reply[s] /\ seldb'[s] = seldb[s]
    BY <1>1, <1>4 DEF Free
  <2>2. CASE s \in Start
    <3>1. conn'[s] = "end" /\ reply[s] = <<>> /\ seldb[s] = 0
      BY <1>1, <1>4, <2>2 DEF StateAfter, SlaveOK, Cursor, Fed, Start, End, Bulk, Online
    <3>2. Faithful(s)'
      BY <1>2, <2>1, FaithfulKept DEF SlaveOK
    <3> QED
      BY <2>1, <3>1, <3>2, Fresh
  <2>3. CASE s \notin Start
    <3>1. conn'[s] = conn[s] \/ {conn[s], conn'[s]} \subseteq {"end", "bulk"}
      BY <1>1, <1>4, <2>3 DEF StateAfter, End
    <3> QED
      BY <1>2, <2>1, <3>1, Untouched
  <2> QED
    BY <2>2, <2>3
<1> QED
  BY <1>3, <1>4

\* The slaves when one of them sends SYNC and gets an answer.
LEMMA Accepting ==
  ASSUME TypeOK, \A s \in Slaves : SlaveOK(s),
         NEW t \in Slaves, conn[t] = "closed",
         NEW r \in {"closed", "start", "end"}, NEW without, Accept(t, r, without),
         NEW s \in Slaves
  PROVE  SlaveOK(s)'
<1>1. HistKept /\ copy' = copy /\ reply' = reply
  BY SameHist DEF Accept
<1>2. CASE s = t
  <2>1. conn'[s] = r /\ seldb'[s] = 0 /\ reply[s] = <<>>
    BY <1>2 DEF Accept, TypeOK, SlaveOK, Cursor, Fed, End, Bulk, Online
  <2>2. Faithful(s)'
    BY <1>1, FaithfulKept DEF SlaveOK
  <2> QED
    BY <1>1, <2>1, <2>2, Fresh
<1>3. CASE s # t
  BY <1>1, <1>3, Untouched DEF Accept, TypeOK
<1> QED
  BY <1>2, <1>3

\* A change leaves every slave as it should be, whether it is fed or not.
LEMMA Changing ==
  ASSUME TypeOK, NEW op, NEW d \in Dbs, Change(op, d), NEW s \in Slaves, SlaveOK(s)
  PROVE  SlaveOK(s)'
<1>1. HistKept
  BY HistGrows DEF HistKept
<1>2. conn' = conn /\ copy' = copy
  BY DEF Change
<1>3. CASE s \in Fed /\ FeedSlaves(d)
  BY <1>3, Feeding
<1>4. CASE ~(s \in Fed /\ FeedSlaves(d))
  <2>1. reply'[s] = reply[s] /\ seldb'[s] = seldb[s]
    BY <1>4 DEF Change, FeedSlaves, LeaveOut, TypeOK
  <2> QED
    BY <1>1, <1>2, <2>1, Untouched
<1> QED
  BY <1>3, <1>4

LEMMA SlavesInit == Init => \A s \in Slaves : SlaveOK(s)
<1> SUFFICES ASSUME Init, NEW s \in Slaves PROVE SlaveOK(s)
  OBVIOUS
<1>1. reply[s] = <<>> /\ seldb[s] = 0 /\ copy[s].data = <<>> /\ s \notin Fed
  BY DEF Init, Fed, End, Bulk, Online
<1> QED
  BY <1>1 DEF SlaveOK, Queued, Cursor, Faithful

LEMMA SlavesStep == IInv /\ [Next]_vars => \A s \in Slaves : SlaveOK(s)'
<1> SUFFICES ASSUME TypeOK, \A s \in Slaves : SlaveOK(s), [Next]_vars, NEW s \in Slaves
             PROVE  SlaveOK(s)'
  BY DEF IInv
<1> USE DEF master, slaves
<1>1. ASSUME NEW d \in Dbs, Write(d) \/ Silent(d) \/ Flushall(d) PROVE SlaveOK(s)'
  <2>1. PICK op \in AllOps : Change(op, d)
    BY <1>1 DEF Write, Silent, Flushall, AllOps
  <2> QED
    BY <2>1, Changing
<1>2. ASSUME UNCHANGED <<hist, slaves>> PROVE SlaveOK(s)'
  BY <1>2, SameHist, Untouched
<1>3. CASE Save \/ BgsaveStarts
  BY <1>2, <1>3 DEF Save, BgsaveStarts
<1>4. ASSUME NEW how \in {"ok", "err", "killed"}, ChildEnds(how) PROVE SlaveOK(s)'
  BY <1>2, <1>4 DEF ChildEnds
<1>5. CASE CronReap
  BY <1>5, Reaping
<1>6. ASSUME NEW t \in Slaves, SyncForks(t) PROVE SlaveOK(s)'
  <2>1. conn[t] = "closed" /\ \E r \in {"closed", "end"} : Accept(t, r, {})
    BY <1>6 DEF SyncForks, Received
  <2> QED
    BY <2>1, Accepting
<1>7. ASSUME NEW t \in Slaves, SyncWaits(t) PROVE SlaveOK(s)'
  BY <1>7, Accepting DEF SyncWaits, Received
<1>8. ASSUME NEW t \in Slaves, SyncShares(t) PROVE SlaveOK(s)'
  <2>1. CASE \E q \in End : Accept(t, "end", excuse[q] \cap {"unfed"})
    <3>1. conn[t] = "closed" /\ \E without : Accept(t, "end", without)
      BY <1>8, <2>1 DEF SyncShares, Received
    <3> QED
      BY <3>1, Accepting
  <2>2. CASE Free(Slaves) /\ conn' = [r \in Slaves |-> "closed"]
    BY <2>2, Freed
  <2> QED
    BY <1>8, <2>1, <2>2 DEF SyncShares
<1>9. ASSUME NEW t \in Slaves, BulkSent(t) PROVE SlaveOK(s)'
  <2>1. CASE s = t
    BY <1>9, <2>1, Loading
  <2>2. CASE s # t
    BY <1>9, <2>2, SameHist, Untouched DEF BulkSent, TypeOK
  <2> QED
    BY <2>1, <2>2
<1>10. ASSUME NEW t \in Slaves, Deliver(t) PROVE SlaveOK(s)'
  <2>1. CASE s = t
    BY <1>10, <2>1, Delivering
  <2>2. CASE s # t
    BY <1>10, <2>2, SameHist, Untouched DEF Deliver, TypeOK
  <2> QED
    BY <2>1, <2>2
<1>11. ASSUME NEW t \in Slaves, LinkDown(t) PROVE SlaveOK(s)'
  <2>1. CASE s = t
    BY <1>11, <2>1, Freed DEF LinkDown, TypeOK
  <2>2. CASE s # t
    BY <1>11, <2>2, SameHist, Untouched DEF LinkDown, Free, TypeOK
  <2> QED
    BY <2>1, <2>2
<1>12. CASE UNCHANGED vars
  BY <1>2, <1>12 DEF vars
<1> QED
  BY <1>1, <1>3, <1>4, <1>5, <1>6, <1>7, <1>8, <1>9, <1>10, <1>11, <1>12 DEF Next

\* Every change a slave has executed was made in the database it executed it in:
\* one c->slaveseldb per connection, kept at what the end of the queue leaves the
\* slave in, is enough, for any number of slaves, databases and failures.
THEOREM ReplicationRightDatabase == Spec => []RightDatabase
<1>1. Init => IInv
  BY TypeInit, SlavesInit DEF IInv
<1>2. IInv /\ [Next]_vars => IInv'
  BY TypeStep, SlavesStep DEF IInv
<1>3. IInv => RightDatabase
  BY DEF IInv, SlaveOK, Faithful, RightDatabase
<1> QED
  BY <1>1, <1>2, <1>3, PTL DEF Spec

-----------------------------------------------------------------------------
(* No change twice, and none out of order: NoChangeTwice.                  *)
(*                                                                         *)
(* What a slave executes is the dump, then its queue, and the two meet     *)
(* without overlap only because of what was true when the save began.      *)
(* Order follows that from the fork of the child to the slave's last       *)
(* change: the queue of a slave that waits for a save begins after the     *)
(* save's image; the dump is that image, or an older one, or - when        *)
(* FLUSHALL replaced it - empty; and so is the dump that is sent.          *)

\* Dump n is the one of a FLUSHALL: it is empty.
Flushed(n) == n \in 1 .. Version /\ hist[n].op = "flushall"

\* All that is queued for s was made after the first n changes.
After(s, n) == \A i \in 1 .. Len(reply[s]) : n < reply[s][i].change

\* The dump that a reaped child leaves is not newer than its image.
DumpOrder == Bgsave => dump <= image \/ Flushed(dump)

\* The queue of s is in order,
QueueOrder(s) ==
  \A i, j \in 1 .. Len(reply[s]) : i < j => reply[s][i].change < reply[s][j].change

\* and so is what s holds, which is older than what is queued for it.
DataOrder(s) ==
  /\ \A i, j \in 1 .. Len(copy[s].data) :
       i < j => copy[s].data[i][1] < copy[s].data[j][1]
  /\ \A i \in 1 .. Len(copy[s].data) : After(s, copy[s].data[i][1])

\* From the fork to the last change, for a slave that was not late.
Meets(s) ==
  "late" \notin excuse[s] =>
    /\ conn[s] = "end" => Bgsave /\ After(s, image)
    /\ conn[s] = "bulk" => Flushed(bulk[s]) \/ After(s, bulk[s])
    /\ conn[s] = "online" => DataOrder(s)

Ordered(s) == QueueOrder(s) /\ Meets(s)

Order == IInv /\ DumpOrder /\ \A s \in Slaves : Ordered(s)

-----------------------------------------------------------------------------
(* Dumps and numbers.                                                      *)

\* A dataset is in order, holds nothing newer than its number, and that of a FLUSHALL
\* holds nothing.
LEMMA DatasetOrder ==
  ASSUME hist \in Seq(Event), NEW n \in 0 .. Version
  PROVE  /\ Len(DatasetAt(n)) \in Nat
         /\ \A i \in 1 .. Len(DatasetAt(n)) : DatasetAt(n)[i][1] \in Nat /\ DatasetAt(n)[i][1] <= n
         /\ \A i, j \in 1 .. Len(DatasetAt(n)) :
              i < j => DatasetAt(n)[i][1] < DatasetAt(n)[j][1]
         /\ Flushed(n) => Len(DatasetAt(n)) = 0
<1> DEFINE f == n - Cardinality(Kept(n))
           e(i) == <<f + i, hist[f + i].db>>
<1>1. Version \in Nat /\ n \in Nat
  BY LenProperties DEF Version
<1>2. f \in 0 .. n
  BY <1>1, KeptSize
<1>3. Flushed(n) => f = n
  <2>1. Flushed(n) => Kept(n) = {}
    BY <1>1 DEF Flushed, Kept
  <2> QED
    BY <1>1, <2>1, FS_EmptySet
<1>4. DatasetAt(n) = [i \in 1 .. n - f |-> e(i)]
  BY DEF DatasetAt
<1> HIDE DEF f
<1>5. \A i \in 1 .. n - f : e(i)[1] = f + i
  OBVIOUS
<1> HIDE DEF e
<1>6. Len(DatasetAt(n)) = n - f /\ \A i \in 1 .. n - f : DatasetAt(n)[i] = e(i)
  BY <1>1, <1>2, <1>4
<1> QED
  BY <1>1, <1>2, <1>3, <1>5, <1>6

\* Numbers, and the lengths of queues and datasets.
LEMMA Numbers ==
  ASSUME IInv, NEW s \in Slaves
  PROVE  /\ Version \in Nat /\ image \in 0 .. Version /\ dump \in 0 .. Version
         /\ bulk[s] \in 0 .. Version
         /\ Len(reply[s]) \in Nat /\ Len(copy[s].data) \in Nat
         /\ \A i \in 1 .. Len(reply[s]) : reply[s][i].change \in 1 .. Version
         /\ \A i \in 1 .. Len(copy[s].data) : copy[s].data[i][1] \in 1 .. Version
         /\ s \notin Fed => reply[s] = <<>>
<1>1. Version \in Nat /\ Len(reply[s]) \in Nat /\ Len(copy[s].data) \in Nat
  <2>1. hist \in Seq(Event) /\ reply[s] \in Seq(Item) /\ copy[s].data \in Seq(Changes)
    BY DEF IInv, TypeOK, Event, Copy, Changes
  <2> QED
    BY <2>1, LenProperties DEF Version
<1> QED
  BY <1>1 DEF IInv, TypeOK, SlaveOK, Queued, Cursor, Faithful

-----------------------------------------------------------------------------
(* What a step does to a slave.                                            *)

\* One that nothing happens to stays in order,
LEMMA SameOrder ==
  ASSUME TypeOK, HistKept, NEW s \in Slaves, Ordered(s),
         conn'[s] = conn[s], reply'[s] = reply[s], bulk'[s] = bulk[s],
         copy'[s] = copy[s], "late" \in excuse[s] => "late" \in excuse'[s],
         conn[s] = "end" /\ Bgsave => Bgsave' /\ image' = image
  PROVE  Ordered(s)'
<1>1. QueueOrder(s)'
  BY DEF Ordered, QueueOrder
<1>3. DataOrder(s) => DataOrder(s)'
  BY DEF DataOrder, After
<1>4. After(s, image) /\ image' = image => After(s, image)'
  BY DEF After
<1>5. After(s, bulk[s]) => After(s, bulk[s])'
  BY DEF After
<1>6. Flushed(bulk[s]) => Flushed(bulk[s])'
  <2>1. Version \in Nat /\ Version' \in Int
    BY LenProperties DEF TypeOK, Version, HistKept
  <2> QED
    BY <2>1 DEF Flushed, HistKept
<1>7. Meets(s)'
  BY <1>3, <1>4, <1>5, <1>6 DEF Ordered, Meets
<1> QED
  BY <1>1, <1>7 DEF Ordered

\* and so is one with nothing queued, that waits, if for a save, for one in progress.
LEMMA EmptyOrder ==
  ASSUME NEW s \in Slaves, reply'[s] = <<>>,
         conn'[s] \in {"closed", "start"} \/ (conn'[s] = "end" /\ Bgsave')
                                          \/ (conn'[s] = "end" /\ "late" \in excuse'[s])
  PROVE  Ordered(s)'
<1>1. Len(reply'[s]) = 0
  OBVIOUS
<1>2. QueueOrder(s)'
  BY <1>1 DEF QueueOrder
<1>3. After(s, image)'
  BY <1>1 DEF After
<1>4. Meets(s)'
  BY <1>3 DEF Meets
<1> QED
  BY <1>2, <1>4 DEF Ordered

\* A change is newer than all there is, and goes to the end of the queues.
LEMMA ChangeOrder ==
  ASSUME IInv, NEW op, NEW d \in Dbs, Change(op, d), NEW s \in Slaves, Ordered(s)
  PROVE  Ordered(s)'
<1> DEFINE n == Len(reply[s])
           item == [change |-> Version + 1, sel |-> IF seldb[s] = d THEN NoSelect ELSE d]
<1>1. HistKept /\ Version \in Nat /\ Version' = Version + 1
  BY HistGrows DEF HistKept, IInv
<1>2. conn' = conn /\ copy' = copy /\ bulk' = bulk /\ image' = image /\ child' = child
  BY DEF Change
<1>3. CASE s \in Fed /\ FeedSlaves(d)
  <2>1. reply'[s] = Append(reply[s], item) /\ excuse' = excuse
    BY <1>3 DEF FeedSlaves, IInv, TypeOK
  <2>2. item.change = Version + 1
    OBVIOUS
  <2>3. reply[s] \in Seq(Item) /\ item \in Item
    <3>1. Version + 1 \in 1 .. MaxChanges
      BY HistGrows DEF IInv
    <3> QED
      BY <3>1 DEF IInv, TypeOK, Item
  <2> HIDE DEF item
  <2>4. /\ Len(reply'[s]) = n + 1 /\ n \in Nat
        /\ \A i \in 1 .. n : reply'[s][i] = reply[s][i]
        /\ reply'[s][n + 1].change = Version + 1
    BY <2>1, <2>2, <2>3, AppendProperties, LenProperties
  <2>5. \A i \in 1 .. n : reply[s][i].change \in 1 .. Version
    BY Numbers
  <2> HIDE DEF n
  <2>6. QueueOrder(s)'
    <3> SUFFICES ASSUME NEW i \in 1 .. n + 1, NEW j \in 1 .. n + 1, i < j
                 PROVE  reply'[s][i].change < reply'[s][j].change
      BY <2>4 DEF QueueOrder
    <3>1. i \in 1 .. n
      BY <2>4
    <3>2. CASE j = n + 1
      BY <1>1, <2>4, <2>5, <3>1, <3>2
    <3>3. CASE j \in 1 .. n
      BY <2>4, <3>1, <3>3 DEF Ordered, QueueOrder, n
    <3> QED
      BY <2>4, <3>2, <3>3
  <2>7. \A k \in 0 .. Version : After(s, k) => After(s, k)'
    <3> SUFFICES ASSUME NEW k \in 0 .. Version, After(s, k), NEW i \in 1 .. n + 1
                 PROVE  k < reply'[s][i].change
      BY <2>4 DEF After
    <3>1. CASE i = n + 1
      BY <1>1, <2>4, <3>1
    <3>2. CASE i \in 1 .. n
      BY <2>4, <3>2 DEF After, n
    <3> QED
      BY <2>4, <3>1, <3>2
  <2>8. DataOrder(s) => DataOrder(s)'
    <3>1. \A i \in 1 .. Len(copy[s].data) : copy[s].data[i][1] \in 0 .. Version
      BY <1>1, Numbers
    <3>2. DataOrder(s) => \A i \in 1 .. Len(copy[s].data) : After(s, copy[s].data[i][1])'
      <4> SUFFICES ASSUME DataOrder(s), NEW i \in 1 .. Len(copy[s].data)
                   PROVE  After(s, copy[s].data[i][1])'
        OBVIOUS
      <4> DEFINE k == copy[s].data[i][1]
      <4>1. After(s, k)' <=> \A j \in 1 .. Len(reply'[s]) : k' < reply'[s][j].change
        BY DEF After
      <4>2. k' = k
        BY <1>2
      <4>3. k \in 0 .. Version /\ After(s, k)
        BY <3>1 DEF DataOrder
      <4> HIDE DEF k
      <4>4. \A j \in 1 .. Len(reply'[s]) : k < reply'[s][j].change
        BY <2>7, <4>3 DEF After
      <4> QED
        BY <4>1, <4>2, <4>4 DEF k
    <3> QED
      BY <1>2, <3>2 DEF DataOrder
  <2>9. (After(s, image) => After(s, image)') /\ (After(s, bulk[s]) => After(s, bulk[s])')
    BY <1>2, <2>7, Numbers DEF After
  <2>10. Flushed(bulk[s]) => Flushed(bulk[s])'
    BY <1>1, <1>2 DEF Flushed, HistKept
  <2>11. Meets(s)'
    BY <1>2, <2>1, <2>8, <2>9, <2>10 DEF Ordered, Meets, Bgsave
  <2> QED
    BY <2>6, <2>11 DEF Ordered
<1>4. CASE ~(s \in Fed /\ FeedSlaves(d))
  <2>1. reply'[s] = reply[s] /\ ("late" \in excuse[s] => "late" \in excuse'[s])
    BY <1>4 DEF Change, FeedSlaves, LeaveOut, IInv, TypeOK
  <2> QED
    BY <1>1, <1>2, <2>1, SameOrder DEF Bgsave, IInv
<1> QED
  BY <1>3, <1>4

\* A slave executes the head of its queue: what it holds stays older than the rest.
LEMMA DeliverOrder ==
  ASSUME IInv, NEW s \in Slaves, Ordered(s), Deliver(s)
  PROVE  Ordered(s)'
<1> DEFINE n == Len(reply[s])
           m == Len(copy[s].data)
           item == Head(reply[s])
<1>1. conn' = conn /\ excuse' = excuse /\ conn[s] = "online"
  BY DEF Deliver, Online
<1>2. /\ n \in Nat \ {0} /\ item = reply[s][1] /\ Len(Tail(reply[s])) = n - 1
      /\ \A i \in 1 .. n - 1 : Tail(reply[s])[i] = reply[s][i + 1]
      /\ item \in Item
  <2>1. reply[s] \in Seq(Item) /\ reply[s] # <<>>
    BY DEF IInv, TypeOK, Deliver
  <2>2. n \in Nat \ {0} /\ item = reply[s][1] /\ Len(Tail(reply[s])) = n - 1
        /\ \A i \in 1 .. n - 1 : Tail(reply[s])[i] = reply[s][i + 1]
    BY <2>1, HeadTailProperties, EmptySeq, LenProperties
  <2> QED
    BY <2>1, <2>2, ElementOfSeq
<1>3. reply'[s] = Tail(reply[s]) /\ copy'[s] = Apply(copy[s], item)
  BY DEF Deliver, IInv, TypeOK
<1>4. /\ Version \in Nat /\ m \in Nat
      /\ \A i \in 1 .. n : reply[s][i].change \in 1 .. Version
      /\ \A i \in 1 .. m : copy[s].data[i][1] \in 1 .. Version
  BY Numbers
<1>5. \A i, j \in 1 .. n : i < j => reply[s][i].change < reply[s][j].change
  BY DEF Ordered, QueueOrder
<1>6. QueueOrder(s)'
  <2> SUFFICES ASSUME NEW i \in 1 .. n - 1, NEW j \in 1 .. n - 1, i < j
               PROVE  reply'[s][i].change < reply'[s][j].change
    BY <1>2, <1>3 DEF QueueOrder
  <2>1. reply'[s][i] = reply[s][i + 1] /\ reply'[s][j] = reply[s][j + 1]
    BY <1>2, <1>3
  <2>2. i + 1 \in 1 .. n /\ j + 1 \in 1 .. n /\ i + 1 < j + 1
    BY <1>2
  <2> QED
    BY <1>5, <2>1, <2>2
<1>7. ASSUME DataOrder(s) PROVE DataOrder(s)'
  <2>1. \A i \in 1 .. n - 1 : /\ item.change < reply'[s][i].change
                              /\ i + 1 \in 1 .. n /\ reply'[s][i] = reply[s][i + 1]
    BY <1>2, <1>3, <1>5
  <2>2. Len(reply'[s]) = n - 1
    BY <1>2, <1>3
  <2>3. CASE hist[item.change].op = "flushall"
    <3>1. Len(copy'[s].data) = 0
      BY <1>3, <2>3 DEF Apply
    <3> QED
      BY <3>1 DEF DataOrder
  <2>4. CASE hist[item.change].op # "flushall"
    <3>1. PICK db \in Dbs : copy'[s].data = Append(copy[s].data, <<item.change, db>>)
      BY <1>2, <1>3, <2>4 DEF Apply, Item, IInv, TypeOK, Copy
    <3> DEFINE made == <<item.change, db>>
    <3>2. made \in Changes /\ made[1] = item.change
      BY <1>2 DEF Changes, Item
    <3>3. copy[s].data \in Seq(Changes)
      BY DEF IInv, TypeOK, Copy, Changes
    <3>4. copy'[s].data = Append(copy[s].data, made)
      BY <3>1
    <3> HIDE DEF made
    <3>5. /\ Len(copy'[s].data) = m + 1
          /\ \A i \in 1 .. m : copy'[s].data[i] = copy[s].data[i]
          /\ copy'[s].data[m + 1][1] = item.change
      BY <3>2, <3>3, <3>4, AppendProperties
    <3>6. \A i \in 1 .. m : copy[s].data[i][1] < item.change
      BY <1>2, <1>7 DEF DataOrder, After
    <3>7. \A i \in 1 .. m, j \in 1 .. n - 1 : copy[s].data[i][1] < reply'[s][j].change
      BY <1>7, <2>1 DEF DataOrder, After
    <3>8. \A i, j \in 1 .. m : i < j => copy[s].data[i][1] < copy[s].data[j][1]
      BY <1>7 DEF DataOrder
    <3> HIDE DEF m, n
    <3>9. \A i, j \in 1 .. m + 1 : i < j => copy'[s].data[i][1] < copy'[s].data[j][1]
      <4> SUFFICES ASSUME NEW i \in 1 .. m + 1, NEW j \in 1 .. m + 1, i < j
                   PROVE  copy'[s].data[i][1] < copy'[s].data[j][1]
        OBVIOUS
      <4>1. i \in 1 .. m /\ (j \in 1 .. m \/ j = m + 1)
        BY <1>4
      <4> QED
        BY <3>5, <3>6, <3>8, <4>1
    <3>10. \A i \in 1 .. m + 1, j \in 1 .. n - 1 : copy'[s].data[i][1] < reply'[s][j].change
      <4> SUFFICES ASSUME NEW i \in 1 .. m + 1, NEW j \in 1 .. n - 1
                   PROVE  copy'[s].data[i][1] < reply'[s][j].change
        OBVIOUS
      <4>1. i \in 1 .. m \/ i = m + 1
        BY <1>4
      <4> QED
        BY <2>1, <3>5, <3>7, <4>1
    <3> QED
      BY <2>2, <3>5, <3>9, <3>10 DEF DataOrder, After
  <2> QED
    BY <2>3, <2>4
<1>8. Meets(s)'
  BY <1>1, <1>7 DEF Ordered, Meets
<1> QED
  BY <1>6, <1>8 DEF Ordered

\* A slave loads the dump it was sent: the dump is older than its queue, or empty.
LEMMA LoadOrder ==
  ASSUME IInv, NEW s \in Slaves, Ordered(s), BulkSent(s)
  PROVE  Ordered(s)'
<1>1. /\ conn[s] = "bulk" /\ conn'[s] = "online" /\ excuse' = excuse /\ reply' = reply
      /\ copy'[s].data = DatasetAt(bulk[s])
  BY DEF BulkSent, Bulk, Load, IInv, TypeOK
<1>2. hist \in Seq(Event) /\ bulk[s] \in 0 .. Version
  BY DEF IInv, TypeOK, Event
<1>3. QueueOrder(s)'
  BY <1>1 DEF Ordered, QueueOrder
<1>4. ASSUME Flushed(bulk[s]) \/ After(s, bulk[s]) PROVE DataOrder(s)'
  <2>1. \A i, j \in 1 .. Len(copy'[s].data) :
          i < j => copy'[s].data[i][1] < copy'[s].data[j][1]
    BY <1>1, <1>2, DatasetOrder
  <2>2. ASSUME NEW i \in 1 .. Len(copy'[s].data), NEW j \in 1 .. Len(reply[s])
        PROVE  copy'[s].data[i][1] < reply[s][j].change
    <3>1. /\ ~Flushed(bulk[s])
          /\ copy'[s].data[i][1] \in Nat /\ copy'[s].data[i][1] <= bulk[s]
      BY <1>1, <1>2, <2>2, DatasetOrder
    <3>2. bulk[s] < reply[s][j].change
      BY <1>4, <3>1 DEF After
    <3>3. bulk[s] \in Nat /\ reply[s][j].change \in Nat
      BY Numbers
    <3> HIDE DEF DatasetAt
    <3> QED
      BY <3>1, <3>2, <3>3
  <2> QED
    BY <1>1, <2>1, <2>2 DEF DataOrder, After
<1>5. Meets(s)'
  BY <1>1, <1>4 DEF Ordered, Meets
<1> QED
  BY <1>3, <1>5 DEF Ordered

\* serverCron hands the dump to the slaves that waited for it, and forks for the others.
LEMMA ReapOrder ==
  ASSUME IInv, DumpOrder, CronReap, NEW s \in Slaves, Ordered(s)
  PROVE  Ordered(s)'
<1>1. PICK lost \in SUBSET End :
        /\ conn' = [r \in Slaves |-> StateAfter(r, lost)]
        /\ Free(lost)
        /\ bulk' = [r \in Slaves |-> IF r \in End \ lost THEN dump ELSE bulk[r]]
        /\ (Start # {} /\ Fork) \/ (child' = "none" /\ UNCHANGED image)
        /\ excuse' = [r \in Slaves |->
             IF r \in lost THEN {}
             ELSE IF r \in End /\ child = "killed" THEN excuse[r] \cup {"killed"}
             ELSE IF r \in Start /\ child' = "none" THEN {"late"} ELSE excuse[r]]
  BY DEF CronReap
<1>2. Bgsave /\ hist' = hist
  BY DEF CronReap, Bgsave
<1>3. HistKept
  BY <1>2, SameHist DEF IInv
<1>4. CASE s \in lost
  <2>1. conn'[s] = "closed" /\ reply'[s] = <<>>
    BY <1>1, <1>4 DEF StateAfter, Free
  <2> QED
    BY <2>1, EmptyOrder
<1>5. CASE s \in End \ lost
  <2>1. /\ conn[s] = "end" /\ conn'[s] = "bulk" /\ bulk'[s] = dump /\ reply'[s] = reply[s]
        /\ "late" \in excuse[s] => "late" \in excuse'[s]
    BY <1>1, <1>5 DEF StateAfter, Free, End, Start
  <2>2. QueueOrder(s)'
    BY <2>1 DEF Ordered, QueueOrder
  <2>3. ASSUME After(s, image) PROVE (Flushed(bulk[s]) \/ After(s, bulk[s]))'
    <3>1. CASE Flushed(dump)
      BY <1>2, <2>1, <3>1 DEF Flushed, Version
    <3>2. CASE dump <= image
      <4>1. \A i \in 1 .. Len(reply[s]) : dump < reply[s][i].change
        BY <2>3, <3>2, Numbers DEF After
      <4> QED
        BY <2>1, <4>1 DEF After
    <3> QED
      BY <1>2, <3>1, <3>2 DEF DumpOrder
  <2>4. Meets(s)'
    BY <2>1, <2>3 DEF Ordered, Meets
  <2> QED
    BY <2>2, <2>4 DEF Ordered
<1>6. CASE s \in Start
  <2>1. s \notin lost /\ s \notin End /\ s \notin Fed
    BY <1>6 DEF Start, End, Fed, Bulk, Online
  <2>2. conn'[s] = "end" /\ reply'[s] = <<>>
    BY <1>1, <1>6, <2>1, Numbers DEF StateAfter, Free
  <2>3. CASE child' = "none"
    <3>1. "late" \in excuse'[s]
      BY <1>1, <1>6, <2>1, <2>3
    <3> QED
      BY <2>2, <3>1, EmptyOrder
  <2>4. CASE child' # "none"
    BY <2>2, <2>4, EmptyOrder DEF Bgsave
  <2> QED
    BY <2>3, <2>4
<1>7. CASE s \notin End /\ s \notin Start
  <2>1. /\ conn'[s] = conn[s] /\ reply'[s] = reply[s] /\ bulk'[s] = bulk[s]
        /\ copy'[s] = copy[s] /\ excuse'[s] = excuse[s] /\ conn[s] # "end"
    BY <1>1, <1>7 DEF StateAfter, Free, End
  <2> QED
    BY <1>3, <2>1, SameOrder DEF IInv
<1> QED
  BY <1>4, <1>5, <1>6, <1>7

\* A slave that sends SYNC has nothing queued, and is told to wait only for a save.
LEMMA AcceptOrder ==
  ASSUME IInv, NEW t \in Slaves, conn[t] = "closed",
         NEW r, NEW without, Accept(t, r, without),
         r \in {"closed", "start"} \/ (r = "end" /\ Bgsave'),
         NEW s \in Slaves, Ordered(s),
         conn[s] = "end" /\ Bgsave => Bgsave' /\ image' = image
  PROVE  Ordered(s)'
<1>1. HistKept
  BY SameHist DEF Accept, IInv
<1>2. CASE s = t
  <2>1. conn'[s] = r /\ reply'[s] = <<>>
    BY <1>2, Numbers DEF Accept, IInv, TypeOK, Fed, End, Bulk, Online
  <2> QED
    BY <2>1, EmptyOrder
<1>3. CASE s # t
  <2>1. /\ conn'[s] = conn[s] /\ reply'[s] = reply[s] /\ bulk'[s] = bulk[s]
        /\ copy'[s] = copy[s] /\ excuse'[s] = excuse[s]
    BY <1>3 DEF Accept, IInv, TypeOK
  <2> QED
    BY <1>1, <2>1, SameOrder DEF IInv
<1> QED
  BY <1>2, <1>3

-----------------------------------------------------------------------------
(* The invariant.                                                          *)

LEMMA OrderInit == Init => Order
<1> SUFFICES ASSUME Init
             PROVE  Order
  OBVIOUS
<1>1. IInv
  BY TypeInit, SlavesInit DEF IInv
<1>2. DumpOrder
  BY DEF Init, DumpOrder, Bgsave
<1>3. ASSUME NEW s \in Slaves PROVE Ordered(s)
  <2>1. conn[s] = "closed" /\ Len(reply[s]) = 0
    BY DEF Init
  <2> QED
    BY <2>1 DEF Ordered, QueueOrder, Meets
<1> QED
  BY <1>1, <1>2, <1>3 DEF Order

\* A dump newer than the image of the child in progress is that of a FLUSHALL.
LEMMA DumpStep ==
  ASSUME IInv, DumpOrder, [Next]_vars
  PROVE  DumpOrder'
<1> USE DEF DumpOrder, Bgsave
<1>1. Version \in Nat /\ image \in 0 .. Version /\ dump \in 0 .. Version
  BY LenProperties DEF IInv, TypeOK, Version
<1>2. ASSUME NEW d \in Dbs, Write(d) \/ Silent(d) \/ Flushall(d) PROVE DumpOrder'
  <2>1. PICK op \in AllOps : /\ Change(op, d)
                             /\ dump' = dump \/ (dump' = Version + 1 /\ op = "flushall")
    BY <1>2 DEF Write, Silent, Flushall, AllOps
  <2>2. /\ Version' = Version + 1 /\ child' = child /\ image' = image
        /\ \A i \in 1 .. Version : hist'[i] = hist[i]
        /\ hist'[Version + 1].op = op
    <3>1. hist \in Seq(Event) /\ [op |-> op, db |-> d] \in Event
      BY DEF IInv, TypeOK, Event
    <3>2. hist' = Append(hist, [op |-> op, db |-> d])
      BY <2>1 DEF Change
    <3> QED
      BY <2>1, <3>1, <3>2, HistGrows, AppendProperties DEF IInv, Change, Version
  <2>3. CASE dump' = dump
    BY <1>1, <2>2, <2>3 DEF Flushed
  <2>4. CASE dump' = Version + 1 /\ op = "flushall"
    BY <1>1, <2>2, <2>4 DEF Flushed
  <2> QED
    BY <2>1, <2>3, <2>4
<1>3. ASSUME Fork, dump' = dump PROVE DumpOrder'
  BY <1>1, <1>3 DEF Fork
<1>4. ASSUME child' = child, image' = image, dump' = dump, hist' = hist PROVE DumpOrder'
  BY <1>4 DEF Flushed, Version
<1>5. CASE Save
  BY <1>5 DEF Save
<1>6. CASE BgsaveStarts
  BY <1>3, <1>6 DEF BgsaveStarts
<1>7. CASE CronReap
  <2>1. dump' = dump /\ (Fork \/ child' = "none")
    BY <1>7 DEF CronReap
  <2> QED
    BY <1>3, <2>1
<1>8. ASSUME NEW how \in {"ok", "err", "killed"}, ChildEnds(how) PROVE DumpOrder'
  <2>1. /\ child = "running" /\ image' = image /\ hist' = hist
        /\ dump' = image \/ dump' = dump
    BY <1>8 DEF ChildEnds
  <2>2. CASE dump' = image
    BY <1>1, <2>1, <2>2
  <2>3. CASE dump' = dump
    BY <2>1, <2>3 DEF Flushed, Version
  <2> QED
    BY <2>1, <2>2, <2>3
<1>9. ASSUME NEW s \in Slaves, SyncForks(s) PROVE DumpOrder'
  <2>1. dump' = dump /\ hist' = hist
    BY <1>9 DEF SyncForks, Accept
  <2> QED
    BY <1>3, <1>4, <1>9, <2>1 DEF SyncForks
<1>10. ASSUME NEW s \in Slaves,
              SyncWaits(s) \/ SyncShares(s) \/ BulkSent(s) \/ Deliver(s) \/ LinkDown(s)
       PROVE  DumpOrder'
  BY <1>4, <1>10 DEF SyncWaits, SyncShares, Accept, BulkSent, Deliver, LinkDown, master
<1>11. CASE UNCHANGED vars
  BY <1>4, <1>11 DEF vars, master
<1> QED
  BY <1>2, <1>5, <1>6, <1>7, <1>8, <1>9, <1>10, <1>11 DEF Next

LEMMA OrderedStep ==
  ASSUME Order, [Next]_vars, NEW s \in Slaves
  PROVE  Ordered(s)'
<1> USE DEF master, slaves
<1>1. IInv /\ TypeOK /\ DumpOrder /\ Ordered(s)
  BY DEF Order, IInv
<1>2. ASSUME NEW d \in Dbs, Write(d) \/ Silent(d) \/ Flushall(d) PROVE Ordered(s)'
  <2>1. PICK op \in AllOps : Change(op, d)
    BY <1>2 DEF Write, Silent, Flushall, AllOps
  <2> QED
    BY <1>1, <2>1, ChangeOrder
<1>3. ASSUME UNCHANGED <<hist, slaves>>, Bgsave => Bgsave' /\ image' = image
      PROVE  Ordered(s)'
  BY <1>1, <1>3, SameHist, SameOrder
<1>4. CASE Save \/ BgsaveStarts
  BY <1>3, <1>4 DEF Save, BgsaveStarts, Bgsave
<1>5. ASSUME NEW how \in {"ok", "err", "killed"}, ChildEnds(how) PROVE Ordered(s)'
  BY <1>3, <1>5 DEF ChildEnds, Bgsave
<1>6. CASE CronReap
  BY <1>1, <1>6, ReapOrder
<1>7. ASSUME NEW t \in Slaves, SyncForks(t) PROVE Ordered(s)'
  <2>1. PICK r \in {"closed", "end"} :
          Accept(t, r, {}) /\ (r = "end" => Bgsave') /\ ~Bgsave /\ conn[t] = "closed"
    BY <1>7 DEF SyncForks, Received, Fork, Bgsave
  <2> QED
    BY <1>1, <2>1, AcceptOrder
<1>8. ASSUME NEW t \in Slaves, SyncWaits(t) PROVE Ordered(s)'
  <2>1. /\ Accept(t, "start", {}) /\ conn[t] = "closed"
        /\ child' = child /\ image' = image
    BY <1>8 DEF SyncWaits, Received
  <2> QED
    BY <1>1, <2>1, AcceptOrder DEF Bgsave
<1>9. ASSUME NEW t \in Slaves, SyncShares(t) PROVE Ordered(s)'
  <2>1. CASE \E q \in End : Accept(t, "end", excuse[q] \cap {"unfed"})
                            /\ UNCHANGED <<child, image>>
    <3>1. PICK without : Accept(t, "end", without) /\ UNCHANGED <<child, image>>
      BY <2>1
    <3>2. conn[t] = "closed" /\ Bgsave /\ Bgsave'
      BY <1>9, <3>1 DEF SyncShares, Received, Bgsave
    <3> QED
      BY <1>1, <3>1, <3>2, AcceptOrder
  <2>2. CASE Free(Slaves) /\ conn' = [r \in Slaves |-> "closed"]
    <3>1. reply'[s] = <<>> /\ conn'[s] = "closed"
      BY <2>2 DEF Free
    <3> QED
      BY <3>1, EmptyOrder
  <2> QED
    BY <1>9, <2>1, <2>2 DEF SyncShares
<1>10. ASSUME NEW t \in Slaves, BulkSent(t) \/ Deliver(t) \/ LinkDown(t), s # t
       PROVE  Ordered(s)'
  <2>1. /\ hist' = hist /\ child' = child /\ image' = image
        /\ conn'[s] = conn[s] /\ reply'[s] = reply[s] /\ bulk'[s] = bulk[s]
        /\ copy'[s] = copy[s] /\ excuse'[s] = excuse[s]
    BY <1>1, <1>10 DEF BulkSent, Deliver, LinkDown, Free, TypeOK
  <2> QED
    BY <1>1, <2>1, SameHist, SameOrder DEF Bgsave
<1>11. CASE BulkSent(s)
  BY <1>1, <1>11, LoadOrder
<1>12. CASE Deliver(s)
  BY <1>1, <1>12, DeliverOrder
<1>13. CASE LinkDown(s)
  <2>1. reply'[s] = <<>> /\ conn'[s] = "closed"
    BY <1>1, <1>13 DEF LinkDown, Free, TypeOK
  <2> QED
    BY <2>1, EmptyOrder
<1>14. CASE UNCHANGED vars
  BY <1>3, <1>14 DEF vars, Bgsave
<1> QED
  BY <1>2, <1>4, <1>5, <1>6, <1>7, <1>8, <1>9, <1>10, <1>11, <1>12, <1>13, <1>14 DEF Next

LEMMA OrderStep == Order /\ [Next]_vars => Order'
<1> SUFFICES ASSUME Order, [Next]_vars
             PROVE  Order'
  OBVIOUS
<1>1. IInv'
  BY TypeStep, SlavesStep DEF Order, IInv
<1>2. DumpOrder'
  BY DumpStep DEF Order
<1>3. \A s \in Slaves : Ordered(s)'
  BY OrderedStep
<1> QED
  BY <1>1, <1>2, <1>3 DEF Order

\* What a slave that was not late holds is in order, no change twice, whatever
\* FLUSHALL, kills, lost connections and failed forks do to the save it is sent.
THEOREM ReplicationNoChangeTwice == Spec => []NoChangeTwice
<1>1. Order => NoChangeTwice
  BY DEF Order, Ordered, Meets, DataOrder, NoChangeTwice, Online
<1> QED
  BY OrderInit, OrderStep, <1>1, PTL DEF Spec

-----------------------------------------------------------------------------
(* The copy a slave becomes: SnapshotPlusBuffer.                           *)

\* The number of changes that were made before the first of those queued for s.
Behind(s) == Version - Len(reply[s])

\* The queue of s is all that was made since.
Gapless(s) ==
  /\ Behind(s) \in Nat
  /\ \A i \in 1 .. Len(reply[s]) : reply[s][i].change = Behind(s) + i

\* A FLUSHALL is to come after the first n changes.
Emptied(n) == \E m \in n + 1 .. Version : Flushed(m)

\* Dump n will do under the queue of s: the queue begins after it, or it is that of
\* a FLUSHALL in the queue.
Fits(s, n) == n = Behind(s) \/ (Behind(s) < n /\ Flushed(n))

\* A slave that holds d will end with what the master holds.
Holds(s, d) == d = DatasetAt(Behind(s)) \/ Emptied(Behind(s))

\* From the fork to the last change, for a slave that is fed.
Carries(s) ==
  s \in Fed /\ "unfed" \notin excuse[s] =>
    /\ Gapless(s)
    /\ conn[s] = "end" /\ Bgsave => Behind(s) <= image
    /\ conn[s] = "end" /\ "late" \notin excuse[s] => Behind(s) = image
    /\ conn[s] = "bulk" /\ excuse[s] = {} => Fits(s, bulk[s])
    /\ conn[s] = "online" /\ excuse[s] = {} => Holds(s, copy[s].data)

\* The dump a child leaves is its image, or that of a FLUSHALL since.
DumpIs == child = "ok" => dump = image \/ (image < dump /\ Flushed(dump))

Carried == Order /\ DumpIs /\ \A s \in Slaves : Carries(s)

-----------------------------------------------------------------------------
(* Executing a queue.                                                      *)

\* Replay executes the items one after the other: a function that takes each to
\* what the slave holds after it exists, and ends where Replay does.
LEMMA ReplaySteps ==
  ASSUME NEW c, NEW items, Len(items) \in Nat
  PROVE  \E q : /\ q[0] = c
                /\ \A i \in 1 .. Len(items) : q[i] = Apply(q[i - 1], items[i])
                /\ Replay(c, items) = q[Len(items)].data
<1> DEFINE Steps(r, n) ==
             r = [i \in 0 .. n |-> IF i = 0 THEN c ELSE Apply(r[i - 1], items[i])]
           Fine == {n \in Nat : \E r : Steps(r, n)}
<1>1. 0 \in Fine
  <2>1. Steps([i \in 0 .. 0 |-> c], 0)
    OBVIOUS
  <2> QED
    BY <2>1
<1>2. ASSUME NEW n \in Nat, n \in Fine PROVE n + 1 \in Fine
  <2>1. PICK r : Steps(r, n)
    BY <1>2
  <2> DEFINE r2 == [i \in 0 .. n + 1 |->
                      IF i = n + 1 THEN Apply(r[n], items[n + 1]) ELSE r[i]]
  <2>2. Steps(r2, n + 1)
    <3> SUFFICES ASSUME NEW i \in 0 .. n + 1
                 PROVE  r2[i] = IF i = 0 THEN c ELSE Apply(r2[i - 1], items[i])
      OBVIOUS
    <3>1. CASE i = n + 1
      BY <3>1
    <3>2. CASE i \in 0 .. n
      BY <2>1, <3>2
    <3> QED
      BY <3>1, <3>2
  <2> HIDE DEF r2
  <2> QED
    BY <2>2
<1> HIDE DEF Fine
<1>3. Len(items) \in Fine
  BY <1>1, <1>2, NatRange
<1>4. \E r : Steps(r, Len(items))
  BY <1>3 DEF Fine
<1> DEFINE q == CHOOSE r : Steps(r, Len(items))
<1>5. Steps(q, Len(items))
  BY <1>4
<1>6. Replay(c, items) = q[Len(items)].data
  BY DEF Replay
<1> HIDE DEF q
<1>7. q[0] = c /\ \A i \in 1 .. Len(items) : q[i] = Apply(q[i - 1], items[i])
  BY <1>5
<1> QED
  BY <1>6, <1>7

\* One more change in a dataset: FLUSHALL empties it, any other is added at its end.
LEMMA DatasetStep ==
  ASSUME hist \in Seq(Event), Version <= MaxChanges, NEW n \in Nat, NEW next \in 1 .. Version, next = n + 1
  PROVE  DatasetAt(next) = IF hist[next].op = "flushall" THEN <<>>
                           ELSE Append(DatasetAt(n), <<next, hist[next].db>>)
<1> DEFINE f == n - Cardinality(Kept(n))
           g == next - Cardinality(Kept(next))
           e(i) == <<i, hist[i].db>>
<1>1. DatasetAt(n) = [i \in 1 .. n - f |-> e(f + i)]
  BY DEF DatasetAt
<1>2. DatasetAt(next) = [i \in 1 .. next - g |-> e(g + i)]
  BY DEF DatasetAt
<1>3. f \in 0 .. n /\ Cardinality(Kept(n)) \in Nat
  BY KeptSize
<1>4. CASE hist[next].op = "flushall"
  <2>1. Kept(next) = {}
    BY <1>4 DEF Kept
  <2>2. Cardinality(Kept(next)) = 0
    BY <2>1, FS_EmptySet, Zenon
  <2>3. g = next
    BY <2>2
  <2> HIDE DEF g, e
  <2>4. 1 .. next - g = {}
    BY <2>3
  <2>5. DatasetAt(next) \in Seq(Changes) /\ Len(DatasetAt(next)) = 0
    <3>1. Len(DatasetAt(next)) = 0
      BY <1>2, <2>3
    <3> QED
      BY <3>1, DatasetChanges
  <2> QED
    BY <1>4, <2>5, EmptySeq
<1>5. CASE hist[next].op # "flushall"
  <2>1. Kept(next) = Kept(n) \cup {next} /\ next \notin Kept(n)
    <3>1. next \in Kept(next)
      BY <1>5 DEF Kept
    <3>2. \A i \in 1 .. n : i \in Kept(next) <=> i \in Kept(n)
      BY <1>5 DEF Kept
    <3>3. Kept(n) \subseteq 1 .. n /\ Kept(next) \subseteq 1 .. next
      BY DEF Kept
    <3> QED
      BY <3>1, <3>2, <3>3
  <2>2. IsFiniteSet(Kept(n))
    <3>1. IsFiniteSet(1 .. n)
      BY FS_Interval
    <3> QED
      BY <3>1, FS_Subset DEF Kept
  <2>3. Cardinality(Kept(next)) = Cardinality(Kept(n)) + 1
    BY <2>1, <2>2, FS_AddElement
  <2>4. g = f
    BY <1>3, <2>3
  <2> HIDE DEF f, g, e
  <2> DEFINE m == n - f
             d == DatasetAt(n)
  <2>5. m \in Nat /\ f + (m + 1) = next /\ next - g = m + 1
    BY <1>3, <2>4
  <2>6. d = [i \in 1 .. m |-> e(f + i)] /\ DatasetAt(next) = [i \in 1 .. m + 1 |-> e(f + i)]
    BY <1>1, <1>2, <2>4, <2>5
  <2> HIDE DEF m, d
  <2>7. DatasetAt(next) = Append(d, e(next))
    <3>1. Len(d) = m
      BY <2>5, <2>6
    <3>2. Append(d, e(next)) = [i \in 1 .. m + 1 |-> IF i <= m THEN d[i] ELSE e(next)]
      BY <2>5, <2>6, <3>1
    <3>3. \A i \in 1 .. m + 1 : e(f + i) = IF i <= m THEN d[i] ELSE e(next)
      BY <2>5, <2>6
    <3> QED
      BY <2>6, <3>2, <3>3
  <2> QED
    BY <1>5, <2>7 DEF d, e
<1> QED
  BY <1>4, <1>5

\* What a dataset holds does not change when changes are added to hist.
LEMMA DatasetKept ==
  ASSUME TypeOK, HistKept, NEW n \in 0 .. Version
  PROVE  DatasetAt(n)' = DatasetAt(n)
<1>1. Version \in Nat /\ \A i \in 1 .. n : hist'[i] = hist[i]
  <2>1. Version \in Nat
    <3>1. hist \in Seq([op : AllOps, db : Dbs])
      BY DEF TypeOK
    <3> QED
      BY <3>1, LenProperties DEF Version
  <2>2. \A i \in 1 .. n : i \in 1 .. Version
    BY <2>1
  <2> QED
    BY <2>1, <2>2 DEF HistKept
<1>2. Kept(n)' = Kept(n)
  BY <1>1 DEF Kept
<1> DEFINE f == n - Cardinality(Kept(n))
<1>3. f \in 0 .. n
  BY KeptSize
<1>4. DatasetAt(n) = [i \in 1 .. n - f |-> <<f + i, hist[f + i].db>>]
  BY DEF DatasetAt
<1>5. DatasetAt(n)' = [i \in 1 .. n - f |-> <<f + i, hist'[f + i].db>>]
  BY <1>2 DEF DatasetAt
<1> HIDE DEF f
<1> QED
  BY <1>1, <1>3, <1>4, <1>5

\* The queue of s from the inside.
LEMMA QueueNumbers ==
  ASSUME IInv, NEW s \in Slaves, Gapless(s)
  PROVE  /\ Len(reply[s]) \in Nat /\ Version \in Nat /\ Version <= MaxChanges
         /\ Behind(s) \in Nat /\ Behind(s) + Len(reply[s]) = Version
         /\ hist \in Seq(Event)
<1>1. /\ Len(reply[s]) \in Nat /\ Version \in Nat
      /\ Behind(s) = Version - Len(reply[s])
  BY Numbers DEF Behind
<1>2. hist \in Seq(Event) /\ Version <= MaxChanges
  BY DEF IInv, TypeOK, Event
<1>3. Behind(s) \in Nat
  BY DEF Gapless
<1> QED
  BY <1>1, <1>2, <1>3

\* A dataset that is right after i items of the queue is right after one more.
LEMMA OneMore ==
  ASSUME IInv, NEW s \in Slaves, Gapless(s),
         NEW i \in Nat, NEW j \in 1 .. Len(reply[s]), j = i + 1,
         NEW k \in Nat, k = Behind(s) + i, NEW next \in Nat, next = Behind(s) + j,
         NEW c, c.db = DbAt(s, i), c.data = DatasetAt(k) \/ Emptied(k)
  PROVE  LET after == Apply(c, reply[s][j])
         IN  /\ after.db = DbAt(s, j)
             /\ after.data = DatasetAt(next) \/ Emptied(next)
<1> DEFINE item == reply[s][j]
           after == Apply(c, item)
<1>1. next = k + 1 /\ next \in 1 .. Version /\ Version <= MaxChanges /\ hist \in Seq(Event)
  BY QueueNumbers
<1>2. item.change = next
  BY DEF Gapless
<1>3. item.sel = IF DbAt(s, i) = hist[next].db THEN NoSelect ELSE hist[next].db
  <2>1. j - 1 = i
    OBVIOUS
  <2> QED
    BY <1>2, <2>1 DEF IInv, SlaveOK, Queued
<1>4. hist[next].db # NoSelect
  <2>1. hist[next] \in Event
    BY <1>1, ElementOfSeq DEF Version
  <2> QED
    BY <2>1, ReplicationAssumption DEF Event, NoSelect
<1> DEFINE db == IF item.sel = NoSelect THEN c.db ELSE item.sel
<1>5. db = hist[next].db
  BY <1>3, <1>4
<1>6. /\ after.db = db
      /\ after.data = IF hist[item.change].op = "flushall" THEN <<>>
                      ELSE Append(c.data, <<item.change, db>>)
  BY DEF Apply
<1>7. DbAt(s, j) = hist[next].db
  BY <1>2 DEF DbAt
<1>8. DatasetAt(next) = IF hist[next].op = "flushall" THEN <<>>
                        ELSE Append(DatasetAt(k), <<next, hist[next].db>>)
  BY <1>1, DatasetStep
<1> HIDE DEF item, after, db
<1>9. after.data = DatasetAt(next) \/ Emptied(next)
  <2> HIDE DEF DatasetAt
  <2>1. CASE c.data = DatasetAt(k)
    BY <1>2, <1>5, <1>6, <1>8, <2>1
  <2>2. CASE Emptied(k)
    <3>1. PICK m \in k + 1 .. Version : Flushed(m)
      BY <2>2 DEF Emptied
    <3>2. CASE m = next
      BY <1>2, <1>6, <1>8, <3>1, <3>2 DEF Flushed
    <3>3. CASE m # next
      BY <1>1, <3>1, <3>3 DEF Emptied
    <3> QED
      BY <3>2, <3>3
  <2> QED
    BY <2>1, <2>2
<1> QED
  BY <1>5, <1>6, <1>7, <1>9 DEF after, item

\* A slave that holds the right dataset for its queue ends with the master's.
LEMMA ReplayEnds ==
  ASSUME IInv, NEW s \in Slaves, Gapless(s),
         NEW c, c.db = Base(s), Holds(s, c.data)
  PROVE  Replay(c, reply[s]) = DatasetAt(Version)
<1> DEFINE items == reply[s]
           n == Len(items)
           k == Behind(s)
<1>1. n \in Nat /\ Version \in Nat /\ k \in Nat /\ k + n = Version
  BY QueueNumbers
<1>2. PICK q : /\ q[0] = c
               /\ \A i \in 1 .. n : q[i] = Apply(q[i - 1], items[i])
               /\ Replay(c, items) = q[n].data
  <2>1. Len(items) \in Nat
    BY <1>1
  <2> HIDE DEF items
  <2> QED
    BY <2>1, ReplaySteps
<1> DEFINE Good(i) == q[i].db = DbAt(s, i) /\ (q[i].data = DatasetAt(k + i) \/ Emptied(k + i))
           Reached == {i \in Nat : i <= n => Good(i)}
<1>3. 0 \in Reached
  <2>1. k + 0 = k
    BY <1>1
  <2> QED
    BY <1>2, <2>1 DEF Holds, DbAt
<1>4. ASSUME NEW i \in Nat, i \in Reached PROVE i + 1 \in Reached
  <2> SUFFICES ASSUME i + 1 <= n PROVE Good(i + 1)
    OBVIOUS
  <2>1. Good(i)
    BY <1>1, <1>4
  <2> DEFINE j == i + 1
  <2>2. j \in 1 .. n /\ k + i \in Nat /\ k + j \in Nat
    BY <1>1
  <2>3. q[j] = Apply(q[i], items[j])
    BY <1>1, <1>2, <2>2
  <2> HIDE DEF j, DatasetAt
  <2>4. j = i + 1
    BY DEF j
  <2>5. LET after == Apply(q[i], reply[s][j])
        IN  after.db = DbAt(s, j) /\ (after.data = DatasetAt(k + j) \/ Emptied(k + j))
    BY <2>1, <2>2, <2>4, OneMore
  <2> QED
    BY <2>3, <2>5 DEF j
<1> HIDE DEF Reached
<1>5. n \in Reached
  BY <1>1, <1>3, <1>4, NatRange
<1>6. Good(n)
  BY <1>1, <1>5 DEF Reached
<1>7. ~Emptied(Version)
  BY <1>1 DEF Emptied
<1> QED
  BY <1>1, <1>2, <1>6, <1>7

\* So the invariant is strong enough.
LEMMA CarriedEnds == Carried => SnapshotPlusBuffer
<1> SUFFICES ASSUME Carried, NEW s \in Fed, excuse[s] = {},
                    ~(s \in End /\ child \in {"err", "killed"})
             PROVE  Eventually(s) = DatasetAt(Version)
  BY DEF SnapshotPlusBuffer
<1>1. s \in Slaves /\ IInv /\ Ordered(s) /\ Gapless(s) /\ Carries(s)
  BY DEF Carried, Carries, Order, Fed, End, Bulk, Online
<1>2. /\ Load(image).db = 0 /\ Load(image).data = DatasetAt(image)
      /\ Load(dump).db = 0 /\ Load(dump).data = DatasetAt(dump)
      /\ Load(bulk[s]).db = 0 /\ Load(bulk[s]).data = DatasetAt(bulk[s])
  BY DEF Load
<1>3. ASSUME NEW n \in 0 .. Version, Fits(s, n) PROVE Holds(s, DatasetAt(n))
  <2>1. Version \in Nat /\ Behind(s) \in Nat
    BY <1>1, QueueNumbers
  <2> QED
    BY <1>3, <2>1 DEF Fits, Holds, Emptied
<1>4. image \in 0 .. Version /\ dump \in 0 .. Version /\ bulk[s] \in 0 .. Version
  BY <1>1, Numbers
<1> HIDE DEF DatasetAt, Load
<1>5. CASE s \in End /\ child = "running"
  <2>1. Fits(s, image) /\ Base(s) = 0
    BY <1>1, <1>5 DEF Carries, Fits, End, Base
  <2>2. Replay(Load(image), reply[s]) = DatasetAt(Version)
    BY <1>1, <1>2, <1>3, <1>4, <2>1, ReplayEnds
  <2>3. Eventually(s) = Replay(Load(image), reply[s])
    BY <1>5 DEF Eventually, End, Bulk
  <2> QED
    BY <2>2, <2>3
<1>6. CASE s \in End /\ child # "running"
  <2>1. child = "ok"
    BY <1>1, <1>6 DEF IInv, TypeOK, Ordered, Meets, Bgsave, End
  <2>2. Fits(s, dump) /\ Base(s) = 0
    BY <1>1, <1>6, <2>1 DEF Carried, Carries, DumpIs, Fits, End, Base
  <2>3. Replay(Load(dump), reply[s]) = DatasetAt(Version)
    BY <1>1, <1>2, <1>3, <1>4, <2>2, ReplayEnds
  <2>4. Eventually(s) = Replay(Load(dump), reply[s])
    BY <1>6 DEF Eventually, End, Bulk
  <2> QED
    BY <2>3, <2>4
<1>7. CASE s \in Bulk
  <2>1. Fits(s, bulk[s]) /\ Base(s) = 0
    BY <1>1, <1>7 DEF Carries, Bulk, Base
  <2>2. Replay(Load(bulk[s]), reply[s]) = DatasetAt(Version)
    BY <1>1, <1>2, <1>3, <1>4, <2>1, ReplayEnds
  <2>3. Eventually(s) = Replay(Load(bulk[s]), reply[s])
    BY <1>7 DEF Eventually, End, Bulk
  <2> QED
    BY <2>2, <2>3
<1>8. CASE s \in Online
  <2>1. Holds(s, copy[s].data) /\ copy[s].db = Base(s)
    BY <1>1, <1>8 DEF Carries, Online, Base
  <2>2. Replay(copy[s], reply[s]) = DatasetAt(Version)
    BY <1>1, <2>1, ReplayEnds
  <2>3. Eventually(s) = Replay(copy[s], reply[s])
    BY <1>8 DEF Eventually, End, Bulk, Online
  <2> QED
    BY <2>2, <2>3
<1> QED
  BY <1>5, <1>6, <1>7, <1>8 DEF Fed

-----------------------------------------------------------------------------
(* What a step does to a slave and its queue.                              *)

\* What is kept of the right dataset when hist only grows.
LEMMA FlushesKept ==
  ASSUME TypeOK, HistKept
  PROVE  /\ Version \in Nat /\ Version' \in Int
         /\ \A n : Flushed(n) => Flushed(n)'
         /\ \A n \in Nat : Emptied(n) => Emptied(n)'
<1>1. Version \in Nat /\ Version' \in Int
  BY LenProperties DEF TypeOK, Version, HistKept
<1>2. ASSUME NEW n, Flushed(n) PROVE Flushed(n)'
  BY <1>1, <1>2 DEF Flushed, HistKept
<1>3. ASSUME NEW n \in Nat, Emptied(n) PROVE Emptied(n)'
  <2>1. PICK m \in n + 1 .. Version : Flushed(m)
    BY <1>3 DEF Emptied
  <2>2. m \in n + 1 .. Version'
    BY <1>1, <2>1 DEF HistKept
  <2>3. Flushed(m)'
    BY <1>2, <2>1
  <2> QED
    BY <2>2, <2>3 DEF Emptied
<1> QED
  BY <1>1, <1>2, <1>3

\* A slave that nothing happens to goes on carrying what it needs, through the fork of
\* a child and its end.
LEMMA SameCarry ==
  ASSUME TypeOK, hist' = hist, NEW s \in Slaves, Ordered(s), Carries(s),
         conn'[s] = conn[s], reply'[s] = reply[s], bulk'[s] = bulk[s],
         copy'[s] = copy[s], excuse'[s] = excuse[s],
         conn[s] = "end" =>
           IF Bgsave THEN Bgsave' /\ image' = image ELSE Bgsave' => image' = Version
  PROVE  Carries(s)'
<1> SUFFICES ASSUME s \in Fed, "unfed" \notin excuse[s], Carries(s)
             PROVE  Carries(s)'
  BY DEF Carries, Fed, End, Bulk, Online
<1>1. HistKept /\ Version' = Version /\ Version \in Nat /\ Len(reply[s]) \in Nat
  BY SameHist, LenProperties DEF TypeOK, Version
<1>2. Behind(s)' = Behind(s) /\ Behind(s) = Version - Len(reply[s])
  BY <1>1 DEF Behind
<1>3. Gapless(s) /\ Behind(s) \in Nat
  BY DEF Carries, Gapless
<1>4. Gapless(s)'
  BY <1>2, <1>3 DEF Gapless
<1>5. conn[s] = "bulk" => Fits(s, bulk[s])' = Fits(s, bulk[s])
  BY <1>1, <1>2 DEF Fits, Flushed
<1>6. Holds(s, copy[s].data)' = Holds(s, copy[s].data)
  <2>1. DatasetAt(Behind(s))' = DatasetAt(Behind(s))
    BY <1>2 DEF DatasetAt, Kept
  <2>2. Emptied(Behind(s))' = Emptied(Behind(s))
    BY <1>1, <1>2 DEF Emptied, Flushed
  <2> QED
    BY <2>1, <2>2 DEF Holds
<1>7. conn[s] = "end" /\ "late" \notin excuse[s] => Bgsave
  BY DEF Ordered, Meets
<1> QED
  BY <1>1, <1>2, <1>3, <1>4, <1>5, <1>6, <1>7 DEF Carries

\* A slave with nothing queued carries it when it is not fed, or waits for a save that
\* has just begun, or for one that is still to begin.
LEMMA FreshCarry ==
  ASSUME NEW s \in Slaves, Version' \in Nat, reply'[s] = <<>>,
         \/ conn'[s] \in {"closed", "start"}
         \/ conn'[s] = "end" /\ ("unfed" \notin excuse'[s] => Bgsave' /\ image' = Version')
         \/ conn'[s] = "end" /\ ~Bgsave' /\ "late" \in excuse'[s]
  PROVE  Carries(s)'
<1>1. Len(reply'[s]) = 0
  OBVIOUS
<1>2. Behind(s)' = Version'
  BY <1>1 DEF Behind, Version
<1>3. Gapless(s)'
  BY <1>1, <1>2 DEF Gapless
<1> QED
  BY <1>2, <1>3 DEF Carries, Fed, End, Bulk, Online

\* A change goes to the end of the queue of every slave that is fed, or is its excuse.
LEMMA ChangeCarry ==
  ASSUME IInv, NEW op, NEW d \in Dbs, Change(op, d), NEW s \in Slaves, Carries(s)
  PROVE  Carries(s)'
<1> DEFINE n == Len(reply[s])
           item == [change |-> Version + 1, sel |-> IF seldb[s] = d THEN NoSelect ELSE d]
<1>1. HistKept /\ Version \in Nat /\ Version' = Version + 1 /\ TypeOK
  BY HistGrows DEF HistKept, IInv
<1>2. conn' = conn /\ copy' = copy /\ bulk' = bulk /\ image' = image /\ child' = child
  BY DEF Change
<1>3. s \in Fed <=> (s \in Fed)'
  BY <1>2 DEF Fed, End, Bulk, Online
<1>4. CASE LeaveOut
  BY <1>3, <1>4 DEF LeaveOut, Carries, IInv, TypeOK
<1>5. CASE FeedSlaves(d)
  <2> SUFFICES ASSUME s \in Fed, "unfed" \notin excuse[s]
               PROVE  Carries(s)'
    BY <1>3, <1>5 DEF FeedSlaves, Carries
  <2>1. reply'[s] = Append(reply[s], item) /\ excuse' = excuse
    BY <1>5 DEF FeedSlaves, IInv, TypeOK
  <2>2. item.change = Version + 1
    OBVIOUS
  <2>3. reply[s] \in Seq(Item) /\ item \in Item
    <3>1. Version + 1 \in 1 .. MaxChanges
      BY HistGrows DEF IInv
    <3> QED
      BY <3>1 DEF IInv, TypeOK, Item
  <2> HIDE DEF item
  <2>4. /\ Len(reply'[s]) = n + 1 /\ n \in Nat
        /\ \A i \in 1 .. n : reply'[s][i] = reply[s][i]
        /\ reply'[s][n + 1].change = Version + 1
    BY <2>1, <2>2, <2>3, AppendProperties, LenProperties
  <2>5. Gapless(s) /\ Behind(s) \in 0 .. Version /\ Behind(s) + n = Version
    BY QueueNumbers DEF Carries
  <2>6. Behind(s)' = Behind(s)
    BY <1>1, <2>4, <2>5 DEF Behind
  <2> HIDE DEF n
  <2>7. Gapless(s)'
    <3> SUFFICES ASSUME NEW i \in 1 .. n + 1
                 PROVE  reply'[s][i].change = Behind(s) + i
      BY <2>4, <2>5, <2>6 DEF Gapless
    <3>1. CASE i = n + 1
      BY <1>1, <2>4, <2>5, <3>1
    <3>2. CASE i \in 1 .. n
      BY <2>4, <2>5, <3>2 DEF Gapless, n
    <3> QED
      BY <2>4, <3>1, <3>2
  <2>8. Fits(s, bulk[s]) => Fits(s, bulk[s])'
    BY <1>1, <1>2, <2>6, FlushesKept DEF Fits
  <2>9. Holds(s, copy[s].data) => Holds(s, copy[s].data)'
    <3>1. DatasetAt(Behind(s))' = DatasetAt(Behind(s))
      <4> DEFINE k == Behind(s)
      <4>1. DatasetAt(k)' = DatasetAt(k)'
        OBVIOUS
      <4> QED
        BY <1>1, <2>5, <2>6, DatasetKept
    <3>2. Emptied(Behind(s)) => Emptied(Behind(s))'
      BY <1>1, <2>5, <2>6, FlushesKept DEF Emptied
    <3> QED
      BY <1>2, <2>6, <3>1, <3>2 DEF Holds
  <2> QED
    BY <1>2, <2>1, <2>6, <2>7, <2>8, <2>9 DEF Carries, Bgsave
<1> QED
  BY <1>4, <1>5 DEF Change

\* A slave loads the dump it was sent.
LEMMA LoadCarry ==
  ASSUME IInv, NEW s \in Slaves, Carries(s), BulkSent(s)
  PROVE  Carries(s)'
<1>1. /\ conn[s] = "bulk" /\ conn'[s] = "online" /\ excuse' = excuse /\ reply' = reply
      /\ copy'[s].data = DatasetAt(bulk[s]) /\ hist' = hist
  BY DEF BulkSent, Bulk, Load, IInv, TypeOK, master
<1> SUFFICES ASSUME "unfed" \notin excuse[s]
             PROVE  Carries(s)'
  BY <1>1 DEF Carries
<1>2. Gapless(s) /\ (excuse[s] = {} => Fits(s, bulk[s]))
  BY <1>1 DEF Carries, Fed, Bulk
<1>3. Behind(s)' = Behind(s) /\ Version' = Version
  BY <1>1 DEF Behind, Version
<1>4. Gapless(s)'
  BY <1>1, <1>2, <1>3 DEF Gapless
<1>5. ASSUME Fits(s, bulk[s]) PROVE Holds(s, copy[s].data)'
  <2>1. DatasetAt(Behind(s))' = DatasetAt(Behind(s))
    BY <1>1, <1>3 DEF DatasetAt, Kept
  <2>2. CASE bulk[s] = Behind(s)
    BY <1>1, <2>1, <2>2 DEF Holds
  <2>3. CASE Behind(s) < bulk[s] /\ Flushed(bulk[s])
    <3>1. Behind(s) \in Nat /\ Version \in Nat
      BY <1>2, QueueNumbers
    <3>2. Emptied(Behind(s))
      BY <2>3, <3>1 DEF Emptied, Flushed
    <3>3. Emptied(Behind(s))'
      BY <1>1, <1>3, <3>2 DEF Emptied, Flushed
    <3> QED
      BY <3>3 DEF Holds
  <2> QED
    BY <1>5, <2>2, <2>3 DEF Fits
<1> QED
  BY <1>1, <1>2, <1>4, <1>5 DEF Carries

\* A slave executes the head of its queue.
LEMMA DeliverCarry ==
  ASSUME IInv, NEW s \in Slaves, Carries(s), Deliver(s)
  PROVE  Carries(s)'
<1> DEFINE n == Len(reply[s])
           k == Behind(s)
           head == reply[s][1]
<1>1. /\ conn[s] = "online" /\ conn' = conn /\ excuse' = excuse /\ hist' = hist
      /\ Version' = Version
  BY DEF Deliver, Online, master, Version
<1> SUFFICES ASSUME "unfed" \notin excuse[s]
             PROVE  Carries(s)'
  BY <1>1 DEF Carries
<1>2. Gapless(s) /\ (excuse[s] = {} => Holds(s, copy[s].data))
  BY <1>1 DEF Carries, Fed, Online
<1>3. /\ n \in Nat \ {0} /\ Len(reply'[s]) = n - 1
      /\ \A i \in 1 .. n - 1 : reply'[s][i] = reply[s][i + 1]
      /\ copy'[s] = Apply(copy[s], head)
  <2>1. reply[s] \in Seq(Item) /\ reply[s] # <<>>
    BY DEF IInv, TypeOK, Deliver
  <2>2. /\ n \in Nat \ {0} /\ head = Head(reply[s]) /\ Len(Tail(reply[s])) = n - 1
        /\ \A i \in 1 .. n - 1 : Tail(reply[s])[i] = reply[s][i + 1]
    BY <2>1, HeadTailProperties, EmptySeq, LenProperties
  <2>3. reply'[s] = Tail(reply[s]) /\ copy'[s] = Apply(copy[s], Head(reply[s]))
    BY DEF Deliver, IInv, TypeOK
  <2> QED
    BY <2>2, <2>3
<1>4. k \in Nat /\ k + n = Version /\ Version \in Nat
  BY <1>2, QueueNumbers
<1>5. Behind(s)' = k + 1
  <2>1. Behind(s)' = Version' - Len(reply'[s])
    BY DEF Behind
  <2>2. Behind(s)' = Version - (n - 1) /\ n \in Int
    BY <1>1, <1>3, <2>1
  <2> HIDE DEF k, n
  <2> QED
    BY <1>4, <2>2
<1>6. Gapless(s)'
  <2> SUFFICES ASSUME NEW i \in 1 .. n - 1
               PROVE  reply'[s][i].change = k + 1 + i
    BY <1>3, <1>4, <1>5 DEF Gapless
  <2>1. i + 1 \in 1 .. n /\ reply'[s][i] = reply[s][i + 1]
    BY <1>3
  <2>2. reply[s][i + 1].change = k + (i + 1)
    BY <1>2, <2>1 DEF Gapless
  <2> HIDE DEF k
  <2> QED
    BY <1>4, <2>1, <2>2
<1>7. ASSUME Holds(s, copy[s].data) PROVE Holds(s, copy[s].data)'
  <2> DEFINE c == copy[s]
             k1 == k + 1
             z == 0
             one == 1
  <2>1. /\ z \in Nat /\ one \in 1 .. n /\ one = z + 1 /\ k = k + z
        /\ k1 \in Nat /\ k1 = k + one
    BY <1>3, <1>4
  <2>2. c.db = DbAt(s, z) /\ (c.data = DatasetAt(k) \/ Emptied(k))
    BY <1>1, <1>7 DEF DbAt, Base, Holds
  <2> HIDE DEF c, z, one, k1
  <2>3. LET after == Apply(c, reply[s][one])
        IN  after.data = DatasetAt(k1) \/ Emptied(k1)
    BY <1>2, <1>4, <2>1, <2>2, OneMore
  <2>4. Apply(c, reply[s][one]) = copy'[s]
    BY <1>3 DEF c, one
  <2>5. copy'[s].data = DatasetAt(k1) \/ Emptied(k1)
    BY <2>3, <2>4
  <2>6. Behind(s)' = k1
    BY <1>5 DEF k1
  <2>7. DatasetAt(Behind(s))' = DatasetAt(k1)
    BY <1>1, <2>6 DEF DatasetAt, Kept
  <2>8. Emptied(k1) => Emptied(Behind(s))'
    BY <1>1, <2>6 DEF Emptied, Flushed
  <2> QED
    BY <2>5, <2>7, <2>8 DEF Holds
<1> QED
  BY <1>1, <1>2, <1>6, <1>7 DEF Carries

\* serverCron hands the dump to those that waited for it, and forks for the others.
LEMMA ReapCarry ==
  ASSUME IInv, DumpIs, CronReap, NEW s \in Slaves, Ordered(s), Carries(s)
  PROVE  Carries(s)'
<1>1. PICK lost \in SUBSET End :
        /\ child = "err" => lost = End
        /\ conn' = [r \in Slaves |-> StateAfter(r, lost)]
        /\ Free(lost)
        /\ bulk' = [r \in Slaves |-> IF r \in End \ lost THEN dump ELSE bulk[r]]
        /\ (Start # {} /\ Fork) \/ (child' = "none" /\ UNCHANGED image)
        /\ excuse' = [r \in Slaves |->
             IF r \in lost THEN {}
             ELSE IF r \in End /\ child = "killed" THEN excuse[r] \cup {"killed"}
             ELSE IF r \in Start /\ child' = "none" THEN {"late"} ELSE excuse[r]]
  BY DEF CronReap
<1>2. /\ child \in {"ok", "err", "killed"} /\ hist' = hist /\ Version' = Version
      /\ Version \in Nat
  BY Numbers DEF CronReap, Version
<1>3. CASE s \in lost
  <2>1. conn'[s] = "closed" /\ reply'[s] = <<>>
    BY <1>1, <1>3 DEF StateAfter, Free
  <2> QED
    BY <1>2, <2>1, FreshCarry
<1>4. CASE s \in End \ lost
  <2>1. /\ conn[s] = "end" /\ conn'[s] = "bulk" /\ bulk'[s] = dump /\ reply'[s] = reply[s]
        /\ child # "err" /\ s \in Fed
        /\ excuse'[s] = IF child = "killed" THEN excuse[s] \cup {"killed"} ELSE excuse[s]
    BY <1>1, <1>4 DEF StateAfter, Free, End, Start, Fed
  <2> SUFFICES ASSUME "unfed" \notin excuse[s]
               PROVE  Carries(s)'
    BY <2>1 DEF Carries
  <2>2. Gapless(s)' /\ Behind(s)' = Behind(s)
    BY <1>2, <2>1 DEF Carries, Gapless, Behind
  <2>3. ASSUME excuse'[s] = {} PROVE Fits(s, bulk[s])'
    <3>1. child = "ok" /\ excuse[s] = {}
      BY <1>2, <2>1, <2>3
    <3>2. Behind(s) = image
      BY <2>1, <3>1 DEF Carries
    <3>3. dump = image \/ (image < dump /\ Flushed(dump))
      BY <3>1 DEF DumpIs
    <3> QED
      BY <1>2, <2>1, <2>2, <3>2, <3>3 DEF Fits, Flushed
  <2> QED
    BY <2>1, <2>2, <2>3 DEF Carries
<1>5. CASE s \in Start
  <2>1. s \notin lost /\ s \notin End /\ s \notin Fed
    BY <1>5 DEF Start, End, Fed, Bulk, Online
  <2>2. conn'[s] = "end" /\ reply'[s] = <<>>
    BY <1>1, <1>5, <2>1, Numbers DEF StateAfter, Free
  <2>3. CASE child' = "none"
    <3>1. "late" \in excuse'[s]
      BY <1>1, <1>5, <2>1, <2>3
    <3> QED
      BY <1>2, <2>2, <2>3, <3>1, FreshCarry DEF Bgsave
  <2>4. CASE child' # "none"
    <3>1. Bgsave' /\ image' = Version'
      BY <1>1, <1>2, <2>4 DEF Fork, Bgsave
    <3> QED
      BY <1>2, <2>2, <3>1, FreshCarry
  <2> QED
    BY <2>3, <2>4
<1>6. CASE s \notin End /\ s \notin Start
  <2>1. /\ conn'[s] = conn[s] /\ reply'[s] = reply[s] /\ bulk'[s] = bulk[s]
        /\ copy'[s] = copy[s] /\ excuse'[s] = excuse[s] /\ conn[s] # "end"
    BY <1>1, <1>6 DEF StateAfter, Free, End
  <2> QED
    BY <1>2, <2>1, SameCarry DEF IInv
<1> QED
  BY <1>3, <1>4, <1>5, <1>6

\* A slave that sends SYNC: the save it waits for, if it is told to wait, holds all
\* there is, or it is known to miss something.
LEMMA AcceptCarry ==
  ASSUME IInv, NEW t \in Slaves, conn[t] = "closed",
         NEW r, NEW without, Accept(t, r, without),
         \/ r \in {"closed", "start"}
         \/ r = "end" /\ ("unfed" \notin without => Bgsave' /\ image' = Version),
         NEW s \in Slaves, Ordered(s), Carries(s),
         conn[s] = "end" =>
           IF Bgsave THEN Bgsave' /\ image' = image ELSE Bgsave' => image' = Version
  PROVE  Carries(s)'
<1>1. hist' = hist /\ Version' = Version /\ Version \in Nat
  BY Numbers DEF Accept, Version
<1>2. CASE s = t
  <2>1. conn'[s] = r /\ reply'[s] = <<>> /\ excuse'[s] = without
    BY <1>2, Numbers DEF Accept, IInv, TypeOK, Fed, End, Bulk, Online
  <2> QED
    BY <1>1, <2>1, FreshCarry
<1>3. CASE s # t
  <2>1. /\ conn'[s] = conn[s] /\ reply'[s] = reply[s] /\ bulk'[s] = bulk[s]
        /\ copy'[s] = copy[s] /\ excuse'[s] = excuse[s]
    BY <1>3 DEF Accept, IInv, TypeOK
  <2> QED
    BY <1>1, <2>1, SameCarry DEF IInv
<1> QED
  BY <1>2, <1>3

-----------------------------------------------------------------------------
(* The invariant of the copies.                                            *)

LEMMA CarryInit == Init => Carried
<1> SUFFICES ASSUME Init
             PROVE  Carried
  OBVIOUS
<1>1. Order
  BY OrderInit
<1>2. DumpIs
  BY DEF Init, DumpIs
<1>3. ASSUME NEW s \in Slaves PROVE Carries(s)
  BY DEF Init, Carries, Fed, End, Bulk, Online
<1> QED
  BY <1>1, <1>2, <1>3 DEF Carried

LEMMA DumpIsStep ==
  ASSUME IInv, DumpIs, [Next]_vars
  PROVE  DumpIs'
<1> USE DEF DumpIs, Bgsave
<1>1. Version \in Nat /\ image \in 0 .. Version /\ dump \in 0 .. Version /\ TypeOK
  BY LenProperties DEF IInv, TypeOK, Version
<1>2. ASSUME NEW d \in Dbs, Write(d) \/ Silent(d) \/ Flushall(d) PROVE DumpIs'
  <2>1. PICK op \in AllOps : /\ Change(op, d)
                             /\ dump' = dump \/ (dump' = Version + 1 /\ op = "flushall")
    BY <1>2 DEF Write, Silent, Flushall, AllOps
  <2>2. /\ Version' = Version + 1 /\ child' = child /\ image' = image
        /\ \A i \in 1 .. Version : hist'[i] = hist[i]
        /\ hist'[Version + 1].op = op
    <3>1. hist \in Seq(Event) /\ [op |-> op, db |-> d] \in Event
      BY DEF IInv, TypeOK, Event
    <3>2. hist' = Append(hist, [op |-> op, db |-> d])
      BY <2>1 DEF Change
    <3> QED
      BY <2>1, <3>1, <3>2, HistGrows, AppendProperties DEF IInv, Change, Version
  <2>3. CASE dump' = dump
    BY <1>1, <2>2, <2>3 DEF Flushed
  <2>4. CASE dump' = Version + 1 /\ op = "flushall"
    BY <1>1, <2>2, <2>4 DEF Flushed
  <2> QED
    BY <2>1, <2>3, <2>4
<1>3. ASSUME child' = child, image' = image, dump' = dump, hist' = hist PROVE DumpIs'
  BY <1>3 DEF Flushed, Version
<1>4. ASSUME child' # "ok" PROVE DumpIs'
  BY <1>4
<1>5. CASE Save \/ BgsaveStarts
  BY <1>4, <1>5 DEF Save, BgsaveStarts, Fork
<1>6. CASE CronReap
  BY <1>4, <1>6 DEF CronReap, Fork
<1>7. ASSUME NEW how \in {"ok", "err", "killed"}, ChildEnds(how) PROVE DumpIs'
  BY <1>7 DEF ChildEnds
<1>8. ASSUME NEW s \in Slaves, SyncForks(s) PROVE DumpIs'
  <2>1. dump' = dump /\ hist' = hist
    BY <1>8 DEF SyncForks, Accept
  <2> QED
    BY <1>3, <1>4, <1>8, <2>1 DEF SyncForks, Fork
<1>9. ASSUME NEW s \in Slaves,
             SyncWaits(s) \/ SyncShares(s) \/ BulkSent(s) \/ Deliver(s) \/ LinkDown(s)
      PROVE  DumpIs'
  BY <1>3, <1>9 DEF SyncWaits, SyncShares, Accept, BulkSent, Deliver, LinkDown, master
<1>10. CASE UNCHANGED vars
  BY <1>3, <1>10 DEF vars, master
<1> QED
  BY <1>2, <1>5, <1>6, <1>7, <1>8, <1>9, <1>10 DEF Next

LEMMA CarriesStep ==
  ASSUME Carried, [Next]_vars, NEW s \in Slaves
  PROVE  Carries(s)'
<1> USE DEF master, slaves
<1>1. IInv /\ TypeOK /\ DumpIs /\ Ordered(s) /\ Carries(s)
  BY DEF Carried, Order, IInv
<1>2. ASSUME NEW d \in Dbs, Write(d) \/ Silent(d) \/ Flushall(d) PROVE Carries(s)'
  <2>1. PICK op \in AllOps : Change(op, d)
    BY <1>2 DEF Write, Silent, Flushall, AllOps
  <2> QED
    BY <1>1, <2>1, ChangeCarry
<1>3. ASSUME UNCHANGED <<hist, slaves>>,
             IF Bgsave THEN Bgsave' /\ image' = image ELSE Bgsave' => image' = Version
      PROVE  Carries(s)'
  BY <1>1, <1>3, SameCarry
<1>4. CASE Save
  BY <1>3, <1>4 DEF Save, Bgsave
<1>5. CASE BgsaveStarts
  BY <1>3, <1>5 DEF BgsaveStarts, Fork, Bgsave
<1>6. ASSUME NEW how \in {"ok", "err", "killed"}, ChildEnds(how) PROVE Carries(s)'
  BY <1>3, <1>6 DEF ChildEnds, Bgsave
<1>7. CASE CronReap
  BY <1>1, <1>7, ReapCarry
<1>8. ASSUME NEW t \in Slaves, SyncForks(t) PROVE Carries(s)'
  <2>1. ~Bgsave /\ conn[t] = "closed"
    BY <1>8 DEF SyncForks, Received
  <2>2. CASE Fork /\ Accept(t, "end", {})
    <3>1. Bgsave' /\ image' = Version
      BY <2>2 DEF Fork, Bgsave
    <3> QED
      BY <1>1, <2>1, <2>2, <3>1, AcceptCarry
  <2>3. CASE Accept(t, "closed", {}) /\ UNCHANGED <<child, image>>
    <3>1. ~Bgsave'
      BY <2>1, <2>3 DEF Bgsave
    <3> QED
      BY <1>1, <2>1, <2>3, <3>1, AcceptCarry
  <2> QED
    BY <1>8, <2>2, <2>3 DEF SyncForks
<1>9. ASSUME NEW t \in Slaves, SyncWaits(t) PROVE Carries(s)'
  <2>1. /\ Accept(t, "start", {}) /\ conn[t] = "closed" /\ Bgsave
        /\ Bgsave' /\ image' = image
    BY <1>9 DEF SyncWaits, Received, Bgsave
  <2> QED
    BY <1>1, <2>1, AcceptCarry
<1>10. ASSUME NEW t \in Slaves, SyncShares(t) PROVE Carries(s)'
  <2>1. CASE Free(Slaves) /\ conn' = [r \in Slaves |-> "closed"] /\ UNCHANGED hist
    <3>1. reply'[s] = <<>> /\ conn'[s] = "closed" /\ Version' \in Nat
      BY <1>1, <2>1, Numbers DEF Free, Version
    <3> QED
      BY <3>1, FreshCarry
  <2>2. ASSUME NEW q \in End, reply[q] = <<>>,
               Accept(t, "end", excuse[q] \cap {"unfed"}), UNCHANGED <<child, image>>
        PROVE  Carries(s)'
    <3>1. conn[t] = "closed" /\ Bgsave /\ Bgsave' /\ image' = image
      BY <1>10, <2>2 DEF SyncShares, Received, Bgsave
    <3>2. q \in Slaves /\ conn[q] = "end" /\ q \in Fed /\ Carries(q)
      BY DEF End, Fed, Carried
    <3>3. "unfed" \notin excuse[q] => image = Version
      <4> SUFFICES ASSUME "unfed" \notin excuse[q]
                   PROVE  image = Version
        OBVIOUS
      <4>1. Gapless(q) /\ Behind(q) <= image
        BY <3>1, <3>2 DEF Carries
      <4>2. Len(reply[q]) = 0
        BY <2>2
      <4>3. Behind(q) = Version
        BY <1>1, <3>2, <4>1, <4>2, QueueNumbers
      <4> QED
        BY <1>1, <3>2, <4>1, <4>3, Numbers
    <3> DEFINE without == excuse[q] \cap {"unfed"}
    <3>4. "unfed" \notin without => Bgsave' /\ image' = Version
      BY <3>1, <3>3
    <3>5. Accept(t, "end", without)
      BY <2>2
    <3> HIDE DEF without
    <3> QED
      BY <1>1, <3>1, <3>4, <3>5, AcceptCarry
  <2> QED
    BY <1>10, <2>1, <2>2 DEF SyncShares
<1>11. ASSUME NEW t \in Slaves, BulkSent(t) \/ Deliver(t) \/ LinkDown(t), s # t
       PROVE  Carries(s)'
  <2>1. /\ hist' = hist /\ child' = child /\ image' = image
        /\ conn'[s] = conn[s] /\ reply'[s] = reply[s] /\ bulk'[s] = bulk[s]
        /\ copy'[s] = copy[s] /\ excuse'[s] = excuse[s]
    BY <1>1, <1>11 DEF BulkSent, Deliver, LinkDown, Free, TypeOK
  <2> QED
    BY <1>1, <2>1, SameCarry DEF Bgsave
<1>12. CASE BulkSent(s)
  BY <1>1, <1>12, LoadCarry
<1>13. CASE Deliver(s)
  BY <1>1, <1>13, DeliverCarry
<1>14. CASE LinkDown(s)
  <2>1. reply'[s] = <<>> /\ conn'[s] = "closed" /\ Version' \in Nat
    BY <1>1, <1>14, Numbers DEF LinkDown, Free, TypeOK, Version
  <2> QED
    BY <2>1, FreshCarry
<1>15. CASE UNCHANGED vars
  BY <1>3, <1>15 DEF vars, Bgsave
<1> QED
  BY <1>2, <1>4, <1>5, <1>6, <1>7, <1>8, <1>9, <1>10, <1>11, <1>12, <1>13, <1>14, <1>15
  DEF Next

LEMMA CarriedStep == Carried /\ [Next]_vars => Carried'
<1> SUFFICES ASSUME Carried, [Next]_vars
             PROVE  Carried'
  OBVIOUS
<1>1. Order'
  BY OrderStep DEF Carried
<1>2. DumpIs'
  BY DumpIsStep DEF Carried, Order
<1>3. \A s \in Slaves : Carries(s)'
  BY CarriesStep
<1> QED
  BY <1>1, <1>2, <1>3 DEF Carried

\* The snapshot a slave gets and the changes queued for it since the fork make the
\* dataset of the master, for every slave without a recorded excuse: whoever asked for
\* the save, whoever shares it, and whatever FLUSHALL does to the dump meanwhile.
THEOREM ReplicationSnapshotPlusBuffer == Spec => []SnapshotPlusBuffer
BY CarryInit, CarriedStep, CarriedEnds, PTL DEF Spec

-----------------------------------------------------------------------------
(* A slave that is a server.                                               *)

\* Between connect and the end of syncWithMaster replstate is still "connect".
Syncing == at \in {"count", "bulk", "received", "renamed"} =>
             link # NoLink /\ replstate = "connect" /\ host

\* A process that is gone has no connection.
DownIsAlone == at = "down" => link = NoLink

\* What is ready to be renamed is no part of a dump that goes on.
TempIsWhole == at = "received" => temp.is # "part"

SyncInv == SlaveTypeOK /\ Syncing /\ DownIsAlone /\ TempIsWhole /\ DumpSurvives

\* Files are records: where the proofs meet one, its fields are known.
USE DEF Part, Empty, Cut, Whole, Contents

\* A slave that starts has nothing to answer for.
LEMMA SyncInvInit == SlaveInit => SyncInv
<1> SUFFICES ASSUME SlaveInit
             PROVE  SyncInv
  OBVIOUS
<1>1. at = "loop" /\ link = NoLink /\ host \in BOOLEAN /\ mixed = FALSE
  BY DEF SlaveInit
<1>2. replstate = (IF host THEN "connect" ELSE "none")
  BY DEF SlaveInit
<1>3. temp.is = "part" /\ file.is = "whole"
  BY DEF SlaveInit
<1>4. Len(saving) <= 1 /\ saves \in 0 .. MaxSaves
  <2>1. saving = <<>> /\ saves = 0
    BY DEF SlaveInit
  <2>2. Len(saving) = 0
    BY <2>1
  <2> QED BY <2>1, <2>2, SlaveSyncAssumption
<1>5. {temp.is, file.is} \subseteq Contents /\ {host, mixed} \subseteq BOOLEAN
  BY <1>1, <1>3
<1> QED
  BY <1>1, <1>2, <1>3, <1>4, <1>5
  DEF SyncInv, SlaveTypeOK, Places, Syncing, DownIsAlone, TempIsWhole, DumpSurvives

\* The beginning of syncWithMaster, and each of its ways on and out.
LEMMA SyncInvSync ==
  ASSUME SyncInv,
         SyncWithMaster \/ GivesUp \/ ReadsCount \/ ReadsDump \/ DumpCut \/ WriteFails
         \/ Rename \/ Loads \/ LoadFails
  PROVE  SyncInv'
<1> USE SlaveSyncAssumption
    DEF SyncInv, SlaveTypeOK, Places, Syncing, DownIsAlone, TempIsWhole, DumpSurvives
<1>1. CASE SyncWithMaster
  <2>1. PICK s \in Slaves :
          /\ link' = s
          /\ \/ at' = "received" /\ temp' = Empty
             \/ at' = "count" /\ UNCHANGED temp
    BY <1>1 DEF SyncWithMaster
  <2>2. /\ at = "loop" /\ replstate = "connect" /\ mixed' = FALSE
        /\ UNCHANGED <<file, saving, saves, host, replstate, mem>>
    BY <1>1 DEF SyncWithMaster
  <2>3. CASE at' = "received" /\ temp' = Empty
    BY <2>1, <2>2, <2>3
  <2>4. CASE at' = "count" /\ UNCHANGED temp
    BY <2>1, <2>2, <2>4
  <2> QED BY <2>1, <2>3, <2>4
<1>2. CASE GivesUp
  BY <1>2 DEF GivesUp, Returns, disk
<1>3. CASE ReadsCount
  BY <1>3 DEF ReadsCount, disk
<1>4. CASE ReadsDump
  BY <1>4 DEF ReadsDump, disk
<1>5. CASE DumpCut
  <2>1. /\ at = "bulk" /\ UNCHANGED <<disk, host, replstate, mem>>
        /\ Returns \/ (at' = "hung" /\ UNCHANGED <<link, temp>>)
    BY <1>5 DEF DumpCut
  <2>2. CASE Returns
    BY <2>1, <2>2 DEF Returns, disk
  <2>3. CASE at' = "hung" /\ UNCHANGED <<link, temp>>
    BY <2>1, <2>3 DEF disk
  <2> QED BY <2>1, <2>2, <2>3
<1>6. CASE WriteFails
  BY <1>6 DEF WriteFails, Returns, disk
<1>7. CASE Rename
  BY <1>7 DEF Rename
<1>8. CASE Loads
  BY <1>8 DEF Loads, disk
<1>9. CASE LoadFails
  BY <1>9 DEF LoadFails, disk
<1> QED BY <1>1, <1>2, <1>3, <1>4, <1>5, <1>6, <1>7, <1>8, <1>9

\* The slave in its loop, its child, its end and its restart.
LEMMA SyncInvLoop ==
  ASSUME SyncInv,
         Executes \/ LosesMaster \/ SlaveofNoOne \/ SlaveofHost \/ SlaveForks
         \/ SlaveChildSaves \/ SlaveDies \/ SlaveRestarts
  PROVE  SyncInv'
<1> USE SlaveSyncAssumption
    DEF SyncInv, SlaveTypeOK, Places, Syncing, DownIsAlone, TempIsWhole, DumpSurvives
<1>1. CASE Executes
  BY <1>1 DEF Executes, sync, disk
<1>2. CASE LosesMaster
  BY <1>2 DEF LosesMaster, disk
<1>3. CASE SlaveofNoOne
  BY <1>3 DEF SlaveofNoOne, disk
<1>4. CASE SlaveofHost
  BY <1>4 DEF SlaveofHost, disk
<1>5. CASE SlaveForks
  BY <1>5 DEF SlaveForks, sync
<1>6. CASE SlaveChildSaves
  BY <1>6 DEF SlaveChildSaves, sync
<1>7. CASE SlaveDies
  BY <1>7 DEF SlaveDies, disk
<1>8. CASE SlaveRestarts
  BY <1>8 DEF SlaveRestarts, disk
<1> QED BY <1>1, <1>2, <1>3, <1>4, <1>5, <1>6, <1>7, <1>8

\* A step of the master, or a stutter, leaves the slave as it is.
LEMMA SyncInvRest ==
  ASSUME SyncInv, UNCHANGED slave
  PROVE  SyncInv'
  BY DEF SyncInv, SlaveTypeOK, Places, Syncing, DownIsAlone, TempIsWhole, DumpSurvives,
         slave, sync, disk

LEMMA SyncInvStep ==
  SyncInv /\ [MasterStep \/ SlaveStep]_<<vars, slave>> => SyncInv'
<1> SUFFICES ASSUME SyncInv, [MasterStep \/ SlaveStep]_<<vars, slave>>
             PROVE  SyncInv'
  OBVIOUS
<1>1. CASE MasterStep
  BY <1>1, SyncInvRest DEF MasterStep
<1>2. CASE SlaveStep
  BY <1>2, SyncInvSync, SyncInvLoop DEF SlaveStep
<1>3. CASE UNCHANGED <<vars, slave>>
  BY <1>3, SyncInvRest
<1> QED BY <1>1, <1>2, <1>3

LEMMA SyncInvAlways == SlaveSyncSpec => []SyncInv
BY SyncInvInit, SyncInvStep, PTL DEF SlaveSyncSpec

\* masterhost, replstate and the master's client agree whenever the loop reads them,
\* and all variables stay in their ranges.
THEOREM SlaveTypeCorrect == SlaveSyncSpec => []SlaveTypeOK
<1>1. SyncInv => SlaveTypeOK
  BY DEF SyncInv
<1> QED BY SyncInvAlways, <1>1, PTL

\* What had arrived of a dump when a synchronization failed never takes the place of
\* the slave's dump, whatever failed: a write that returns -1 or less than it was given,
\* the connection, the load, or the slave.  The dump may be the empty file of an -ERR,
\* or one whose last block was written in part.
THEOREM SlaveDumpSurvives == SlaveSyncSpec => []DumpSurvives
<1>1. SyncInv => DumpSurvives
  BY DEF SyncInv
<1> QED BY SyncInvAlways, <1>1, PTL

-----------------------------------------------------------------------------
(* The slave's dataset.                                                    *)

\* What the slave has received, renamed or loaded is what the master's side of the
\* connection takes it to hold, unless the disk cut it, the master answered -ERR, or the
\* slave's own child renamed its dump before the received one was loaded.
Holding ==
  link \in Slaves /\ conn[link] = "online" =>
    /\ at = "received" /\ temp.is = "whole" => temp.data = copy[link].data
    /\ at = "renamed" /\ ~mixed /\ file.is = "whole" => file.data = copy[link].data
    /\ at = "loop" /\ replstate = "connected" /\ ~mixed => mem = copy[link].data

CopyInv == SyncInv /\ Carried /\ Holding

\* The master and its connections make steps of Replication, or none.
LEMMA MasterSteps == [MasterStep \/ SlaveStep]_<<vars, slave>> => [Next]_vars
<1> SUFFICES ASSUME [MasterStep \/ SlaveStep]_<<vars, slave>>
             PROVE  [Next]_vars
  OBVIOUS
<1>1. CASE MasterStep
  BY <1>1 DEF MasterStep, Next
<1>2. CASE SyncWithMaster
  BY <1>2 DEF SyncWithMaster, Next
<1>3. CASE ReadsDump \/ Executes
  <2>1. link \in Slaves /\ (BulkSent(link) \/ Deliver(link))
    BY <1>3 DEF ReadsDump, Executes, BulkSent, Deliver, Bulk, Online
  <2> QED
    BY <2>1 DEF Next
<1>4. CASE UNCHANGED vars
  BY <1>4
<1> QED
  BY <1>1, <1>2, <1>3, <1>4
  DEF SlaveStep, GivesUp, ReadsCount, DumpCut, WriteFails, Rename, Loads, LoadFails,
      LosesMaster, SlaveofNoOne, SlaveofHost, SlaveForks, SlaveChildSaves, SlaveDies,
      SlaveRestarts

\* So whatever is proved of Replication holds here: a slave server, with its failures,
\* restarts and SLAVEOF, makes the master see nothing it had not been modelled with.
THEOREM SlaveSyncIsReplication == SlaveSyncSpec => Spec
<1>1. SlaveInit => Init
  BY DEF SlaveInit
<1> QED
  BY <1>1, MasterSteps, PTL DEF SlaveSyncSpec, Spec

\* What the master does by itself does not bring the slave's connection online, and
\* leaves what the slave holds as long as it is.
LEMMA OthersStep ==
  ASSUME TypeOK, MasterStep, link \in Slaves, conn'[link] = "online"
  PROVE  conn[link] = "online" /\ copy'[link] = copy[link]
<1> USE DEF TypeOK, master, slaves
<1>1. ASSUME NEW d \in Dbs, Write(d) \/ Silent(d) \/ Flushall(d)
      PROVE  conn' = conn /\ copy' = copy
  BY <1>1 DEF Write, Silent, Flushall, Change
<1>2. CASE Save \/ BgsaveStarts
  BY <1>2 DEF Save, BgsaveStarts
<1>3. CASE CronReap
  <2>1. PICK lost \in SUBSET End :
          conn' = [s \in Slaves |-> StateAfter(s, lost)] /\ Free(lost)
    BY <1>3 DEF CronReap
  <2>2. conn[link] = "online" /\ link \notin lost
    BY <2>1 DEF StateAfter, Start, End
  <2> QED
    BY <2>1, <2>2 DEF Free
<1>4. ASSUME NEW how \in {"ok", "err", "killed"}, ChildEnds(how)
      PROVE  conn' = conn /\ copy' = copy
  BY <1>4 DEF ChildEnds
<1>5. ASSUME NEW s \in Slaves, LinkDown(s)
      PROVE  conn[link] = "online" /\ copy'[link] = copy[link]
  BY <1>5 DEF LinkDown, Free
<1>6. ASSUME NEW s \in Slaves \ {link}, BulkSent(s) \/ Deliver(s)
      PROVE  conn[link] = "online" /\ copy'[link] = copy[link]
  BY <1>6 DEF BulkSent, Deliver
<1>7. ASSUME NEW s \in Slaves \ {link}, NEW r, NEW without, Accept(s, r, without)
      PROVE  conn[link] = "online" /\ copy'[link] = copy[link]
  BY <1>7 DEF Accept
<1>8. ASSUME NEW s \in Slaves \ {link}, SyncForks(s) \/ SyncWaits(s) \/ SyncShares(s)
      PROVE  conn[link] = "online" /\ copy'[link] = copy[link]
  <2>1. (\E r, without : Accept(s, r, without)) \/ conn' = [q \in Slaves |-> "closed"]
    BY <1>8 DEF SyncForks, SyncWaits, SyncShares
  <2> QED
    BY <1>7, <2>1
<1> QED
  BY <1>1, <1>2, <1>3, <1>4, <1>5, <1>6, <1>8 DEF MasterStep

LEMMA HoldingStep ==
  ASSUME CopyInv, [MasterStep \/ SlaveStep]_<<vars, slave>>
  PROVE  Holding'
<1> USE SlaveSyncAssumption DEF Holding, sync, disk
<1>1. SyncInv /\ SlaveTypeOK /\ TypeOK /\ Holding
  BY DEF CopyInv, SyncInv, Carried, Order, IInv
<1>2. ASSUME link' = NoLink PROVE Holding'
  BY <1>2
<1>3. CASE MasterStep
  <2>1. UNCHANGED <<at, link, temp, file, mixed, replstate, mem>>
    BY <1>3 DEF MasterStep, slave
  <2> QED
    BY <1>1, <1>3, <2>1, OthersStep
<1>4. CASE SyncWithMaster
  BY <1>4 DEF SyncWithMaster
<1>5. CASE GivesUp \/ WriteFails \/ LosesMaster \/ SlaveofNoOne \/ SlaveofHost \/ SlaveDies
  BY <1>2, <1>5 DEF GivesUp, WriteFails, Returns, LosesMaster, SlaveofNoOne, SlaveofHost,
                    SlaveDies
<1>6. CASE ReadsCount \/ DumpCut
  BY <1>2, <1>6 DEF ReadsCount, DumpCut, Returns
<1>7. CASE ReadsDump
  BY <1>7 DEF ReadsDump
<1>8. CASE Rename
  BY <1>1, <1>8 DEF Rename, vars, slaves
<1>9. CASE Loads
  BY <1>1, <1>9 DEF Loads, vars, slaves
<1>10. CASE LoadFails
  BY <1>2, <1>10 DEF LoadFails
<1>11. CASE Executes
  <2>1. /\ at = "loop" /\ replstate = "connected" /\ Deliver(link)
        /\ mem' = Apply([data |-> mem, db |-> copy[link].db], Head(reply[link])).data
        /\ UNCHANGED <<at, link, mixed, replstate>>
    BY <1>11 DEF Executes
  <2>2. /\ link \in Slaves /\ conn[link] = "online"
        /\ copy'[link] = Apply(copy[link], Head(reply[link]))
    BY <1>1, <2>1 DEF Deliver, Online, TypeOK
  <2>3. ASSUME ~mixed PROVE mem' = copy'[link].data
    <3>1. mem = copy[link].data
      BY <1>1, <2>1, <2>2, <2>3
    <3> QED
      BY <2>1, <2>2, <3>1 DEF Apply
  <2> QED
    BY <2>1, <2>3
<1>12. CASE SlaveForks
  BY <1>1, <1>12 DEF SlaveForks, vars, slaves
<1>13. CASE SlaveChildSaves
  BY <1>1, <1>13 DEF SlaveChildSaves, vars, slaves
<1>14. CASE SlaveRestarts
  <2>1. link' = NoLink
    BY <1>1, <1>14 DEF SlaveRestarts, SyncInv, DownIsAlone
  <2> QED
    BY <1>2, <2>1
<1>15. CASE UNCHANGED <<vars, slave>>
  BY <1>1, <1>15 DEF vars, slaves, slave
<1> QED
  BY <1>3, <1>4, <1>5, <1>6, <1>7, <1>8, <1>9, <1>10, <1>11, <1>12, <1>13, <1>14, <1>15
  DEF SlaveStep

LEMMA CopyInvEnds == CopyInv => SlaveIsCopy
<1> SUFFICES ASSUME CopyInv, at = "loop", replstate = "connected", conn[link] = "online",
                    ~mixed, excuse[link] = {}
             PROVE  Replay([data |-> mem, db |-> copy[link].db], reply[link])
                      = DatasetAt(Version)
  BY DEF SlaveIsCopy
<1>1. SlaveTypeOK /\ TypeOK /\ IInv /\ Holding /\ Carries(link) /\ link \in Slaves
  <2>1. link \in Slaves
    BY DEF CopyInv, SyncInv, SlaveTypeOK
  <2> QED
    BY <2>1 DEF CopyInv, SyncInv, Carried, Order, IInv
<1> DEFINE c == [data |-> mem, db |-> copy[link].db]
<1>2. c.data = copy[link].data /\ c.db = Base(link)
  BY <1>1 DEF Holding, Base
<1>3. Gapless(link) /\ Holds(link, copy[link].data)
  BY <1>1 DEF Carries, Fed, Online
<1> HIDE DEF c
<1>4. Replay(c, reply[link]) = DatasetAt(Version)
  BY <1>1, <1>2, <1>3, ReplayEnds
<1> QED
  BY <1>4 DEF c

\* A slave that says it is connected holds, but for the changes on their way to it, the
\* dataset of its master: through every failure, restart and SLAVEOF, save for what
\* the master left out.  Its own children may save at any time; the one exception is a
\* child that renames its dump over the received one between the slave's rename and its
\* rdbLoad.
THEOREM SlaveCopies == SlaveSyncSpec => []SlaveIsCopy
<1>1. SlaveInit => CopyInv
  BY SyncInvInit, CarryInit, SlaveSyncAssumption DEF SlaveInit, CopyInv, Holding
<1>2. CopyInv /\ [MasterStep \/ SlaveStep]_<<vars, slave>> => CopyInv'
  <2> SUFFICES ASSUME CopyInv, [MasterStep \/ SlaveStep]_<<vars, slave>>
               PROVE  CopyInv'
    OBVIOUS
  <2>1. SyncInv'
    BY SyncInvStep DEF CopyInv
  <2>2. Carried'
    BY MasterSteps, CarriedStep DEF CopyInv
  <2>3. Holding'
    BY HoldingStep
  <2> QED
    BY <2>1, <2>2, <2>3 DEF CopyInv
<1> QED
  BY <1>1, <1>2, CopyInvEnds, PTL DEF SlaveSyncSpec
===============================================================================
