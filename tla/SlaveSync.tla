------------------------------- MODULE SlaveSync -------------------------------
(***************************************************************************)
(* A slave server, composed with the master of Replication: serverCron's   *)
(* attempts to connect, syncWithMaster step by step, SLAVEOF, the changes  *)
(* that arrive, and a saving child of the slave's own.                     *)
(*                                                                         *)
(* The members of Slaves are here the connections to the master.  The      *)
(* slave has at most one of them, `link`; the others belong to other       *)
(* slaves, or are old ones of its own that the master has not noticed are  *)
(* closed.  While the server is in syncWithMaster it does nothing else,    *)
(* but its saving child is a process of its own.                           *)
(***************************************************************************)
EXTENDS Replication

CONSTANTS
  NoLink,      \* server.master is NULL
  SlaveFaults, \* what may go wrong at the slave, a subset of AllSlaveFaults
  MaxSaves     \* bound: children the slave forks

AllSlaveFaults == {"give_up",  \* the count does not come: timeout, or an I/O error
                   "write",    \* the temporary file cannot be made, written or renamed
                   "short",    \* the disk takes a part of the last block only
                   "load",     \* rdbLoad returns REDIS_ERR: no file, or not a dump
                   "crash"}    \* the slave stops

ASSUME SlaveSyncAssumption ==
  NoLink \notin Slaves /\ SlaveFaults \subseteq AllSlaveFaults /\ MaxSaves \in Nat

VARIABLES
  at,        \* where the slave server is, one of Places
  host,      \* server.masterhost is set
  replstate, \* server.replstate: "none", "connect" or "connected"
  link,      \* the connection it uses, or NoLink
  temp,      \* what it received into its temporary file
  mem,       \* the dataset in its memory
  file,      \* its server.dbfilename
  saving,    \* its saving child: <<>>, or <<the dataset it was forked with>>
  saves,     \* history: the children it forked
  mixed      \* history: its child renamed a dump over the received one, not yet loaded

sync  == <<at, link, temp>>
disk  == <<file, saving, saves, mixed>>
slave == <<sync, disk, host, replstate, mem>>

Places == {"loop",     \* in aeMain
           "count",    \* syncReadLine: waits for "$<size>"
           "bulk",     \* reads the dump
           "received", \* dumpsize is 0
           "renamed",  \* the temporary file is the dump; emptyDb and rdbLoad follow
           "hung",     \* read returns 0 for ever, and dumpsize is not 0
           "down"}     \* no process

\* What a file may be.  rdbLoad reads the last kind to its end, and exits on the others:
\* they miss the byte that ends a dump.
Contents == {"part",   \* what had arrived when the synchronization failed, if anything
             "empty",  \* 0 bytes, where the master answered -ERR
             "cut",    \* a dump whose last block was written in part
             "whole"}

Part     == [is |-> "part", data |-> <<>>]
Empty    == [is |-> "empty", data |-> <<>>]
Cut      == [is |-> "cut", data |-> <<>>]
Whole(d) == [is |-> "whole", data |-> d]

\* Types; and the fields that say whose slave the server is agree: while one of them
\* is read, in the loop, replstate tells whether there is a master's host and client.
SlaveTypeOK ==
  /\ at \in Places /\ replstate \in {"none", "connect", "connected"}
  /\ link \in Slaves \cup {NoLink}
  /\ {temp.is, file.is} \subseteq Contents /\ {host, mixed} \subseteq BOOLEAN
  /\ Len(saving) <= 1 /\ saves \in 0 .. MaxSaves
  /\ at = "loop" => /\ replstate = "none" <=> ~host
                    /\ replstate = "connected" <=> link # NoLink

SlaveInit ==
  /\ Init
  /\ at = "loop" /\ link = NoLink
  /\ host \in BOOLEAN /\ replstate = IF host THEN "connect" ELSE "none"
  /\ temp = Part /\ mem = <<>> /\ file = Whole(<<>>)
  /\ saving = <<>> /\ saves = 0 /\ mixed = FALSE

-----------------------------------------------------------------------------
(* syncWithMaster.  When it fails the server is back in its loop, with the *)
(* connection closed and replstate as it was: serverCron tries again.      *)

Returns == at' = "loop" /\ link' = NoLink /\ temp' = Part

\* connect, and SYNC reaches the master.  The answer to it may be -ERR, which atoi
\* makes a dump of 0 bytes: the temporary file is created, and nothing read.
SyncWithMaster ==
  /\ at = "loop" /\ replstate = "connect"
  /\ \E s \in Slaves :
       /\ SyncForks(s) \/ SyncWaits(s) \/ SyncShares(s)
       /\ link' = s
       /\ IF up' /\ conn'[s] = "closed" THEN at' = "received" /\ temp' = Empty
                                         ELSE at' = "count" /\ UNCHANGED temp
  /\ mixed' = FALSE
  /\ UNCHANGED <<file, saving, saves, host, replstate, mem>>

GivesUp ==
  /\ at = "count" /\ "give_up" \in SlaveFaults
  /\ Returns
  /\ UNCHANGED <<vars, disk, host, replstate, mem>>

\* The count comes with the first block of the dump.
ReadsCount ==
  /\ at = "count" /\ conn[link] = "bulk"
  /\ at' = "bulk"
  /\ UNCHANGED <<vars, link, temp, disk, host, replstate, mem>>

\* The last of the dump is sent, and written to the temporary file.  write's result is
\* compared with -1 only, and dumpsize counts what was read: a short write goes on.
ReadsDump ==
  /\ at = "bulk"
  /\ BulkSent(link)
  /\ at' = "received"
  /\ \/ temp' = Whole(copy'[link].data)
     \/ "short" \in SlaveFaults /\ temp' = Cut
  /\ UNCHANGED <<link, disk, host, replstate, mem>>

\* Mutant of DumpCut: read returning 0 is the end of the dump.
DumpCutIsEnd ==
  /\ at = "bulk" /\ conn[link] = "closed"
  /\ at' = "received"
  /\ UNCHANGED <<vars, link, temp, disk, host, replstate, mem>>

\* The connection is gone before the last of the dump: read returns -1, or 0.
DumpCut ==
  /\ at = "bulk" /\ conn[link] = "closed"
  /\ \/ Returns
     \/ at' = "hung" /\ UNCHANGED <<link, temp>>
  /\ UNCHANGED <<vars, disk, host, replstate, mem>>

\* open, write or rename returns -1.
WriteFails ==
  /\ at \in {"bulk", "received"} /\ "write" \in SlaveFaults
  /\ Returns
  /\ UNCHANGED <<vars, disk, host, replstate, mem>>

Rename ==
  /\ at = "received"
  /\ at' = "renamed" /\ temp' = Part
  /\ file' = temp /\ mixed' = FALSE
  /\ UNCHANGED <<vars, link, saving, saves, host, replstate, mem>>

\* Mutant of Loads: emptyDb is forgotten.
LoadsOnTop ==
  /\ at = "renamed" /\ file.is = "whole"
  /\ mem' = mem \o file.data
  /\ at' = "loop" /\ replstate' = "connected"
  /\ UNCHANGED <<vars, link, temp, disk, host>>

\* emptyDb, then rdbLoad of a whole dump.
Loads ==
  /\ at = "renamed" /\ file.is = "whole"
  /\ mem' = file.data
  /\ at' = "loop" /\ replstate' = "connected"
  /\ UNCHANGED <<vars, link, temp, disk, host>>

\* emptyDb, then rdbLoad exits, or returns REDIS_ERR.
LoadFails ==
  /\ at = "renamed"
  /\ \/ file.is # "whole" /\ at' = "down" /\ link' = NoLink
     \/ "load" \in SlaveFaults /\ at' = "loop" /\ link' = NoLink
  /\ mem' = <<>>
  /\ UNCHANGED <<vars, temp, disk, host, replstate>>

-----------------------------------------------------------------------------
(* The slave in its event loop.                                            *)

\* It executes a change the master sent.
Executes ==
  /\ at = "loop" /\ replstate = "connected"
  /\ Deliver(link)
  /\ mem' = Apply([data |-> mem, db |-> copy[link].db], Head(reply[link])).data
  /\ UNCHANGED <<sync, disk, host, replstate>>

\* freeClient of server.master, once the connection is closed at the other end.
LosesMaster ==
  /\ at = "loop" /\ replstate = "connected" /\ conn[link] = "closed"
  /\ replstate' = "connect" /\ link' = NoLink
  /\ UNCHANGED <<vars, at, temp, disk, host, mem>>

\* Mutant of SlaveofNoOne: replstate is set before the client of the master is freed.
SlaveofNoOneSwapped ==
  /\ at = "loop" /\ host
  /\ host' = FALSE /\ link' = NoLink
  /\ replstate' = IF link # NoLink THEN "connect" ELSE "none"
  /\ UNCHANGED <<vars, at, temp, disk, mem>>

\* slaveofCommand.  The connection there was to a master is closed.
SlaveofNoOne ==
  /\ at = "loop" /\ host
  /\ host' = FALSE /\ link' = NoLink
  /\ replstate' = "none"
  /\ UNCHANGED <<vars, at, temp, disk, mem>>

SlaveofHost ==
  /\ at = "loop"
  /\ host' = TRUE /\ link' = NoLink
  /\ replstate' = "connect"
  /\ UNCHANGED <<vars, at, temp, disk, mem>>

\* A save point, or a BGSAVE, of the slave's own.
SlaveForks ==
  /\ at = "loop" /\ saving = <<>> /\ saves < MaxSaves
  /\ saving' = <<mem>> /\ saves' = saves + 1
  /\ UNCHANGED <<vars, sync, host, replstate, mem, file, mixed>>

\* Wherever the server is, its child goes on, and renames its dump.
SlaveChildSaves ==
  /\ saving # <<>>
  /\ file' = Whole(saving[1]) /\ saving' = <<>>
  /\ mixed' = (mixed \/ at = "renamed")
  /\ UNCHANGED <<vars, sync, host, replstate, mem, saves>>

SlaveDies ==
  /\ at # "down" /\ "crash" \in SlaveFaults
  /\ at' = "down" /\ link' = NoLink /\ temp' = Part /\ mem' = <<>>
  /\ UNCHANGED <<vars, disk, host, replstate>>

\* main, with the slaveof of its configuration.  rdbLoad exits if the dump is not whole.
SlaveRestarts ==
  /\ at = "down" /\ file.is = "whole"
  /\ at' = "loop" /\ host' = TRUE /\ replstate' = "connect" /\ mem' = file.data
  /\ UNCHANGED <<vars, link, temp, disk>>

\* The master, its other connections, and the failures of this one.  The master
\* may also go on sending to a connection the slave has closed.
MasterStep ==
  /\ \/ \E d \in Dbs : Write(d) \/ Silent(d) \/ Flushall(d)
     \/ Save \/ BgsaveStarts \/ CronReap
     \/ \E how \in {"ok", "err", "killed"} : ChildEnds(how)
     \/ \E s \in Slaves : LinkDown(s)
     \/ \E s \in Slaves \ {link} : \/ SyncForks(s) \/ SyncWaits(s) \/ SyncShares(s)
                                  \/ BulkSent(s) \/ Deliver(s)
  /\ UNCHANGED slave

SlaveStep ==
  \/ SyncWithMaster \/ GivesUp \/ ReadsCount \/ ReadsDump \/ DumpCut \/ WriteFails
  \/ Rename \/ Loads \/ LoadFails \/ Executes \/ LosesMaster
  \/ SlaveofNoOne \/ SlaveofHost
  \/ SlaveForks \/ SlaveChildSaves \/ SlaveDies \/ SlaveRestarts

SlaveSyncSpec == SlaveInit /\ [][MasterStep \/ SlaveStep]_<<vars, slave>>

\* The child ends, serverCron runs every second, and the event loop serves the
\* connections that are writable.  The slave that is followed goes on reading.
FairSync ==
  /\ SlaveSyncSpec
  /\ WF_vars(CronReap /\ UNCHANGED slave)
  /\ WF_vars((\E how \in {"ok", "err", "killed"} : ChildEnds(how)) /\ UNCHANGED slave)
  /\ \A s \in Slaves : WF_vars(s # link /\ (BulkSent(s) \/ Deliver(s)) /\ UNCHANGED slave)
  /\ WF_<<vars, slave>>(ReadsCount) /\ WF_<<vars, slave>>(ReadsDump)

-----------------------------------------------------------------------------
(* Properties.                                                             *)

\* From end to end: a slave that says it is connected, to a master that has it
\* online, holds a dataset to which the changes on their way to it add up to the
\* master's, whatever its own child saves before, meanwhile and after.  The exceptions
\* are those of SnapshotPlusBuffer, and a child of the slave's own that renamed its
\* dump over the received one between the slave's rename and its rdbLoad.
SlaveIsCopy ==
  at = "loop" /\ replstate = "connected" /\ conn[link] = "online" =>
    \/ mixed \/ excuse[link] # {}
    \/ Replay([data |-> mem, db |-> copy[link].db], reply[link]) = DatasetAt(Version)

\* However a synchronization fails, and wherever the slave stops, what had arrived of
\* a dump never takes the place of the dump the slave can restart from.  The
\* exceptions are the two files that syncWithMaster itself takes for a whole dump: the
\* empty one after an -ERR, and one whose last block was written in part.
DumpSurvives == file.is # "part"

=============================================================================
