----------------------------- MODULE Persistence -----------------------------
(***************************************************************************)
(* One redis server, the children it forks to save its dataset, and the    *)
(* dump file they replace (rdbSave, rdbSaveBackground, rdbLoad, serverCron *)
(* and the SAVE, BGSAVE, FLUSHALL and SHUTDOWN commands).                  *)
(*                                                                         *)
(* A dataset is the number of the last change it holds: `mem` is the one   *)
(* in memory, every save writes the one its process had when it started.   *)
(* Time is relative: `age` is now - server.lastsave, and `young` names the *)
(* processes that drew the name of their temporary file in this second.    *)
(***************************************************************************)
EXTENDS Integers, FiniteSets

CONSTANTS
  Slots,       \* the process table entries the saving children occupy
  SaveParams,  \* server.saveparams: a set of [changes, seconds] records
  Commands,    \* the commands clients send, a subset of AllCommands
  Faults,      \* what the environment may do, a subset of AllFaults
  MaxWrites,   \* bound: changes made to the dataset
  MaxAge       \* bound: `age` stops here, past every SaveParams interval

AllCommands == {"SAVE", "BGSAVE", "SYNC", "FLUSHALL", "SHUTDOWN"}

AllFaults ==
  {"io",        \* fopen, fwrite or rename fails, and rdbSave sees it
   "fflush",    \* fflush fails: rdbSave does not look at its result
   "fork",      \* fork fails
   "kill",      \* the saving child is killed by a signal
   "crash",     \* the server dies, its child lives on
   "power",     \* the machine stops: every process and all cached data is lost
   "samename"}  \* two processes draw the same temporary name in one second

Server == "server"
Dump   == "dump"   \* the file server.dbfilename names
Gone   == "gone"   \* a file that no name refers to any more
Procs  == Slots \cup {Server}

ASSUME SlotsAssumption ==
  /\ IsFiniteSet(Slots)
  /\ Slots \cap {Server, Dump, Gone} = {}

ASSUME ParamsAssumption ==
  /\ SaveParams \subseteq [changes : Nat, seconds : Nat \ {0}]
  /\ MaxWrites \in Nat
  /\ MaxAge \in Nat /\ \A sp \in SaveParams : sp.seconds < MaxAge

ASSUME EnvironmentAssumption ==
  /\ Commands \subseteq AllCommands
  /\ Faults \subseteq AllFaults

VARIABLES
  up,      \* is the server process alive?
  job,     \* the command whose rdbSave the server is in, or died in, or "none"
  mem,     \* the dataset in memory
  writes,  \* the changes made so far, by any incarnation of the server
  dirty,   \* server.dirty
  age,     \* time(NULL) - server.lastsave, up to MaxAge
  bgsave,  \* server.bgsaveinprogress
  kids,    \* the children of the living server it has not waited for
  stage,   \* where each process is in rdbSave, or how it exited
  image,   \* the dataset each process is saving
  file,    \* the file each process has open: a temporary one, Dump or Gone
  young,   \* the processes whose temporary name dates from this second
  holds,   \* the dataset in each file
  state,   \* how much of it is there: a member of Contents
  mixed,   \* the files two processes have written at the same time
  torn     \* history: has a write been lost by fflush, or by a shared name?

server == <<up, job, mem, writes, dirty, age, bgsave, kids>>
saving == <<stage, image, file, young>>
disk   == <<holds, state, mixed>>
vars   == <<server, saving, disk, torn>>

-----------------------------------------------------------------------------
(* The files.  A temporary file is known by the process that created it. *)

Files    == Procs \cup {Dump, Gone}
Contents == {"none",     \* nothing of interest: no process has it open
             "part",     \* somewhere between fopen and fflush
             "cached",   \* complete, in the buffers of the kernel
             "durable",  \* complete, and past fsync
             "short"}    \* not what any process meant to write

\* rdbLoad reads it to its end (it exits on anything else).
Loadable(f) == state[f] \in {"cached", "durable"}

InRdbSave == {"open", "write", "sync", "rename"}
Exited    == {"ok", "err", "killed"}
Stages    == {"none"} \cup InRdbSave \cup Exited

Idle == up /\ job = "none"

TypeOK ==
  /\ up \in BOOLEAN
  /\ job \in {"none", "SAVE", "FLUSHALL", "SHUTDOWN"}
  /\ writes \in 0 .. MaxWrites
  /\ mem \in 0 .. writes
  /\ dirty \in Nat
  /\ age \in 0 .. MaxAge
  /\ bgsave \in BOOLEAN
  /\ kids \subseteq Slots
  /\ stage \in [Procs -> Stages]
  /\ image \in [Procs -> 0 .. writes]
  /\ file \in [Procs -> Files]
  /\ young \subseteq Procs
  /\ holds \in [Files -> 0 .. writes]
  /\ state \in [Files -> Contents]
  /\ mixed \subseteq Files
  /\ torn \in BOOLEAN

\* The server has loaded an empty, or missing, dump.
Init ==
  /\ up = TRUE
  /\ job = "none"
  /\ mem = 0 /\ writes = 0 /\ dirty = 0 /\ age = 0
  /\ bgsave = FALSE /\ kids = {}
  /\ stage = [p \in Procs |-> "none"]
  /\ image = [p \in Procs |-> 0]
  /\ file = [p \in Procs |-> Gone]
  /\ young = {}
  /\ holds = [f \in Files |-> 0]
  /\ state = [f \in Files |-> IF f = Dump THEN "durable" ELSE "none"]
  /\ mixed = {}
  /\ torn = FALSE

-----------------------------------------------------------------------------
(* rdbSave, one step per system call another process can see. *)

\* The name is made of the second and of random(), which a child inherits.
SameName(p, q) ==
  /\ "samename" \in Faults
  /\ q # p /\ q \in young /\ stage[q] \in InRdbSave /\ file[q] \in Procs

\* Mutant of Open: the dump is written in place, with no temporary file.
OpenDump(p) ==
  /\ stage[p] = "open"
  /\ stage' = [stage EXCEPT ![p] = "write"]
  /\ file' = [file EXCEPT ![p] = Dump]
  /\ holds' = [holds EXCEPT ![Dump] = image[p]]
  /\ state' = [state EXCEPT ![Dump] = "part"]
  /\ UNCHANGED <<server, image, young, mixed, torn>>

\* fopen(tmpfile,"w") makes a file, or truncates the one another process is at.
Open(p) ==
  /\ stage[p] = "open"
  /\ stage' = [stage EXCEPT ![p] = "write"]
  /\ young' = young \cup {p}
  /\ \E f \in Procs :
       /\ \/ /\ f = p /\ \A q \in Procs : file[q] # p
             /\ UNCHANGED <<mixed, torn>>
          \/ /\ \E q \in Procs : SameName(p, q) /\ f = file[q]
             /\ torn' = TRUE
             /\ mixed' = IF \E q \in Procs \ {p} : stage[q] = "write" /\ file[q] = f
                         THEN mixed \cup {f} ELSE mixed
       /\ file' = [file EXCEPT ![p] = f]
       /\ holds' = [holds EXCEPT ![f] = image[p]]
       /\ state' = [state EXCEPT ![f] = "part"]
  /\ UNCHANGED <<server, image>>

\* Mutant of Flush: the process sees the changes made since the fork.
FlushMemory(p) ==
  /\ stage[p] = "write"
  /\ stage' = [stage EXCEPT ![p] = "sync"]
  /\ holds' = [holds EXCEPT ![file[p]] = mem]
  /\ state' = [state EXCEPT ![file[p]] = "cached"]
  /\ UNCHANGED <<server, image, file, young, mixed, torn>>

\* The last fwrite and fflush.  A file that two processes write may end as
\* anything, and so may one whose fflush fails.
Flush(p) ==
  /\ stage[p] = "write"
  /\ stage' = [stage EXCEPT ![p] = "sync"]
  /\ holds' = [holds EXCEPT ![file[p]] = image[p]]
  /\ \/ state' = [state EXCEPT ![file[p]] = "cached"] /\ UNCHANGED torn
     \/ /\ "fflush" \in Faults \/ file[p] \in mixed
        /\ state' = [state EXCEPT ![file[p]] = "short"]
        /\ torn' = TRUE
  /\ UNCHANGED <<server, image, file, young, mixed>>

\* Mutant of Sync: fclose only.
SyncNothing(p) ==
  /\ stage[p] = "sync"
  /\ stage' = [stage EXCEPT ![p] = "rename"]
  /\ UNCHANGED <<server, image, file, young, disk, torn>>

\* fsync and fclose.
Sync(p) ==
  /\ stage[p] = "sync"
  /\ stage' = [stage EXCEPT ![p] = "rename"]
  /\ state' = IF state[file[p]] = "cached"
              THEN [state EXCEPT ![file[p]] = "durable"] ELSE state
  /\ UNCHANGED <<server, image, file, young, holds, mixed, torn>>

\* What a temporary file holds is of no more interest when no process has it
\* open: nothing ever reads one.
Forget(f) ==
  /\ holds' = [holds EXCEPT ![f] = 0]
  /\ state' = [state EXCEPT ![f] = "none"]
  /\ mixed' = mixed \ {f}

\* rename(tmpfile, filename) moves the file p has open over the dump: whoever
\* had that file open has the dump open now, and the old dump has no name.
Install(p) ==
  LET f == file[p] IN
  /\ f \in Procs
  /\ holds' = [holds EXCEPT ![Dump] = holds[f], ![f] = 0]
  /\ state' = [state EXCEPT ![Dump] = state[f], ![f] = "none"]
  /\ mixed' = (mixed \ {Dump, f}) \cup (IF f \in mixed THEN {Dump} ELSE {})
  /\ file' = [q \in Procs |-> IF q = p \/ file[q] = Dump THEN Gone
                              ELSE IF file[q] = f THEN Dump ELSE file[q]]
  /\ young' = young \ {p}
  /\ UNCHANGED <<image, torn>>

\* p is gone and leaves its temporary file behind.
Abandons(p) ==
  /\ file' = [file EXCEPT ![p] = Gone]
  /\ IF file[p] \in Procs /\ \A q \in Procs \ {p} : file[q] # file[p]
     THEN Forget(file[p]) ELSE UNCHANGED disk
  /\ young' = young \ {p}
  /\ UNCHANGED <<image, torn>>

\* A system call of rdbSave fails, or its rename finds that another process
\* has renamed the file: unlink(tmpfile), and REDIS_ERR.
Fails(p) ==
  /\ \/ "io" \in Faults /\ stage[p] \in {"open", "write", "rename"}
     \/ stage[p] = "rename" /\ file[p] \notin Procs
  /\ file' = [q \in Procs |-> IF q = p \/ (file[q] = file[p] /\ file[p] \in Procs)
                              THEN Gone ELSE file[q]]
  /\ IF file[p] \in Procs THEN Forget(file[p]) ELSE UNCHANGED disk
  /\ young' = young \ {p}
  /\ UNCHANGED <<image, torn>>

-----------------------------------------------------------------------------
(* The saving child. *)

\* Mutant of ChildExits: exit(0) whatever rdbSave returned.
ChildExitsZero(p, status) ==
  stage' = [stage EXCEPT ![p] = IF p \in kids THEN "ok" ELSE "none"]

\* exit(): the status waits for the parent, if there still is one.
ChildExits(p, status) ==
  stage' = [stage EXCEPT ![p] = IF p \in kids THEN status ELSE "none"]

ChildSaved(p) ==
  /\ stage[p] = "rename"
  /\ Install(p)
  /\ ChildExits(p, "ok")
  /\ UNCHANGED server

ChildFailed(p) ==
  /\ Fails(p)
  /\ ChildExits(p, "err")
  /\ UNCHANGED server

ChildKilled(p) ==
  /\ "kill" \in Faults
  /\ stage[p] \in InRdbSave
  /\ ChildExits(p, "killed")
  /\ Abandons(p)
  /\ UNCHANGED server

\* rdbSaveBackground, in a server whose processes are at `st` and which still
\* has the children `ks`.  The child saves the dataset of its parent at the fork.
RdbSaveBackground(st, ks) ==
  \/ /\ "fork" \in Faults
     /\ stage' = st /\ kids' = ks /\ bgsave' = FALSE
     /\ UNCHANGED image
  \/ \E p \in Slots :
       /\ st[p] = "none" /\ \A q \in Procs : file[q] # p
       /\ stage' = [st EXCEPT ![p] = "open"]
       /\ kids' = ks \cup {p}
       /\ bgsave' = TRUE
       /\ image' = [image EXCEPT ![p] = mem]

-----------------------------------------------------------------------------
(* The commands.  While the server is in an rdbSave of its own it does      *)
(* nothing else; what SAVE and BGSAVE refuse is no step at all.             *)

Write ==
  /\ Idle /\ writes < MaxWrites
  /\ writes' = writes + 1
  /\ mem' = writes + 1
  /\ dirty' = dirty + 1
  /\ UNCHANGED <<up, job, age, bgsave, kids, saving, disk, torn>>

\* Mutant of Saves: FLUSHALL saves before it empties the databases.
SavesBefore(cmd, dataset) ==
  /\ Idle /\ cmd \in Commands
  /\ job' = cmd
  /\ stage' = [stage EXCEPT ![Server] = "open"]
  /\ image' = [image EXCEPT ![Server] = mem]
  /\ UNCHANGED <<up, age, bgsave, kids, file, young, disk, torn>>

\* The server calls rdbSave itself, with the dataset it then has.
Saves(cmd, dataset) ==
  /\ Idle /\ cmd \in Commands
  /\ job' = cmd
  /\ stage' = [stage EXCEPT ![Server] = "open"]
  /\ image' = [image EXCEPT ![Server] = dataset]
  /\ UNCHANGED <<up, age, bgsave, kids, file, young, disk, torn>>

\* Mutant of Save: it does not look at bgsaveinprogress.
SaveAnyway == Saves("SAVE", mem) /\ UNCHANGED <<mem, writes, dirty>>

Save == ~bgsave /\ Saves("SAVE", mem) /\ UNCHANGED <<mem, writes, dirty>>

Shutdown == Saves("SHUTDOWN", mem) /\ UNCHANGED <<mem, writes, dirty>>

\* Emptying the databases is a change like another.
Flushall ==
  /\ writes < MaxWrites
  /\ Saves("FLUSHALL", writes + 1)
  /\ writes' = writes + 1
  /\ mem' = writes + 1
  /\ dirty' = dirty + 1

\* Mutant of Bgsave: it does not look at bgsaveinprogress.
BgsaveAnyway ==
  /\ Idle
  /\ Commands \cap {"BGSAVE", "SYNC"} # {}
  /\ RdbSaveBackground(stage, kids)
  /\ UNCHANGED <<up, job, mem, writes, dirty, age, file, young, disk, torn>>

Bgsave ==
  /\ Idle /\ ~bgsave
  /\ Commands \cap {"BGSAVE", "SYNC"} # {}
  /\ RdbSaveBackground(stage, kids)
  /\ UNCHANGED <<up, job, mem, writes, dirty, age, file, young, disk, torn>>

\* The server is gone, by `how`, and init waits for the children it leaves.
Dies(how) ==
  /\ up' = FALSE /\ job' = how
  /\ dirty' = 0 /\ age' = 0 /\ bgsave' = FALSE /\ kids' = {}
  /\ stage' = [p \in Procs |->
                 IF p = Server \/ stage[p] \in Exited THEN "none" ELSE stage[p]]

\* rdbSave resets dirty and lastsave; FLUSHALL counts one change more after it.
ServerSaved ==
  /\ stage[Server] = "rename"
  /\ Install(Server)
  /\ \/ job = "SHUTDOWN" /\ Dies("SHUTDOWN")
     \/ /\ job # "SHUTDOWN"
        /\ job' = "none"
        /\ dirty' = IF job = "FLUSHALL" THEN 1 ELSE 0
        /\ age' = 0
        /\ stage' = [stage EXCEPT ![Server] = "none"]
        /\ UNCHANGED <<up, bgsave, kids>>
  /\ UNCHANGED <<mem, writes>>

ServerFailed ==
  /\ Fails(Server)
  /\ job' = "none"
  /\ dirty' = IF job = "FLUSHALL" THEN dirty + 1 ELSE dirty
  /\ stage' = [stage EXCEPT ![Server] = "none"]
  /\ UNCHANGED <<up, mem, writes, age, bgsave, kids>>

-----------------------------------------------------------------------------
(* serverCron: wait for the saving child, or see if a save is due. *)

\* Mutant of HasEnded: only a success ends a save.
HasSucceeded(p) == stage[p] = "ok"

HasEnded(p) == stage[p] \in Exited

\* Mutants of DirtyAfter: the reset is forgotten; a failed child resets it too; the
\* changes are subtracted.
DirtyKept(p) == dirty
DirtyReset(p) == 0
DirtyLess(p) == IF stage[p] = "err" THEN dirty ELSE dirty - 1

\* WEXITSTATUS of a child that a signal killed is 0, like that of one that
\* succeeded.
DirtyAfter(p) == IF stage[p] = "err" THEN dirty ELSE 0

\* If slaves wait for the next save, updateSalvesWaitingBgsave starts it right
\* away.
CronReap ==
  /\ Idle /\ bgsave
  /\ \E p \in kids :
       LET st == [stage EXCEPT ![p] = "none"]
           ks == kids \ {p}
       IN /\ HasEnded(p)
          /\ dirty' = DirtyAfter(p)
          /\ age' = IF stage[p] = "err" THEN age ELSE 0
          /\ \/ stage' = st /\ kids' = ks /\ bgsave' = FALSE /\ UNCHANGED image
             \/ "SYNC" \in Commands /\ RdbSaveBackground(st, ks)
  /\ UNCHANGED <<up, job, mem, writes, file, young, disk, torn>>

SaveIsDue == \E sp \in SaveParams : dirty >= sp.changes /\ age > sp.seconds

CronSave ==
  /\ Idle /\ ~bgsave /\ SaveIsDue
  /\ RdbSaveBackground(stage, kids)
  /\ UNCHANGED <<up, job, mem, writes, dirty, age, file, young, disk, torn>>

-----------------------------------------------------------------------------
(* Time, failures and restarts. *)

Tick ==
  /\ age' = IF up /\ age < MaxAge THEN age + 1 ELSE age
  /\ young' = {}
  /\ <<age', young'>> # <<age, young>>
  /\ UNCHANGED <<up, job, mem, writes, dirty, bgsave, kids, stage, image, file, disk, torn>>

Crash ==
  /\ "crash" \in Faults /\ up
  /\ Dies("none")
  /\ Abandons(Server)
  /\ UNCHANGED <<mem, writes>>

\* What had not reached the disk may be lost with the machine.
PowerLoss ==
  /\ "power" \in Faults
  /\ up' = FALSE /\ job' = "none"
  /\ dirty' = 0 /\ age' = 0 /\ bgsave' = FALSE /\ kids' = {}
  /\ stage' = [p \in Procs |-> "none"]
  /\ file' = [p \in Procs |-> Gone]
  /\ young' = {}
  /\ holds' = [f \in Files |-> IF f = Dump THEN holds[Dump] ELSE 0]
  /\ \E lost \in BOOLEAN :
       /\ lost => state[Dump] # "durable"
       /\ state' = [f \in Files |-> IF f # Dump THEN "none"
                                    ELSE IF lost THEN "short" ELSE state[Dump]]
  /\ mixed' = mixed \cap {Dump}
  /\ UNCHANGED <<mem, writes, image, torn>>

\* main: rdbLoad reads the dump, and exits if it is not complete.
Restart ==
  /\ ~up /\ Loadable(Dump)
  /\ up' = TRUE /\ job' = "none"
  /\ mem' = holds[Dump]
  /\ dirty' = 0 /\ age' = 0 /\ bgsave' = FALSE /\ kids' = {}
  /\ UNCHANGED <<writes, saving, disk, torn>>

Next ==
  \/ Write \/ Save \/ Bgsave \/ Flushall \/ Shutdown
  \/ ServerSaved \/ ServerFailed
  \/ CronReap \/ CronSave
  \/ \E p \in Procs : Open(p) \/ Flush(p) \/ Sync(p)
  \/ \E p \in Slots : ChildSaved(p) \/ ChildFailed(p) \/ ChildKilled(p)
  \/ Tick \/ Crash \/ PowerLoss \/ Restart

Spec == Init /\ [][Next]_vars

\* aeMain calls serverCron every second for ever, time passes, and neither the
\* disk nor fork() fails for ever at the same call.
FairSpec ==
  /\ Spec
  /\ WF_vars(Tick) /\ WF_vars(CronReap) /\ WF_vars(Restart)
  /\ SF_vars(CronSave /\ bgsave')
  /\ \A p \in Procs : SF_vars(Open(p)) /\ SF_vars(Flush(p)) /\ WF_vars(Sync(p))
  /\ \A p \in Slots : SF_vars(ChildSaved(p))
  /\ SF_vars(ServerSaved)

-----------------------------------------------------------------------------
(* Properties *)

\* The server says a save is in progress exactly when it has one child that it
\* has not waited for: serverCron's wait4 always finds a child, and no second
\* child is ever forked beside the first.
ChildAccounted ==
  /\ bgsave => \E p \in Slots : kids = {p}
  /\ ~bgsave => kids = {}
  /\ \A p \in kids : stage[p] # "none"

\* At every moment, a loss of power included, the dump is a complete file: a
\* restart can always load it (rdbSave renames only what it wrote and synced).
DumpIsWhole == state[Dump] = "durable"
DumpIntact  == torn \/ DumpIsWhole

\* Until something tears a file, every process in rdbSave has a temporary file
\* of its own, which holds its dataset as far as it has got, and the server is
\* in rdbSave exactly while it executes one of the three commands.
HasFile    == {"write", "sync", "rename"}
FilesApart ==
  \/ torn
  \/ /\ mixed = {}
     /\ \A p \in Procs :
          /\ file[p] = IF stage[p] \in HasFile THEN p ELSE Gone
          /\ stage[p] \in HasFile => holds[p] = image[p]
          /\ stage[p] = "sync" => state[p] = "cached"
          /\ stage[p] = "rename" => state[p] = "durable"
ServerAtSave ==
  /\ stage[Server] \in InRdbSave <=> up /\ job # "none"
  /\ stage[Server] \notin Exited
  /\ stage[Server] \in InRdbSave => image[Server] = mem

\* The dump is a complete dataset of the past, replaced in one step, and it is
\* what a restart loads (-1 stands for a dump that is no dataset at all).
Abstract == INSTANCE AtomicDump WITH
              latest <- writes,
              mem    <- mem,
              disk   <- IF DumpIsWhole THEN holds[Dump] ELSE 0 - 1
DumpIsAtomic == Abstract!Spec

\* When SAVE is about to answer +OK the dump on disk is the dataset in memory.
MemoryIsOnDisk == torn \/ (DumpIsWhole /\ holds[Dump] = mem)
SaveIsDurable  == [][ServerSaved /\ job = "SAVE" => MemoryIsOnDisk']_vars

\* Without FLUSHALL, SHUTDOWN and orphans, no save puts an older dataset over a
\* newer one: SAVE and BGSAVE exclude each other.
DumpNeverRegresses == [][holds'[Dump] >= holds[Dump]]_vars

\* A child whose status serverCron takes for a success has left on disk a
\* dataset at least as recent as the one it was forked with, so that LASTSAVE
\* is the time of a save that was "executed with success".
ReportedSaveIsOnDisk ==
  \A p \in kids : stage[p] \in {"ok", "killed"} => holds[Dump] >= image[p]

\* With no save in progress, dirty > 0 means that the dump misses a change: the
\* saves of serverCron are not for nothing, whatever failed before.
DirtyMeansUnsaved == up /\ ~bgsave /\ dirty > 0 => holds[Dump] < mem

\* Every saving child ends and the server notices: its slot is free again, or
\* taken by the next child, forked for the slaves that were waiting.
ChildIsReaped ==
  \A p \in Slots :
    (p \in kids /\ stage[p] # "open") ~> (stage[p] \in {"none", "open"})

\* A save point that is reached while no child saves gets what is then in memory onto
\* the disk, unless the server stops first, however often fork, the disk or the child
\* fails.  The exceptions: changes made while a child saves, which the reap takes off
\* dirty without their having been saved (ChangesAreSaved), and a child that is killed,
\* for which dirty is reset as if it had succeeded.
DueSaveHappens ==
  \A sp \in SaveParams, v \in 1 .. MaxWrites :
    (up /\ ~bgsave /\ dirty >= sp.changes /\ mem = v) ~> (holds[Dump] >= v \/ ~up)

\* ShutdownCommand.html: "the DB is switched off without the lost of any data".
ShutdownKeepsData == ~up /\ job = "SHUTDOWN" => holds[Dump] = mem

\* redis.conf: "Will save the DB if both the given number of seconds and the
\* given number of write operations against the DB occurred"; with one change
\* as the number, every change is saved in the end.
ChangesAreSaved ==
  \A v \in 1 .. MaxWrites : (up /\ mem >= v) ~> (holds[Dump] >= v \/ ~up)

=============================================================================
