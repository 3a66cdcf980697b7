# A TLA+ verification of redis 0.1

redis 0.1 is a single-threaded server (`src/srv/redis.c`, `redis_cmd.c`, `redis_db.c`, `aid.c`)
around a `select` loop (`ae.c`).  All concurrency comes from outside the loop: the children it
forks to save the dataset, the clients and slaves at the other end of its connections, the clock,
and the operating system, which may fail any call, kill a child or stop the machine.  Inside it,
handlers change the structures another handler, a timer or an iterator is about to use.  The
specifications here are about what must hold across those.

## Inventory

| part | state | operations | interacts with | hard about it | what makes it correct |
|---|---|---|---|---|---|
| **Saving and restart** (`rdbSave`, `rdbSaveBackground`, `rdbLoad`, `serverCron`) | `dirty`, `lastsave`, `bgsaveinprogress`, the child, temporary files, `dump.rdb` | SAVE, BGSAVE, FLUSHALL, SHUTDOWN, save points, wait for the child, restart | forks from every command that saves; `updateSalvesWaitingBgsave` when a child ends | two processes in `rdbSave`, ignored results, kills, crashes, loss of power, orphans | the dump is a complete dataset at every moment; a reported save is on disk; one child, always waited for; what a due save point counted gets onto the disk |
| **Replication, master** (`syncCommand`, `replicationFeedSlaves`, `updateSalvesWaitingBgsave`, `sendBulkToSlave`, `freeClient`) | per slave `replstate`, `reply`, `slaveseldb`, `repldbfd` | SYNC, feed a change, save ended, dump sent, disconnect | saving (shares its child), every command that changes data | slaves that join, wait for or share a save that commands and failures overtake | snapshot + queued changes = dataset; no change lost, doubled, or run in another database; a request is answered |
| **Replication, slave** (`syncWithMaster`, `slaveofCommand`) | `masterhost`, `replstate`, `master`, the temporary file | SLAVEOF, synchronize, execute changes, lose the master | the master; its own saves use the same dump file | blocking I/O in the event loop, links that break half-way, error answers | a synchronization that fails leaves its dump alone; connected means a copy of the master; replstate tells whether there is a master |
| **Query framing** (`readQueryFromClient`, `processCommand`, `resetClient`) | `querybuf`, `argv`, `bulklen` | bytes arrive, a command runs | every command; `freeClient` | commands split or joined arbitrarily by the network | the commands executed do not depend on how bytes were cut into reads |
| **Reply buffers** (`addReply`, `sendReplyToClient`, `glueReplyBuffersIfNeeded`, `sendBulkToSlave`) | `reply`, `sentlen`, the writable event | queue, write part, glue | event loop, `replstate` | partial writes; a writable event exactly while something may be sent | the bytes sent are the bytes queued |
| **Event loop** (`ae.c`) | file and time events | create, delete, process | everything | handlers change the list that is being walked; descriptors are used again | no event of a freed client, no bit of a closed descriptor, no client starves |
| **Keyspace and expiry** (`lookupKey*`, `expireIfNeeded`, `deleteIfVolatile`, `deleteKey`, EXPIRE, MOVE, RENAME) | `dict` and `expires` of each database | reads and writes that delete, cron's sampling | saving, replication (`dirty`) | a key is deleted by whoever meets it first | `expires` names only keys that exist; a read never returns an expired key; what is written does not depend on when expired keys are deleted |
| **Value commands** (strings, lists, sets, SORT, KEYS) | the objects | the command table | keyspace | index arithmetic, windows, counts | the documented results |
| **Hash table** (`dict.c`) | table, `used`, iterators | add, replace, delete, resize, iterate | both tables of each database, sets | changes under an iterator, resizing | a map; an iterator gives each entry once |
| **Dump format** (`redis_db.c`) | none | encode, decode | saving | boundaries of the encodings, cut files | decode inverts encode; a cut file is refused |
| **Idle clients and limits** | `maxclients`, `lastinteraction` | accept, time out | event loop | clients freed by the cron | as for the event loop |
| linked list, `sds`, object sharing, configuration, INFO, AUTH, `zmalloc`, `anet`, `lzf`, `redis-cli`, `benchmark`, client libraries | | | | | see "Not modelled" |

## Modules

    AtomicDump              abstract: a dump replaced atomically, and what a restart may find
    Persistence             processes, system calls, files, commands, serverCron, failures
    PersistenceProofs       its types and invariants, the refinement of AtomicDump, the order of saves
    Replication             the master, the connections of its slaves, what the slaves hold
    ReplicationProofs       its types, changes executed in their database, once and in order; dump and
                            queue make the master's dataset; a slave that is a server: its types, the
                            dump that survives, slaves are copies, refinement of Replication
    SlaveSync               a slave server, EXTENDS Replication: the two composed
    LiveMap                 abstract: a map whose keys vanish at their time
    Keyspace                the databases: dict and expires, commands, cron, dump and load
    KeyspaceProofs          expires names keys; late expiry leaves the same dataset; types, reads that
                            ignore expired keys, the refinement of LiveMap
    Clients                 connections, framing, replies and the event loop
    ClientsProofs           one connection: replies queued, glued, written in parts, the dump; the event
                            loop: events and descriptors, types, replies in order, cuts of a stream
    Map                     abstract: a map
    Dict                    the hash table: chains, rehashing, iterators
    DictProofs              its types, iterators that give all once, the refinement of Map
    Values                  list indexes and set algebra (used by Keyspace)
    Rdb, Sort, Glob, Strings  the dump format, SORT, KEYS' patterns, sds
    Algorithms              the five modules before, each on a set of inputs
    AlgorithmsProofs        dumps of everything a dump can hold; lists, sets, strings and patterns
                            of any size
    SortProofs              the elements SORT answers with, for any number of them and any window
                            whose end fits an int
    Induction               induction over the natural numbers, for the proofs
    MC*                     instances for TLC

### Persistence and AtomicDump

A dataset is the number of the last change it holds; what a save writes is that number.  `rdbSave`
is four steps a second process can observe - `fopen` (`Open`), the last write and `fflush`
(`Flush`), `fsync` (`Sync`), `rename` (`Install`) - executed by a child or by the server itself;
in the latter case the server does nothing else, since it has one thread.  A file goes through
`part`, `cached` and `durable`; it becomes `short` when `fflush` fails (`rdbSave` ignores the
result) or when two processes have written it.  Temporary names consist of the second and
`random()`: the fault `"samename"` makes two processes that name their files in one second pick the
same one, and `fopen(..., "w")` truncates what the other has written.

`serverCron` is `CronReap` (wait4, reset of `dirty` and `lastsave`, next child for waiting slaves) and
`CronSave`.  `WEXITSTATUS` of a killed child is 0, as in the code.  `Restart` is `main`: `rdbLoad`
exits on anything but a complete file, so the action is not enabled then.

Each failure is a member of `Faults`, so a run says which ones it allows:
`io` (a result that `rdbSave` looks at), `fflush` (one it does not), `fork`, `kill`, `crash`
(the server dies, a child lives on), `power`, `samename`.  `torn` is a history variable: a name was
shared or a failed `fflush` went unseen; the invariants say what holds until then.

`AtomicDump` is the dump as a user of the server sees it: one dataset of the past, replaced in one
step, loaded by a restart.  `Persistence` implements it with `disk` mapped to the content of the
dump (-1 if it is not whole), in the runs without tearing (`DumpIsAtomic`), and by theorem for
every instance without it.

### Replication and SlaveSync

`hist` holds the changes made, each with its database; a dump is the number of changes in it.
`conn[s]` is the `replstate` of the connection of slave s, `reply[s]` the changes queued for it (a
change and the SELECT put in front of it are queued in one step), `copy[s]` its dataset and the
database its next command goes to.  `Write`, `Silent` and `Flushall` are `processCommand` with a command
that counts in `dirty`, one that changes the dataset and does not (EXPIRE), and FLUSHALL, whose
`rdbSave` resets `dirty` before it is compared.  `SyncForks`, `SyncWaits` and `SyncShares` are the branches of
`syncCommand`; `SyncShares` includes `listDup`, which fails on a list that is not empty.  `CronReap` is
`serverCron` and the whole of `updateSalvesWaitingBgsave`.

Not everything a slave misses is a mistake of the machinery that hands over snapshots and changes.
`excuse[s]` records the causes that lie outside it, since the slave's last SYNC: `unfed` (a change
`processCommand` did not feed), `late` (changes queued since before the save began, after a failed
fork), `killed` (a killed child taken for a success).  A slave that shares another's save
inherits `unfed` from it, for the save is older than its SYNC.

`SlaveSync` puts a slave server at the other end.  Its place in the program is `at`: in its loop, at
one of the blocking calls of `syncWithMaster`, stopped - or `hung`, in the loop of
`syncWithMaster` that reads 0 bytes for ever when the master closes the connection in the middle of
a dump.  `SyncWithMaster` takes one of the master's three SYNC actions with it, `ReadsDump` the
master's `BulkSent`, `Executes` its `Deliver`; everything else the master does is `MasterStep`.  A file
is a `part` of a dump (what had arrived when something failed), `empty`, `cut` or a `whole` dataset.  The code
takes the second and third for whole dumps: an `-ERR` answer is parsed with `atoi` as a dump of 0 bytes, and the
result of `write` is compared with -1 only, so that a last block of which the disk took a part (the fault `short`)
ends the loop like any other.  Both are renamed over the slave's dump, and make `rdbLoad` exit (`LoadFails`);
`DumpSurvives` says that nothing else is.  `SlaveForks` and
`SlaveChildSaves` are the slave's own saves.  A child may rename its dump at any time; when that is between the slave's
`rename` and its `rdbLoad`, the slave loads what it had before, and `mixed` records it until the next synchronization.

### Keyspace, LiveMap, Values

A command is a function of a record of the two tables and of what was added to `server.dirty`; the
functions have the names of the C functions (`IncrDecr`, `RenameGeneric`, `SinterStore`, ...) and
are built, like them, from `deleteKey`, `expireIfNeeded`, `deleteIfVolatile`, `setExpire`.
`Claimed` is `deleteIfVolatile`: any write to a volatile key deletes it first, so that the result
does not depend on whether it has expired.  Beside the server runs `prompt`, the dataset of one that executed the same
commands and on which every timeout had passed at once: the extreme of all the servers that
execute them at another time.  It is not a slave's: a slave receives only the commands that are counted in
`dirty`, and EXPIRE is not.  SETNX is the one command that breaks the rule - it looks only at
whether the key is there - and the history variable `seen` says that it met a volatile key.  Reads
are operators that return the reply.  Times are saved in 32 bits (`Saved32`).

`LiveMap` forgets when keys are deleted: a key is in the map until its time.  The refinement maps the
tables to the keys that are not due, and says besides that what changes the map is counted in `dirty`, except
EXPIRE, FLUSHALL, and a SINTERSTORE that deletes its target.

### Clients

A stream is a sequence of units: `"nl"` ends a line, a word of the command table is the rest of one.
A handler is an operator on `[cl, ev, early]`, the clients, the list of file events and a history, since it
runs to its end; the steps of the specification are those of `aeProcessEvents`: `Select` computes the bits
(or fails, when the nearest timer is already late and its timeout negative), `Handle` runs the handler of the first
event in the list whose bit is set and clears its descriptor, `Cron` or `Idle` end the round.
`ReadQuery` is `readQueryFromClient` with `processCommand`, `SendReply` is `sendReplyToClient` with
glueing and partial writes, `SendBulk` is `sendBulkToSlave`, `Accept` is `acceptHandler`; `FreeClient`
deletes one event of each mask, as the code does.  `Delete` and `Create` keep the order of the
list.  What the other ends do is `Connect`, `Send` (any piece), `Drain`, `Close`, `Break`.

Two exceptions are recorded.  `held`: after a bulk argument that came later than its line, or after
an empty line, the code does not look at the rest of the buffer until more arrives.  `early`:
between the end of its dump and its next reply a slave has two writable events (`sendBulkToSlave`
creates one, the `addReply` it then calls another); if it is freed then, one of them outlives it, and
`FreeClient` notes that it had two.  What happens after that is undefined, and `StopAtStale` ends the behaviour there.

### Dict and Map

`table` is the array of chains, `used` the count that decides when it grows.  `Rehashed` and `PushAll` are
the two loops of `dictExpand`, which put entries at the heads of their new chains.  The iterator is `index`,
`entry` and `nextEntry`; its user deletes at most the entry it was given, as `keysCommand` does.
`Dict` implements `Map` with the entries of all chains as the map, and `did` telling which
operation it was, so that a lost or resurrected entry cannot pass for another operation.

### Algorithms

Pure functions, each on every input of a set, against a definition that says what the result is and not how it
is found.  `Rdb`: every length, string and dataset is what it was after a save and a load, and no proper prefix
of a dump is accepted.  `Sort`: the window `LIMIT` asks for holds what it would hold if the whole vector
were sorted, though `pqsort` leaves alone what lies outside it.  What `sortCommand` computes of LIMIT and GET is an `int`
of `-IntMax - 1 .. IntMax`, and wraps around (`AsInt`); `SortsAreRight` is about the windows whose end, and the replies
whose number, fit.  `Glob`: a pattern matches the strings its pieces describe: a piece is a star, a question mark, a
character or a class, and the pattern is the text of its pieces.
`Values`: ranges, trims, removals from either end, set algebra.  `Strings`: splitting, trimming and cutting.

## Runs

| run | instance | what it shows |
|---|---|---|
| `persist_all` | every command and fault, 2 process table entries, 2 changes, save points (1 change, 2 s) and (2, 1 s) | type, `ChildAccounted`, `FilesApart`, `ServerAtSave`, `DumpIntact`, `SaveIsDurable` |
| `persist_quiet` | SAVE, BGSAVE, SYNC, no orphans, faults `io`, `fork`, `power`, 3 changes, fairness | reported saves are on disk, `dirty` means unsaved, the dump never gets older, refinement of `AtomicDump`, children are reaped, what a due save point counted gets onto the disk |
| `persist_shutdown` (violation) | BGSAVE, SHUTDOWN, no faults | an orphan replaces the dump SHUTDOWN wrote |
| `persist_missed` (violation) | BGSAVE, no faults, fairness | a change made during a save is never saved |
| `repl_sync` | 2 slaves, 2 databases, every kind of change and fault, 2 changes, 3 SYNCs | `SnapshotPlusBuffer`, `RightDatabase`, `NoChangeTwice` |
| `repl_served` | a slave and its master, 2 connections, every fault of the slave, its own save, fairness | `SlaveIsCopy`, `DumpSurvives`, `SyncServed` |
| `repl_flushall` (violation) | 1 slave, no faults | FLUSHALL is not fed |
| `repl_concurrent` (violation) | 2 slaves, no faults | the second SYNC aborts the master |
| `keyspace` | 2 databases, 2 keys, every command, timeouts of 1 s and of one that 32 bits cannot hold | `ExpiresHaveKeys`, `SameDataset`, `ReadsIgnoreTheDead`, refinement of `LiveMap` |
| `clients` | 3 connections, `maxclients` 2, one connection that fails at will, fairness | `CutsDoNotMatter`, `RepliesInOrder`, `EventsHaveClients`, `BitsAreCurrent`, `Served` |
| `dict` | 6 keys, tables of 2, 4 and 8 slots | `GivenOnce`, refinement of `Map` |
| `algorithms` | the edges of every encoding, and everything small | `DumpsRoundTrip`, `SortsAreRight`, `GlobsAreRight`, `ValuesAreRight`, `LinesAreRight` |

**Bounds.**  *Persistence.*  Two process table entries: one child of the living server and one orphan of a
dead one (a third process in `rdbSave` is the server).  Two or three changes: one in the image of a
save and one after it, and a third after the reset of `dirty`.  `MaxAge` is one second past the longest
save point; time is relative, so it bounds no behaviour.  `StopAtTear` cuts `persist_all` after a tear,
where the invariants promise nothing.  *Replication.*  Two slaves are one in each pair of states of
the hand-over; three SYNCs let one of them come back.  Two databases make SELECT necessary, and the
first change may need none.  *SlaveSync.*  Two connections: the one in use, and one that belongs to
another slave or that the slave has dropped and the master not noticed.  *Keyspace.*  Two keys are a
source and a target, or the two operands of a set command; two databases are needed by MOVE; the clock has a time
before, at and after the shortest timeout; `Wrap32` is small so that a timeout may pass it.  `StopAtSetnx` cuts the run
where `SameDataset` promises nothing.  *Clients.*  The buffers are small enough (two units of room, blocks of two units) for
every write to be partial at some point, the streams are chosen so that payloads contain commands and line ends, counts are wrong, a line
never ends, a slave, a monitor and one client too many take part.  *Dict.*  The six hashes meet in every
size, in some sizes and in none.  *Algorithms.*  `IntMax` is 127, since TLC's own integers have 32 bits and could not
hold the sum that wraps around; the LIMITs are all small ones, and those whose end is about the last `int`;
for the ones behind it TLC sees the wrapped window, and `SortsAreRight` promises nothing.

`CHECK_DEADLOCK FALSE` is set where the bounds, a dump that cannot be loaded, an aborted master, or an
input that has been tried leave nothing to do.

**Fairness.**  `aeMain` runs `serverCron` every second and serves every ready connection, so `CronReap`,
`BulkSent` and `Deliver` are weakly fair, and the clock advances.  A child makes its next system call
for as long as it lives.  `CronSave` with a successful fork, and the success of each call of
`rdbSave`, are strongly fair: neither `fork` nor the disk fails at every attempt.  In `SlaveSync` the
slave that is followed goes on reading a dump that comes; nothing else is assumed of slaves, nor anything of the
clients of `Persistence` and `Replication`.  In `Clients` the process runs: some step of the loop is
taken again and again (`[]<><<Loop>>_vars`; one is always possible, so this is weak fairness), *which* handler is left to the
order of the list; and clients that stay read what they are sent (`Drain`).

## What is proved

TLC checks each property on a small instance; the theorems hold for every value of the constants that
satisfies the named assumptions of the modules.

**`PersistenceProofs`** (`SlotsAssumption`, `ParamsAssumption`, `EnvironmentAssumption`): `TypeCorrect`,
`OneChildAtMost`, `WritersHaveTheirOwnFiles`, `ServerSavesItsMemory`, `DumpIsAlwaysLoadable`,
`SaveKeepsItsPromise`, and `DumpRefinesAtomicDump` under the assumption that no name is shared and
`fflush` does not fail.  The inductive invariant is `Inv`, the conjunction of `TypeOK` and the four
invariants of `persist_all`.  None of them is inductive alone: that the dump stays whole when a process
renames its file over it needs `FilesApart` (the file is that process's own, synced, and holds its
image); `FilesApart` needs that a new child finds a free entry with no file open, and that a process
outside `rdbSave` has none; `SaveKeepsItsPromise` needs `ServerAtSave` for "memory did not change since
SAVE began".  The refinement maps `Install` of a whole file to the abstract replacement, changes to
changes, crash and restart to recovery, and everything else to a stutter.

Its second part assumes `Quiet`: the commands are SAVE, BGSAVE and SYNC, the faults `io`, `fork` and
`power`.  Then `SavesAreInOrder` (`DumpNeverRegresses`), `ReportedSavesAreOnDisk`, `DirtyTellsTheTruth`.  The invariant `Steady` adds
to `Inv` that every process in `rdbSave` has an image no older than the dump (`Forward`).  A rename keeps
that only if nobody else is in `rdbSave` with an older image, so the proof turns on `ChildIsAlone` and
`ServerIsAlone`, which follow from `OneSaver` (SAVE and BGSAVE exclude each other) and `NoOrphans`.
`Unsaved` strengthens `DirtyMeansUnsaved` to the states where a save is in progress.

**`ReplicationProofs`** (`ReplicationAssumption`): `ReplicationTypeOK` and `ReplicationRightDatabase`.
`RightDatabase` speaks of changes a slave has executed, and is not inductive: what a queued change does
depends on the database the slave will be in by then, and that on what is in front of it in the queue.
The invariant `IInv` says, for each slave: a SELECT stands in front of a queued change exactly where the
change before it (or, for the first, the slave itself) is in another database (`Queued`); `slaveseldb`
is where the end of the queue leaves the slave, and slaves that are not fed have nothing queued and
`slaveseldb` 0 (`Cursor`); what a slave holds was made where it holds it (`Faithful`).

The module's second part proves `ReplicationNoChangeTwice`.  What a slave executes is a dump and then a
queue; they meet without overlap only because of what was true at the fork.  `Order` follows that from
the fork to the last change: the queue of a slave that waits for the save in progress begins after the
save's image (`Meets`), the dump is not newer than that image unless FLUSHALL has replaced it, in which
case it is empty (`DumpOrder`), queues are in order (`QueueOrder`), and so is what the slave holds,
which is older than its queue (`DataOrder`).

Its third part proves `ReplicationSnapshotPlusBuffer`.  The queue of a slave that was fed every
change is an unbroken piece of the master's history that ends with the newest change (`Gapless`); the
dataset it will be executed on is the one that piece begins after, or any at all while a FLUSHALL is
still in the queue.  `Carries` states the second for a slave that waits, one that is sent a dump, and
one that is online; `DumpIs` that the dump a child leaves is its image, or that of a later FLUSHALL.
`Carried` adds both to `Order`.  That executing the queue on that dataset gives the newest dataset is an
induction on the length of the queue (`ReplayEnds`).

Behind them stand the theorems about `SlaveSync` (`SlaveSyncAssumption`): `SlaveTypeCorrect`, `SlaveDumpSurvives`, `SlaveSyncIsReplication`,
`SlaveCopies`.  `SyncInv` says what the slave has at each place in `syncWithMaster` (`Syncing`), that a stopped one
has no connection (`DownIsAlone`), and what is about to be renamed (`TempIsWhole`).  Every step of the composition is one of `Replication`, or leaves it alone: hence
what is proved of a master holds with a real slave at its end.  `SlaveDumpSurvives` is about every failure at the slave, the
unnoticed short write and the `-ERR` among them, and says what they may leave in the place of the dump.  `SlaveCopies` says
what a client of the slave sees; a save of the slave's own makes no difference to it, but for the one renamed between
the slave's `rename` and its `rdbLoad`.

**`KeyspaceProofs`** (`KeyspaceAssumption`): `TimeoutsHaveKeys` and `DatasetIsTheSame`.  The first is
inductive with `Tidy`, shown helper by helper and command by command.  For the second, `IInv` says that the two servers agree
on the keys without timeouts; each command, given two databases that agree, leaves two that agree (`Agree`), because it
either claims the keys it reads or writes, or does not look at them.

The module's second part (under the same assumption, which says that EXPIRE's argument is an `int`) proves
`KeyspaceTypes`, `ExpiredKeysAreNotRead`, `KeyspaceIsLiveMap`.  One lemma per command says what it does to a well-typed
database (`Sound`): it leaves it well typed, every key that still has a timeout had it before with the
same value, and if what shows is no longer the same then `dirty` has gone up.  The exceptions of
`LiveMap` - EXPIRE, FLUSHALL, a SINTERSTORE that deletes its target, the timeouts a dump cannot hold - have lemmas of their
own; for the last, that a timeout below two wraps, saved in 32 bits, has either not changed or passed.
That LREM leaves a list of elements of the list is an induction on its walk.

**`DictProofs`** (`DictAssumption`): `DictTypes`, `IteratorGivesAllOnce`, `DictIsMap`.  `Tidy` says that the chains
are well formed (`Shaped`: each entry is in its slot, no key twice) and that `used` counts the entries, which
fit; adding, replacing, deleting and growing are lemmas on tables and the sets of their entries, and
what `dictExpand` does is an induction along each chain inside one over the slots.  Given the sets of entries, that
every step is one of `Map` is set algebra.  For the iterator, `Walk` says that what is left to return is
exactly what is in the slots after `index` and, in its own chain, from `nextEntry` on: deleting the
key just returned moves that place by one and changes neither, and what has been returned is what was
there and is not left.

**`ClientsProofs`** (`ClientsAssumption`): `ClientsTypes`, `ClientsEvents`, `ClientsBits`,
`ClientsReplies`, all from `ClientsInvariant`, and `ClientsCuts`.  The first part is about one connection: `Ordered` says that
what was written, without the dump, and what is left of the reply list are what the client is owed, and `Sized` that
`sentlen` is inside the head of the list; queueing, glueing, each turn of `sendReplyToClient`'s loop and each
block of a dump keep both.  Since the program goes through a list inside one handler - the lines of a
buffer, the slaves to feed, the clients timed out, the replies to write - each loop is an induction on
its turns.  The second part says what may happen between two such turns: `Good` (every open
connection is sound, has its descriptor alone, one readable event, and the writable ones that `Fit` allows; every event is the
listener's or an open client's), and that a handler of one client either keeps it or frees it with all its
events, and gives the others replies at most (`Keeps`, `Frees`, `Spares`).  `Settled` adds what the
loop needs between handlers: each bit belongs to the connection that has the descriptor, and a slave
whose dump is to be sent was found with room for it.  All is said of behaviours until `early`; from then on the
list holds a freed client, and the program reads it.

`ClientsCuts` compares what a client has executed with `Parsed`, a recursive function on streams.  That it follows its
own rule (`ParsedRule`) has to be shown first, by induction on the length of a stream.  What makes `CutsDoNotMatter`
inductive is to say it of every continuation: `Cut` says that, whatever `x` follows, what was received and then `x` say
what was executed and then what the buffer, in the state that `bulklen` and `argv` put it in, and `x` say; and `Quiet`
that the buffer alone says nothing more, unless `held`.  A new read moves a piece of `x` into the buffer; a
line or an argument that is complete stays what it is when more follows (`LineOfMore`, `BulkOfMore`), so no turn of
`readQueryFromClient` changes what is said (`TurnedSays`).

**`AlgorithmsProofs`** (`ObjectsAssumption`, `LengthsAssumption`, `DatasetsAssumption`, `ClockAssumption`):
`DumpsRoundTripHolds`.  The inputs are chosen in one step, so the invariant needs no strengthening; the theorem is about
the functions of `Rdb`, for all strings, lengths and datasets the assumptions allow.  Those are what the program's own
types allow: an argument of a command has at most 2^30 bytes, a list and the number of databases are counted by an `int`, a
time is written in four bytes, and a dictionary has no key twice.  Each pair of functions has a lemma that what was
written is read *with anything behind it* (`ReadsAs`), or the next one would not know where to begin: the
three ways to write a length; the bytes of a number in two's complement; the digits of a number, where `IsNumber` is just
what makes `Printed` of `ValueOf` the same string (a zero in front, a lone minus, or -0 would be lost), and `Fits32`,
which compares digits, just what keeps four bytes enough; strings, lists, entries.  The loop of `rdbLoad`
is followed from turn to turn (`Advances`, `Reaches`): after an entry the database holds what it held and, unless its
time has come, the entry; after a SELECT the next database is filled.  That the loop has enough turns is that each one
reads a byte.  For the cut file, `Longer(a, b, g)` compares what a function makes of a file and of the same file with `g` behind:
it fails on the shorter one, or both give the same and `g` is what the longer one leaves more.  It holds of every
function that reads, hence of the loop; if a proper prefix of a dump were accepted, the whole dump would leave bytes unread
behind its end, and it leaves none.

The module's second part (`ListsAssumption`, `IndexesAssumption`, `SetsAssumption`: lists are sequences, indexes integers, sets
finite) proves `ValuesAreRightHolds`.  The index arithmetic is case analysis on lengths.  LREM is a
walk: up to each position it has taken away the first of the equal elements, all of them as long as its count is
not reached (`WalkedTo`), which is an induction on the walk; from the tail it is the walk over the reversed list, whose
positions are mirrored (`LremRemoves`).  The expected result names the removed positions by CHOOSE; that there is only one such
set is a counting argument (`FirstOnes`), as is that the elements left, in order, are determined by their positions
(`ListedIs`).  SDIFF, which stops when nothing is left, is an induction on the sets (`SdiffIs`).

Its third part (`LinesAssumption`: strings are sequences, no separator is empty) proves `LinesAreRightHolds`.  The loop of
`sdssplitlen` keeps that the tokens it has cut off and what is behind the last separator are, joined, what it has
gone over, and that the separator does not begin anywhere in it that it has not cut (`Splits`); a token more is joined to those
there are (`JoinedAppend`).

Its fourth part (`GlobsAssumption`, `KeynamesAssumption`: patterns are made of pieces and keys are not empty; `IsPiece` says
what well-formed is: a character of which the code makes something else stands behind a backslash, the first item of a class is not
read as its caret nor any as a range's dash) proves `GlobsAreRightHolds`.  `stringmatchlen` calls itself and jumps ahead in the
pattern, so its results are a function of the position whose values depend on later positions (`Descends`, with a lemma that
such a function exists).  A turn where the text of a piece stands takes that piece and goes on behind it (`PieceTurn`); in a class,
a turn of the inner loop takes one item (`ItemTurn`, `ClassMatches`).  What makes the induction from the end of the pattern go through
is that the code, when the string has ended, asks whether only stars are left: that must be the same as that what is left matches
nothing (`IsBehind`, `TurnFits`).

**`SortProofs`** (`SortsAssumption`: the elements are a sequence, what they are compared by is an integer, the arguments of LIMIT
are `int`s; `IntMaxAssumption`) proves `SortsAreRightHolds`, for every LIMIT whose end is an `int` too and every number of GETs that
times the elements is one: below that bound nothing wraps around (`AsIntIs`).  Every exchange, of two elements or of two blocks, leaves a rearrangement of the part `pqsort` was called
for (`Rearranged`).  The two loops around the pivot keep the elements equal to it on both ends and, between them, the smaller ones
before the greater ones (`IsSplit`); each turn brings `pb` and `pc` nearer (`SplitStepIs`), so they cross (`PartitionIs`), and two
exchanges of blocks, each as long as the shorter of two neighbours, bring the equal ones to the middle (`BlocksPass`,
`GatheredIs`).  What the window should hold is said of places and not of the window alone, which makes it inductive:
an element in the window has none after it that belongs before it and none before it that belongs after it, among those the call
is for (`InWindow`).  If that holds among the smaller and among the greater elements it holds among all (`WindowJoins`); and a part
that is not sorted because the window does not reach it has no place in the window (`SubIs`, the comparisons of `_pqsort` with
`lrange` and `rrange`).  The calls for fewer elements come first (`SortExists`, `PqSortWorks`); fewer than seven, or those among
which the split has exchanged nothing, are sorted by insertion.  That the element at a place is the one of its rank in the list
is then a count along the rearrangement (`FewerBefore`, `EnoughBefore`).

**Induction.**  The library's induction theorems take an operator as a parameter, which the provers
cannot instantiate.  `NatRange` in `Induction` is the same fact about a set, from
`WellFoundedInduction`: it serves where a loop is written as a recursive function.

**Only model-checked.**  Liveness (fairness and ENABLED are out of the prover's reach): `ChildIsReaped`,
`DueSaveHappens`, `SyncServed`, `Served`.

## Disagreements with the documentation

The four violation runs; each is a finding in `PROJECT.json` with the sentence it contradicts: an
orphaned child overwrites the dump of SHUTDOWN; a change made during a save may never be saved; FLUSHALL with `dirty` at 1 is not
replicated; a second SYNC may abort the master.

Two more were met on the way, which the models have as exceptions and no run shows.  EXPIRE changes the dataset without being
counted, so it is not replicated, though `ReplicationHowto.html:30` says that slaves get "all the new commands received from clients, that had the
effect of a dataset modification": after SET a 100, EXPIRE a 60, INCR a the master has 1 and its slave 101 (a SINTERSTORE
that deletes its target is not replicated either, `redis.c:1154-1158`); both are the operation `silent` of `Replication`, with the excuse `unfed`.
And a SORT whose LIMIT ends behind the last `int` announces elements that it does not send (`redis.c:1591`): LIMIT 2 2147483647 of
three elements announces 2147483647; `IntsFit` leaves it out of `SortsAreRight`.

The passing properties have exceptions of their own, each a history variable or an excuse that the model sets where the code
does something a reader may not expect: `torn`, `unfed`, `late`, `killed`, `mixed`, `held`, `early`, `seen`, and the file kinds `empty` and `cut` of `SlaveSync`.
A property holds until its exception has happened, and the hazards in `PROJECT.json` name the lines; where the code
simply does the wrong thing no property claims to exclude it, and the hazard's note says so.  `DueSaveHappens` is
about what a save point counts while no child saves: what is changed during a save is `ChangesAreSaved`, which fails.

## What the models leave out

- *Persistence.*  An `fsync` that fails is not told from one that succeeds (the code ignores the result), and a rename
  is durable at once.
- *Persistence, Replication.*  Datasets are numbers; the blocks of a dump on the wire are one step (they are taken one by one in
  `Clients`).
- *SlaveSync.*  Reading the answer to SYNC and the dump are two steps with failures between them; a
  master that is no redis server is not considered.  A short write of a block before the last, with whole ones behind it,
  would leave a dump with a hole, which is not a `cut` one; the slave's `close` (`redis.c:1993`) and the missing `fsync`
  are not modelled.
- *Keyspace.*  The clock moves between commands, not within one.  Strings are numbers; the encodings are in `Rdb`.
- *Clients.*  No password and no sharing of objects; `SYNC` always starts a save of its own (sharing is in
  `Replication`); the word of a command stands for the whole rest of its line; failures only on the connections in `Unsteady`.
  The idle time is not counted: `closeTimedoutClients` may free any client but a slave.
- *Dict.*  No iterator is open while the table is changed other than by deleting the entry it gave,
  which is all the code does.
- *Algorithms.*  Keys are not empty and patterns are well-formed; `LRANGE` and `LTRIM` with an end before the
  head are left out (the code clamps it to 0 and gives the first element); `SORT` without `LIMIT` uses the C
  library's `qsort`, taken here as `pqsort` with a full window; the compression is a stand-in with LZF's
  interface; lengths go up to 2^31 - 1.  `int` arithmetic that overflows is undefined in C; it is taken to wrap around, as
  gcc's additions and multiplications do.  `atoi` of a number that is no `int` is left out.

## Not modelled

Compression (`lzf_c.c`, `lzf_d.c`: third-party code), memory (`zmalloc`, object sharing, `objfreelist`,
reference counts: below the level of these models), thin wrappers of system calls (`anet.c`),
configuration, logging, INFO and AUTH (parsing and output that no other state depends on), `redis-cli`,
the benchmark and the client libraries (separate programs that speak the protocol and keep no state of
interest).  Partly modelled: linked lists (index arithmetic and walks, in `Values`; elsewhere a list is a sequence), `sds` (its functions on
content, not its memory), idle times.

What would come next: two hazards in `PROJECT.json` that ask for more model.  The pointers of SUNION and SDIFF to sets that later lookups
may free ask for a clock that moves within a command; INFO's use of `server.master` for INFO as an operation of `SlaveSync`.
