-------------------------- MODULE PersistenceProofs --------------------------
(***************************************************************************)
(* What Persistence guarantees for every number of children, every set of  *)
(* save points, every mix of commands and failures and every bound.        *)
(***************************************************************************)
EXTENDS Persistence, TLAPS

\* The names Server, Dump and Gone are no slots, and differ from one another.
LEMMA SlotsAreNotFiles ==
  /\ Server \notin Slots /\ Dump \notin Procs /\ Gone \notin Procs
  /\ Server \in Procs /\ Slots \subseteq Procs
  /\ Procs \subseteq Files /\ Dump \in Files /\ Gone \in Files
  /\ Dump # Gone
<1>1. Server # Dump /\ Server # Gone /\ Dump # Gone
  BY DEF Server, Dump, Gone
<1>2. Server \notin Slots /\ Dump \notin Slots /\ Gone \notin Slots
  BY SlotsAssumption
<1> QED
  BY <1>1, <1>2 DEF Procs, Files

\* The type invariant in parts, for the provers: the Booleans apart from the numbers.
BooleansOK == up \in BOOLEAN /\ bgsave \in BOOLEAN /\ torn \in BOOLEAN

ServerOK ==
  /\ job \in {"none", "SAVE", "FLUSHALL", "SHUTDOWN"}
  /\ writes \in 0 .. MaxWrites
  /\ mem \in 0 .. writes
  /\ dirty \in Nat
  /\ age \in 0 .. MaxAge
  /\ kids \subseteq Slots

SavingOK ==
  /\ stage \in [Procs -> Stages]
  /\ image \in [Procs -> 0 .. writes]
  /\ file \in [Procs -> Files]
  /\ young \subseteq Procs

DiskOK ==
  /\ holds \in [Files -> 0 .. writes]
  /\ state \in [Files -> Contents]
  /\ mixed \subseteq Files

\* TypeOK, part by part.
LEMMA TypeParts == TypeOK <=> BooleansOK /\ ServerOK /\ SavingOK /\ DiskOK
BY DEF TypeOK, BooleansOK, ServerOK, SavingOK, DiskOK

\* The server starts in a state of the right type.
LEMMA InitTypeOK == Init => TypeOK
<1> SUFFICES ASSUME Init PROVE TypeOK
  OBVIOUS
<1>1. ServerOK
  BY ParamsAssumption DEF Init, ServerOK
<1>2. SavingOK
  BY SlotsAreNotFiles DEF Init, SavingOK, Stages
<1>3. DiskOK
  BY ParamsAssumption DEF Init, DiskOK, Contents
<1>4. BooleansOK
  BY DEF Init, BooleansOK
<1> QED
  BY <1>1, <1>2, <1>3, <1>4, TypeParts

\* Every step preserves the type invariant.
LEMMA NextTypeOK == TypeOK /\ [Next]_vars => TypeOK'
<1> SUFFICES ASSUME TypeOK, [Next]_vars PROVE TypeOK'
  OBVIOUS
<1>0. BooleansOK /\ ServerOK /\ SavingOK /\ DiskOK
  BY TypeParts
<1>1. CASE Write
  <2>1. ServerOK'
    BY <1>0, <1>1, ParamsAssumption, SlotsAreNotFiles
    DEF ServerOK, SavingOK, DiskOK, Write, saving, disk
  <2>2. SavingOK'
    BY <1>0, <1>1, SlotsAreNotFiles
    DEF ServerOK, SavingOK, Stages, InRdbSave, Exited, Write, saving, disk
  <2>3. DiskOK'
    BY <1>0, <1>1, SlotsAreNotFiles
    DEF ServerOK, SavingOK, DiskOK, Contents, Write, saving, disk
  <2>4. BooleansOK'
    BY <1>0, <1>1 DEF BooleansOK, Write, saving, disk
  <2> QED
    BY <2>1, <2>2, <2>3, <2>4 DEF TypeOK, BooleansOK, ServerOK, SavingOK, DiskOK
<1>2. CASE Save
  <2>1. ServerOK'
    BY <1>0, <1>2, ParamsAssumption, SlotsAreNotFiles
    DEF ServerOK, SavingOK, DiskOK, Save, Saves, disk
  <2>2. SavingOK'
    BY <1>0, <1>2, SlotsAreNotFiles
    DEF ServerOK, SavingOK, Stages, InRdbSave, Exited, Save, Saves, disk
  <2>3. DiskOK'
    BY <1>0, <1>2, SlotsAreNotFiles
    DEF ServerOK, SavingOK, DiskOK, Contents, Save, Saves, disk
  <2>4. BooleansOK'
    BY <1>0, <1>2 DEF BooleansOK, Save, Saves, disk
  <2> QED
    BY <2>1, <2>2, <2>3, <2>4 DEF TypeOK, BooleansOK, ServerOK, SavingOK, DiskOK
<1>3. CASE Bgsave
  <2>1. ServerOK'
    BY <1>0, <1>3, ParamsAssumption, SlotsAreNotFiles
    DEF ServerOK, SavingOK, DiskOK, Bgsave, RdbSaveBackground, disk
  <2>2. SavingOK'
    BY <1>0, <1>3, SlotsAreNotFiles
    DEF ServerOK, SavingOK, Stages, InRdbSave, Exited, Bgsave, RdbSaveBackground, disk
  <2>3. DiskOK'
    BY <1>0, <1>3, SlotsAreNotFiles
    DEF ServerOK, SavingOK, DiskOK, Contents, Bgsave, RdbSaveBackground, disk
  <2>4. BooleansOK'
    BY <1>0, <1>3 DEF BooleansOK, Bgsave, RdbSaveBackground, disk
  <2> QED
    BY <2>1, <2>2, <2>3, <2>4 DEF TypeOK, BooleansOK, ServerOK, SavingOK, DiskOK
<1>4. CASE Flushall
  <2>1. ServerOK'
    BY <1>0, <1>4, ParamsAssumption, SlotsAreNotFiles
    DEF ServerOK, SavingOK, DiskOK, Flushall, Saves, disk
  <2>2. SavingOK'
    BY <1>0, <1>4, SlotsAreNotFiles
    DEF ServerOK, SavingOK, Stages, InRdbSave, Exited, Flushall, Saves, disk
  <2>3. DiskOK'
    BY <1>0, <1>4, SlotsAreNotFiles
    DEF ServerOK, SavingOK, DiskOK, Contents, Flushall, Saves, disk
  <2>4. BooleansOK'
    BY <1>0, <1>4 DEF BooleansOK, Flushall, Saves, disk
  <2> QED
    BY <2>1, <2>2, <2>3, <2>4 DEF TypeOK, BooleansOK, ServerOK, SavingOK, DiskOK
<1>5. CASE Shutdown
  <2>1. ServerOK'
    BY <1>0, <1>5, ParamsAssumption, SlotsAreNotFiles
    DEF ServerOK, SavingOK, DiskOK, Shutdown, Saves, disk
  <2>2. SavingOK'
    BY <1>0, <1>5, SlotsAreNotFiles
    DEF ServerOK, SavingOK, Stages, InRdbSave, Exited, Shutdown, Saves, disk
  <2>3. DiskOK'
    BY <1>0, <1>5, SlotsAreNotFiles
    DEF ServerOK, SavingOK, DiskOK, Contents, Shutdown, Saves, disk
  <2>4. BooleansOK'
    BY <1>0, <1>5 DEF BooleansOK, Shutdown, Saves, disk
  <2> QED
    BY <2>1, <2>2, <2>3, <2>4 DEF TypeOK, BooleansOK, ServerOK, SavingOK, DiskOK
<1>6. CASE ServerSaved
  <2>1. ServerOK'
    BY <1>0, <1>6, ParamsAssumption, SlotsAreNotFiles
    DEF ServerOK, SavingOK, DiskOK, ServerSaved, Install, Dies
  <2>2. SavingOK'
    BY <1>0, <1>6, SlotsAreNotFiles
    DEF ServerOK, SavingOK, Stages, InRdbSave, Exited, ServerSaved, Install, Dies
  <2>3. DiskOK'
    BY <1>0, <1>6, SlotsAreNotFiles
    DEF ServerOK, SavingOK, DiskOK, Contents, ServerSaved, Install, Dies
  <2>4. BooleansOK'
    BY <1>0, <1>6 DEF BooleansOK, ServerSaved, Install, Dies
  <2> QED
    BY <2>1, <2>2, <2>3, <2>4 DEF TypeOK, BooleansOK, ServerOK, SavingOK, DiskOK
<1>7. CASE ServerFailed
  <2>1. ServerOK'
    BY <1>0, <1>7, ParamsAssumption, SlotsAreNotFiles
    DEF ServerOK, SavingOK, DiskOK, ServerFailed, Fails, Forget, disk
  <2>2. SavingOK'
    BY <1>0, <1>7, SlotsAreNotFiles
    DEF ServerOK, SavingOK, Stages, InRdbSave, Exited, ServerFailed, Fails, Forget, disk
  <2>3. DiskOK'
    BY <1>0, <1>7, SlotsAreNotFiles
    DEF ServerOK, SavingOK, DiskOK, Contents, ServerFailed, Fails, Forget, disk
  <2>4. BooleansOK'
    BY <1>0, <1>7 DEF BooleansOK, ServerFailed, Fails, Forget, disk
  <2> QED
    BY <2>1, <2>2, <2>3, <2>4 DEF TypeOK, BooleansOK, ServerOK, SavingOK, DiskOK
<1>8. CASE CronReap
  <2>1. ServerOK'
    BY <1>0, <1>8, ParamsAssumption, SlotsAreNotFiles
    DEF ServerOK, SavingOK, DiskOK, CronReap, HasEnded, DirtyAfter, RdbSaveBackground, disk
  <2>2. SavingOK'
    BY <1>0, <1>8, SlotsAreNotFiles
    DEF ServerOK, SavingOK, Stages, InRdbSave, Exited, CronReap, HasEnded, DirtyAfter, RdbSaveBackground, disk
  <2>3. DiskOK'
    BY <1>0, <1>8, SlotsAreNotFiles
    DEF ServerOK, SavingOK, DiskOK, Contents, CronReap, HasEnded, DirtyAfter, RdbSaveBackground, disk
  <2>4. BooleansOK'
    BY <1>0, <1>8 DEF BooleansOK, CronReap, HasEnded, DirtyAfter, RdbSaveBackground, disk
  <2> QED
    BY <2>1, <2>2, <2>3, <2>4 DEF TypeOK, BooleansOK, ServerOK, SavingOK, DiskOK
<1>9. CASE CronSave
  <2>1. ServerOK'
    BY <1>0, <1>9, ParamsAssumption, SlotsAreNotFiles
    DEF ServerOK, SavingOK, DiskOK, CronSave, RdbSaveBackground, disk
  <2>2. SavingOK'
    BY <1>0, <1>9, SlotsAreNotFiles
    DEF ServerOK, SavingOK, Stages, InRdbSave, Exited, CronSave, RdbSaveBackground, disk
  <2>3. DiskOK'
    BY <1>0, <1>9, SlotsAreNotFiles
    DEF ServerOK, SavingOK, DiskOK, Contents, CronSave, RdbSaveBackground, disk
  <2>4. BooleansOK'
    BY <1>0, <1>9 DEF BooleansOK, CronSave, RdbSaveBackground, disk
  <2> QED
    BY <2>1, <2>2, <2>3, <2>4 DEF TypeOK, BooleansOK, ServerOK, SavingOK, DiskOK
<1>10. ASSUME NEW p \in Procs, Open(p) PROVE TypeOK'
  <2>1. ServerOK'
    BY <1>0, <1>10, ParamsAssumption, SlotsAreNotFiles
    DEF ServerOK, SavingOK, DiskOK, Open, SameName, server
  <2>2. SavingOK'
    BY <1>0, <1>10, SlotsAreNotFiles
    DEF ServerOK, SavingOK, Stages, InRdbSave, Exited, Open, SameName, server
  <2>3. DiskOK'
    BY <1>0, <1>10, SlotsAreNotFiles
    DEF ServerOK, SavingOK, DiskOK, Contents, Open, SameName, server
  <2>4. BooleansOK'
    BY <1>0, <1>10 DEF BooleansOK, Open, SameName, server
  <2> QED
    BY <2>1, <2>2, <2>3, <2>4 DEF TypeOK, BooleansOK, ServerOK, SavingOK, DiskOK
<1>11. ASSUME NEW p \in Procs, Flush(p) PROVE TypeOK'
  <2>1. ServerOK'
    BY <1>0, <1>11, ParamsAssumption, SlotsAreNotFiles
    DEF ServerOK, SavingOK, DiskOK, Flush, server
  <2>2. SavingOK'
    BY <1>0, <1>11, SlotsAreNotFiles
    DEF ServerOK, SavingOK, Stages, InRdbSave, Exited, Flush, server
  <2>3. DiskOK'
    BY <1>0, <1>11, SlotsAreNotFiles
    DEF ServerOK, SavingOK, DiskOK, Contents, Flush, server
  <2>4. BooleansOK'
    BY <1>0, <1>11 DEF BooleansOK, Flush, server
  <2> QED
    BY <2>1, <2>2, <2>3, <2>4 DEF TypeOK, BooleansOK, ServerOK, SavingOK, DiskOK
<1>12. ASSUME NEW p \in Procs, Sync(p) PROVE TypeOK'
  <2>1. ServerOK'
    BY <1>0, <1>12, ParamsAssumption, SlotsAreNotFiles
    DEF ServerOK, SavingOK, DiskOK, Sync, server
  <2>2. SavingOK'
    BY <1>0, <1>12, SlotsAreNotFiles
    DEF ServerOK, SavingOK, Stages, InRdbSave, Exited, Sync, server
  <2>3. DiskOK'
    BY <1>0, <1>12, SlotsAreNotFiles
    DEF ServerOK, SavingOK, DiskOK, Contents, Sync, server
  <2>4. BooleansOK'
    BY <1>0, <1>12 DEF BooleansOK, Sync, server
  <2> QED
    BY <2>1, <2>2, <2>3, <2>4 DEF TypeOK, BooleansOK, ServerOK, SavingOK, DiskOK
<1>13. ASSUME NEW p \in Slots, ChildSaved(p) PROVE TypeOK'
  <2>1. ServerOK'
    BY <1>0, <1>13, ParamsAssumption, SlotsAreNotFiles
    DEF ServerOK, SavingOK, DiskOK, ChildSaved, Install, ChildExits, server
  <2>2. SavingOK'
    BY <1>0, <1>13, SlotsAreNotFiles
   
    DEF ServerOK, SavingOK, Stages, InRdbSave, Exited, ChildSaved, Install, ChildExits,
        server
  <2>3. DiskOK'
    BY <1>0, <1>13, SlotsAreNotFiles
    DEF ServerOK, SavingOK, DiskOK, Contents, ChildSaved, Install, ChildExits, server
  <2>4. BooleansOK'
    BY <1>0, <1>13 DEF BooleansOK, ChildSaved, Install, ChildExits, server
  <2> QED
    BY <2>1, <2>2, <2>3, <2>4 DEF TypeOK, BooleansOK, ServerOK, SavingOK, DiskOK
<1>14. ASSUME NEW p \in Slots, ChildFailed(p) PROVE TypeOK'
  <2>1. ServerOK'
    BY <1>0, <1>14, ParamsAssumption, SlotsAreNotFiles
    DEF ServerOK, SavingOK, DiskOK, ChildFailed, Fails, Forget, ChildExits, server,
        disk
  <2>2. SavingOK'
    BY <1>0, <1>14, SlotsAreNotFiles
   
    DEF ServerOK, SavingOK, Stages, InRdbSave, Exited, ChildFailed, Fails, Forget,
        ChildExits, server, disk
  <2>3. DiskOK'
    BY <1>0, <1>14, SlotsAreNotFiles
    DEF ServerOK, SavingOK, DiskOK, Contents, ChildFailed, Fails, Forget, ChildExits,
        server, disk
  <2>4. BooleansOK'
    BY <1>0, <1>14 DEF BooleansOK, ChildFailed, Fails, Forget, ChildExits, server, disk
  <2> QED
    BY <2>1, <2>2, <2>3, <2>4 DEF TypeOK, BooleansOK, ServerOK, SavingOK, DiskOK
<1>15. ASSUME NEW p \in Slots, ChildKilled(p) PROVE TypeOK'
  <2>1. ServerOK'
    BY <1>0, <1>15, ParamsAssumption, SlotsAreNotFiles
    DEF ServerOK, SavingOK, DiskOK, ChildKilled, Abandons, Forget, ChildExits, server,
        disk
  <2>2. SavingOK'
    BY <1>0, <1>15, SlotsAreNotFiles
   
    DEF ServerOK, SavingOK, Stages, InRdbSave, Exited, ChildKilled, Abandons, Forget,
        ChildExits, server, disk
  <2>3. DiskOK'
    BY <1>0, <1>15, SlotsAreNotFiles
    DEF ServerOK, SavingOK, DiskOK, Contents, ChildKilled, Abandons, Forget,
        ChildExits, server, disk
  <2>4. BooleansOK'
    BY <1>0, <1>15
    DEF BooleansOK, ChildKilled, Abandons, Forget, ChildExits, server, disk
  <2> QED
    BY <2>1, <2>2, <2>3, <2>4 DEF TypeOK, BooleansOK, ServerOK, SavingOK, DiskOK
<1>16. CASE Tick
  <2>1. ServerOK'
    BY <1>0, <1>16, ParamsAssumption, SlotsAreNotFiles
    DEF ServerOK, SavingOK, DiskOK, Tick, disk
  <2>2. SavingOK'
    BY <1>0, <1>16, SlotsAreNotFiles
    DEF ServerOK, SavingOK, Stages, InRdbSave, Exited, Tick, disk
  <2>3. DiskOK'
    BY <1>0, <1>16, SlotsAreNotFiles
    DEF ServerOK, SavingOK, DiskOK, Contents, Tick, disk
  <2>4. BooleansOK'
    BY <1>0, <1>16 DEF BooleansOK, Tick, disk
  <2> QED
    BY <2>1, <2>2, <2>3, <2>4 DEF TypeOK, BooleansOK, ServerOK, SavingOK, DiskOK
<1>17. CASE Crash
  <2>1. ServerOK'
    BY <1>0, <1>17, ParamsAssumption, SlotsAreNotFiles
    DEF ServerOK, SavingOK, DiskOK, Crash, Dies, Abandons, Forget, disk
  <2>2. SavingOK'
    BY <1>0, <1>17, SlotsAreNotFiles
   
    DEF ServerOK, SavingOK, Stages, InRdbSave, Exited, Crash, Dies, Abandons, Forget,
        disk
  <2>3. DiskOK'
    BY <1>0, <1>17, SlotsAreNotFiles
    DEF ServerOK, SavingOK, DiskOK, Contents, Crash, Dies, Abandons, Forget, disk
  <2>4. BooleansOK'
    BY <1>0, <1>17 DEF BooleansOK, Crash, Dies, Abandons, Forget, disk
  <2> QED
    BY <2>1, <2>2, <2>3, <2>4 DEF TypeOK, BooleansOK, ServerOK, SavingOK, DiskOK
<1>18. CASE PowerLoss
  <2>1. ServerOK'
    BY <1>0, <1>18, ParamsAssumption, SlotsAreNotFiles
    DEF ServerOK, SavingOK, DiskOK, PowerLoss
  <2>2. SavingOK'
    BY <1>0, <1>18, SlotsAreNotFiles
    DEF ServerOK, SavingOK, Stages, InRdbSave, Exited, PowerLoss
  <2>3. DiskOK'
    BY <1>0, <1>18, SlotsAreNotFiles DEF ServerOK, SavingOK, DiskOK, Contents, PowerLoss
  <2>4. BooleansOK'
    BY <1>0, <1>18 DEF BooleansOK, PowerLoss
  <2> QED
    BY <2>1, <2>2, <2>3, <2>4 DEF TypeOK, BooleansOK, ServerOK, SavingOK, DiskOK
<1>19. CASE Restart
  <2>1. ServerOK'
    BY <1>0, <1>19, ParamsAssumption, SlotsAreNotFiles
    DEF ServerOK, SavingOK, DiskOK, Restart, saving, disk
  <2>2. SavingOK'
    BY <1>0, <1>19, SlotsAreNotFiles
    DEF ServerOK, SavingOK, Stages, InRdbSave, Exited, Restart, saving, disk
  <2>3. DiskOK'
    BY <1>0, <1>19, SlotsAreNotFiles
    DEF ServerOK, SavingOK, DiskOK, Contents, Restart, saving, disk
  <2>4. BooleansOK'
    BY <1>0, <1>19 DEF BooleansOK, Restart, saving, disk
  <2> QED
    BY <2>1, <2>2, <2>3, <2>4 DEF TypeOK, BooleansOK, ServerOK, SavingOK, DiskOK
<1>20. CASE UNCHANGED vars
  <2>1. ServerOK'
    BY <1>0, <1>20, ParamsAssumption, SlotsAreNotFiles
    DEF ServerOK, SavingOK, DiskOK, vars, server, saving, disk
  <2>2. SavingOK'
    BY <1>0, <1>20, SlotsAreNotFiles
    DEF ServerOK, SavingOK, Stages, InRdbSave, Exited, vars, server, saving, disk
  <2>3. DiskOK'
    BY <1>0, <1>20, SlotsAreNotFiles
    DEF ServerOK, SavingOK, DiskOK, Contents, vars, server, saving, disk
  <2>4. BooleansOK'
    BY <1>0, <1>20 DEF BooleansOK, vars, server, saving, disk
  <2> QED
    BY <2>1, <2>2, <2>3, <2>4 DEF TypeOK, BooleansOK, ServerOK, SavingOK, DiskOK
<1> QED
  BY <1>1, <1>2, <1>3, <1>4, <1>5, <1>6, <1>7, <1>8, <1>9, <1>10, <1>11, <1>12,
     <1>13, <1>14, <1>15, <1>16, <1>17, <1>18, <1>19, <1>20 DEF Next


\* Type correctness: no child gets lost from the process table, no dataset of the
\* future is saved, no counter goes below zero, however often serverCron resets it.
THEOREM TypeCorrect == Spec => []TypeOK
<1>1. TypeOK /\ [Next]_vars => TypeOK'
  BY NextTypeOK
<1> QED
  BY InitTypeOK, <1>1, PTL DEF Spec

-----------------------------------------------------------------------------
(* The inductive invariant.  DumpIntact needs to know what is in the file a *)
(* process is about to rename, hence FilesApart; SaveIsDurable that it is   *)
(* the server's own dataset, hence ServerAtSave.                            *)

Inv == TypeOK /\ ChildAccounted /\ ServerAtSave /\ FilesApart /\ DumpIntact

\* The inductive invariant holds at the start,
LEMMA InitInv == Init => Inv
<1> SUFFICES ASSUME Init PROVE Inv
  OBVIOUS
<1>1. TypeOK
  BY InitTypeOK
<1>2. ChildAccounted
  BY DEF Init, ChildAccounted
<1>3. ServerAtSave /\ FilesApart
  BY SlotsAreNotFiles DEF Init, ServerAtSave, FilesApart, InRdbSave, Exited, HasFile
<1>4. DumpIntact
  BY SlotsAreNotFiles DEF Init, DumpIntact, DumpIsWhole
<1> QED
  BY <1>1, <1>2, <1>3, <1>4 DEF Inv

\* and every step of the server, its children and the environment preserves it.
LEMMA NextInv == Inv /\ [Next]_vars => Inv'
<1> SUFFICES ASSUME Inv, [Next]_vars PROVE Inv'
  OBVIOUS
<1> USE SlotsAreNotFiles
<1>0. /\ TypeOK' /\ SavingOK /\ DiskOK /\ kids \subseteq Slots
      /\ ChildAccounted /\ ServerAtSave /\ FilesApart /\ DumpIntact
  BY NextTypeOK DEF Inv, TypeOK, SavingOK, DiskOK
<1>1. CASE Write
  <2>1. ChildAccounted'
    BY <1>0, <1>1
    DEF ChildAccounted, SavingOK, Exited, InRdbSave, Write, saving, disk, Idle
  <2>2. ServerAtSave'
    BY <1>0, <1>1
    DEF ServerAtSave, SavingOK, Exited, InRdbSave, Write, saving, disk, Idle
  <2>3. FilesApart'
    BY <1>0, <1>1
    DEF FilesApart, SavingOK, DiskOK, HasFile, InRdbSave, Exited, Write, saving, disk,
        Idle
  <2>4. DumpIntact'
    BY <1>0, <1>1
    DEF DumpIntact, DumpIsWhole, FilesApart, HasFile, SavingOK, DiskOK, Write, saving,
        disk, Idle
  <2> QED
    BY <1>0, <2>1, <2>2, <2>3, <2>4 DEF Inv
<1>2. CASE Save
  <2>1. ChildAccounted'
    BY <1>0, <1>2
    DEF ChildAccounted, SavingOK, Exited, InRdbSave, Save, Saves, disk, Idle
  <2>2. ServerAtSave'
    BY <1>0, <1>2 DEF ServerAtSave, SavingOK, Exited, InRdbSave, Save, Saves, disk, Idle
  <2>3. FilesApart'
    BY <1>0, <1>2
    DEF FilesApart, ServerAtSave, SavingOK, DiskOK, HasFile, InRdbSave, Exited, Save,
        Saves, disk, Idle
  <2>4. DumpIntact'
    BY <1>0, <1>2
    DEF DumpIntact, DumpIsWhole, FilesApart, HasFile, SavingOK, DiskOK, Save, Saves,
        disk, Idle
  <2> QED
    BY <1>0, <2>1, <2>2, <2>3, <2>4 DEF Inv
<1>3. CASE Bgsave
  <2>1. ChildAccounted'
    BY <1>0, <1>3
    DEF ChildAccounted, SavingOK, Exited, InRdbSave, Bgsave, RdbSaveBackground, disk,
        Idle
  <2>2. ServerAtSave'
    BY <1>0, <1>3
    DEF ServerAtSave, SavingOK, Exited, InRdbSave, Bgsave, RdbSaveBackground, disk,
        Idle
  <2>3. FilesApart'
    BY <1>0, <1>3
    DEF FilesApart, SavingOK, DiskOK, HasFile, InRdbSave, Exited, Bgsave,
        RdbSaveBackground, disk, Idle
  <2>4. DumpIntact'
    BY <1>0, <1>3
    DEF DumpIntact, DumpIsWhole, FilesApart, HasFile, SavingOK, DiskOK, Bgsave,
        RdbSaveBackground, disk, Idle
  <2> QED
    BY <1>0, <2>1, <2>2, <2>3, <2>4 DEF Inv
<1>4. CASE Flushall
  <2>1. ChildAccounted'
    BY <1>0, <1>4
    DEF ChildAccounted, SavingOK, Exited, InRdbSave, Flushall, Saves, disk, Idle
  <2>2. ServerAtSave'
    BY <1>0, <1>4
    DEF ServerAtSave, SavingOK, Exited, InRdbSave, Flushall, Saves, disk, Idle
  <2>3. FilesApart'
    BY <1>0, <1>4
    DEF FilesApart, ServerAtSave, SavingOK, DiskOK, HasFile, InRdbSave, Exited,
        Flushall, Saves, disk, Idle
  <2>4. DumpIntact'
    BY <1>0, <1>4
    DEF DumpIntact, DumpIsWhole, FilesApart, HasFile, SavingOK, DiskOK, Flushall,
        Saves, disk, Idle
  <2> QED
    BY <1>0, <2>1, <2>2, <2>3, <2>4 DEF Inv
<1>5. CASE Shutdown
  <2>1. ChildAccounted'
    BY <1>0, <1>5
    DEF ChildAccounted, SavingOK, Exited, InRdbSave, Shutdown, Saves, disk, Idle
  <2>2. ServerAtSave'
    BY <1>0, <1>5
    DEF ServerAtSave, SavingOK, Exited, InRdbSave, Shutdown, Saves, disk, Idle
  <2>3. FilesApart'
    BY <1>0, <1>5
    DEF FilesApart, ServerAtSave, SavingOK, DiskOK, HasFile, InRdbSave, Exited,
        Shutdown, Saves, disk, Idle
  <2>4. DumpIntact'
    BY <1>0, <1>5
    DEF DumpIntact, DumpIsWhole, FilesApart, HasFile, SavingOK, DiskOK, Shutdown,
        Saves, disk, Idle
  <2> QED
    BY <1>0, <2>1, <2>2, <2>3, <2>4 DEF Inv
<1>6. CASE ServerSaved
  <2>1. ChildAccounted'
    BY <1>0, <1>6
    DEF ChildAccounted, SavingOK, Exited, InRdbSave, ServerSaved, Install, Dies
  <2>2. ServerAtSave'
    BY <1>0, <1>6
    DEF ServerAtSave, SavingOK, Exited, InRdbSave, ServerSaved, Install, Dies
  <2>3. FilesApart'
    BY <1>0, <1>6
    DEF FilesApart, SavingOK, DiskOK, HasFile, InRdbSave, Exited, ServerSaved, Install,
        Dies
  <2>4. DumpIntact'
    BY <1>0, <1>6
    DEF DumpIntact, DumpIsWhole, FilesApart, HasFile, SavingOK, DiskOK, ServerSaved,
        Install, Dies
  <2> QED
    BY <1>0, <2>1, <2>2, <2>3, <2>4 DEF Inv
<1>7. CASE ServerFailed
  <2>1. ChildAccounted'
    BY <1>0, <1>7
    DEF ChildAccounted, SavingOK, Exited, InRdbSave, ServerFailed, Fails, Forget, disk
  <2>2. ServerAtSave'
    BY <1>0, <1>7
    DEF ServerAtSave, SavingOK, Exited, InRdbSave, ServerFailed, Fails, Forget, disk
  <2>3. FilesApart'
    BY <1>0, <1>7
    DEF FilesApart, SavingOK, DiskOK, HasFile, InRdbSave, Exited, ServerFailed, Fails,
        Forget, disk
  <2>4. DumpIntact'
    BY <1>0, <1>7
    DEF DumpIntact, DumpIsWhole, FilesApart, HasFile, SavingOK, DiskOK, ServerFailed,
        Fails, Forget, disk
  <2> QED
    BY <1>0, <2>1, <2>2, <2>3, <2>4 DEF Inv
<1>8. CASE CronReap
  <2>1. ChildAccounted'
    BY <1>0, <1>8
    DEF ChildAccounted, SavingOK, Exited, InRdbSave, CronReap, HasEnded, DirtyAfter, RdbSaveBackground, disk,
        Idle
  <2>2. ServerAtSave'
    BY <1>0, <1>8
    DEF ServerAtSave, SavingOK, Exited, InRdbSave, CronReap, HasEnded, DirtyAfter, RdbSaveBackground, disk,
        Idle
  <2>3. FilesApart'
    BY <1>0, <1>8
    DEF FilesApart, SavingOK, DiskOK, HasFile, InRdbSave, Exited, CronReap, HasEnded, DirtyAfter,
        RdbSaveBackground, disk, Idle
  <2>4. DumpIntact'
    BY <1>0, <1>8
    DEF DumpIntact, DumpIsWhole, FilesApart, HasFile, SavingOK, DiskOK, CronReap, HasEnded, DirtyAfter,
        RdbSaveBackground, disk, Idle
  <2> QED
    BY <1>0, <2>1, <2>2, <2>3, <2>4 DEF Inv
<1>9. CASE CronSave
  <2>1. ChildAccounted'
    BY <1>0, <1>9
    DEF ChildAccounted, SavingOK, Exited, InRdbSave, CronSave, RdbSaveBackground, disk,
        Idle
  <2>2. ServerAtSave'
    BY <1>0, <1>9
    DEF ServerAtSave, SavingOK, Exited, InRdbSave, CronSave, RdbSaveBackground, disk,
        Idle
  <2>3. FilesApart'
    BY <1>0, <1>9
    DEF FilesApart, SavingOK, DiskOK, HasFile, InRdbSave, Exited, CronSave,
        RdbSaveBackground, disk, Idle
  <2>4. DumpIntact'
    BY <1>0, <1>9
    DEF DumpIntact, DumpIsWhole, FilesApart, HasFile, SavingOK, DiskOK, CronSave,
        RdbSaveBackground, disk, Idle
  <2> QED
    BY <1>0, <2>1, <2>2, <2>3, <2>4 DEF Inv
<1>10. ASSUME NEW p \in Procs, Open(p) PROVE Inv'
  <2>1. ChildAccounted'
    BY <1>0, <1>10
    DEF ChildAccounted, SavingOK, Exited, InRdbSave, Open, SameName, server
  <2>2. ServerAtSave'
    BY <1>0, <1>10 DEF ServerAtSave, SavingOK, Exited, InRdbSave, Open, SameName, server
  <2>3. FilesApart'
    BY <1>0, <1>10
    DEF FilesApart, SavingOK, DiskOK, HasFile, InRdbSave, Exited, Open, SameName,
        server
  <2>4. DumpIntact'
    BY <1>0, <1>10
    DEF DumpIntact, DumpIsWhole, FilesApart, HasFile, SavingOK, DiskOK, Open, SameName,
        server
  <2> QED
    BY <1>0, <2>1, <2>2, <2>3, <2>4 DEF Inv
<1>11. ASSUME NEW p \in Procs, Flush(p) PROVE Inv'
  <2>1. ChildAccounted'
    BY <1>0, <1>11 DEF ChildAccounted, SavingOK, Exited, InRdbSave, Flush, server
  <2>2. ServerAtSave'
    BY <1>0, <1>11 DEF ServerAtSave, SavingOK, Exited, InRdbSave, Flush, server
  <2>3. FilesApart'
    BY <1>0, <1>11
    DEF FilesApart, SavingOK, DiskOK, HasFile, InRdbSave, Exited, Flush, server
  <2>4. DumpIntact'
    BY <1>0, <1>11
    DEF DumpIntact, DumpIsWhole, FilesApart, HasFile, SavingOK, DiskOK, Flush, server
  <2> QED
    BY <1>0, <2>1, <2>2, <2>3, <2>4 DEF Inv
<1>12. ASSUME NEW p \in Procs, Sync(p) PROVE Inv'
  <2>1. ChildAccounted'
    BY <1>0, <1>12 DEF ChildAccounted, SavingOK, Exited, InRdbSave, Sync, server
  <2>2. ServerAtSave'
    BY <1>0, <1>12 DEF ServerAtSave, SavingOK, Exited, InRdbSave, Sync, server
  <2>3. FilesApart'
    BY <1>0, <1>12
    DEF FilesApart, SavingOK, DiskOK, HasFile, InRdbSave, Exited, Sync, server
  <2>4. DumpIntact'
    BY <1>0, <1>12
    DEF DumpIntact, DumpIsWhole, FilesApart, HasFile, SavingOK, DiskOK, Sync, server
  <2> QED
    BY <1>0, <2>1, <2>2, <2>3, <2>4 DEF Inv
<1>13. ASSUME NEW p \in Slots, ChildSaved(p) PROVE Inv'
  <2>1. ChildAccounted'
    BY <1>0, <1>13
    DEF ChildAccounted, SavingOK, Exited, InRdbSave, ChildSaved, Install, ChildExits,
        server
  <2>2. ServerAtSave'
    BY <1>0, <1>13
    DEF ServerAtSave, SavingOK, Exited, InRdbSave, ChildSaved, Install, ChildExits,
        server
  <2>3. FilesApart'
    BY <1>0, <1>13
    DEF FilesApart, SavingOK, DiskOK, HasFile, InRdbSave, Exited, ChildSaved, Install,
        ChildExits, server
  <2>4. DumpIntact'
    BY <1>0, <1>13
    DEF DumpIntact, DumpIsWhole, FilesApart, HasFile, SavingOK, DiskOK, ChildSaved,
        Install, ChildExits, server
  <2> QED
    BY <1>0, <2>1, <2>2, <2>3, <2>4 DEF Inv
<1>14. ASSUME NEW p \in Slots, ChildFailed(p) PROVE Inv'
  <2>1. ChildAccounted'
    BY <1>0, <1>14
    DEF ChildAccounted, SavingOK, Exited, InRdbSave, ChildFailed, Fails, Forget,
        ChildExits, server, disk
  <2>2. ServerAtSave'
    BY <1>0, <1>14
    DEF ServerAtSave, SavingOK, Exited, InRdbSave, ChildFailed, Fails, Forget,
        ChildExits, server, disk
  <2>3. FilesApart'
    BY <1>0, <1>14
    DEF FilesApart, SavingOK, DiskOK, HasFile, InRdbSave, Exited, ChildFailed, Fails,
        Forget, ChildExits, server, disk
  <2>4. DumpIntact'
    BY <1>0, <1>14
    DEF DumpIntact, DumpIsWhole, FilesApart, HasFile, SavingOK, DiskOK, ChildFailed,
        Fails, Forget, ChildExits, server, disk
  <2> QED
    BY <1>0, <2>1, <2>2, <2>3, <2>4 DEF Inv
<1>15. ASSUME NEW p \in Slots, ChildKilled(p) PROVE Inv'
  <2>1. ChildAccounted'
    BY <1>0, <1>15
    DEF ChildAccounted, SavingOK, Exited, InRdbSave, ChildKilled, Abandons, Forget,
        ChildExits, server, disk
  <2>2. ServerAtSave'
    BY <1>0, <1>15
    DEF ServerAtSave, SavingOK, Exited, InRdbSave, ChildKilled, Abandons, Forget,
        ChildExits, server, disk
  <2>3. FilesApart'
    BY <1>0, <1>15
    DEF FilesApart, SavingOK, DiskOK, HasFile, InRdbSave, Exited, ChildKilled,
        Abandons, Forget, ChildExits, server, disk
  <2>4. DumpIntact'
    BY <1>0, <1>15
    DEF DumpIntact, DumpIsWhole, FilesApart, HasFile, SavingOK, DiskOK, ChildKilled,
        Abandons, Forget, ChildExits, server, disk
  <2> QED
    BY <1>0, <2>1, <2>2, <2>3, <2>4 DEF Inv
<1>16. CASE Tick
  <2>1. ChildAccounted'
    BY <1>0, <1>16 DEF ChildAccounted, SavingOK, Exited, InRdbSave, Tick, disk
  <2>2. ServerAtSave'
    BY <1>0, <1>16 DEF ServerAtSave, SavingOK, Exited, InRdbSave, Tick, disk
  <2>3. FilesApart'
    BY <1>0, <1>16
    DEF FilesApart, SavingOK, DiskOK, HasFile, InRdbSave, Exited, Tick, disk
  <2>4. DumpIntact'
    BY <1>0, <1>16
    DEF DumpIntact, DumpIsWhole, FilesApart, HasFile, SavingOK, DiskOK, Tick, disk
  <2> QED
    BY <1>0, <2>1, <2>2, <2>3, <2>4 DEF Inv
<1>17. CASE Crash
  <2>1. ChildAccounted'
    BY <1>0, <1>17
    DEF ChildAccounted, SavingOK, Exited, InRdbSave, Crash, Dies, Abandons, Forget,
        disk
  <2>2. ServerAtSave'
    BY <1>0, <1>17
    DEF ServerAtSave, SavingOK, Exited, InRdbSave, Crash, Dies, Abandons, Forget, disk
  <2>3. FilesApart'
    BY <1>0, <1>17
    DEF FilesApart, SavingOK, DiskOK, HasFile, InRdbSave, Exited, Crash, Dies,
        Abandons, Forget, disk
  <2>4. DumpIntact'
    BY <1>0, <1>17
    DEF DumpIntact, DumpIsWhole, FilesApart, HasFile, SavingOK, DiskOK, Crash, Dies,
        Abandons, Forget, disk
  <2> QED
    BY <1>0, <2>1, <2>2, <2>3, <2>4 DEF Inv
<1>18. CASE PowerLoss
  <2>1. ChildAccounted'
    BY <1>0, <1>18 DEF ChildAccounted, SavingOK, Exited, InRdbSave, PowerLoss
  <2>2. ServerAtSave'
    BY <1>0, <1>18 DEF ServerAtSave, SavingOK, Exited, InRdbSave, PowerLoss
  <2>3. FilesApart'
    BY <1>0, <1>18
    DEF FilesApart, SavingOK, DiskOK, HasFile, InRdbSave, Exited, PowerLoss
  <2>4. DumpIntact'
    BY <1>0, <1>18
    DEF DumpIntact, DumpIsWhole, FilesApart, HasFile, SavingOK, DiskOK, PowerLoss
  <2> QED
    BY <1>0, <2>1, <2>2, <2>3, <2>4 DEF Inv
<1>19. CASE Restart
  <2>1. ChildAccounted'
    BY <1>0, <1>19
    DEF ChildAccounted, SavingOK, Exited, InRdbSave, Restart, saving, disk
  <2>2. ServerAtSave'
    BY <1>0, <1>19 DEF ServerAtSave, SavingOK, Exited, InRdbSave, Restart, saving, disk
  <2>3. FilesApart'
    BY <1>0, <1>19
    DEF FilesApart, SavingOK, DiskOK, HasFile, InRdbSave, Exited, Restart, saving,
        disk
  <2>4. DumpIntact'
    BY <1>0, <1>19
    DEF DumpIntact, DumpIsWhole, FilesApart, HasFile, SavingOK, DiskOK, Restart,
        saving, disk
  <2> QED
    BY <1>0, <2>1, <2>2, <2>3, <2>4 DEF Inv
<1>20. CASE UNCHANGED vars
  <2>1. ChildAccounted'
    BY <1>0, <1>20
    DEF ChildAccounted, SavingOK, Exited, InRdbSave, vars, server, saving, disk
  <2>2. ServerAtSave'
    BY <1>0, <1>20
    DEF ServerAtSave, SavingOK, Exited, InRdbSave, vars, server, saving, disk
  <2>3. FilesApart'
    BY <1>0, <1>20
    DEF FilesApart, SavingOK, DiskOK, HasFile, InRdbSave, Exited, vars, server, saving,
        disk
  <2>4. DumpIntact'
    BY <1>0, <1>20
    DEF DumpIntact, DumpIsWhole, FilesApart, HasFile, SavingOK, DiskOK, vars, server,
        saving, disk
  <2> QED
    BY <1>0, <2>1, <2>2, <2>3, <2>4 DEF Inv
<1> QED
  BY <1>1, <1>2, <1>3, <1>4, <1>5, <1>6, <1>7, <1>8, <1>9, <1>10, <1>11, <1>12,
     <1>13, <1>14, <1>15, <1>16, <1>17, <1>18, <1>19, <1>20 DEF Next


\* The inductive invariant is an invariant.
LEMMA Invariance == Spec => []Inv
<1>1. Inv /\ [Next]_vars => Inv'
  BY NextInv
<1> QED
  BY InitInv, <1>1, PTL DEF Spec

\* server.bgsaveinprogress counts the children of the server: at most one, and
\* none that wait4 would not find, whatever fails and whatever commands arrive.
THEOREM OneChildAtMost == Spec => []ChildAccounted
<1>1. Inv => ChildAccounted
  BY DEF Inv
<1> QED
  BY Invariance, <1>1, PTL

\* The server is in rdbSave exactly while SAVE, FLUSHALL or SHUTDOWN keeps it
\* there, and it saves the dataset it has in memory: nothing else runs meanwhile.
THEOREM ServerSavesItsMemory == Spec => []ServerAtSave
<1>1. Inv => ServerAtSave
  BY DEF Inv
<1> QED
  BY <1>1, Invariance, PTL

\* No two processes in rdbSave share a temporary file that nothing tore.
THEOREM WritersHaveTheirOwnFiles == Spec => []FilesApart
<1>1. Inv => FilesApart
  BY DEF Inv
<1> QED
  BY Invariance, <1>1, PTL

\* A restart can load the dump at every moment.
THEOREM DumpIsAlwaysLoadable == Spec => []DumpIntact
<1>1. Inv => DumpIntact
  BY DEF Inv
<1> QED
  BY Invariance, <1>1, PTL

\* SAVE answers +OK only when the dataset in memory is on disk.
THEOREM SaveKeepsItsPromise == Spec => SaveIsDurable
<1>1. Inv /\ [Next]_vars => [ServerSaved /\ job = "SAVE" => MemoryIsOnDisk']_vars
  <2> SUFFICES ASSUME Inv, ServerSaved, job = "SAVE", ~torn'
               PROVE  (DumpIsWhole /\ holds[Dump] = mem)'
    BY DEF MemoryIsOnDisk
  <2>1. ~torn /\ file[Server] = Server /\ image[Server] = mem
    BY SlotsAreNotFiles
    DEF Inv, FilesApart, ServerAtSave, ServerSaved, Install, HasFile, InRdbSave
  <2>2. state[Server] = "durable" /\ holds[Server] = mem
    BY <2>1, SlotsAreNotFiles DEF Inv, FilesApart, ServerSaved, HasFile
  <2>3. holds'[Dump] = holds[Server] /\ state'[Dump] = state[Server] /\ mem' = mem
    BY <2>1, SlotsAreNotFiles DEF Inv, TypeOK, ServerSaved, Install
  <2> QED
    BY <2>2, <2>3 DEF DumpIsWhole
<1> QED
  BY Invariance, <1>1, PTL DEF Spec, SaveIsDurable

-----------------------------------------------------------------------------
(* Persistence implements AtomicDump where names differ and fflush works.  *)

NothingTears == Faults \cap {"samename", "fflush"} = {}

\* Nothing is ever torn when neither fflush nor the temporary names fail.
LEMMA NoTear == ASSUME NothingTears PROVE Spec => []~torn
<1>1. Init => ~torn
  BY DEF Init
<1>2. Inv /\ ~torn /\ [Next]_vars => ~torn'
  <2> SUFFICES ASSUME Inv, ~torn, [Next]_vars PROVE ~torn'
    OBVIOUS
  <2>1. ASSUME NEW p \in Procs, Open(p) PROVE ~torn'
    BY <2>1 DEF Open, SameName, NothingTears
  <2>2. ASSUME NEW p \in Procs, Flush(p) PROVE ~torn'
    BY <2>2 DEF Flush, NothingTears, Inv, FilesApart
  <2>3. CASE ~ \E p \in Procs : Open(p) \/ Flush(p)
    BY <2>3 DEF Next, vars, server, saving, disk, Write, Save, Saves, Bgsave, Flushall,
       Shutdown, ServerSaved, Install, ServerFailed, Fails, CronReap, CronSave, Sync,
       ChildSaved, ChildFailed, ChildKilled, Abandons, Tick, Crash, PowerLoss, Restart
  <2> QED
    BY <2>1, <2>2, <2>3
<1> QED
  BY <1>1, <1>2, Invariance, PTL DEF Spec

\* The initial states are initial states of AtomicDump.
LEMMA InitRefines == Init => Abstract!Init
BY SlotsAreNotFiles DEF Init, Abstract!Init, DumpIsWhole

\* Changes are Change, the renames of the server and of the children Replace,
\* a restart is Recover, and nothing else moves what AtomicDump talks of.
LEMMA NextRefines ==
  Inv /\ Inv' /\ ~torn /\ ~torn' /\ [Next]_vars => [Abstract!Next]_Abstract!vars
<1> SUFFICES ASSUME Inv, Inv', ~torn, ~torn', [Next]_vars
             PROVE  [Abstract!Next]_Abstract!vars
  OBVIOUS
<1> USE SlotsAreNotFiles
<1>0. DumpIsWhole /\ DumpIsWhole'
  BY DEF Inv, DumpIntact
<1>t. /\ writes \in Nat /\ holds \in [Files -> 0 .. writes]
      /\ \A p \in Procs : file[p] \in {p, Gone}
  BY ParamsAssumption DEF Inv, TypeOK, FilesApart
<1>1. ASSUME writes' = writes + 1, mem' = writes + 1, holds' = holds
      PROVE  Abstract!Next
  BY <1>0, <1>1 DEF Abstract!Next, Abstract!Change
<1>2. ASSUME writes' = writes, mem' = mem, holds'[Dump] \in 0 .. writes
      PROVE  Abstract!Next
  BY <1>0, <1>2 DEF Abstract!Next, Abstract!Replace
<1>3. ASSUME writes' = writes, mem' = holds[Dump], holds' = holds
      PROVE  Abstract!Next
  BY <1>0, <1>3 DEF Abstract!Next, Abstract!Recover
<1>4. ASSUME writes' = writes, mem' = mem, holds'[Dump] = holds[Dump]
      PROVE  UNCHANGED Abstract!vars
  BY <1>0, <1>4 DEF Abstract!vars
<1>5. CASE Write \/ Flushall
  BY <1>1, <1>5 DEF Write, Flushall, Saves, disk
<1>6. ASSUME NEW p \in Procs, Install(p), UNCHANGED <<mem, writes>>
      PROVE  Abstract!Next
  <2>1. holds'[Dump] \in 0 .. writes
    BY <1>t, <1>6 DEF Install
  <2> QED
    BY <1>2, <1>6, <2>1
<1>7. CASE ServerSaved
  BY <1>6, <1>7 DEF ServerSaved
<1>8. ASSUME NEW p \in Slots, ChildSaved(p) PROVE Abstract!Next
  BY <1>6, <1>8 DEF ChildSaved, server
<1>9. CASE Restart
  BY <1>3, <1>9 DEF Restart, disk
<1>10. ASSUME NEW p \in Procs, Open(p) \/ Flush(p) \/ Sync(p)
       PROVE  UNCHANGED Abstract!vars
  <2>1. holds'[Dump] = holds[Dump]
    <3>1. CASE Open(p)
      BY <1>t, <3>1 DEF Open
    <3>2. CASE Flush(p)
      BY <1>t, <3>2 DEF Flush
    <3>3. CASE Sync(p)
      BY <3>3 DEF Sync
    <3> QED
      BY <1>10, <3>1, <3>2, <3>3
  <2> QED
    BY <1>4, <1>10, <2>1 DEF Open, Flush, Sync, server
<1>11. ASSUME NEW p \in Procs, Fails(p) \/ Abandons(p)
       PROVE  holds'[Dump] = holds[Dump]
  <2>1. \/ holds' = holds
        \/ file[p] \in Procs /\ holds' = [holds EXCEPT ![file[p]] = 0]
    BY <1>11 DEF Fails, Abandons, Forget, disk
  <2> QED
    BY <1>t, <2>1
<1>12. CASE ServerFailed
  BY <1>4, <1>11, <1>12 DEF ServerFailed
<1>13. ASSUME NEW p \in Slots, ChildFailed(p) \/ ChildKilled(p)
       PROVE  UNCHANGED Abstract!vars
  BY <1>4, <1>11, <1>13 DEF ChildFailed, ChildKilled, server
<1>14. CASE Crash
  BY <1>4, <1>11, <1>14 DEF Crash
<1>15. CASE PowerLoss
  BY <1>4, <1>15, <1>t DEF PowerLoss
<1>16. CASE Save \/ Shutdown \/ Bgsave \/ CronReap \/ CronSave \/ Tick \/ UNCHANGED vars
  BY <1>4, <1>16
  DEF Save, Shutdown, Saves, Bgsave, CronReap, CronSave, Tick, vars, server, disk
<1> QED
  BY <1>5, <1>7, <1>8, <1>9, <1>10, <1>12, <1>13, <1>14, <1>15, <1>16 DEF Next

\* The dump goes from one complete dataset of the past to another in one step,
\* and a restart finds exactly the last of them.
THEOREM DumpRefinesAtomicDump == ASSUME NothingTears PROVE Spec => DumpIsAtomic
<1>1. Spec => []~torn
  BY NoTear
<1> QED
  BY <1>1, Invariance, InitRefines, NextRefines, PTL
  DEF Spec, DumpIsAtomic, Abstract!Spec

-----------------------------------------------------------------------------
(***************************************************************************)
(* What SAVE, BGSAVE, the save points and SYNC promise to each other when  *)
(* nothing else saves and no child outlives its server: the dump never     *)
(* gets older, a save that is reported is on disk, and dirty tells whether *)
(* there is something to save.                                             *)
(*                                                                         *)
(* All three rest on there being one process in rdbSave at most, of a      *)
(* dataset no older than the dump: Forward.  That in turn rests on SAVE    *)
(* and BGSAVE excluding each other (OneSaver), and on the children being   *)
(* the server's own (NoOrphans).                                           *)
(***************************************************************************)

\* The commands and failures considered here, as in the run persist_quiet.
Quiet ==
  /\ Commands \subseteq {"SAVE", "BGSAVE", "SYNC"}
  /\ Faults \subseteq {"io", "fork", "power"}

NoOrphans ==
  /\ \A p \in Slots : stage[p] # "none" => p \in kids
  /\ ~up => kids = {}

OneSaver == job \in {"none", "SAVE"} /\ (job = "SAVE" => ~bgsave)

\* A process in rdbSave has a dataset at least as new as the dump.
Forward ==
  /\ holds[Dump] <= mem
  /\ \A p \in Procs :
       stage[p] \in InRdbSave => holds[Dump] <= image[p] /\ image[p] <= mem

Reported ==
  \A p \in Slots : stage[p] # "killed" /\ (stage[p] = "ok" => holds[Dump] >= image[p])

\* dirty > 0 means that the dump misses a change, unless the child has just saved it.
Unsaved ==
  up /\ dirty > 0 /\ (\A p \in kids : stage[p] # "ok") => holds[Dump] < mem

Steady == NoOrphans /\ OneSaver /\ Forward /\ Reported /\ Unsaved

-----------------------------------------------------------------------------

\* The types, and what Inv says while nothing is torn.
LEMMA Known ==
  ASSUME Inv, ~torn
  PROVE  /\ writes \in Nat /\ mem \in 0 .. writes /\ dirty \in Nat /\ kids \subseteq Slots
         /\ stage \in [Procs -> Stages] /\ image \in [Procs -> 0 .. writes]
         /\ holds \in [Files -> 0 .. writes] /\ file \in [Procs -> Files]
         /\ \A p \in Procs : file[p] \in {p, Gone}
         /\ \A p \in Procs : stage[p] = "rename" => file[p] = p /\ holds[p] = image[p]
  BY ParamsAssumption DEF Inv, TypeOK, FilesApart, HasFile

\* While the server is not saving itself and has no child nobody is in rdbSave.
LEMMA NobodySaves ==
  ASSUME Inv, ~torn, Steady, kids = {}, job = "none" \/ ~up
  PROVE  \A p \in Procs : stage[p] = "none"
<1> SUFFICES ASSUME NEW p \in Procs
             PROVE  stage[p] = "none"
  OBVIOUS
<1>1. CASE p \in Slots
  BY <1>1 DEF Steady, NoOrphans
<1>2. CASE p = Server
  BY <1>2, Known DEF Inv, ServerAtSave, Stages
<1> QED
  BY <1>1, <1>2 DEF Procs

\* A child is alone.
LEMMA ChildIsAlone ==
  ASSUME Inv, ~torn, Steady, NEW p \in Slots, stage[p] # "none"
  PROVE  /\ kids = {p} /\ bgsave /\ up /\ job = "none"
         /\ \A q \in Procs \ {p} : stage[q] = "none"
<1>1. p \in kids
  BY DEF Steady, NoOrphans
<1>2. bgsave /\ kids = {p}
  BY <1>1 DEF Inv, ChildAccounted
<1>3. up /\ job = "none"
  BY <1>1, <1>2 DEF Steady, NoOrphans, OneSaver
<1>4. ASSUME NEW q \in Procs \ {p} PROVE stage[q] = "none"
  <2>1. CASE q \in Slots
    BY <1>2, <2>1 DEF Steady, NoOrphans
  <2>2. CASE q = Server
    BY <1>3, <2>2, Known, SlotsAreNotFiles DEF Inv, ServerAtSave, Stages
  <2> QED
    BY <2>1, <2>2 DEF Procs
<1> QED
  BY <1>2, <1>3, <1>4

\* A server that saves has no child.
LEMMA ServerIsAlone ==
  ASSUME Inv, ~torn, Steady, stage[Server] \in InRdbSave
  PROVE  /\ up /\ job = "SAVE" /\ ~bgsave /\ kids = {} /\ image[Server] = mem
         /\ \A q \in Slots : stage[q] = "none"
<1>1. up /\ job = "SAVE" /\ image[Server] = mem
  BY DEF Inv, ServerAtSave, Steady, OneSaver
<1>2. ~bgsave /\ kids = {}
  BY <1>1 DEF Steady, OneSaver, Inv, ChildAccounted
<1> QED
  BY <1>1, <1>2 DEF Steady, NoOrphans

\* Where the dump is not touched, nor who saves what, there is nothing to show but
\* for dirty.
LEMMA SameSaves ==
  ASSUME Inv, ~torn, Steady, holds'[Dump] = holds[Dump], image' = image,
         kids' = kids, up' = up, bgsave' = bgsave, job' = job, mem' = mem, dirty' = dirty,
         \A p \in Procs : \/ stage'[p] = stage[p]
                          \/ stage[p] \in InRdbSave /\ stage'[p] \in InRdbSave \cup {"err"}
  PROVE  Steady'
<1> USE SlotsAreNotFiles DEF Steady
<1>1. NoOrphans'
  BY Known DEF NoOrphans, InRdbSave
<1>2. OneSaver'
  BY DEF OneSaver
<1>3. Forward'
  BY Known DEF Forward, InRdbSave
<1>4. Reported'
  BY Known DEF Reported, InRdbSave
<1>5. Unsaved'
  BY Known DEF Unsaved, InRdbSave
<1> QED
  BY <1>1, <1>2, <1>3, <1>4, <1>5

\* rdbSaveBackground, in a server with no other child: its dataset is the newest.
\* The case where the fork does not come covers serverCron having no need of it.
LEMMA ForkSteady ==
  ASSUME Inv, ~torn, Steady, Idle, NEW st, NEW ks, ks = {},
         \/ RdbSaveBackground(st, ks)
         \/ stage' = st /\ kids' = ks /\ bgsave' = FALSE /\ image' = image,
         st \in [Procs -> Stages], \A p \in Procs : st[p] = "none",
         holds' = holds, mem' = mem, up' = up, job' = job,
         dirty' = 0 \/ (dirty' = dirty /\ \A p \in kids : stage[p] # "ok")
  PROVE  Steady'
<1> USE SlotsAreNotFiles
<1>1. holds[Dump] \in Nat /\ mem \in Nat /\ holds[Dump] <= mem
  BY Known DEF Steady, Forward
<1>2. Unsaved'
  <2>1. up /\ dirty' > 0 => holds[Dump] < mem
    BY DEF Steady, Unsaved
  <2> QED
    BY <2>1 DEF Unsaved
<1>3. OneSaver'
  BY DEF OneSaver, Idle
<1>4. CASE stage' = st /\ kids' = ks /\ bgsave' = FALSE /\ image' = image
  <2>1. \A p \in Procs : stage'[p] = "none"
    BY <1>4
  <2>2. NoOrphans' /\ Forward' /\ Reported'
    BY <1>1, <1>4, <2>1 DEF NoOrphans, Forward, Reported, InRdbSave
  <2> QED
    BY <1>2, <1>3, <2>2 DEF Steady
<1>5. CASE \E p \in Slots : /\ stage' = [st EXCEPT ![p] = "open"]
                            /\ kids' = ks \cup {p}
                            /\ image' = [image EXCEPT ![p] = mem]
  <2>1. PICK p \in Slots : /\ stage' = [st EXCEPT ![p] = "open"]
                           /\ kids' = ks \cup {p}
                           /\ image' = [image EXCEPT ![p] = mem]
    BY <1>5
  <2>2. /\ stage'[p] = "open" /\ \A q \in Procs \ {p} : stage'[q] = "none"
        /\ image'[p] = mem /\ p \in kids' /\ p \in Procs
    BY <2>1, Known
  <2>3. NoOrphans' /\ Forward' /\ Reported'
    BY <1>1, <2>2 DEF NoOrphans, Forward, Reported, InRdbSave, Idle
  <2> QED
    BY <1>2, <1>3, <2>3 DEF Steady
<1> QED
  BY <1>4, <1>5 DEF RdbSaveBackground

\* The dump after a rename is the dataset of the process that renamed.
LEMMA Installed ==
  ASSUME Inv, ~torn, NEW p \in Procs, stage[p] = "rename", Install(p)
  PROVE  holds'[Dump] = image[p] /\ image' = image
  BY Known, SlotsAreNotFiles DEF Install

\* What fails leaves the dump alone.
LEMMA FailedLeavesDump ==
  ASSUME Inv, ~torn, NEW p \in Procs, Fails(p)
  PROVE  holds'[Dump] = holds[Dump] /\ image' = image
<1>1. \/ holds' = holds
      \/ file[p] \in Procs /\ holds' = [holds EXCEPT ![file[p]] = 0]
  BY DEF Fails, Forget, disk
<1> QED
  BY <1>1, Known, SlotsAreNotFiles DEF Fails

-----------------------------------------------------------------------------

\* The server starts with nothing to save and nobody saving.
LEMMA SteadyInit == ASSUME Init PROVE Steady
<1>1. holds[Dump] = 0 /\ mem = 0 /\ \A p \in Procs : stage[p] = "none"
  BY SlotsAreNotFiles DEF Init
<1>2. NoOrphans /\ OneSaver
  BY <1>1, SlotsAreNotFiles DEF NoOrphans, OneSaver, Init
<1>3. Forward /\ Reported /\ Unsaved
  BY <1>1, SlotsAreNotFiles DEF Forward, Reported, Unsaved, Init, InRdbSave
<1> QED
  BY <1>2, <1>3 DEF Steady

\* The commands: a save starts with the newest dataset there is.
LEMMA CommandsSteady ==
  ASSUME Quiet, Inv, ~torn, Steady, Write \/ Save \/ Bgsave \/ Flushall \/ Shutdown
  PROVE  Steady' /\ holds' = holds
<1> USE SlotsAreNotFiles
<1>1. holds[Dump] \in Nat /\ mem \in Nat /\ holds[Dump] <= mem /\ mem <= writes /\ writes \in Nat
  BY Known DEF Steady, Forward
<1>2. CASE Write
  <2>1. NoOrphans' /\ OneSaver' /\ Reported'
    BY <1>2 DEF Write, saving, disk, Steady, NoOrphans, OneSaver, Reported
  <2>2. Forward'
    BY <1>1, <1>2, Known DEF Write, saving, disk, Steady, Forward
  <2>3. Unsaved'
    BY <1>1, <1>2 DEF Write, saving, disk, Unsaved
  <2> QED
    BY <1>2, <2>1, <2>2, <2>3 DEF Steady, Write, disk
<1>3. CASE Save
  <2>1. kids = {}
    BY <1>3 DEF Save, Inv, ChildAccounted
  <2>2. \A p \in Procs : stage[p] = "none"
    BY <1>3, <2>1, NobodySaves DEF Save, Saves, Idle
  <2>3. /\ up' = up /\ kids' = {} /\ job' = "SAVE" /\ ~bgsave' /\ mem' = mem
        /\ dirty' = dirty /\ holds' = holds /\ bgsave' = bgsave
        /\ image'[Server] = mem /\ \A q \in Slots : stage'[q] = "none"
    BY <1>3, <2>1, <2>2, Known DEF Save, Saves, disk
  <2>4. NoOrphans' /\ OneSaver' /\ Reported'
    BY <2>1, <2>3 DEF NoOrphans, OneSaver, Reported
  <2>5. Forward'
    BY <1>1, <2>3 DEF Forward, InRdbSave, Procs
  <2>6. Unsaved'
    BY <2>1, <2>3 DEF Steady, Unsaved
  <2> QED
    BY <2>3, <2>4, <2>5, <2>6 DEF Steady
<1>4. CASE Bgsave
  <2>1. kids = {}
    BY <1>4 DEF Bgsave, Inv, ChildAccounted
  <2>2. \A p \in Procs : stage[p] = "none"
    BY <1>4, <2>1, NobodySaves DEF Bgsave, Idle
  <2>3. /\ RdbSaveBackground(stage, kids) /\ Idle
        /\ holds' = holds /\ mem' = mem /\ up' = up /\ job' = job /\ dirty' = dirty
    BY <1>4 DEF Bgsave, disk
  <2> QED
    BY <2>1, <2>2, <2>3, ForkSteady, Known
<1>5. CASE Flushall \/ Shutdown
  BY <1>5 DEF Flushall, Shutdown, Saves, Quiet
<1> QED
  BY <1>2, <1>3, <1>4, <1>5

\* serverCron: a child that ended well has put its dataset on disk, and the next one
\* takes the newest there is.
LEMMA CronSteady ==
  ASSUME Quiet, Inv, ~torn, Steady, CronReap \/ CronSave
  PROVE  Steady' /\ holds' = holds
<1> USE SlotsAreNotFiles
<1>1. CASE CronReap
  <2>1. PICK p \in kids :
          /\ HasEnded(p) /\ dirty' = DirtyAfter(p)
          /\ LET st == [stage EXCEPT ![p] = "none"]
                 ks == kids \ {p}
             IN \/ stage' = st /\ kids' = ks /\ bgsave' = FALSE /\ image' = image
                \/ RdbSaveBackground(st, ks)
    BY <1>1 DEF CronReap
  <2>2. p \in Slots /\ p \in Procs /\ stage[p] \in Exited /\ stage[p] # "none"
    BY <2>1, Known DEF HasEnded, Exited
  <2>3. kids = {p} /\ \A q \in Procs \ {p} : stage[q] = "none"
    BY <2>2, ChildIsAlone
  <2> DEFINE st == [stage EXCEPT ![p] = "none"]
             ks == kids \ {p}
  <2>4. ks = {} /\ st \in [Procs -> Stages] /\ \A q \in Procs : st[q] = "none"
    BY <2>2, <2>3, Known DEF Stages
  <2>5. dirty' = 0 \/ (dirty' = dirty /\ \A q \in kids : stage[q] # "ok")
    BY <2>1, <2>3 DEF DirtyAfter
  <2>6. Idle /\ holds' = holds /\ mem' = mem /\ up' = up /\ job' = job
    BY <1>1 DEF CronReap, disk
  <2>7. \/ RdbSaveBackground(st, ks)
        \/ stage' = st /\ kids' = ks /\ bgsave' = FALSE /\ image' = image
    BY <2>1
  <2> HIDE DEF st, ks
  <2> QED
    BY <2>4, <2>5, <2>6, <2>7, ForkSteady
<1>2. CASE CronSave
  <2>1. kids = {}
    BY <1>2 DEF CronSave, Inv, ChildAccounted
  <2>2. \A p \in Procs : stage[p] = "none"
    BY <1>2, <2>1, NobodySaves DEF CronSave, Idle
  <2>3. /\ RdbSaveBackground(stage, kids) /\ Idle
        /\ holds' = holds /\ mem' = mem /\ up' = up /\ job' = job /\ dirty' = dirty
    BY <1>2 DEF CronSave, disk
  <2> QED
    BY <2>1, <2>2, <2>3, ForkSteady, Known
<1> QED
  BY <1>1, <1>2

\* The calls of rdbSave before its rename leave the dump alone.
LEMMA WritingSteady ==
  ASSUME Inv, ~torn, Steady, NEW p \in Procs, Open(p) \/ Flush(p) \/ Sync(p)
  PROVE  Steady' /\ holds'[Dump] = holds[Dump]
<1> USE SlotsAreNotFiles
<1>1. stage[p] \in InRdbSave /\ stage'[p] \in InRdbSave /\ \A q \in Procs \ {p} : stage'[q] = stage[q]
  BY Known DEF Open, Flush, Sync, InRdbSave
<1>2. UNCHANGED server /\ image' = image
  BY DEF Open, Flush, Sync
<1>3. holds'[Dump] = holds[Dump]
  <2>1. CASE Open(p)
    BY <2>1, Known DEF Open
  <2>2. CASE Flush(p)
    BY <2>2, Known DEF Flush, Inv, FilesApart, HasFile
  <2>3. CASE Sync(p)
    BY <2>3 DEF Sync
  <2> QED
    BY <2>1, <2>2, <2>3
<1>4. \A q \in Procs : \/ stage'[q] = stage[q]
                       \/ stage[q] \in InRdbSave /\ stage'[q] \in InRdbSave \cup {"err"}
  BY <1>1
<1> QED
  BY <1>2, <1>3, <1>4, SameSaves DEF server

\* A child that renames puts on disk a dataset no older than the dump.
LEMMA ChildSteady ==
  ASSUME Quiet, Inv, ~torn, Steady, NEW p \in Slots,
         ChildSaved(p) \/ ChildFailed(p) \/ ChildKilled(p)
  PROVE  Steady' /\ holds'[Dump] >= holds[Dump]
<1> USE SlotsAreNotFiles
<1>1. CASE ChildSaved(p)
  <2>1. stage[p] = "rename" /\ Install(p) /\ UNCHANGED server /\ p \in Procs
    BY <1>1 DEF ChildSaved
  <2>2. kids = {p} /\ up /\ job = "none" /\ \A q \in Procs \ {p} : stage[q] = "none"
    BY <2>1, ChildIsAlone
  <2>3. holds'[Dump] = image[p] /\ image' = image
    BY <2>1, Installed
  <2>4. stage'[p] = "ok" /\ \A q \in Procs \ {p} : stage'[q] = "none"
    BY <1>1, <2>1, <2>2, Known DEF ChildSaved, ChildExits
  <2>5. holds[Dump] <= image[p] /\ image[p] <= mem /\ image[p] \in Nat /\ holds[Dump] \in Nat
    BY <2>1, Known DEF Steady, Forward, InRdbSave
  <2>6. UNCHANGED <<up, job, mem, dirty, bgsave, kids>>
    BY <2>1 DEF server
  <2>7. NoOrphans' /\ OneSaver'
    BY <2>2, <2>4, <2>6 DEF NoOrphans, OneSaver
  <2>8. Forward' /\ Reported'
    BY <2>3, <2>4, <2>5, <2>6 DEF Forward, Reported, InRdbSave
  <2>9. Unsaved'
    BY <2>2, <2>4, <2>6 DEF Unsaved
  <2> QED
    BY <2>3, <2>5, <2>7, <2>8, <2>9 DEF Steady
<1>2. CASE ChildFailed(p)
  <2>1. holds'[Dump] = holds[Dump] /\ image' = image /\ UNCHANGED server
    BY <1>2, FailedLeavesDump DEF ChildFailed
  <2>2. stage[p] \in InRdbSave
    BY <1>2 DEF ChildFailed, Fails, InRdbSave
  <2>3. p \in kids
    BY <2>2, ChildIsAlone DEF InRdbSave
  <2>4. \A q \in Procs : \/ stage'[q] = stage[q]
                         \/ stage[q] \in InRdbSave /\ stage'[q] \in InRdbSave \cup {"err"}
    BY <1>2, <2>2, <2>3, Known DEF ChildFailed, ChildExits
  <2>5. Steady'
    BY <2>1, <2>4, SameSaves DEF server
  <2> QED
    BY <2>1, <2>5, Known
<1>3. CASE ChildKilled(p)
  BY <1>3 DEF ChildKilled, Quiet
<1> QED
  BY <1>1, <1>2, <1>3

\* A server that ends its SAVE has saved everything, or nothing.
LEMMA ServerSteady ==
  ASSUME Inv, ~torn, Steady, ServerSaved \/ ServerFailed
  PROVE  Steady' /\ holds'[Dump] >= holds[Dump]
<1> USE SlotsAreNotFiles
<1>1. stage[Server] \in InRdbSave
  BY DEF ServerSaved, ServerFailed, Fails, InRdbSave
<1>2. /\ up /\ job = "SAVE" /\ ~bgsave /\ kids = {} /\ image[Server] = mem
      /\ \A q \in Slots : stage[q] = "none"
  BY <1>1, ServerIsAlone
<1>3. /\ UNCHANGED <<up, mem, bgsave, kids>> /\ job' = "none"
      /\ stage' = [stage EXCEPT ![Server] = "none"]
  BY <1>2 DEF ServerSaved, ServerFailed
<1>4. \A q \in Procs : stage'[q] = "none"
  BY <1>2, <1>3, Known DEF Procs
<1>5. NoOrphans' /\ OneSaver' /\ Reported'
  BY <1>2, <1>3, <1>4 DEF NoOrphans, OneSaver, Reported
<1>6. holds[Dump] \in Nat /\ mem \in Nat /\ holds[Dump] <= mem
  BY Known DEF Steady, Forward
<1>7. CASE ServerSaved
  <2>1. holds'[Dump] = mem
    BY <1>2, <1>7, Installed DEF ServerSaved
  <2>2. dirty' = 0
    BY <1>2, <1>7 DEF ServerSaved
  <2>3. Forward' /\ Unsaved'
    BY <1>3, <1>4, <1>6, <2>1, <2>2 DEF Forward, Unsaved, InRdbSave
  <2> QED
    BY <1>5, <1>6, <2>1, <2>3 DEF Steady
<1>8. CASE ServerFailed
  <2>1. holds'[Dump] = holds[Dump]
    BY <1>8, FailedLeavesDump DEF ServerFailed
  <2>2. dirty' = dirty
    BY <1>2, <1>8 DEF ServerFailed
  <2>3. Forward'
    BY <1>3, <1>4, <1>6, <2>1 DEF Forward, InRdbSave
  <2>4. Unsaved'
    BY <1>2, <1>3, <2>1, <2>2 DEF Steady, Unsaved
  <2> QED
    BY <1>5, <1>6, <2>1, <2>3, <2>4 DEF Steady
<1> QED
  BY <1>7, <1>8

\* Time, and a machine that stops and starts: what is loaded is the dump.
LEMMA MachineSteady ==
  ASSUME Quiet, Inv, ~torn, Steady, Tick \/ Crash \/ PowerLoss \/ Restart \/ UNCHANGED vars
  PROVE  Steady' /\ holds'[Dump] = holds[Dump]
<1> USE SlotsAreNotFiles
<1>1. CASE Tick \/ UNCHANGED vars
  <2>1. UNCHANGED <<up, job, mem, dirty, bgsave, kids, stage, image, holds>>
    BY <1>1 DEF Tick, vars, server, saving, disk
  <2> QED
    BY <2>1, SameSaves
<1>2. CASE Crash
  BY <1>2 DEF Crash, Quiet
<1>3. CASE PowerLoss
  <2>1. /\ up' = FALSE /\ job' = "none" /\ kids' = {} /\ mem' = mem
        /\ \A p \in Procs : stage'[p] = "none"
        /\ holds'[Dump] = holds[Dump]
    BY <1>3 DEF PowerLoss
  <2>2. NoOrphans' /\ OneSaver' /\ Reported' /\ Unsaved' /\ Forward'
    BY <2>1 DEF NoOrphans, OneSaver, Reported, Unsaved, Forward, Steady, InRdbSave
  <2> QED
    BY <2>1, <2>2 DEF Steady
<1>4. CASE Restart
  <2>1. \A p \in Procs : stage[p] = "none"
    BY <1>4, NobodySaves DEF Restart, Steady, NoOrphans
  <2>2. /\ up' = TRUE /\ job' = "none" /\ kids' = {} /\ mem' = holds[Dump] /\ dirty' = 0
        /\ holds' = holds /\ stage' = stage /\ ~bgsave'
    BY <1>4 DEF Restart, saving, disk
  <2>3. NoOrphans' /\ OneSaver' /\ Reported' /\ Unsaved' /\ Forward'
    BY <2>1, <2>2, Known DEF NoOrphans, OneSaver, Reported, Unsaved, Forward, InRdbSave
  <2> QED
    BY <2>2, <2>3 DEF Steady
<1> QED
  BY <1>1, <1>2, <1>3, <1>4

\* Every step keeps the order of the saves, and the dump gets no older.
LEMMA SteadyStep ==
  ASSUME Quiet, Inv, ~torn, Steady, [Next]_vars
  PROVE  Steady' /\ holds'[Dump] >= holds[Dump]
<1>1. holds[Dump] \in Nat
  BY Known, SlotsAreNotFiles
<1>2. CASE Write \/ Save \/ Bgsave \/ Flushall \/ Shutdown
  BY <1>1, <1>2, CommandsSteady
<1>3. CASE CronReap \/ CronSave
  BY <1>1, <1>3, CronSteady
<1>4. CASE \E p \in Procs : Open(p) \/ Flush(p) \/ Sync(p)
  BY <1>1, <1>4, WritingSteady
<1>5. CASE \E p \in Slots : ChildSaved(p) \/ ChildFailed(p) \/ ChildKilled(p)
  BY <1>5, ChildSteady
<1>6. CASE ServerSaved \/ ServerFailed
  BY <1>6, ServerSteady
<1>7. CASE Tick \/ Crash \/ PowerLoss \/ Restart \/ UNCHANGED vars
  BY <1>1, <1>7, MachineSteady
<1> QED
  BY <1>2, <1>3, <1>4, <1>5, <1>6, <1>7 DEF Next

\* Quiet executions tear nothing, and keep the order of the saves.
LEMMA SteadyInvariance == ASSUME Quiet PROVE Spec => [](Inv /\ ~torn /\ Steady)
<1>1. Spec => []~torn
  <2>1. NothingTears
    BY DEF Quiet, NothingTears
  <2> QED
    BY <2>1, NoTear
<1>2. Init => Steady
  BY SteadyInit
<1>3. Inv /\ ~torn /\ Steady /\ [Next]_vars => Steady'
  BY SteadyStep
<1> QED
  BY <1>1, <1>2, <1>3, Invariance, PTL DEF Spec

\* With SAVE, BGSAVE and SYNC as the only savers, whatever the disk, fork() and the
\* power supply do, no save puts an older dataset over a newer one.
THEOREM SavesAreInOrder == ASSUME Quiet PROVE Spec => DumpNeverRegresses
<1>1. Inv /\ ~torn /\ Steady /\ [Next]_vars => [holds'[Dump] >= holds[Dump]]_vars
  BY SteadyStep
<1> QED
  BY <1>1, SteadyInvariance, PTL DEF Spec, DumpNeverRegresses

\* A child that serverCron takes for a successful one has put its dataset on disk.
THEOREM ReportedSavesAreOnDisk == ASSUME Quiet PROVE Spec => []ReportedSaveIsOnDisk
<1>1. Inv /\ ~torn /\ Steady => ReportedSaveIsOnDisk
  BY Known DEF Steady, Reported, ReportedSaveIsOnDisk
<1> QED
  BY <1>1, SteadyInvariance, PTL

\* Where no save is in progress server.dirty > 0 says that the dump misses a change.
THEOREM DirtyTellsTheTruth == ASSUME Quiet PROVE Spec => []DirtyMeansUnsaved
<1>1. Inv /\ ~torn /\ Steady => DirtyMeansUnsaved
  BY DEF Steady, Unsaved, DirtyMeansUnsaved, Inv, ChildAccounted
<1> QED
  BY <1>1, SteadyInvariance, PTL

=============================================================================
