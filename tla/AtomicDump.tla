----------------------------- MODULE AtomicDump -----------------------------
(***************************************************************************)
(* What the dump file promises: the disk always holds one complete dataset *)
(* that memory once held, it goes from one to another in a single step,    *)
(* and what a restart finds in memory is exactly what the disk held.       *)
(***************************************************************************)
EXTENDS Naturals

VARIABLES
  latest,  \* the number of changes ever made to the dataset
  mem,     \* the last change the dataset in memory holds
  disk     \* the last change the dataset on disk holds

vars == <<latest, mem, disk>>

Init == latest = 0 /\ mem = 0 /\ disk = 0

Change ==
  /\ latest' = latest + 1
  /\ mem' = latest + 1
  /\ UNCHANGED disk

\* Some complete dataset of the past or the present replaces the one on disk.
Replace ==
  /\ disk' \in 0 .. latest
  /\ UNCHANGED <<latest, mem>>

Recover ==
  /\ mem' = disk
  /\ UNCHANGED <<latest, disk>>

Next == Change \/ Replace \/ Recover

Spec == Init /\ [][Next]_vars
=============================================================================
