-------------------------------- MODULE Dict ----------------------------------
(***************************************************************************)
(* The hash table of dict.c: slots with chains of entries, a count of the  *)
(* entries that decides when the table grows and when it may be walked     *)
(* over, an iterator that keeps the successor of the entry it returned so  *)
(* that its user may delete that entry, and the cron job that shrinks a    *)
(* sparse table.                                                           *)
(*                                                                         *)
(* While an iterator is open its user calls dictNext, and may delete the   *)
(* entry it has just been given: keysCommand does, when the key expired.   *)
(***************************************************************************)
EXTENDS Integers, FiniteSets, SequencesExt

CONSTANTS
  Keys, Vals,
  Hash(_),  \* dictHashKey
  Initial,  \* DICT_HT_INITIAL_SIZE
  MinSlots, \* REDIS_HT_MINSLOTS: tables up to this size are left alone
  MinFill   \* REDIS_HT_MINFILL: the percentage below which a table is sparse

ASSUME DictAssumption ==
  /\ \A k \in Keys : Hash(k) \in Nat
  /\ Initial \in Nat \ {0} /\ MinSlots \in Nat /\ MinFill \in 0 .. 100

VARIABLES
  table, \* ht->table: slot -> the chain, from its head
  used,  \* ht->used
  iter,  \* the iterator: <<>>, or one record of index, entry and nextEntry
  did,   \* history: the operation just done
  given, \* history: the keys dictNext returned
  there  \* history: the keys there were when the iterator was opened

history == <<given, there>>
vars    == <<table, used, iter, did, history>>

None  == {}   \* a NULL entry; else <<key, val>>
size  == Cardinality(DOMAIN table)
Slots(n) == 0 .. n - 1
Slot(k, n) == Hash(k) % n   \* sizes are powers of two: hash & sizemask

Found(t, k) ==
  IF DOMAIN t = {} THEN {}
  ELSE {i \in DOMAIN t[Slot(k, Cardinality(DOMAIN t))] :
          t[Slot(k, Cardinality(DOMAIN t))][i][1] = k}

Entries == UNION {Range(table[i]) : i \in DOMAIN table}

Init ==
  /\ table = [i \in Slots(0) |-> <<>>] /\ used = 0
  /\ iter = <<>> /\ did = <<"keep">> /\ given = <<>> /\ there = {}

-----------------------------------------------------------------------------
(* Growing, shrinking, adding and deleting.                                *)

\* _dictNextPower, of sizes below LONG_MAX.
NextPower(n) ==
  LET Power[i \in Nat] == IF i >= n THEN i ELSE Power[2 * i]
  IN Power[Initial]

\* An entry is put at the head of its chain.
Push(t, entry) ==
  LET h == Slot(entry[1], Cardinality(DOMAIN t))
  IN [t EXCEPT ![h] = <<entry>> \o @]

\* The inner loop of dictExpand, down a chain.
PushAll(t, chain) ==
  LET Pushed[j \in 0 .. Len(chain)] ==
        IF j = 0 THEN t ELSE Push(Pushed[j - 1], chain[j])
  IN Pushed[Len(chain)]

\* Mutant of Rehashed: the chain is moved as it is to the slot of its head.
RehashedByHead(t, n) ==
  LET Move(new, chain) ==
        IF chain = <<>> THEN new
        ELSE [new EXCEPT ![Slot(chain[1][1], n)] = chain \o @]
      Moved[i \in 0 .. Cardinality(DOMAIN t)] ==
        IF i = 0 THEN [j \in Slots(n) |-> <<>>] ELSE Move(Moved[i - 1], t[i - 1])
  IN Moved[Cardinality(DOMAIN t)]

\* Its outer loop, slot after slot.
Rehashed(t, n) ==
  LET Moved[i \in 0 .. Cardinality(DOMAIN t)] ==
        IF i = 0 THEN [j \in Slots(n) |-> <<>>] ELSE PushAll(Moved[i - 1], t[i - 1])
  IN Moved[Cardinality(DOMAIN t)]

\* dictExpand: DICT_ERR, and nothing done, if the entries do not fit.
Expand(n) ==
  IF used > n THEN table ELSE Rehashed(table, NextPower(n))

\* _dictExpandIfNeeded.
Expanded ==
  IF size = 0 THEN Expand(Initial)
  ELSE IF used = size THEN Expand(size * 2) ELSE table

Closed == iter = <<>>

\* Mutant of SetVal: the value goes to the head of the chain.
SetValOfHead(t, k, v) ==
  [t EXCEPT ![Slot(k, Cardinality(DOMAIN t))] = <<<<@[1][1], v>>>> \o Tail(@)]

\* dictSetHashVal of the entry dictFind finds.
SetVal(t, k, v) ==
  [t EXCEPT ![Slot(k, Cardinality(DOMAIN t))] =
    [i \in DOMAIN @ |-> IF @[i][1] = k THEN <<k, v>> ELSE @[i]]]

\* dictAdd, and the rest of dictReplace when the key is there.  The table has grown
\* before it is looked at, also if nothing is added then.
Add(k, v, replace) ==
  /\ Closed
  /\ IF Found(Expanded, k) = {}
     THEN /\ table' = Push(Expanded, <<k, v>>) /\ used' = used + 1
          /\ did' = <<"put", k, v>>
     ELSE /\ did' = IF replace THEN <<"put", k, v>> ELSE <<"keep">>
          /\ table' = IF replace THEN SetVal(Expanded, k, v) ELSE Expanded
          /\ UNCHANGED used
  /\ UNCHANGED <<iter, history>>

\* The first of some places in a chain.
First(places) == CHOOSE i \in places : \A j \in places : i <= j

\* dictGenericDelete.
Unlink(k) ==
  /\ Found(table, k) # {}
  /\ did' = <<"remove", k>>
  /\ table' = [table EXCEPT ![Slot(k, size)] = RemoveAt(@, First(Found(table, k)))]
  /\ used' = used - 1

Delete(k) ==
  /\ Closed
  /\ Unlink(k)
  /\ UNCHANGED <<iter, history>>

\* _dictClear.
Empty ==
  /\ Closed
  /\ table' = [i \in Slots(0) |-> <<>>] /\ used' = 0
  /\ did' = <<"clear">>
  /\ UNCHANGED <<iter, history>>

\* tryResizeHashTables, and dictResize.
TryResize ==
  /\ Closed
  /\ size > MinSlots /\ used > 0 /\ (used * 100) \div size < MinFill
  /\ table' = Expand(IF used < Initial THEN Initial ELSE used)
  /\ did' = <<"keep">>
  /\ UNCHANGED <<used, iter, history>>

\* dictGetRandomKey tries slots until one is not empty, which there must be; the
\* expiry of serverCron deletes what it is given.
RandomKeys == {entry[1] : entry \in Entries}

DeleteRandom ==
  /\ Closed /\ used > 0
  /\ \E k \in RandomKeys : Unlink(k)
  /\ UNCHANGED <<iter, history>>

-----------------------------------------------------------------------------
(* Iterating.                                                              *)

GetIterator ==
  /\ Closed
  /\ iter' = <<[index |-> -1, entry |-> None, nextEntry |-> None]>>
  /\ given' = <<>> /\ there' = {entry[1] : entry \in Entries}
  /\ did' = <<"keep">>
  /\ UNCHANGED <<table, used>>

\* he->next, while he is in the table.
After(key) ==
  LET chain == table[Slot(key, size)]
      i     == CHOOSE j \in DOMAIN chain : chain[j][1] = key
  IN IF i = Len(chain) THEN None ELSE {chain[i + 1][1]}

\* The loop of dictNext goes on to the first slot after `index` with a chain.
FirstFrom(index) ==
  LET full == {i \in DOMAIN table : i > index /\ table[i] # <<>>}
  IN IF full = {} THEN [index |-> size, entry |-> None]
     ELSE LET i == First(full)
          IN [index |-> i, entry |-> {table[i][1][1]}]

\* Mutant of Step: the successor is read from the entry that was returned before,
\* which its user may have freed: the walk goes on with the next slot then.
StepFromFreed(it) ==
  LET last == it.entry \cap {entry[1] : entry \in Entries}
      next == IF last = {} THEN None ELSE After(CHOOSE k \in last : TRUE)
  IN IF it.entry = None \/ next = None THEN FirstFrom(it.index)
     ELSE [index |-> it.index, entry |-> next]

Step(it) ==
  IF it.entry = None \/ it.nextEntry = None THEN FirstFrom(it.index)
  ELSE [index |-> it.index, entry |-> it.nextEntry]

\* dictNext; after NULL the iterator is released.
DictNext ==
  /\ ~Closed
  /\ LET step == Step(iter[1])
     IN IF step.entry = None
        THEN iter' = <<>> /\ given' = <<>> /\ there' = {}
        ELSE LET key == CHOOSE k \in step.entry : TRUE
             IN /\ iter' = <<[index |-> step.index, entry |-> step.entry,
                              nextEntry |-> After(key)]>>
                /\ given' = Append(given, key)
                /\ UNCHANGED there
  /\ did' = <<"keep">>
  /\ UNCHANGED <<table, used>>

\* The user of the iterator deletes the entry it was given.
DeleteGiven ==
  /\ ~Closed
  /\ \E k \in iter[1].entry : Unlink(k)
  /\ UNCHANGED <<iter, history>>

Next ==
  \/ \E k \in Keys, v \in Vals, replace \in BOOLEAN : Add(k, v, replace)
  \/ \E k \in Keys : Delete(k)
  \/ Empty \/ TryResize \/ DeleteRandom
  \/ GetIterator \/ DictNext \/ DeleteGiven

Spec == Init /\ [][Next]_vars

-----------------------------------------------------------------------------
(* Properties.                                                             *)

\* Every entry is in the slot its hash says, once, and they are as many as ht->used
\* says; the size is the initial one doubled some times, and holds them one per slot
\* or less, on average.
TypeOK ==
  /\ \A i \in DOMAIN table :
       /\ \A n \in DOMAIN table[i] : /\ table[i][n] \in Keys \X Vals
                                     /\ Slot(table[i][n][1], size) = i
       /\ \A n, o \in DOMAIN table[i] : table[i][n][1] = table[i][o][1] => n = o
  /\ used = Cardinality(Entries) /\ used <= size
  /\ size = 0 \/ size = NextPower(size)
  /\ Len(iter) <= 1

\* An iterator whose user deletes what it is given returns every key that was there
\* when it was opened, and none twice.
GivenOnce ==
  ~Closed =>
    /\ \A i, j \in 1 .. Len(given) : given[i] = given[j] => i = j
    /\ Step(iter[1]).entry = None => Range(given) = there

Contents ==
  [k \in {entry[1] : entry \in Entries} |-> CHOOSE v \in Vals : <<k, v>> \in Entries]

M == INSTANCE Map WITH map <- Contents

\* The table is a map: growing, shrinking and iterating do not show, and what is
\* added, replaced and deleted does.
IsMap == M!Spec

=============================================================================
