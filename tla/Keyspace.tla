------------------------------ MODULE Keyspace -------------------------------
(***************************************************************************)
(* The databases of a server: the table of keys and the table of their     *)
(* timeouts, the commands that read and change them, the lookups that      *)
(* delete, the sampling of serverCron, and a dump written and loaded.      *)
(*                                                                         *)
(* A command is a function of one database, a record of the two tables and *)
(* of what the command has added to server.dirty.                          *)
(***************************************************************************)
EXTENDS Values

CONSTANTS
  Dbs, Keys,
  Elems,     \* elements of lists and sets
  Numbers,   \* the strings, all of them numerals
  Indexes,   \* arguments of LSET, LTRIM and LREM
  Timeouts,  \* arguments of EXPIRE
  Wrap32,    \* a time is saved in 32 bits: from this one on it is negative
  MaxTime,   \* bound: the clock
  MaxLen,    \* bound: elements of a list
  MaxKeys    \* bound: keys in all databases

ASSUME KeyspaceAssumption ==
  /\ IsFiniteSet(Keys) /\ IsFiniteSet(Dbs)
  /\ Numbers \subseteq Int /\ Indexes \subseteq Int /\ Timeouts \subseteq Int
  /\ Wrap32 \in Nat /\ MaxTime \in Nat /\ MaxLen \in Nat /\ MaxKeys \in Nat
  /\ MaxTime < Wrap32
  /\ \A seconds \in Timeouts : seconds <= Wrap32   \* atoi: an int

VARIABLES
  db,       \* server.db: [dict, expires] per database
  now,      \* time(NULL)
  counted,  \* processCommand: did the last command change server.dirty?
  prompt,   \* history: the dataset of a server that executed the same commands, counted
            \* or not, and on which every timeout had passed at once; not a slave's,
            \* which is sent only the counted ones
  seen      \* history: SETNX has found a volatile key

vars == <<db, now, counted, prompt, seen>>

Value ==
       [type : {"string"}, val : Int]
  \cup [type : {"list"}, val : Seq(Elems)]
  \cup [type : {"set"}, val : {s \in SUBSET Elems : IsFiniteSet(s)}]

Str(n)  == [type |-> "string", val |-> n]
List(l) == [type |-> "list", val |-> l]
Set(s)  == [type |-> "set", val |-> s]
None    == [type |-> "none", val |-> {}]

Empty == [k \in {} |-> 0]

\* A database, and what a command has added to server.dirty.
Db(dict, expires, dirty) == [dict |-> dict, expires |-> expires, dirty |-> dirty]

Partial(f, S) == DOMAIN f \subseteq Keys /\ \A k \in DOMAIN f : f[k] \in S

TypeOK ==
  /\ now \in 0 .. MaxTime /\ counted \in BOOLEAN /\ seen \in BOOLEAN
  /\ DOMAIN db = Dbs /\ DOMAIN prompt = Dbs
  /\ \A d \in Dbs : /\ Partial(db[d].dict, Value)
                    /\ Partial(db[d].expires, Nat)
                    /\ Partial(prompt[d], Value)

Init ==
  /\ db = [d \in Dbs |-> [dict |-> Empty, expires |-> Empty]]
  /\ now = 0 /\ counted = FALSE /\ seen = FALSE
  /\ prompt = [d \in Dbs |-> Empty]

-----------------------------------------------------------------------------
(* The two tables.                                                         *)

\* dictAdd or dictReplace; dictDelete of a set of keys.
Put(table, k, v) == [x \in DOMAIN table \cup {k} |-> IF x = k THEN v ELSE table[x]]
Without(table, ks) == Restrict(table, DOMAIN table \ ks)

Has(b, k) == k \in DOMAIN b.dict
IsA(b, k, type) == Has(b, k) /\ b.dict[k].type = type
Volatile(b, k) == k \in DOMAIN b.expires
Due(b, k) == Volatile(b, k) /\ now > b.expires[k]

\* Mutant of DeleteKeys: the timeout stays.
DeleteKeysOnly(b, ks) == Db(Without(b.dict, ks), b.expires, b.dirty)

\* deleteKey, for each of ks.
DeleteKeys(b, ks) == Db(Without(b.dict, ks), Without(b.expires, ks), b.dirty)

\* Mutant of Expired: a key lives as long as it is looked up.
ExpiredNever(b, ks) == b

\* expireIfNeeded, for each of ks.
Expired(b, ks) == DeleteKeys(b, {k \in ks : Due(b, k)})

\* deleteIfVolatile, for each of ks.
Claimed(b, ks) ==
  LET gone == ks \cap DOMAIN b.expires
  IN Db(Without(b.dict, gone), Without(b.expires, gone), b.dirty + Cardinality(gone))

\* A value is stored under k, and counted.
Store(b, k, v) == Db(Put(b.dict, k, v), b.expires, b.dirty + 1)

RemoveExpire(b, k) == Db(b.dict, Without(b.expires, {k}), b.dirty)

SetExpire(b, k, when) ==
  IF Volatile(b, k) THEN b ELSE Db(b.dict, Put(b.expires, k, when), b.dirty)

-----------------------------------------------------------------------------
(* Commands that write.                                                    *)

\* Mutant of SetGeneric: the timeout of the old value stays.
SetGenericKeeps(b, k, n, nx) ==
  IF nx /\ Has(b, k) THEN b ELSE Store(b, k, Str(n))

SetGeneric(b, k, n, nx) ==
  IF nx /\ Has(b, k) THEN b ELSE RemoveExpire(Store(b, k, Str(n)), k)

GetSet(b, k, n) == RemoveExpire(Store(Expired(b, {k}), k, Str(n)), k)

\* Mutant of IncrDecr: lookupKeyRead, as GETSET does.
IncrDecrRead(b, k, incr) ==
  LET w == Expired(b, {k})
      value == IF IsA(w, k, "string") THEN w.dict[k].val ELSE 0
      after == Store(w, k, Str(value + incr))
  IN IF Has(w, k) THEN RemoveExpire(after, k) ELSE after

IncrDecr(b, k, incr) ==
  LET w == Claimed(b, {k})
      value == IF IsA(w, k, "string") THEN w.dict[k].val ELSE 0
      after == Store(w, k, Str(value + incr))
  IN IF Has(w, k) THEN RemoveExpire(after, k) ELSE after

Del(b, ks) ==
  LET w == DeleteKeys(b, ks)
  IN Db(w.dict, w.expires, b.dirty + Cardinality(ks \cap DOMAIN b.dict))

RenameGeneric(b, src, dst, nx) ==
  LET w == Claimed(b, {src})
      t == Claimed(w, {dst})
  IN IF src = dst THEN b
     ELSE IF ~Has(w, src) THEN w
     ELSE IF nx /\ Has(t, dst) THEN t
     ELSE DeleteKeys(Store(t, dst, w.dict[src]), {src})

\* moveCommand: the databases it is moved from and to.
MoveKey(from, to, k) ==
  LET w == Claimed(from, {k})
      t == Claimed(to, {k})
  IN IF ~Has(w, k) THEN <<w, to>>
     ELSE IF Has(t, k) THEN <<w, t>>
     ELSE <<DeleteKeys(w, {k}), Store(t, k, w.dict[k])>>

PushGeneric(b, k, e, where) ==
  LET w == Claimed(b, {k})
      list == IF Has(w, k) THEN w.dict[k].val ELSE <<>>
  IN IF Has(w, k) /\ ~IsA(w, k, "list") THEN w
     ELSE Store(w, k, List(IF where = "head" THEN <<e>> \o list ELSE Append(list, e)))

Lset(b, k, index, e) ==
  LET w == Claimed(b, {k})
      list == w.dict[k].val
      n == IF index < 0 THEN Len(list) + index + 1 ELSE index + 1
  IN IF IsA(w, k, "list") /\ ListIndex(list, index) # <<>>
     THEN Store(w, k, List([list EXCEPT ![n] = e])) ELSE w

PopGeneric(b, k, where) ==
  LET w == Claimed(b, {k})
      list == w.dict[k].val
  IN IF IsA(w, k, "list") /\ list # <<>>
     THEN Store(w, k, List(IF where = "head" THEN Tail(list) ELSE Front(list))) ELSE w

LtrimKey(b, k, from, to) ==
  LET w == Claimed(b, {k})
  IN IF IsA(w, k, "list") THEN Store(w, k, List(Ltrim(w.dict[k].val, from, to))) ELSE w

LremKey(b, k, toremove, e) ==
  LET w == Claimed(b, {k})
      walk == Lrem(w.dict[k].val, toremove, e)
  IN IF ~IsA(w, k, "list") THEN w
     ELSE Db(Put(w.dict, k, List(walk.left)), w.expires, w.dirty + walk.removed)

Sadd(b, k, e) ==
  LET w == Claimed(b, {k})
      set == IF Has(w, k) THEN w.dict[k].val ELSE {}
  IN IF Has(w, k) /\ ~IsA(w, k, "set") THEN w
     ELSE IF e \in set THEN w
     ELSE Store(w, k, Set(set \cup {e}))

Srem(b, k, e) ==
  LET w == Claimed(b, {k})
  IN IF IsA(w, k, "set") /\ e \in w.dict[k].val
     THEN Store(w, k, Set(w.dict[k].val \ {e})) ELSE w

\* smoveCommand; src and dst may be the same key.
Smove(b, src, dst, e) ==
  LET w == Claimed(b, {src, dst})
      taken == Store(w, src, Set(w.dict[src].val \ {e}))
      set == IF Has(taken, dst) THEN taken.dict[dst].val ELSE {}
  IN IF /\ IsA(w, src, "set") /\ e \in w.dict[src].val
        /\ Has(w, dst) => IsA(w, dst, "set")
     THEN Db(Put(taken.dict, dst, Set(set \cup {e})), taken.expires, taken.dirty)
     ELSE w

\* The sets named by ks are looked up in turn, as far as the first of `stops`.
LookedUp(b, ks, stops) ==
  Claimed(b, {ks[j] : j \in {i \in DOMAIN ks : \A s \in stops : i <= s}})

\* What is found under k when volatile keys are deleted first.
Stays(b, k) == Has(b, k) /\ ~Volatile(b, k)
WrongType(b, ks) == {j \in DOMAIN ks : Stays(b, ks[j]) /\ ~IsA(b, ks[j], "set")}
Missing(b, ks)   == {j \in DOMAIN ks : ~Stays(b, ks[j])}

\* sinterGenericCommand with a dstkey: a set that does not exist empties the
\* intersection, and the target is deleted.
SinterStore(b, dst, ks) ==
  LET stops == WrongType(b, ks) \cup Missing(b, ks)
      w == LookedUp(b, ks, stops)
      dv == [j \in DOMAIN ks |-> w.dict[ks[j]].val]
  IN IF stops = {} THEN Store(DeleteKeys(w, {dst}), dst, Set(Sinter(dv)))
     ELSE IF \E j \in Missing(b, ks) : \A i \in WrongType(b, ks) : j < i
     THEN DeleteKeys(w, {dst})
     ELSE w

\* sunionDiffGenericCommand with a dstkey.
SunionDiffStore(b, dst, ks, op) ==
  LET w == LookedUp(b, ks, WrongType(b, ks))
      dv == [j \in DOMAIN ks |-> IF Has(w, ks[j]) THEN w.dict[ks[j]].val ELSE {}]
      result == IF op = "union" THEN Sunion(dv) ELSE Sdiff(dv)
  IN IF WrongType(b, ks) # {} THEN w
     ELSE Store(DeleteKeys(w, {dst}), dst, Set(result))

Flushdb(b) ==
  Db(Empty, Empty, b.dirty + Cardinality(DOMAIN b.dict))

\* expireCommand looks the key up as it is, and counts nothing.
Expire(b, k, seconds) ==
  IF Has(b, k) /\ seconds > 0 THEN SetExpire(b, k, now + seconds) ELSE b

-----------------------------------------------------------------------------
(* Commands that read, and their replies.                                  *)

\* lookupKeyRead
Found(b, k) == LET w == Expired(b, {k}) IN IF Has(w, k) THEN w.dict[k] ELSE None

\* The reply of a read of one key: `none` if there is none, an error if it holds
\* something else.
Reply(b, k, type, none, some(_)) ==
  LET o == Found(b, k)
  IN IF o.type = "none" THEN none ELSE IF o.type # type THEN <<"error">> ELSE some(o.val)

Bulk(v) == <<"bulk", v>>

Get(b, k) == Reply(b, k, "string", <<"null">>, Bulk)
Mget(b, ks) ==
  [j \in DOMAIN ks |-> IF Get(b, ks[j]) = <<"error">> THEN <<"null">> ELSE Get(b, ks[j])]
Exists(b, k) == Found(b, k) # None
Type(b, k) == Found(b, k).type
Llen(b, k) == Reply(b, k, "list", Bulk(0), LAMBDA l : Bulk(Len(l)))
Lindex(b, k, index) ==
  Reply(b, k, "list", <<"null">>,
        LAMBDA l : IF ListIndex(l, index) = <<>> THEN <<"null">> ELSE Bulk(ListIndex(l, index)))
LrangeKey(b, k, from, to) ==
  Reply(b, k, "list", <<"null">>, LAMBDA l : Bulk(Lrange(l, from, to)))
Sismember(b, k, e) == Reply(b, k, "set", Bulk(FALSE), LAMBDA s : Bulk(e \in s))
Scard(b, k) == Reply(b, k, "set", Bulk(0), LAMBDA s : Bulk(Cardinality(s)))

\* SMEMBERS is SINTER of one set.
FirstOf(js) == CHOOSE j \in js : \A i \in js : j <= i

SinterRead(b, ks) ==
  LET o == [j \in DOMAIN ks |-> Found(b, ks[j])]
      stops == {j \in DOMAIN ks : o[j].type # "set"}
  IN IF stops = {} THEN Bulk(Sinter([j \in DOMAIN ks |-> o[j].val]))
     ELSE IF o[FirstOf(stops)].type = "none" THEN <<"null">> ELSE <<"error">>

SunionDiffRead(b, ks, op) ==
  LET o == [j \in DOMAIN ks |-> Found(b, ks[j])]
      dv == [j \in DOMAIN ks |-> o[j].val]
  IN IF \E j \in DOMAIN ks : o[j].type \notin {"none", "set"} THEN <<"error">>
     ELSE Bulk(IF op = "union" THEN Sunion(dv) ELSE Sdiff(dv))

\* The keys that match the pattern, without those that are due.
KeysRead(b, matching) == DOMAIN Expired(b, matching).dict \cap matching

Ttl(b, k) ==
  IF Volatile(b, k) /\ b.expires[k] >= now THEN b.expires[k] - now ELSE -1

-----------------------------------------------------------------------------
(* Steps.                                                                  *)

At(d)     == Db(db[d].dict, db[d].expires, 0)
Prompt(d) == Db(prompt[d], Empty, 0)
Tables(b) == [dict |-> b.dict, expires |-> b.expires]

Fits(o) ==
  CASE o.type = "string" -> o.val \in Numbers
    [] o.type = "list"   -> Len(o.val) <= MaxLen
    [] OTHER             -> TRUE

\* The bounds, on what a step leaves.
Bounded ==
  /\ \A d \in Dbs : \A k \in DOMAIN db'[d].dict : Fits(db'[d].dict[k])
  /\ Cardinality(UNION {{d} \X DOMAIN db'[d].dict : d \in Dbs}) <= MaxKeys

\* A command leaves b in database d, and p on the prompt server, which executes it too
\* whether it is counted or not.
Run(d, b, p) ==
  /\ db' = [db EXCEPT ![d] = Tables(b)]
  /\ counted' = (b.dirty > 0)
  /\ prompt' = [prompt EXCEPT ![d] = p.dict]
  /\ UNCHANGED now
  /\ Bounded

Set_(d, k, n) ==
  Run(d, SetGeneric(At(d), k, n, FALSE), SetGeneric(Prompt(d), k, n, FALSE)) /\ UNCHANGED seen

Setnx(d, k, n) ==
  /\ Run(d, SetGeneric(At(d), k, n, TRUE), SetGeneric(Prompt(d), k, n, TRUE))
  /\ seen' = (seen \/ Volatile(At(d), k))

Getset(d, k, n) ==
  Run(d, GetSet(At(d), k, n), GetSet(Prompt(d), k, n)) /\ UNCHANGED seen

Incrby(d, k, incr) ==
  Run(d, IncrDecr(At(d), k, incr), IncrDecr(Prompt(d), k, incr)) /\ UNCHANGED seen

DelKeys(d, ks) == Run(d, Del(At(d), ks), Del(Prompt(d), ks)) /\ UNCHANGED seen

Rename(d, src, dst, nx) ==
  /\ Run(d, RenameGeneric(At(d), src, dst, nx), RenameGeneric(Prompt(d), src, dst, nx))
  /\ UNCHANGED seen

Move(d, to, k) ==
  /\ d # to
  /\ LET moved  == MoveKey(At(d), At(to), k)
         prompt2 == MoveKey(Prompt(d), Prompt(to), k)
     IN /\ db' = [db EXCEPT ![d] = Tables(moved[1]), ![to] = Tables(moved[2])]
        /\ counted' = (moved[1].dirty + moved[2].dirty > 0)
        /\ prompt' = [prompt EXCEPT ![d] = prompt2[1].dict, ![to] = prompt2[2].dict]
  /\ Bounded
  /\ UNCHANGED <<now, seen>>

Push(d, k, e, where) ==
  /\ Run(d, PushGeneric(At(d), k, e, where), PushGeneric(Prompt(d), k, e, where))
  /\ UNCHANGED seen

SetElement(d, k, index, e) ==
  Run(d, Lset(At(d), k, index, e), Lset(Prompt(d), k, index, e)) /\ UNCHANGED seen

Pop(d, k, where) ==
  Run(d, PopGeneric(At(d), k, where), PopGeneric(Prompt(d), k, where)) /\ UNCHANGED seen

Trim(d, k, from, to) ==
  Run(d, LtrimKey(At(d), k, from, to), LtrimKey(Prompt(d), k, from, to)) /\ UNCHANGED seen

RemoveElements(d, k, toremove, e) ==
  /\ Run(d, LremKey(At(d), k, toremove, e), LremKey(Prompt(d), k, toremove, e))
  /\ UNCHANGED seen

AddMember(d, k, e) == Run(d, Sadd(At(d), k, e), Sadd(Prompt(d), k, e)) /\ UNCHANGED seen
RemMember(d, k, e) == Run(d, Srem(At(d), k, e), Srem(Prompt(d), k, e)) /\ UNCHANGED seen

MoveMember(d, src, dst, e) ==
  Run(d, Smove(At(d), src, dst, e), Smove(Prompt(d), src, dst, e)) /\ UNCHANGED seen

StoreInter(d, dst, ks) ==
  Run(d, SinterStore(At(d), dst, ks), SinterStore(Prompt(d), dst, ks)) /\ UNCHANGED seen

StoreUnionDiff(d, dst, ks, op) ==
  /\ Run(d, SunionDiffStore(At(d), dst, ks, op), SunionDiffStore(Prompt(d), dst, ks, op))
  /\ UNCHANGED seen

FlushDb(d) == Run(d, Flushdb(At(d)), Flushdb(Prompt(d))) /\ UNCHANGED seen

\* flushallCommand: whether server.dirty ends as it was depends on its rdbSave, see
\* Replication.
Flushall ==
  /\ db' = [d \in Dbs |-> [dict |-> Empty, expires |-> Empty]]
  /\ prompt' = [d \in Dbs |-> Empty]
  /\ counted' \in BOOLEAN
  /\ UNCHANGED <<now, seen>>

\* On the prompt server the key is gone as soon as it has a timeout.
ExpireKey(d, k, seconds) ==
  /\ now + seconds <= MaxTime \/ now + seconds >= Wrap32
  /\ Run(d, Expire(At(d), k, seconds),
          IF seconds > 0 THEN DeleteKeys(Prompt(d), {k}) ELSE Prompt(d))
  /\ UNCHANGED seen

\* A read looks up some keys.
Read(d, ks) == Run(d, Expired(At(d), ks), Prompt(d)) /\ UNCHANGED seen

DueKeys(d) == {k \in Keys : Due(At(d), k)}

\* randomkeyCommand draws keys until one is not due, or none is left.
Randomkey(d, drawn) ==
  /\ drawn \subseteq DueKeys(d)
  /\ drawn = DOMAIN db[d].dict \/ DOMAIN db[d].dict \ DueKeys(d) # {}
  /\ Read(d, drawn)

\* serverCron draws as many keys as are volatile, up to 100, from each database.
Cron(drawn) ==
  /\ \A d \in Dbs : /\ drawn[d] \subseteq DueKeys(d)
                    /\ DOMAIN db[d].expires = DueKeys(d) => drawn[d] = DueKeys(d)
  /\ db' = [d \in Dbs |-> Tables(DeleteKeys(At(d), drawn[d]))]
  /\ counted' = FALSE
  /\ UNCHANGED <<now, prompt, seen>>

Tick ==
  /\ now < MaxTime /\ now' = now + 1
  /\ counted' = FALSE
  /\ UNCHANGED <<db, prompt, seen>>

\* rdbSaveTime keeps 32 bits of a time.
Saved32(t) == IF t >= Wrap32 THEN t - 2 * Wrap32 ELSE t

\* Mutant of Loaded: what has expired meanwhile is loaded as well.
LoadedAll(b, later) ==
  LET saved == {k \in DOMAIN b.dict : ~Due(b, k)}
  IN [dict    |-> Restrict(b.dict, saved),
      expires |-> [k \in saved \cap DOMAIN b.expires |-> Saved32(b.expires[k])]]

\* rdbSave skips the keys that are due, rdbLoad deletes those that are due by then.
Loaded(b, later) ==
  LET saved == {k \in DOMAIN b.dict : ~Due(b, k)}
      alive == {k \in saved : Volatile(b, k) => Saved32(b.expires[k]) >= later}
  IN [dict    |-> Restrict(b.dict, alive),
      expires |-> [k \in alive \cap DOMAIN b.expires |-> Saved32(b.expires[k])]]

\* The server saves, stops, and starts again later.  It would not start if it read
\* the time -1, which is what a failed read looks like.
Restart(later) ==
  /\ now <= later
  /\ \A d \in Dbs : \A k \in DOMAIN db[d].expires : Saved32(db[d].expires[k]) # -1
  /\ db' = [d \in Dbs |-> Loaded(db[d], later)]
  /\ now' = later
  /\ counted' = FALSE
  /\ UNCHANGED <<prompt, seen>>

\* Commands that write one key.
WriteKey(d, k) ==
  \/ \E n \in Numbers : Set_(d, k, n) \/ Setnx(d, k, n) \/ Getset(d, k, n)
  \/ \E incr \in {-1, 1} : Incrby(d, k, incr)
  \/ \E e \in Elems : \/ \E where \in {"head", "tail"} : Push(d, k, e, where)
                      \/ \E i \in Indexes : SetElement(d, k, i, e) \/ RemoveElements(d, k, i, e)
                      \/ AddMember(d, k, e) \/ RemMember(d, k, e)
  \/ \E where \in {"head", "tail"} : Pop(d, k, where)
  \/ \E from, to \in Indexes : Trim(d, k, from, to)
  \/ \E seconds \in Timeouts : ExpireKey(d, k, seconds)

\* Commands on several keys or databases.
WriteKeys(d) ==
  \/ \E ks \in SUBSET Keys : DelKeys(d, ks)
  \/ \E src, dst \in Keys : \/ \E nx \in BOOLEAN : Rename(d, src, dst, nx)
                            \/ \E e \in Elems : MoveMember(d, src, dst, e)
  \/ \E to \in Dbs, k \in Keys : Move(d, to, k)
  \/ \E dst, k1, k2 \in Keys : \/ StoreInter(d, dst, <<k1, k2>>)
                               \/ \E op \in {"union", "diff"} :
                                   StoreUnionDiff(d, dst, <<k1, k2>>, op)
  \/ FlushDb(d)

Next ==
  \/ \E d \in Dbs : \/ \E k \in Keys : WriteKey(d, k)
                    \/ WriteKeys(d)
                    \/ \E ks \in SUBSET Keys : Read(d, ks) \/ Randomkey(d, ks)
  \/ Flushall
  \/ \E drawn \in [Dbs -> SUBSET Keys] : Cron(drawn)
  \/ Tick
  \/ \E later \in 0 .. MaxTime : Restart(later)

Spec == Init /\ [][Next]_vars

-----------------------------------------------------------------------------
(* Properties.                                                             *)

\* Every timeout is that of a key: removal, renaming, moving, expiry and loading
\* keep the two tables together.
ExpiresHaveKeys == \A d \in Dbs : DOMAIN db[d].expires \subseteq DOMAIN db[d].dict

\* The keys of a database that will not vanish.
Lasting(b) == Restrict(b.dict, DOMAIN b.dict \ DOMAIN b.expires)

\* doc/ExpireCommand.html, on why a write destroys a volatile key: "a server that
\* receives a given number of commands in the same sequence will end with the same
\* dataset in memory", whatever the time at which they run.  What has no timeout is what
\* it would be if every timeout had passed at once - until SETNX meets a volatile key.
\* Nothing follows for a slave, which does not receive them all: processCommand sends it
\* those that are counted, and EXPIRE is not (the excuse "unfed" of Replication).
SameDataset == ~seen => \A d \in Dbs : prompt[d] = Lasting(db[d])

\* A database as if every key that is due had been deleted.
Buried(b) == DeleteKeys(b, {k \in DOMAIN b.dict : Due(b, k)})

Answers(b) ==
  [k1 \in Keys |->
     <<Get(b, k1), Exists(b, k1), Type(b, k1), Llen(b, k1), Scard(b, k1), Ttl(b, k1),
       {<<Lindex(b, k1, i), LrangeKey(b, k1, 0, i)>> : i \in Indexes},
       {<<Sismember(b, k1, e)>> : e \in Elems},
       [k2 \in Keys |-> <<Mget(b, <<k1, k2>>), SinterRead(b, <<k1, k2>>),
                          SunionDiffRead(b, <<k1, k2>>, "union"),
                          SunionDiffRead(b, <<k1, k2>>, "diff"),
                          KeysRead(b, {k1, k2})>>]>>]

\* No reply but that of DBSIZE shows whether an expired key has been deleted yet.
ReadsIgnoreTheDead == \A d \in Dbs : Answers(At(d)) = Answers(Buried(At(d)))

\* The two tables implement one map whose keys vanish at their time, every change of
\* which is counted but those LiveMap names.
Entry(b, k) ==
  [value |-> b.dict[k], until |-> IF Volatile(b, k) THEN b.expires[k] ELSE -1]
Shown == [d \in Dbs |-> [k \in DOMAIN Buried(At(d)).dict |-> Entry(At(d), k)]]
Live == INSTANCE LiveMap WITH Horizon <- Wrap32 - 1, live <- Shown
IsLiveMap == Live!Spec

=============================================================================
