--------------------------- MODULE KeyspaceProofs -----------------------------
(***************************************************************************)
(* Theorems about Keyspace: its two tables fit each other, a dataset does  *)
(* not depend on the expiry of what nobody reads, values keep their types, *)
(* an expired key cannot be told from a deleted one, and the two tables    *)
(* implement the map of LiveMap.                                           *)
(*                                                                         *)
(* There is one lemma per helper and command on a single database.  Those  *)
(* of the second half say what a command does to a well-typed database: it *)
(* leaves it well typed, keeps or removes every key with a timeout, and    *)
(* changes nothing that shows unless it counts (Sound).  The theorems then *)
(* take the actions one by one.                                            *)
(***************************************************************************)
EXTENDS Keyspace, Induction, FiniteSetTheorems, SequenceTheorems

\* The tables of a database, the timeouts among the keys.
Tidy(b) == DOMAIN b.expires \subseteq DOMAIN b.dict

LEMMA PutDomain ==
  ASSUME NEW table, NEW k, NEW v
  PROVE  DOMAIN Put(table, k, v) = DOMAIN table \cup {k}
BY DEF Put

LEMMA WithoutDomain ==
  ASSUME NEW table, NEW ks
  PROVE  DOMAIN Without(table, ks) = DOMAIN table \ ks
BY DEF Without, Restrict

LEMMA DeleteKeysDomains ==
  ASSUME NEW b, NEW ks
  PROVE  /\ DOMAIN DeleteKeys(b, ks).dict = DOMAIN b.dict \ ks
         /\ DOMAIN DeleteKeys(b, ks).expires = DOMAIN b.expires \ ks
<1>1. DeleteKeys(b, ks).dict = Without(b.dict, ks)
  BY DEF DeleteKeys, Db
<1>2. DeleteKeys(b, ks).expires = Without(b.expires, ks)
  BY DEF DeleteKeys, Db
<1> QED BY <1>1, <1>2, WithoutDomain

LEMMA ClaimedDomains ==
  ASSUME NEW b, NEW ks
  PROVE  /\ DOMAIN Claimed(b, ks).dict = DOMAIN b.dict \ (ks \cap DOMAIN b.expires)
         /\ DOMAIN Claimed(b, ks).expires = DOMAIN b.expires \ ks
<1>1. Claimed(b, ks).dict = Without(b.dict, ks \cap DOMAIN b.expires)
  BY DEF Claimed, Db
<1>2. Claimed(b, ks).expires = Without(b.expires, ks \cap DOMAIN b.expires)
  BY DEF Claimed, Db
<1>3. DOMAIN Claimed(b, ks).dict = DOMAIN b.dict \ (ks \cap DOMAIN b.expires)
  BY <1>1, WithoutDomain
<1>4. DOMAIN Claimed(b, ks).expires = DOMAIN b.expires \ (ks \cap DOMAIN b.expires)
  BY <1>2, WithoutDomain
<1>5. DOMAIN b.expires \ (ks \cap DOMAIN b.expires) = DOMAIN b.expires \ ks
  OBVIOUS
<1> QED BY <1>3, <1>4, <1>5

LEMMA StoreDomains ==
  ASSUME NEW b, NEW k, NEW v
  PROVE  /\ DOMAIN Store(b, k, v).dict = DOMAIN b.dict \cup {k}
         /\ DOMAIN Store(b, k, v).expires = DOMAIN b.expires
<1>1. Store(b, k, v).dict = Put(b.dict, k, v)
  BY DEF Store, Db
<1>2. Store(b, k, v).expires = b.expires
  BY DEF Store, Db
<1>3. DOMAIN Store(b, k, v).dict = DOMAIN b.dict \cup {k}
  BY <1>1, PutDomain
<1>4. DOMAIN Store(b, k, v).expires = DOMAIN b.expires
  BY <1>2, PutDomain
<1> QED BY <1>3, <1>4

LEMMA RemoveExpireDomains ==
  ASSUME NEW b, NEW k
  PROVE  /\ DOMAIN RemoveExpire(b, k).dict = DOMAIN b.dict
         /\ DOMAIN RemoveExpire(b, k).expires = DOMAIN b.expires \ {k}
<1>1. RemoveExpire(b, k).dict = b.dict
  BY DEF RemoveExpire, Db
<1>2. RemoveExpire(b, k).expires = Without(b.expires, {k})
  BY DEF RemoveExpire, Db
<1> QED BY <1>1, <1>2, WithoutDomain

-----------------------------------------------------------------------------
(* The helpers keep a database tidy.                                       *)

LEMMA DeleteKeysTidy ==
  ASSUME NEW b, NEW ks, Tidy(b)
  PROVE  Tidy(DeleteKeys(b, ks))
BY DeleteKeysDomains DEF Tidy

LEMMA ExpiredTidy ==
  ASSUME NEW b, NEW ks, Tidy(b)
  PROVE  Tidy(Expired(b, ks))
BY DeleteKeysTidy DEF Expired

LEMMA ClaimedTidy ==
  ASSUME NEW b, NEW ks, Tidy(b)
  PROVE  Tidy(Claimed(b, ks))
BY ClaimedDomains DEF Tidy

LEMMA StoreTidy ==
  ASSUME NEW b, NEW k, NEW v, Tidy(b)
  PROVE  Tidy(Store(b, k, v))
BY StoreDomains DEF Tidy

LEMMA RemoveExpireTidy ==
  ASSUME NEW b, NEW k, Tidy(b)
  PROVE  Tidy(RemoveExpire(b, k))
BY RemoveExpireDomains DEF Tidy

LEMMA SetExpireTidy ==
  ASSUME NEW b, NEW k, NEW when, Tidy(b), Has(b, k)
  PROVE  Tidy(SetExpire(b, k, when))
<1>1. CASE Volatile(b, k)
  BY <1>1 DEF SetExpire
<1>2. CASE ~Volatile(b, k)
  <2>1. SetExpire(b, k, when).dict = b.dict
    BY <1>2 DEF SetExpire, Db
  <2>2. SetExpire(b, k, when).expires = Put(b.expires, k, when)
    BY <1>2 DEF SetExpire, Db
  <2>3. DOMAIN SetExpire(b, k, when).expires = DOMAIN b.expires \cup {k}
    BY <2>2, PutDomain
  <2> QED BY <2>1, <2>3 DEF Tidy, Has
<1> QED BY <1>1, <1>2

LEMMA PutTidy ==
  ASSUME NEW b, NEW k, NEW v, NEW n, Tidy(b)
  PROVE  Tidy(Db(Put(b.dict, k, v), b.expires, n))
<1>1. Db(Put(b.dict, k, v), b.expires, n).dict = Put(b.dict, k, v)
  BY DEF Db
<1>2. Db(Put(b.dict, k, v), b.expires, n).expires = b.expires
  BY DEF Db
<1>3. DOMAIN Db(Put(b.dict, k, v), b.expires, n).dict = DOMAIN b.dict \cup {k}
  BY <1>1, PutDomain
<1> QED BY <1>2, <1>3 DEF Tidy

LEMMA CountTidy ==
  ASSUME NEW b, NEW n, Tidy(b)
  PROVE  Tidy(Db(b.dict, b.expires, n))
<1>1. Db(b.dict, b.expires, n).dict = b.dict /\ Db(b.dict, b.expires, n).expires = b.expires
  BY DEF Db
<1> QED BY <1>1 DEF Tidy

-----------------------------------------------------------------------------
(* The commands keep a database tidy.                                      *)

LEMMA SetGenericTidy ==
  ASSUME NEW b, NEW k, NEW n, NEW nx, Tidy(b)
  PROVE  Tidy(SetGeneric(b, k, n, nx))
BY DeleteKeysTidy, ExpiredTidy, ClaimedTidy, StoreTidy, RemoveExpireTidy, PutTidy DEF SetGeneric

LEMMA GetSetTidy ==
  ASSUME NEW b, NEW k, NEW n, Tidy(b)
  PROVE  Tidy(GetSet(b, k, n))
BY DeleteKeysTidy, ExpiredTidy, ClaimedTidy, StoreTidy, RemoveExpireTidy, PutTidy DEF GetSet

LEMMA IncrDecrTidy ==
  ASSUME NEW b, NEW k, NEW incr, Tidy(b)
  PROVE  Tidy(IncrDecr(b, k, incr))
BY DeleteKeysTidy, ExpiredTidy, ClaimedTidy, StoreTidy, RemoveExpireTidy, PutTidy DEF IncrDecr

LEMMA DelTidy ==
  ASSUME NEW b, NEW ks, Tidy(b)
  PROVE  Tidy(Del(b, ks))
<1> DEFINE w == DeleteKeys(b, ks)
           n == b.dirty + Cardinality(ks \cap DOMAIN b.dict)
<1>1. Del(b, ks) = Db(w.dict, w.expires, n)
  BY DEF Del
<1>2. Tidy(w)
  BY DeleteKeysTidy
<1> HIDE DEF w, n
<1> QED BY <1>1, <1>2, CountTidy

LEMMA RenameGenericTidy ==
  ASSUME NEW b, NEW src, NEW dst, NEW nx, Tidy(b)
  PROVE  Tidy(RenameGeneric(b, src, dst, nx))
BY DeleteKeysTidy, ExpiredTidy, ClaimedTidy, StoreTidy, RemoveExpireTidy, PutTidy DEF RenameGeneric

LEMMA PushGenericTidy ==
  ASSUME NEW b, NEW k, NEW e, NEW where, Tidy(b)
  PROVE  Tidy(PushGeneric(b, k, e, where))
BY DeleteKeysTidy, ExpiredTidy, ClaimedTidy, StoreTidy, RemoveExpireTidy, PutTidy DEF PushGeneric

LEMMA LsetTidy ==
  ASSUME NEW b, NEW k, NEW index, NEW e, Tidy(b)
  PROVE  Tidy(Lset(b, k, index, e))
BY DeleteKeysTidy, ExpiredTidy, ClaimedTidy, StoreTidy, RemoveExpireTidy, PutTidy DEF Lset

LEMMA PopGenericTidy ==
  ASSUME NEW b, NEW k, NEW where, Tidy(b)
  PROVE  Tidy(PopGeneric(b, k, where))
BY DeleteKeysTidy, ExpiredTidy, ClaimedTidy, StoreTidy, RemoveExpireTidy, PutTidy DEF PopGeneric

LEMMA LtrimKeyTidy ==
  ASSUME NEW b, NEW k, NEW from, NEW to, Tidy(b)
  PROVE  Tidy(LtrimKey(b, k, from, to))
BY DeleteKeysTidy, ExpiredTidy, ClaimedTidy, StoreTidy, RemoveExpireTidy, PutTidy DEF LtrimKey

LEMMA LremKeyTidy ==
  ASSUME NEW b, NEW k, NEW toremove, NEW e, Tidy(b)
  PROVE  Tidy(LremKey(b, k, toremove, e))
BY DeleteKeysTidy, ExpiredTidy, ClaimedTidy, StoreTidy, RemoveExpireTidy, PutTidy DEF LremKey

LEMMA SaddTidy ==
  ASSUME NEW b, NEW k, NEW e, Tidy(b)
  PROVE  Tidy(Sadd(b, k, e))
BY DeleteKeysTidy, ExpiredTidy, ClaimedTidy, StoreTidy, RemoveExpireTidy, PutTidy DEF Sadd

LEMMA SremTidy ==
  ASSUME NEW b, NEW k, NEW e, Tidy(b)
  PROVE  Tidy(Srem(b, k, e))
BY DeleteKeysTidy, ExpiredTidy, ClaimedTidy, StoreTidy, RemoveExpireTidy, PutTidy DEF Srem

LEMMA SmoveTidy ==
  ASSUME NEW b, NEW src, NEW dst, NEW e, Tidy(b)
  PROVE  Tidy(Smove(b, src, dst, e))
BY DeleteKeysTidy, ExpiredTidy, ClaimedTidy, StoreTidy, RemoveExpireTidy, PutTidy DEF Smove

LEMMA SinterStoreTidy ==
  ASSUME NEW b, NEW dst, NEW ks, Tidy(b)
  PROVE  Tidy(SinterStore(b, dst, ks))
BY DeleteKeysTidy, ExpiredTidy, ClaimedTidy, StoreTidy, RemoveExpireTidy, PutTidy DEF SinterStore, LookedUp

LEMMA SunionDiffStoreTidy ==
  ASSUME NEW b, NEW dst, NEW ks, NEW op, Tidy(b)
  PROVE  Tidy(SunionDiffStore(b, dst, ks, op))
BY DeleteKeysTidy, ExpiredTidy, ClaimedTidy, StoreTidy, RemoveExpireTidy, PutTidy DEF SunionDiffStore, LookedUp

LEMMA FlushdbTidy ==
  ASSUME NEW b, Tidy(b)
  PROVE  Tidy(Flushdb(b))
<1>1. DOMAIN Flushdb(b).expires = {}
  BY DEF Flushdb, Db, Empty
<1> QED BY <1>1 DEF Tidy

LEMMA ExpireTidy ==
  ASSUME NEW b, NEW k, NEW seconds, Tidy(b)
  PROVE  Tidy(Expire(b, k, seconds))
BY SetExpireTidy DEF Expire

LEMMA MoveKeyTidy ==
  ASSUME NEW from, NEW to, NEW k, Tidy(from), Tidy(to)
  PROVE  Tidy(MoveKey(from, to, k)[1]) /\ Tidy(MoveKey(from, to, k)[2])
<1> DEFINE w == Claimed(from, {k})
           t == Claimed(to, {k})
<1>1. Tidy(w) /\ Tidy(t)
  BY ClaimedTidy
<1>2. Tidy(DeleteKeys(w, {k})) /\ Tidy(Store(t, k, w.dict[k]))
  BY <1>1, DeleteKeysTidy, StoreTidy
<1>3. \/ MoveKey(from, to, k) = <<w, to>>
      \/ MoveKey(from, to, k) = <<w, t>>
      \/ MoveKey(from, to, k) = <<DeleteKeys(w, {k}), Store(t, k, w.dict[k])>>
  BY DEF MoveKey
<1> HIDE DEF w, t
<1> QED BY <1>1, <1>2, <1>3

LEMMA LoadedTidy ==
  ASSUME NEW b, NEW later
  PROVE  DOMAIN Loaded(b, later).expires \subseteq DOMAIN Loaded(b, later).dict
<1> DEFINE saved == {k \in DOMAIN b.dict : ~Due(b, k)}
           alive == {k \in saved : Volatile(b, k) => Saved32(b.expires[k]) >= later}
<1>1. DOMAIN Loaded(b, later).dict = alive
  BY DEF Loaded, Restrict
<1>2. DOMAIN Loaded(b, later).expires = alive \cap DOMAIN b.expires
  BY DEF Loaded
<1> QED BY <1>1, <1>2

-----------------------------------------------------------------------------
(* A database and that of the prompt server: what has no timeout is the    *)
(* same.                                                                   *)

Agree(b, q) == DOMAIN q.expires = {} /\ q.dict = Lasting(b)

LEMMA AgreeIs ==
  ASSUME NEW b, NEW q, Agree(b, q)
  PROVE  /\ DOMAIN q.dict = DOMAIN b.dict \ DOMAIN b.expires
         /\ \A k \in DOMAIN q.dict : q.dict[k] = b.dict[k]
<1>1. q.dict = [k \in DOMAIN b.dict \ DOMAIN b.expires |-> b.dict[k]]
  BY DEF Agree, Lasting, Restrict
<1> QED BY <1>1

LEMMA AgreeIf ==
  ASSUME NEW b, NEW q, DOMAIN q.expires = {},
         q.dict = [k \in DOMAIN q.dict |-> q.dict[k]],
         DOMAIN q.dict = DOMAIN b.dict \ DOMAIN b.expires,
         \A k \in DOMAIN q.dict : q.dict[k] = b.dict[k]
  PROVE  Agree(b, q)
<1>1. q.dict = [k \in DOMAIN b.dict \ DOMAIN b.expires |-> b.dict[k]]
  OBVIOUS
<1> QED BY <1>1 DEF Agree, Lasting, Restrict

\* A key that is not volatile is found alike.
SameAt(b, q, k) ==
  /\ ~Volatile(b, k) /\ ~Volatile(q, k)
  /\ Has(b, k) <=> Has(q, k)
  /\ Has(b, k) => q.dict[k] = b.dict[k]

LEMMA AgreeSameAt ==
  ASSUME NEW b, NEW q, NEW k, Agree(b, q), ~Volatile(b, k)
  PROVE  SameAt(b, q, k)
<1>1. DOMAIN q.expires = {}
  BY DEF Agree
<1> QED BY <1>1, AgreeIs DEF SameAt, Volatile, Has

LEMMA SameAtIsA ==
  ASSUME NEW b, NEW q, NEW k, NEW type, SameAt(b, q, k)
  PROVE  IsA(b, k, type) <=> IsA(q, k, type)
BY DEF SameAt, IsA

LEMMA WithoutIs ==
  ASSUME NEW table, NEW ks
  PROVE  Without(table, ks) = [k \in DOMAIN table \ ks |-> table[k]]
BY DEF Without, Restrict

LEMMA DeleteKeysAgree ==
  ASSUME NEW b, NEW q, NEW ks, Agree(b, q)
  PROVE  Agree(DeleteKeys(b, ks), DeleteKeys(q, ks))
<1> DEFINE c == DeleteKeys(b, ks)
           r == DeleteKeys(q, ks)
<1>1. c.dict = [k \in DOMAIN b.dict \ ks |-> b.dict[k]]
  BY WithoutIs DEF DeleteKeys, Db
<1>2. r.dict = [k \in DOMAIN q.dict \ ks |-> q.dict[k]]
  BY WithoutIs DEF DeleteKeys, Db
<1>3. DOMAIN c.expires = DOMAIN b.expires \ ks
  BY DeleteKeysDomains
<1>4. DOMAIN r.expires = {}
  BY DeleteKeysDomains DEF Agree
<1> HIDE DEF c, r
<1>5. DOMAIN r.dict = DOMAIN q.dict \ ks /\ DOMAIN c.dict = DOMAIN b.dict \ ks
  BY <1>1, <1>2
<1>6. DOMAIN r.dict = DOMAIN c.dict \ DOMAIN c.expires
  BY <1>3, <1>5, AgreeIs
<1>7. \A k \in DOMAIN r.dict : r.dict[k] = c.dict[k]
  BY <1>1, <1>2, <1>5, AgreeIs
<1>8. r.dict = [k \in DOMAIN r.dict |-> r.dict[k]]
  BY <1>2
<1>9. Agree(c, r)
  BY <1>4, <1>6, <1>7, <1>8, AgreeIf
<1> QED BY <1>9 DEF c, r

\* To delete volatile keys is nothing to the prompt server.
LEMMA VolatileGone ==
  ASSUME NEW b, NEW q, NEW ks, Agree(b, q), ks \subseteq DOMAIN b.expires
  PROVE  Agree(DeleteKeys(b, ks), q)
<1> DEFINE c == DeleteKeys(b, ks)
<1>1. c.dict = [k \in DOMAIN b.dict \ ks |-> b.dict[k]]
  BY WithoutIs DEF DeleteKeys, Db
<1>2. DOMAIN c.expires = DOMAIN b.expires \ ks
  BY DeleteKeysDomains
<1> HIDE DEF c
<1>3. DOMAIN q.dict = DOMAIN c.dict \ DOMAIN c.expires
  BY <1>1, <1>2, AgreeIs
<1>4. \A k \in DOMAIN q.dict : q.dict[k] = c.dict[k]
  BY <1>1, <1>2, <1>3, AgreeIs
<1>5. q.dict = [k \in DOMAIN q.dict |-> q.dict[k]]
  BY DEF Agree, Lasting, Restrict
<1>6. DOMAIN q.expires = {}
  BY DEF Agree
<1>7. Agree(c, q)
  BY <1>3, <1>4, <1>5, <1>6, AgreeIf
<1> QED BY <1>7 DEF c

LEMMA NothingDue ==
  ASSUME NEW q, NEW ks, DOMAIN q.expires = {}
  PROVE  {k \in ks : Due(q, k)} = {}
BY DEF Due, Volatile

LEMMA ExpiredAgree ==
  ASSUME NEW b, NEW q, NEW ks, Agree(b, q)
  PROVE  Agree(Expired(b, ks), q)
<1>1. {k \in ks : Due(b, k)} \subseteq DOMAIN b.expires
  BY DEF Due, Volatile
<1> QED BY <1>1, VolatileGone DEF Expired

LEMMA NothingDeleted ==
  ASSUME NEW b, NEW q, NEW r, Agree(b, q), r.dict = Without(q.dict, {}),
         r.expires = Without(q.expires, {})
  PROVE  Agree(b, r)
<1>1. r.dict = [k \in DOMAIN q.dict |-> q.dict[k]] /\ DOMAIN r.expires = {}
  BY WithoutIs, WithoutDomain DEF Agree
<1>2. q.dict = [k \in DOMAIN q.dict |-> q.dict[k]]
  BY DEF Agree, Lasting, Restrict
<1>3. r.dict = q.dict
  BY <1>1, <1>2
<1> QED BY <1>1, <1>3 DEF Agree

LEMMA BothExpiredAgree ==
  ASSUME NEW b, NEW q, NEW ks, Agree(b, q)
  PROVE  Agree(Expired(b, ks), Expired(q, ks))
<1>1. Agree(Expired(b, ks), q)
  BY ExpiredAgree
<1>2. {k \in ks : Due(q, k)} = {}
  BY NothingDue DEF Agree
<1>3. Expired(q, ks) = DeleteKeys(q, {})
  BY <1>2 DEF Expired
<1>4. Expired(q, ks).dict = Without(q.dict, {}) /\ Expired(q, ks).expires = Without(q.expires, {})
  BY <1>3 DEF DeleteKeys, Db
<1> QED BY <1>1, <1>4, NothingDeleted

LEMMA ClaimedAgree ==
  ASSUME NEW b, NEW q, NEW ks, Agree(b, q)
  PROVE  /\ Agree(Claimed(b, ks), Claimed(q, ks))
         /\ \A k \in ks : SameAt(Claimed(b, ks), Claimed(q, ks), k)
<1> DEFINE gone == ks \cap DOMAIN b.expires
           c == Claimed(b, ks)
           r == Claimed(q, ks)
<1>1. Agree(DeleteKeys(b, gone), q)
  BY VolatileGone
<1>2. c.dict = DeleteKeys(b, gone).dict /\ c.expires = DeleteKeys(b, gone).expires
  BY DEF Claimed, DeleteKeys, Db
<1>3. Agree(c, q)
  BY <1>1, <1>2 DEF Agree, Lasting
<1>4. ks \cap DOMAIN q.expires = {}
  BY DEF Agree
<1>5. r.dict = Without(q.dict, {}) /\ r.expires = Without(q.expires, {})
  BY <1>4 DEF Claimed, Db
<1>6. Agree(c, r)
  BY <1>3, <1>5, NothingDeleted
<1>7. ASSUME NEW k \in ks PROVE ~Volatile(c, k)
  BY ClaimedDomains DEF Volatile
<1>8. ASSUME NEW k \in ks PROVE SameAt(c, r, k)
  BY <1>6, <1>7, AgreeSameAt
<1> QED BY <1>6, <1>8

LEMMA StoreAgree ==
  ASSUME NEW b, NEW q, NEW k, NEW v, Agree(b, q), ~Volatile(b, k)
  PROVE  Agree(Store(b, k, v), Store(q, k, v))
<1> DEFINE c == Store(b, k, v)
           r == Store(q, k, v)
<1>1. c.dict = [x \in DOMAIN b.dict \cup {k} |-> IF x = k THEN v ELSE b.dict[x]]
  BY DEF Store, Put, Db
<1>2. r.dict = [x \in DOMAIN q.dict \cup {k} |-> IF x = k THEN v ELSE q.dict[x]]
  BY DEF Store, Put, Db
<1>3. DOMAIN c.expires = DOMAIN b.expires /\ k \notin DOMAIN b.expires
  BY StoreDomains DEF Volatile
<1>4. DOMAIN r.expires = {}
  BY StoreDomains DEF Agree
<1> HIDE DEF c, r
<1>5. DOMAIN r.dict = DOMAIN c.dict \ DOMAIN c.expires
  BY <1>1, <1>2, <1>3, AgreeIs
<1>6. \A x \in DOMAIN r.dict : r.dict[x] = c.dict[x]
  BY <1>1, <1>2, <1>3, AgreeIs
<1>7. r.dict = [x \in DOMAIN r.dict |-> r.dict[x]]
  BY <1>2
<1>8. Agree(c, r)
  BY <1>4, <1>5, <1>6, <1>7, AgreeIf
<1> QED BY <1>8 DEF c, r

\* SET gives even a volatile key a value to stay.
LEMMA SetAgree ==
  ASSUME NEW b, NEW q, NEW k, NEW v, Agree(b, q)
  PROVE  Agree(RemoveExpire(Store(b, k, v), k), RemoveExpire(Store(q, k, v), k))
<1> DEFINE c == RemoveExpire(Store(b, k, v), k)
           r == RemoveExpire(Store(q, k, v), k)
<1>1. c.dict = [x \in DOMAIN b.dict \cup {k} |-> IF x = k THEN v ELSE b.dict[x]]
  BY DEF RemoveExpire, Store, Put, Db
<1>2. r.dict = [x \in DOMAIN q.dict \cup {k} |-> IF x = k THEN v ELSE q.dict[x]]
  BY DEF RemoveExpire, Store, Put, Db
<1>3. DOMAIN c.expires = DOMAIN b.expires \ {k}
  BY StoreDomains, RemoveExpireDomains
<1>4. DOMAIN r.expires = {}
  BY StoreDomains, RemoveExpireDomains DEF Agree
<1> HIDE DEF c, r
<1>5. DOMAIN r.dict = DOMAIN c.dict \ DOMAIN c.expires
  BY <1>1, <1>2, <1>3, AgreeIs
<1>6. \A x \in DOMAIN r.dict : r.dict[x] = c.dict[x]
  BY <1>1, <1>2, <1>3, AgreeIs
<1>7. r.dict = [x \in DOMAIN r.dict |-> r.dict[x]]
  BY <1>2
<1>8. Agree(c, r)
  BY <1>4, <1>5, <1>6, <1>7, AgreeIf
<1> QED BY <1>8 DEF c, r

-----------------------------------------------------------------------------
(* Every command keeps the two in agreement.                               *)

LEMMA SetGenericAgree ==
  ASSUME NEW b, NEW q, NEW k, NEW n, NEW nx, Agree(b, q), nx => ~Volatile(b, k)
  PROVE  Agree(SetGeneric(b, k, n, nx), SetGeneric(q, k, n, nx))
<1>1. nx => (Has(b, k) <=> Has(q, k))
  BY AgreeSameAt DEF SameAt
<1>2. Agree(RemoveExpire(Store(b, k, Str(n)), k), RemoveExpire(Store(q, k, Str(n)), k))
  BY SetAgree
<1> QED BY <1>1, <1>2 DEF SetGeneric

LEMMA GetSetAgree ==
  ASSUME NEW b, NEW q, NEW k, NEW n, Agree(b, q)
  PROVE  Agree(GetSet(b, k, n), GetSet(q, k, n))
BY BothExpiredAgree, SetAgree DEF GetSet

LEMMA IncrDecrAgree ==
  ASSUME NEW b, NEW q, NEW k, NEW incr, Agree(b, q)
  PROVE  Agree(IncrDecr(b, k, incr), IncrDecr(q, k, incr))
<1> DEFINE w == Claimed(b, {k})
           r == Claimed(q, {k})
<1>1. Agree(w, r) /\ SameAt(w, r, k)
  BY ClaimedAgree
<1> DEFINE value(x) == IF IsA(x, k, "string") THEN x.dict[k].val ELSE 0
           after(x) == Store(x, k, Str(value(x) + incr))
<1>2. value(w) = value(r)
  BY <1>1 DEF SameAt, IsA
<1>3. Agree(after(w), after(r))
  BY <1>1, <1>2, StoreAgree DEF SameAt
<1>4. Agree(RemoveExpire(after(w), k), RemoveExpire(after(r), k))
  BY <1>1, <1>2, SetAgree
<1>5. IncrDecr(b, k, incr) = IF Has(w, k) THEN RemoveExpire(after(w), k) ELSE after(w)
  BY DEF IncrDecr
<1>6. IncrDecr(q, k, incr) = IF Has(r, k) THEN RemoveExpire(after(r), k) ELSE after(r)
  BY DEF IncrDecr
<1> HIDE DEF w, r, after
<1> QED BY <1>1, <1>3, <1>4, <1>5, <1>6 DEF SameAt

LEMMA PushGenericAgree ==
  ASSUME NEW b, NEW q, NEW k, NEW e, NEW where, Agree(b, q)
  PROVE  Agree(PushGeneric(b, k, e, where), PushGeneric(q, k, e, where))
<1> DEFINE w == Claimed(b, {k})
           r == Claimed(q, {k})
<1>1. Agree(w, r) /\ SameAt(w, r, k)
  BY ClaimedAgree
<1> DEFINE can(x) == ~(Has(x, k) /\ ~IsA(x, k, "list"))
           value(x) == LET list == IF Has(x, k) THEN x.dict[k].val ELSE <<>>
                       IN  List(IF where = "head" THEN <<e>> \o list ELSE Append(list, e))
<1>2. can(w) <=> can(r)
  BY <1>1 DEF SameAt, IsA
<1>3. can(w) => value(w) = value(r)
  BY <1>1 DEF SameAt, IsA, Has
<1>4. can(w) => Agree(Store(w, k, value(w)), Store(r, k, value(r)))
  BY <1>1, <1>3, StoreAgree DEF SameAt
<1>5. PushGeneric(b, k, e, where) = IF can(w) THEN Store(w, k, value(w)) ELSE w
  BY DEF PushGeneric
<1>6. PushGeneric(q, k, e, where) = IF can(r) THEN Store(r, k, value(r)) ELSE r
  BY DEF PushGeneric
<1> HIDE DEF w, r, can, value
<1> QED BY <1>1, <1>2, <1>4, <1>5, <1>6

LEMMA LsetAgree ==
  ASSUME NEW b, NEW q, NEW k, NEW index, NEW e, Agree(b, q)
  PROVE  Agree(Lset(b, k, index, e), Lset(q, k, index, e))
<1> DEFINE w == Claimed(b, {k})
           r == Claimed(q, {k})
<1>1. Agree(w, r) /\ SameAt(w, r, k)
  BY ClaimedAgree
<1> DEFINE can(x) == IsA(x, k, "list") /\ ListIndex(x.dict[k].val, index) # <<>>
           value(x) == LET list == x.dict[k].val
                           n == IF index < 0 THEN Len(list) + index + 1 ELSE index + 1
                       IN  List([list EXCEPT ![n] = e])
<1>2. can(w) <=> can(r)
  BY <1>1 DEF SameAt, IsA
<1>3. can(w) => value(w) = value(r)
  BY <1>1 DEF SameAt, IsA, Has
<1>4. can(w) => Agree(Store(w, k, value(w)), Store(r, k, value(r)))
  BY <1>1, <1>3, StoreAgree DEF SameAt
<1>5. Lset(b, k, index, e) = IF can(w) THEN Store(w, k, value(w)) ELSE w
  BY DEF Lset
<1>6. Lset(q, k, index, e) = IF can(r) THEN Store(r, k, value(r)) ELSE r
  BY DEF Lset
<1> HIDE DEF w, r, can, value
<1> QED BY <1>1, <1>2, <1>4, <1>5, <1>6

LEMMA PopGenericAgree ==
  ASSUME NEW b, NEW q, NEW k, NEW where, Agree(b, q)
  PROVE  Agree(PopGeneric(b, k, where), PopGeneric(q, k, where))
<1> DEFINE w == Claimed(b, {k})
           r == Claimed(q, {k})
<1>1. Agree(w, r) /\ SameAt(w, r, k)
  BY ClaimedAgree
<1> DEFINE can(x) == IsA(x, k, "list") /\ x.dict[k].val # <<>>
           value(x) == LET list == x.dict[k].val
                       IN  List(IF where = "head" THEN Tail(list) ELSE Front(list))
<1>2. can(w) <=> can(r)
  BY <1>1 DEF SameAt, IsA
<1>3. can(w) => value(w) = value(r)
  BY <1>1 DEF SameAt, IsA, Has
<1>4. can(w) => Agree(Store(w, k, value(w)), Store(r, k, value(r)))
  BY <1>1, <1>3, StoreAgree DEF SameAt
<1>5. PopGeneric(b, k, where) = IF can(w) THEN Store(w, k, value(w)) ELSE w
  BY DEF PopGeneric
<1>6. PopGeneric(q, k, where) = IF can(r) THEN Store(r, k, value(r)) ELSE r
  BY DEF PopGeneric
<1> HIDE DEF w, r, can, value
<1> QED BY <1>1, <1>2, <1>4, <1>5, <1>6

LEMMA LtrimKeyAgree ==
  ASSUME NEW b, NEW q, NEW k, NEW from, NEW to, Agree(b, q)
  PROVE  Agree(LtrimKey(b, k, from, to), LtrimKey(q, k, from, to))
<1> DEFINE w == Claimed(b, {k})
           r == Claimed(q, {k})
<1>1. Agree(w, r) /\ SameAt(w, r, k)
  BY ClaimedAgree
<1> DEFINE can(x) == IsA(x, k, "list")
           value(x) == List(Ltrim(x.dict[k].val, from, to))
<1>2. can(w) <=> can(r)
  BY <1>1 DEF SameAt, IsA
<1>3. can(w) => value(w) = value(r)
  BY <1>1 DEF SameAt, IsA, Has
<1>4. can(w) => Agree(Store(w, k, value(w)), Store(r, k, value(r)))
  BY <1>1, <1>3, StoreAgree DEF SameAt
<1>5. LtrimKey(b, k, from, to) = IF can(w) THEN Store(w, k, value(w)) ELSE w
  BY DEF LtrimKey
<1>6. LtrimKey(q, k, from, to) = IF can(r) THEN Store(r, k, value(r)) ELSE r
  BY DEF LtrimKey
<1> HIDE DEF w, r, can, value
<1> QED BY <1>1, <1>2, <1>4, <1>5, <1>6

LEMMA SremAgree ==
  ASSUME NEW b, NEW q, NEW k, NEW e, Agree(b, q)
  PROVE  Agree(Srem(b, k, e), Srem(q, k, e))
<1> DEFINE w == Claimed(b, {k})
           r == Claimed(q, {k})
<1>1. Agree(w, r) /\ SameAt(w, r, k)
  BY ClaimedAgree
<1> DEFINE can(x) == IsA(x, k, "set") /\ e \in x.dict[k].val
           value(x) == Set(x.dict[k].val \ {e})
<1>2. can(w) <=> can(r)
  BY <1>1 DEF SameAt, IsA
<1>3. can(w) => value(w) = value(r)
  BY <1>1 DEF SameAt, IsA, Has
<1>4. can(w) => Agree(Store(w, k, value(w)), Store(r, k, value(r)))
  BY <1>1, <1>3, StoreAgree DEF SameAt
<1>5. Srem(b, k, e) = IF can(w) THEN Store(w, k, value(w)) ELSE w
  BY DEF Srem
<1>6. Srem(q, k, e) = IF can(r) THEN Store(r, k, value(r)) ELSE r
  BY DEF Srem
<1> HIDE DEF w, r, can, value
<1> QED BY <1>1, <1>2, <1>4, <1>5, <1>6

LEMMA SaddAgree ==
  ASSUME NEW b, NEW q, NEW k, NEW e, Agree(b, q)
  PROVE  Agree(Sadd(b, k, e), Sadd(q, k, e))
<1> DEFINE w == Claimed(b, {k})
           r == Claimed(q, {k})
<1>1. Agree(w, r) /\ SameAt(w, r, k)
  BY ClaimedAgree
<1> DEFINE can(x) == /\ ~(Has(x, k) /\ ~IsA(x, k, "set"))
                     /\ e \notin (IF Has(x, k) THEN x.dict[k].val ELSE {})
           value(x) == Set((IF Has(x, k) THEN x.dict[k].val ELSE {}) \cup {e})
<1>2. can(w) <=> can(r)
  BY <1>1 DEF SameAt, IsA
<1>3. can(w) => value(w) = value(r)
  BY <1>1 DEF SameAt, IsA, Has
<1>4. can(w) => Agree(Store(w, k, value(w)), Store(r, k, value(r)))
  BY <1>1, <1>3, StoreAgree DEF SameAt
<1>5. Sadd(b, k, e) = IF can(w) THEN Store(w, k, value(w)) ELSE w
  BY DEF Sadd
<1>6. Sadd(q, k, e) = IF can(r) THEN Store(r, k, value(r)) ELSE r
  BY DEF Sadd
<1> HIDE DEF w, r, can, value
<1> QED BY <1>1, <1>2, <1>4, <1>5, <1>6

LEMMA CountAgree ==
  ASSUME NEW b, NEW q, NEW m, NEW n, Agree(b, q)
  PROVE  Agree(Db(b.dict, b.expires, m), Db(q.dict, q.expires, n))
<1>1. Db(b.dict, b.expires, m).dict = b.dict /\ Db(b.dict, b.expires, m).expires = b.expires
  BY DEF Db
<1>2. Db(q.dict, q.expires, n).dict = q.dict /\ Db(q.dict, q.expires, n).expires = q.expires
  BY DEF Db
<1> QED BY <1>1, <1>2 DEF Agree, Lasting

LEMMA DelAgree ==
  ASSUME NEW b, NEW q, NEW ks, Agree(b, q)
  PROVE  Agree(Del(b, ks), Del(q, ks))
<1> DEFINE w == DeleteKeys(b, ks)
           r == DeleteKeys(q, ks)
           m == b.dirty + Cardinality(ks \cap DOMAIN b.dict)
           n == q.dirty + Cardinality(ks \cap DOMAIN q.dict)
<1>1. Agree(w, r)
  BY DeleteKeysAgree
<1>2. Del(b, ks) = Db(w.dict, w.expires, m) /\ Del(q, ks) = Db(r.dict, r.expires, n)
  BY DEF Del
<1> HIDE DEF w, r, m, n
<1> QED BY <1>1, <1>2, CountAgree

LEMMA ExpireAgree ==
  ASSUME NEW b, NEW q, NEW k, NEW seconds, seconds > 0, Agree(b, q)
  PROVE  Agree(Expire(b, k, seconds), DeleteKeys(q, {k}))
<1> DEFINE c == Expire(b, k, seconds)
           r == DeleteKeys(q, {k})
<1>1. r.dict = [x \in DOMAIN q.dict \ {k} |-> q.dict[x]]
  BY WithoutIs DEF DeleteKeys, Db
<1>2. DOMAIN r.expires = {}
  BY DeleteKeysDomains DEF Agree
<1>3. c.dict = b.dict
  BY DEF Expire, SetExpire, Db
<1>4. DOMAIN c.expires = IF Has(b, k) THEN DOMAIN b.expires \cup {k} ELSE DOMAIN b.expires
  <2>1. CASE ~Has(b, k)
    BY <2>1 DEF Expire
  <2>2. CASE Has(b, k) /\ Volatile(b, k)
    <3>1. c = b /\ k \in DOMAIN b.expires
      BY <2>2 DEF Expire, SetExpire, Volatile
    <3>2. DOMAIN b.expires = DOMAIN b.expires \cup {k}
      BY <3>1
    <3> QED BY <2>2, <3>1, <3>2
  <2>3. CASE Has(b, k) /\ ~Volatile(b, k)
    <3>1. c.expires = Put(b.expires, k, now + seconds)
      BY <2>3 DEF Expire, SetExpire, Db
    <3> QED BY <2>3, <3>1, PutDomain
  <2> QED BY <2>1, <2>2, <2>3
<1> HIDE DEF c, r
<1>5. DOMAIN r.dict = DOMAIN c.dict \ DOMAIN c.expires
  BY <1>1, <1>3, <1>4, AgreeIs DEF Has
<1>6. \A x \in DOMAIN r.dict : r.dict[x] = c.dict[x]
  BY <1>1, <1>3, AgreeIs
<1>7. r.dict = [x \in DOMAIN r.dict |-> r.dict[x]]
  BY <1>1
<1>8. Agree(c, r)
  BY <1>2, <1>5, <1>6, <1>7, AgreeIf
<1> QED BY <1>8 DEF c, r

LEMMA FlushdbAgree ==
  ASSUME NEW b, NEW q
  PROVE  Agree(Flushdb(b), Flushdb(q))
<1> DEFINE c == Flushdb(b)
           r == Flushdb(q)
<1>1. /\ c.dict = Empty /\ c.expires = Empty
      /\ r.dict = Empty /\ r.expires = Empty
  BY DEF Flushdb, Db
<1> HIDE DEF c, r
<1>2. DOMAIN Empty = {}
  BY DEF Empty
<1>3. DOMAIN r.expires = {} /\ DOMAIN r.dict = DOMAIN c.dict \ DOMAIN c.expires
  BY <1>1, <1>2
<1>4. r.dict = [x \in DOMAIN r.dict |-> r.dict[x]]
  BY <1>1, <1>2 DEF Empty
<1>5. \A x \in DOMAIN r.dict : r.dict[x] = c.dict[x]
  BY <1>1
<1>6. Agree(c, r)
  BY <1>3, <1>4, <1>5, AgreeIf
<1> QED BY <1>6 DEF c, r

\* Keys that have been claimed stay claimed.
LEMMA ClaimedAgain ==
  ASSUME NEW b, NEW q, NEW k, NEW ks, SameAt(b, q, k), Agree(b, q)
  PROVE  SameAt(Claimed(b, ks), Claimed(q, ks), k)
<1>1. Agree(Claimed(b, ks), Claimed(q, ks))
  BY ClaimedAgree
<1>2. ~Volatile(Claimed(b, ks), k)
  BY ClaimedDomains DEF SameAt, Volatile
<1> QED BY <1>1, <1>2, AgreeSameAt

LEMMA RenameGenericAgree ==
  ASSUME NEW b, NEW q, NEW src, NEW dst, NEW nx, Agree(b, q)
  PROVE  Agree(RenameGeneric(b, src, dst, nx), RenameGeneric(q, src, dst, nx))
<1> DEFINE w == Claimed(b, {src})
           r == Claimed(q, {src})
           t == Claimed(w, {dst})
           u == Claimed(r, {dst})
<1>1. Agree(w, r) /\ SameAt(w, r, src)
  BY ClaimedAgree
<1>2. Agree(t, u) /\ SameAt(t, u, dst)
  BY <1>1, ClaimedAgree
<1> DEFINE moved == DeleteKeys(Store(t, dst, w.dict[src]), {src})
           moved2 == DeleteKeys(Store(u, dst, r.dict[src]), {src})
<1>3. Has(w, src) => Agree(moved, moved2)
  <2>1. Has(w, src) => w.dict[src] = r.dict[src]
    BY <1>1 DEF SameAt
  <2>2. Agree(Store(t, dst, w.dict[src]), Store(u, dst, w.dict[src]))
    BY <1>2, StoreAgree DEF SameAt
  <2> HIDE DEF t, u, w, r
  <2> QED BY <2>1, <2>2, DeleteKeysAgree
<1>4. Has(w, src) <=> Has(r, src)
  BY <1>1 DEF SameAt
<1>5. Has(t, dst) <=> Has(u, dst)
  BY <1>2 DEF SameAt
<1>6. RenameGeneric(b, src, dst, nx) =
        IF src = dst THEN b ELSE IF ~Has(w, src) THEN w
        ELSE IF nx /\ Has(t, dst) THEN t ELSE moved
  BY DEF RenameGeneric
<1>7. RenameGeneric(q, src, dst, nx) =
        IF src = dst THEN q ELSE IF ~Has(r, src) THEN r
        ELSE IF nx /\ Has(u, dst) THEN u ELSE moved2
  BY DEF RenameGeneric
<1> HIDE DEF w, r, t, u, moved, moved2
<1> QED BY <1>1, <1>2, <1>3, <1>4, <1>5, <1>6, <1>7

LEMMA LremKeyAgree ==
  ASSUME NEW b, NEW q, NEW k, NEW toremove, NEW e, Agree(b, q)
  PROVE  Agree(LremKey(b, k, toremove, e), LremKey(q, k, toremove, e))
<1> DEFINE w == Claimed(b, {k})
           r == Claimed(q, {k})
           walk(x) == Lrem(x.dict[k].val, toremove, e)
<1>1. Agree(w, r) /\ SameAt(w, r, k)
  BY ClaimedAgree
<1> DEFINE can(x) == IsA(x, k, "list")
           value(x) == List(walk(x).left)
           stored(x) == Db(Put(x.dict, k, value(x)), x.expires, x.dirty + walk(x).removed)
<1>2. can(w) <=> can(r)
  BY <1>1 DEF SameAt, IsA
<1>3. can(w) => value(w) = value(r)
  BY <1>1 DEF SameAt, IsA, Has
<1>4. can(w) => Agree(Store(w, k, value(w)), Store(r, k, value(r)))
  BY <1>1, <1>3, StoreAgree DEF SameAt
<1> HIDE DEF value, walk
<1>5. /\ Store(w, k, value(w)).dict = Put(w.dict, k, value(w))
      /\ Store(w, k, value(w)).expires = w.expires
      /\ Store(r, k, value(r)).dict = Put(r.dict, k, value(r))
      /\ Store(r, k, value(r)).expires = r.expires
  BY DEF Store, Db
<1>6. can(w) => Agree(stored(w), stored(r))
  <2> DEFINE m == w.dirty + walk(w).removed
             n == r.dirty + walk(r).removed
             ww == Store(w, k, value(w))
             rr == Store(r, k, value(r))
  <2>1. can(w) => Agree(Db(ww.dict, ww.expires, m), Db(rr.dict, rr.expires, n))
    <3> HIDE DEF m, n
    <3> QED BY <1>4, CountAgree
  <2>2. stored(w) = Db(ww.dict, ww.expires, m) /\ stored(r) = Db(rr.dict, rr.expires, n)
    BY <1>5
  <2> HIDE DEF m, n, stored, ww, rr
  <2> QED BY <2>1, <2>2
<1>7. LremKey(b, k, toremove, e) = IF can(w) THEN stored(w) ELSE w
  BY DEF LremKey, value, walk
<1>8. LremKey(q, k, toremove, e) = IF can(r) THEN stored(r) ELSE r
  BY DEF LremKey, value, walk
<1> HIDE DEF w, r, can, stored
<1> QED BY <1>1, <1>2, <1>6, <1>7, <1>8

LEMMA SmoveAgree ==
  ASSUME NEW b, NEW q, NEW src, NEW dst, NEW e, Agree(b, q)
  PROVE  Agree(Smove(b, src, dst, e), Smove(q, src, dst, e))
<1> DEFINE w == Claimed(b, {src, dst})
           r == Claimed(q, {src, dst})
           can(x) == /\ IsA(x, src, "set") /\ e \in x.dict[src].val
                     /\ Has(x, dst) => IsA(x, dst, "set")
           rest(x) == Set(x.dict[src].val \ {e})
           taken(x) == Store(x, src, rest(x))
           grown(x) == Set((IF Has(taken(x), dst) THEN taken(x).dict[dst].val ELSE {}) \cup {e})
           moved(x) == Db(Put(taken(x).dict, dst, grown(x)), taken(x).expires, taken(x).dirty)
<1>1. Agree(w, r) /\ SameAt(w, r, src) /\ SameAt(w, r, dst)
  BY ClaimedAgree
<1>2. can(w) <=> can(r)
  BY <1>1 DEF SameAt, IsA
<1>3. can(w) => rest(w) = rest(r)
  BY <1>1 DEF SameAt, IsA, Has
<1>4. Smove(b, src, dst, e) = IF can(w) THEN moved(w) ELSE w
  BY DEF Smove
<1>5. Smove(q, src, dst, e) = IF can(r) THEN moved(r) ELSE r
  BY DEF Smove
<1>6. ASSUME can(w) PROVE Agree(moved(w), moved(r))
  <2> DEFINE t == taken(w)
             u == taken(r)
             v == grown(w)
  <2> HIDE DEF w, r, rest
  <2>1. Agree(t, u)
    BY <1>1, <1>3, <1>6, StoreAgree DEF SameAt
  <2>2. ~Volatile(t, dst)
    BY <1>1, StoreDomains DEF SameAt, Volatile
  <2>3. SameAt(t, u, dst)
    BY <2>1, <2>2, AgreeSameAt
  <2>4. v = grown(r)
    BY <2>3 DEF SameAt
  <2> DEFINE ts == Store(t, dst, v)
             us == Store(u, dst, v)
             m == t.dirty
             n == u.dirty
  <2> HIDE DEF taken, grown, t, u, v, m, n
  <2>5. Agree(ts, us)
    BY <2>1, <2>2, StoreAgree
  <2>6. /\ ts.dict = Put(t.dict, dst, v) /\ ts.expires = t.expires
        /\ us.dict = Put(u.dict, dst, v) /\ us.expires = u.expires
    BY DEF Store, Db
  <2>7. moved(w) = Db(ts.dict, ts.expires, m)
    BY <2>6 DEF t, v, m
  <2>8. moved(r) = Db(us.dict, us.expires, n)
    BY <2>4, <2>6 DEF u, n
  <2> HIDE DEF moved, ts, us
  <2> QED BY <2>5, <2>7, <2>8, CountAgree
<1> HIDE DEF w, r, can, moved
<1> QED BY <1>1, <1>2, <1>4, <1>5, <1>6

\* What a command finds under a key after it has claimed it does not depend on timeouts.
LEMMA StaysAgree ==
  ASSUME NEW b, NEW q, Agree(b, q)
  PROVE  \A k : /\ Stays(b, k) <=> Stays(q, k)
                /\ Stays(b, k) => (\A type : IsA(b, k, type) <=> IsA(q, k, type))
<1>1. ASSUME NEW k PROVE Stays(b, k) <=> Stays(q, k)
  <2>1. DOMAIN q.expires = {}
    BY DEF Agree
  <2> QED BY <2>1, AgreeIs DEF Stays, Has, Volatile
<1>2. ASSUME NEW k, Stays(b, k), NEW type PROVE IsA(b, k, type) <=> IsA(q, k, type)
  BY <1>2, AgreeSameAt, SameAtIsA DEF Stays
<1> QED BY <1>1, <1>2

LEMMA StopsAgree ==
  ASSUME NEW b, NEW q, NEW ks, Agree(b, q)
  PROVE  WrongType(b, ks) = WrongType(q, ks) /\ Missing(b, ks) = Missing(q, ks)
<1>1. Missing(b, ks) = Missing(q, ks)
  BY StaysAgree DEF Missing
<1>2. \A j \in DOMAIN ks : (Stays(b, ks[j]) /\ ~IsA(b, ks[j], "set"))
                           <=> (Stays(q, ks[j]) /\ ~IsA(q, ks[j], "set"))
  BY StaysAgree
<1>3. WrongType(b, ks) = WrongType(q, ks)
  BY <1>2 DEF WrongType
<1> QED BY <1>1, <1>3

LEMMA LookedUpAgree ==
  ASSUME NEW b, NEW q, NEW ks, NEW stops, Agree(b, q)
  PROVE  /\ Agree(LookedUp(b, ks, stops), LookedUp(q, ks, stops))
         /\ stops = {} => \A j \in DOMAIN ks :
                            SameAt(LookedUp(b, ks, stops), LookedUp(q, ks, stops), ks[j])
<1> DEFINE S == {ks[j] : j \in {i \in DOMAIN ks : \A s \in stops : i <= s}}
<1>1. Agree(Claimed(b, S), Claimed(q, S))
  BY ClaimedAgree
<1>2. \A k \in S : SameAt(Claimed(b, S), Claimed(q, S), k)
  BY ClaimedAgree
<1>3. stops = {} => \A j \in DOMAIN ks : ks[j] \in S
  OBVIOUS
<1>4. LookedUp(b, ks, stops) = Claimed(b, S) /\ LookedUp(q, ks, stops) = Claimed(q, S)
  BY DEF LookedUp
<1> HIDE DEF S
<1> QED BY <1>1, <1>2, <1>3, <1>4

\* The target of SINTERSTORE, SUNIONSTORE and SDIFFSTORE is deleted before it is stored.
LEMMA ReplacedAgree ==
  ASSUME NEW b, NEW q, NEW k, NEW v, Agree(b, q)
  PROVE  Agree(Store(DeleteKeys(b, {k}), k, v), Store(DeleteKeys(q, {k}), k, v))
<1>1. Agree(DeleteKeys(b, {k}), DeleteKeys(q, {k}))
  BY DeleteKeysAgree
<1>2. ~Volatile(DeleteKeys(b, {k}), k)
  BY DeleteKeysDomains DEF Volatile
<1> QED BY <1>1, <1>2, StoreAgree

LEMMA SinterStoreAgree ==
  ASSUME NEW b, NEW q, NEW dst, NEW ks, Agree(b, q)
  PROVE  Agree(SinterStore(b, dst, ks), SinterStore(q, dst, ks))
<1> DEFINE wrong == WrongType(b, ks)
           missing == Missing(b, ks)
           stops == wrong \cup missing
           w == LookedUp(b, ks, stops)
           r == LookedUp(q, ks, stops)
           dv(x) == [j \in DOMAIN ks |-> x.dict[ks[j]].val]
           first == \E j \in missing : \A i \in wrong : j < i
           full(x) == Store(DeleteKeys(x, {dst}), dst, Set(Sinter(dv(x))))
<1>1. WrongType(q, ks) = wrong /\ Missing(q, ks) = missing
  BY StopsAgree
<1>2. SinterStore(b, dst, ks) =
        IF stops = {} THEN full(w) ELSE IF first THEN DeleteKeys(w, {dst}) ELSE w
  BY DEF SinterStore
<1>3. SinterStore(q, dst, ks) =
        IF stops = {} THEN full(r) ELSE IF first THEN DeleteKeys(r, {dst}) ELSE r
  BY <1>1 DEF SinterStore
<1>4. Agree(w, r)
  BY LookedUpAgree
<1>5. stops = {} => dv(w) = dv(r)
  <2>1. stops = {} => \A j \in DOMAIN ks : SameAt(w, r, ks[j])
    BY LookedUpAgree
  <2>2. stops = {} => \A j \in DOMAIN ks : Has(w, ks[j])
    <3>1. stops = {} => \A j \in DOMAIN ks : Stays(b, ks[j])
      BY DEF Missing
    <3>2. DOMAIN w.dict = DOMAIN b.dict \ ({ks[j] : j \in {i \in DOMAIN ks : \A s \in stops : i <= s}}
                                           \cap DOMAIN b.expires)
      BY ClaimedDomains DEF LookedUp
    <3> HIDE DEF w, stops
    <3> QED BY <3>1, <3>2 DEF Stays, Has, Volatile
  <2>3. stops = {} => \A j \in DOMAIN ks : w.dict[ks[j]] = r.dict[ks[j]]
    BY <2>1, <2>2 DEF SameAt
  <2> HIDE DEF w, r, stops
  <2> QED BY <2>3
<1>6. stops = {} => Agree(full(w), full(r))
  <2> DEFINE v == Set(Sinter(dv(w)))
  <2>1. stops = {} => v = Set(Sinter(dv(r)))
    BY <1>5
  <2>2. Agree(Store(DeleteKeys(w, {dst}), dst, v), Store(DeleteKeys(r, {dst}), dst, v))
    BY <1>4, ReplacedAgree
  <2> HIDE DEF stops, w, r
  <2> QED BY <2>1, <2>2
<1>7. Agree(DeleteKeys(w, {dst}), DeleteKeys(r, {dst}))
  BY <1>4, DeleteKeysAgree
<1> HIDE DEF wrong, missing, stops, first, w, r, full
<1> QED BY <1>2, <1>3, <1>4, <1>6, <1>7

LEMMA SunionDiffStoreAgree ==
  ASSUME NEW b, NEW q, NEW dst, NEW ks, NEW op, Agree(b, q)
  PROVE  Agree(SunionDiffStore(b, dst, ks, op), SunionDiffStore(q, dst, ks, op))
<1> DEFINE wrong == WrongType(b, ks)
           w == LookedUp(b, ks, wrong)
           r == LookedUp(q, ks, wrong)
           dv(x) == [j \in DOMAIN ks |-> IF Has(x, ks[j]) THEN x.dict[ks[j]].val ELSE {}]
           result(x) == Set(IF op = "union" THEN Sunion(dv(x)) ELSE Sdiff(dv(x)))
           full(x) == Store(DeleteKeys(x, {dst}), dst, result(x))
<1>1. WrongType(q, ks) = wrong
  BY StopsAgree
<1>2. SunionDiffStore(b, dst, ks, op) = IF wrong # {} THEN w ELSE full(w)
  BY DEF SunionDiffStore
<1>3. SunionDiffStore(q, dst, ks, op) = IF wrong # {} THEN r ELSE full(r)
  BY <1>1 DEF SunionDiffStore
<1>4. Agree(w, r)
  BY LookedUpAgree
<1>5. wrong = {} => \A j \in DOMAIN ks : SameAt(w, r, ks[j])
  BY LookedUpAgree
<1> HIDE DEF wrong, w, r
<1>6. wrong = {} => dv(w) = dv(r)
  BY <1>5 DEF SameAt
<1>7. wrong = {} => result(w) = result(r)
  BY <1>6
<1>8. Agree(Store(DeleteKeys(w, {dst}), dst, result(w)), Store(DeleteKeys(r, {dst}), dst, result(w)))
  BY <1>4, ReplacedAgree
<1> HIDE DEF result
<1> QED BY <1>2, <1>3, <1>4, <1>7, <1>8

LEMMA MoveKeyAgree ==
  ASSUME NEW from, NEW to, NEW from2, NEW to2, NEW k, Agree(from, from2), Agree(to, to2)
  PROVE  /\ Agree(MoveKey(from, to, k)[1], MoveKey(from2, to2, k)[1])
         /\ Agree(MoveKey(from, to, k)[2], MoveKey(from2, to2, k)[2])
<1> DEFINE w == Claimed(from, {k})
           t == Claimed(to, {k})
           r == Claimed(from2, {k})
           u == Claimed(to2, {k})
           put == Store(t, k, w.dict[k])
           put2 == Store(u, k, r.dict[k])
<1>1. Agree(w, r) /\ SameAt(w, r, k) /\ Agree(t, u) /\ SameAt(t, u, k)
  BY ClaimedAgree
<1>2. Agree(DeleteKeys(w, {k}), DeleteKeys(r, {k}))
  BY <1>1, DeleteKeysAgree
<1>3. Has(w, k) => Agree(put, put2)
  <2>1. Has(w, k) => w.dict[k] = r.dict[k]
    BY <1>1 DEF SameAt
  <2>2. Agree(Store(t, k, w.dict[k]), Store(u, k, w.dict[k]))
    BY <1>1, StoreAgree DEF SameAt
  <2> HIDE DEF w, t, r, u
  <2> QED BY <2>1, <2>2
<1>4. Has(w, k) <=> Has(r, k)
  BY <1>1 DEF SameAt
<1>5. Has(t, k) <=> Has(u, k)
  BY <1>1 DEF SameAt
<1>6. MoveKey(from, to, k) = IF ~Has(w, k) THEN <<w, to>> ELSE IF Has(t, k) THEN <<w, t>>
                             ELSE <<DeleteKeys(w, {k}), put>>
  BY DEF MoveKey
<1>7. MoveKey(from2, to2, k) = IF ~Has(r, k) THEN <<r, to2>> ELSE IF Has(u, k) THEN <<r, u>>
                               ELSE <<DeleteKeys(r, {k}), put2>>
  BY DEF MoveKey
<1> HIDE DEF w, t, r, u, put, put2
<1> QED BY <1>1, <1>2, <1>3, <1>4, <1>5, <1>6, <1>7

\* What is loaded has the same keys without timeouts, whatever the time.
LEMMA LoadedLasting ==
  ASSUME NEW b, NEW later
  PROVE  Lasting(Loaded(b, later)) = Lasting(b)
<1> DEFINE saved == {k \in DOMAIN b.dict : ~Due(b, k)}
           alive == {k \in saved : Volatile(b, k) => Saved32(b.expires[k]) >= later}
           c == Loaded(b, later)
<1>1. c.dict = [k \in alive |-> b.dict[k]]
  BY DEF Loaded, Restrict
<1>2. DOMAIN c.expires = alive \cap DOMAIN b.expires
  BY DEF Loaded
<1>3. DOMAIN b.dict \ DOMAIN b.expires \subseteq alive /\ alive \subseteq DOMAIN b.dict
  BY DEF Due, Volatile
<1> HIDE DEF c, alive
<1>4. DOMAIN c.dict \ DOMAIN c.expires = DOMAIN b.dict \ DOMAIN b.expires
  BY <1>1, <1>2, <1>3
<1>5. \A k \in DOMAIN b.dict \ DOMAIN b.expires : c.dict[k] = b.dict[k]
  BY <1>1, <1>3
<1>6. Lasting(c) = [k \in DOMAIN c.dict \ DOMAIN c.expires |-> c.dict[k]]
  BY DEF Lasting, Restrict
<1>7. Lasting(b) = [k \in DOMAIN b.dict \ DOMAIN b.expires |-> b.dict[k]]
  BY DEF Lasting, Restrict
<1> QED BY <1>4, <1>5, <1>6, <1>7 DEF c

-----------------------------------------------------------------------------
(* The inductive invariant.                                                *)

IInv ==
  /\ DOMAIN db = Dbs /\ DOMAIN prompt = Dbs
  /\ \A d \in Dbs : Tidy(db[d])
  /\ ~seen => \A d \in Dbs : prompt[d] = Lasting(db[d])

LEMMA IInvAt ==
  ASSUME IInv, NEW d \in Dbs
  PROVE  /\ Tidy(At(d))
         /\ ~seen => Agree(At(d), Prompt(d))
<1>1. At(d).dict = db[d].dict /\ At(d).expires = db[d].expires
  BY DEF At, Db
<1>2. Prompt(d).dict = prompt[d] /\ Prompt(d).expires = Empty
  BY DEF Prompt, Db
<1>3. DOMAIN Prompt(d).expires = {}
  BY <1>2 DEF Empty
<1>4. Tidy(At(d))
  BY <1>1 DEF Tidy, IInv
<1>5. Lasting(At(d)) = Lasting(db[d])
  BY <1>1 DEF Lasting
<1> QED BY <1>2, <1>3, <1>4, <1>5 DEF Agree, IInv

\* One database is left tidy, and the two servers in agreement.
LEMMA RunKeeps ==
  ASSUME IInv, NEW d \in Dbs, NEW b, NEW q, Run(d, b, q), Tidy(b),
         ~seen' => ~seen /\ Agree(b, q)
  PROVE  IInv'
<1>1. db' = [db EXCEPT ![d] = Tables(b)] /\ prompt' = [prompt EXCEPT ![d] = q.dict]
  BY DEF Run
<1>2. Tables(b).dict = b.dict /\ Tables(b).expires = b.expires
  BY DEF Tables
<1>3. Tidy(Tables(b)) /\ Lasting(Tables(b)) = Lasting(b)
  BY <1>2 DEF Tidy, Lasting
<1> DEFINE t == Tables(b)
<1>4. db' = [db EXCEPT ![d] = t]
  BY <1>1
<1> HIDE DEF t
<1>5. DOMAIN db' = Dbs /\ DOMAIN prompt' = Dbs
  BY <1>1, <1>4 DEF IInv
<1>6. ASSUME NEW x \in Dbs PROVE Tidy(db'[x])
  <2>1. CASE x = d
    BY <2>1, <1>3, <1>4 DEF IInv, t
  <2>2. CASE x # d
    <3>1. db'[x] = db[x]
      BY <2>2, <1>4 DEF IInv
    <3> QED BY <3>1 DEF IInv
  <2> QED BY <2>1, <2>2
<1>7. ASSUME ~seen', NEW x \in Dbs PROVE prompt'[x] = Lasting(db'[x])
  <2>1. CASE x = d
    <3>1. prompt'[x] = q.dict
      BY <1>1, <2>1 DEF IInv
    <3>2. db'[x] = t
      BY <1>4, <2>1 DEF IInv
    <3> QED BY <3>1, <3>2, <1>3, <1>7 DEF Agree, t
  <2>2. CASE x # d
    <3>1. db'[x] = db[x] /\ prompt'[x] = prompt[x]
      BY <2>2, <1>1, <1>4 DEF IInv
    <3> QED BY <3>1, <1>7 DEF IInv
  <2> QED BY <2>1, <2>2
<1> QED BY <1>5, <1>6, <1>7 DEF IInv

LEMMA InitIInv == Init => IInv
<1> SUFFICES ASSUME Init PROVE IInv
  OBVIOUS
<1>1. db = [d \in Dbs |-> [dict |-> Empty, expires |-> Empty]] /\ prompt = [d \in Dbs |-> Empty]
  BY DEF Init
<1>2. ASSUME NEW d \in Dbs PROVE Tidy(db[d]) /\ prompt[d] = Lasting(db[d])
  <2>1. db[d].dict = Empty /\ db[d].expires = Empty /\ prompt[d] = Empty
    BY <1>1
  <2>2. Lasting(db[d]) = Empty
    BY <2>1 DEF Lasting, Restrict, Empty
  <2> QED BY <2>1, <2>2 DEF Tidy
<1> QED BY <1>1, <1>2 DEF IInv

-----------------------------------------------------------------------------
(* One step per action.                                                    *)

LEMMA WriteKeyKeeps ==
  ASSUME KeyspaceAssumption, IInv, NEW d \in Dbs, NEW k \in Keys, WriteKey(d, k)
  PROVE  IInv'
<1> DEFINE b == At(d)
           q == Prompt(d)
<1> Tidy(b) /\ (~seen => Agree(b, q))
  BY IInvAt
<1> HIDE DEF b, q
<1>1. ASSUME NEW n \in Numbers, Set_(d, k, n) PROVE IInv'
  <2>1. Run(d, SetGeneric(b, k, n, FALSE), SetGeneric(q, k, n, FALSE)) /\ seen' = seen
    BY <1>1 DEF Set_, b, q
  <2> QED BY <2>1, SetGenericTidy, SetGenericAgree, RunKeeps
<1>2. ASSUME NEW n \in Numbers, Setnx(d, k, n) PROVE IInv'
  <2>1. Run(d, SetGeneric(b, k, n, TRUE), SetGeneric(q, k, n, TRUE))
    BY <1>2 DEF Setnx, b, q
  <2>2. ~seen' => ~seen /\ ~Volatile(b, k)
    BY <1>2 DEF Setnx, b
  <2> QED BY <2>1, <2>2, SetGenericTidy, SetGenericAgree, RunKeeps
<1>3. ASSUME NEW n \in Numbers, Getset(d, k, n) PROVE IInv'
  <2>1. Run(d, GetSet(b, k, n), GetSet(q, k, n)) /\ seen' = seen
    BY <1>3 DEF Getset, b, q
  <2> QED BY <2>1, GetSetTidy, GetSetAgree, RunKeeps
<1>4. ASSUME NEW incr \in {-1, 1}, Incrby(d, k, incr) PROVE IInv'
  <2>1. Run(d, IncrDecr(b, k, incr), IncrDecr(q, k, incr)) /\ seen' = seen
    BY <1>4 DEF Incrby, b, q
  <2> QED BY <2>1, IncrDecrTidy, IncrDecrAgree, RunKeeps
<1>5. ASSUME NEW e \in Elems, NEW where \in {"head", "tail"}, Push(d, k, e, where) PROVE IInv'
  <2>1. Run(d, PushGeneric(b, k, e, where), PushGeneric(q, k, e, where)) /\ seen' = seen
    BY <1>5 DEF Push, b, q
  <2> QED BY <2>1, PushGenericTidy, PushGenericAgree, RunKeeps
<1>6. ASSUME NEW e \in Elems, NEW i \in Indexes, SetElement(d, k, i, e) PROVE IInv'
  <2>1. Run(d, Lset(b, k, i, e), Lset(q, k, i, e)) /\ seen' = seen
    BY <1>6 DEF SetElement, b, q
  <2> QED BY <2>1, LsetTidy, LsetAgree, RunKeeps
<1>7. ASSUME NEW e \in Elems, NEW i \in Indexes, RemoveElements(d, k, i, e) PROVE IInv'
  <2>1. Run(d, LremKey(b, k, i, e), LremKey(q, k, i, e)) /\ seen' = seen
    BY <1>7 DEF RemoveElements, b, q
  <2> QED BY <2>1, LremKeyTidy, LremKeyAgree, RunKeeps
<1>8. ASSUME NEW e \in Elems, AddMember(d, k, e) PROVE IInv'
  <2>1. Run(d, Sadd(b, k, e), Sadd(q, k, e)) /\ seen' = seen
    BY <1>8 DEF AddMember, b, q
  <2> QED BY <2>1, SaddTidy, SaddAgree, RunKeeps
<1>9. ASSUME NEW e \in Elems, RemMember(d, k, e) PROVE IInv'
  <2>1. Run(d, Srem(b, k, e), Srem(q, k, e)) /\ seen' = seen
    BY <1>9 DEF RemMember, b, q
  <2> QED BY <2>1, SremTidy, SremAgree, RunKeeps
<1>10. ASSUME NEW where \in {"head", "tail"}, Pop(d, k, where) PROVE IInv'
  <2>1. Run(d, PopGeneric(b, k, where), PopGeneric(q, k, where)) /\ seen' = seen
    BY <1>10 DEF Pop, b, q
  <2> QED BY <2>1, PopGenericTidy, PopGenericAgree, RunKeeps
<1>11. ASSUME NEW from \in Indexes, NEW to \in Indexes, Trim(d, k, from, to) PROVE IInv'
  <2>1. Run(d, LtrimKey(b, k, from, to), LtrimKey(q, k, from, to)) /\ seen' = seen
    BY <1>11 DEF Trim, b, q
  <2> QED BY <2>1, LtrimKeyTidy, LtrimKeyAgree, RunKeeps
<1>12. ASSUME NEW seconds \in Timeouts, ExpireKey(d, k, seconds) PROVE IInv'
  <2>1. Tidy(Expire(b, k, seconds)) /\ seen' = seen
    BY <1>12, ExpireTidy DEF ExpireKey
  <2>2. CASE seconds > 0
    <3>1. Run(d, Expire(b, k, seconds), DeleteKeys(q, {k}))
      BY <1>12, <2>2 DEF ExpireKey, b, q
    <3>2. Agree(b, q) => Agree(Expire(b, k, seconds), DeleteKeys(q, {k}))
      BY <2>2, ExpireAgree
    <3> QED BY <2>1, <3>1, <3>2, RunKeeps
  <2>3. CASE ~(seconds > 0)
    <3>1. Run(d, Expire(b, k, seconds), q)
      BY <1>12, <2>3 DEF ExpireKey, b, q
    <3>2. Expire(b, k, seconds) = b
      BY <2>3 DEF Expire
    <3> QED BY <2>1, <3>1, <3>2, RunKeeps
  <2> QED BY <2>2, <2>3
<1> QED
  BY <1>1, <1>2, <1>3, <1>4, <1>5, <1>6, <1>7, <1>8, <1>9, <1>10, <1>11, <1>12 DEF WriteKey

LEMMA MoveKeeps ==
  ASSUME IInv, NEW d \in Dbs, NEW to \in Dbs, NEW k, Move(d, to, k)
  PROVE  IInv'
<1> DEFINE moved == MoveKey(At(d), At(to), k)
           moved2 == MoveKey(Prompt(d), Prompt(to), k)
           t1 == Tables(moved[1])
           t2 == Tables(moved[2])
<1>1. /\ d # to /\ seen' = seen
      /\ db' = [db EXCEPT ![d] = t1, ![to] = t2]
      /\ prompt' = [prompt EXCEPT ![d] = moved2[1].dict, ![to] = moved2[2].dict]
  BY DEF Move
<1>2. Tidy(moved[1]) /\ Tidy(moved[2])
  BY IInvAt, MoveKeyTidy
<1>3. ~seen => Agree(moved[1], moved2[1]) /\ Agree(moved[2], moved2[2])
  BY IInvAt, MoveKeyAgree
<1> HIDE DEF moved, moved2
<1>4. /\ t1.dict = moved[1].dict /\ t1.expires = moved[1].expires
      /\ t2.dict = moved[2].dict /\ t2.expires = moved[2].expires
  BY DEF Tables
<1> HIDE DEF t1, t2
<1>5. Tidy(t1) /\ Tidy(t2)
  BY <1>2, <1>4 DEF Tidy
<1>6. ~seen => moved2[1].dict = Lasting(t1) /\ moved2[2].dict = Lasting(t2)
  BY <1>3, <1>4 DEF Agree, Lasting
<1>7. DOMAIN db' = Dbs /\ DOMAIN prompt' = Dbs
  BY <1>1 DEF IInv
<1>8. \A x \in Dbs : db'[x] = IF x = to THEN t2 ELSE IF x = d THEN t1 ELSE db[x]
  BY <1>1 DEF IInv
<1>9. \A x \in Dbs : prompt'[x] = IF x = to THEN moved2[2].dict
                                  ELSE IF x = d THEN moved2[1].dict ELSE prompt[x]
  BY <1>1 DEF IInv
<1>10. \A x \in Dbs : Tidy(db'[x])
  BY <1>5, <1>8 DEF IInv
<1>11. ~seen' => \A x \in Dbs : prompt'[x] = Lasting(db'[x])
  BY <1>1, <1>6, <1>8, <1>9 DEF IInv
<1> QED BY <1>7, <1>10, <1>11 DEF IInv

LEMMA WriteKeysKeeps ==
  ASSUME IInv, NEW d \in Dbs, WriteKeys(d)
  PROVE  IInv'
<1> DEFINE b == At(d)
           q == Prompt(d)
<1> Tidy(b) /\ (~seen => Agree(b, q))
  BY IInvAt
<1> HIDE DEF b, q
<1>1. ASSUME NEW ks \in SUBSET Keys, DelKeys(d, ks) PROVE IInv'
  <2>1. Run(d, Del(b, ks), Del(q, ks)) /\ seen' = seen
    BY <1>1 DEF DelKeys, b, q
  <2> QED BY <2>1, DelTidy, DelAgree, RunKeeps
<1>2. ASSUME NEW src \in Keys, NEW dst \in Keys, NEW nx \in BOOLEAN, Rename(d, src, dst, nx)
      PROVE  IInv'
  <2>1. Run(d, RenameGeneric(b, src, dst, nx), RenameGeneric(q, src, dst, nx)) /\ seen' = seen
    BY <1>2 DEF Rename, b, q
  <2> QED BY <2>1, RenameGenericTidy, RenameGenericAgree, RunKeeps
<1>3. ASSUME NEW src \in Keys, NEW dst \in Keys, NEW e \in Elems, MoveMember(d, src, dst, e)
      PROVE  IInv'
  <2>1. Run(d, Smove(b, src, dst, e), Smove(q, src, dst, e)) /\ seen' = seen
    BY <1>3 DEF MoveMember, b, q
  <2> QED BY <2>1, SmoveTidy, SmoveAgree, RunKeeps
<1>4. ASSUME NEW to \in Dbs, NEW k \in Keys, Move(d, to, k) PROVE IInv'
  BY <1>4, MoveKeeps
<1>5. ASSUME NEW dst \in Keys, NEW k1 \in Keys, NEW k2 \in Keys, StoreInter(d, dst, <<k1, k2>>)
      PROVE  IInv'
  <2>1. Run(d, SinterStore(b, dst, <<k1, k2>>), SinterStore(q, dst, <<k1, k2>>)) /\ seen' = seen
    BY <1>5 DEF StoreInter, b, q
  <2> QED BY <2>1, SinterStoreTidy, SinterStoreAgree, RunKeeps
<1>6. ASSUME NEW dst \in Keys, NEW k1 \in Keys, NEW k2 \in Keys, NEW op \in {"union", "diff"},
             StoreUnionDiff(d, dst, <<k1, k2>>, op)
      PROVE  IInv'
  <2>1. Run(d, SunionDiffStore(b, dst, <<k1, k2>>, op), SunionDiffStore(q, dst, <<k1, k2>>, op))
        /\ seen' = seen
    BY <1>6 DEF StoreUnionDiff, b, q
  <2> QED BY <2>1, SunionDiffStoreTidy, SunionDiffStoreAgree, RunKeeps
<1>7. ASSUME FlushDb(d) PROVE IInv'
  <2>1. Run(d, Flushdb(b), Flushdb(q)) /\ seen' = seen
    BY <1>7 DEF FlushDb, b, q
  <2> QED BY <2>1, FlushdbTidy, FlushdbAgree, RunKeeps
<1> QED BY <1>1, <1>2, <1>3, <1>4, <1>5, <1>6, <1>7 DEF WriteKeys

LEMMA ReadKeeps ==
  ASSUME IInv, NEW d \in Dbs, NEW ks, Read(d, ks)
  PROVE  IInv'
<1>1. Run(d, Expired(At(d), ks), Prompt(d)) /\ seen' = seen
  BY DEF Read
<1> QED BY <1>1, IInvAt, ExpiredTidy, ExpiredAgree, RunKeeps

\* Every database is replaced by one with the same keys without timeouts.
LEMMA AllKeep ==
  ASSUME IInv, NEW f, db' = [d \in Dbs |-> f[d]], UNCHANGED <<prompt, seen>>,
         \A d \in Dbs : Tidy(f[d]) /\ (~seen => Lasting(f[d]) = Lasting(db[d]))
  PROVE  IInv'
BY DEF IInv

LEMMA CronKeeps ==
  ASSUME IInv, NEW drawn \in [Dbs -> SUBSET Keys], Cron(drawn)
  PROVE  IInv'
<1> DEFINE f == [d \in Dbs |-> Tables(DeleteKeys(At(d), drawn[d]))]
<1>1. db' = f /\ prompt' = prompt /\ seen' = seen
  BY DEF Cron
<1>2. ASSUME NEW d \in Dbs
      PROVE  Tidy(f[d]) /\ (~seen => Lasting(f[d]) = Lasting(db[d]))
  <2> DEFINE c == DeleteKeys(At(d), drawn[d])
  <2>1. Tidy(c)
    BY IInvAt, DeleteKeysTidy
  <2>2. drawn[d] \subseteq DOMAIN At(d).expires
    BY DEF Cron, DueKeys, Due, Volatile
  <2>3. ~seen => Agree(c, Prompt(d))
    BY <2>2, IInvAt, VolatileGone
  <2>4. f[d].dict = c.dict /\ f[d].expires = c.expires
    BY DEF Tables
  <2>5. Prompt(d).dict = prompt[d]
    BY DEF Prompt, Db
  <2> HIDE DEF f, c
  <2>6. Tidy(f[d])
    BY <2>1, <2>4 DEF Tidy
  <2>7. ~seen => Lasting(f[d]) = prompt[d]
    BY <2>3, <2>4, <2>5 DEF Agree, Lasting
  <2> QED BY <2>6, <2>7 DEF IInv
<1>3. db' = [d \in Dbs |-> f[d]]
  BY <1>1
<1> HIDE DEF f
<1> QED BY <1>1, <1>2, <1>3, AllKeep

LEMMA RestartKeeps ==
  ASSUME IInv, NEW later, Restart(later)
  PROVE  IInv'
<1> DEFINE f == [d \in Dbs |-> Loaded(db[d], later)]
<1>1. db' = f /\ prompt' = prompt /\ seen' = seen
  BY DEF Restart
<1>2. \A d \in Dbs : Tidy(f[d]) /\ Lasting(f[d]) = Lasting(db[d])
  BY LoadedTidy, LoadedLasting DEF Tidy
<1>3. db' = [d \in Dbs |-> f[d]]
  BY <1>1
<1> HIDE DEF f
<1> QED BY <1>1, <1>2, <1>3, AllKeep

LEMMA NextIInv ==
  ASSUME KeyspaceAssumption, IInv, [Next]_vars
  PROVE  IInv'
<1>1. ASSUME NEW d \in Dbs, NEW k \in Keys, WriteKey(d, k) PROVE IInv'
  BY <1>1, WriteKeyKeeps
<1>2. ASSUME NEW d \in Dbs, WriteKeys(d) PROVE IInv'
  BY <1>2, WriteKeysKeeps
<1>3. ASSUME NEW d \in Dbs, NEW ks \in SUBSET Keys, Read(d, ks) \/ Randomkey(d, ks) PROVE IInv'
  BY <1>3, ReadKeeps DEF Randomkey
<1>4. ASSUME Flushall PROVE IInv'
  <2>1. /\ db' = [d \in Dbs |-> [dict |-> Empty, expires |-> Empty]]
        /\ prompt' = [d \in Dbs |-> Empty]
    BY <1>4 DEF Flushall
  <2>2. ASSUME NEW d \in Dbs PROVE Tidy(db'[d]) /\ prompt'[d] = Lasting(db'[d])
    <3>1. db'[d].dict = Empty /\ db'[d].expires = Empty /\ prompt'[d] = Empty
      BY <2>1
    <3>2. Lasting(db'[d]) = Empty
      BY <3>1 DEF Lasting, Restrict, Empty
    <3> QED BY <3>1, <3>2 DEF Tidy
  <2> QED BY <2>1, <2>2 DEF IInv
<1>5. ASSUME NEW drawn \in [Dbs -> SUBSET Keys], Cron(drawn) PROVE IInv'
  BY <1>5, CronKeeps
<1>6. ASSUME Tick PROVE IInv'
  BY <1>6 DEF Tick, IInv
<1>7. ASSUME NEW later \in 0 .. MaxTime, Restart(later) PROVE IInv'
  BY <1>7, RestartKeeps
<1>8. ASSUME UNCHANGED vars PROVE IInv'
  BY <1>8 DEF vars, IInv
<1> QED BY <1>1, <1>2, <1>3, <1>4, <1>5, <1>6, <1>7, <1>8 DEF Next

-----------------------------------------------------------------------------
(* The theorems.                                                           *)

\* Whatever the commands, timeouts, restarts and the clock do, IInv stays.
THEOREM Inductive == Spec => []IInv
<1>1. KeyspaceAssumption
  BY KeyspaceAssumption
<1>2. Init => IInv
  BY InitIInv
<1>3. IInv /\ [Next]_vars => IInv'
  BY <1>1, NextIInv
<1> QED BY <1>2, <1>3, PTL DEF Spec

\* No command, expiry or restart leaves a timeout without its key.
THEOREM TimeoutsHaveKeys == Spec => []ExpiresHaveKeys
<1>1. IInv => ExpiresHaveKeys
  BY DEF IInv, ExpiresHaveKeys, Tidy
<1> QED BY <1>1, Inductive, PTL

\* The same commands leave the same dataset, whenever their keys vanish, until SETNX
\* meets a volatile key.
THEOREM DatasetIsTheSame == Spec => []SameDataset
<1>1. IInv => SameDataset
  BY DEF IInv, SameDataset
<1> QED BY <1>1, Inductive, PTL

-----------------------------------------------------------------------------
(* What the commands compute from values.                                  *)

\* One element visited by LREM.
Visited(walk, ele, e, n) ==
  IF ele = e /\ (n = 0 \/ walk.removed < n)
  THEN [walk EXCEPT !.removed = @ + 1]
  ELSE [walk EXCEPT !.left = Append(@, ele)]

\* LREM's walk of l, element by element.
Walks(q, l, e, n) ==
  q = [i \in 0 .. Len(l) |-> IF i = 0 THEN [left |-> <<>>, removed |-> 0]
                             ELSE Visited(q[i - 1], l[i], e, n)]

WalkOf(l, e, n) == CHOOSE q : Walks(q, l, e, n)

LEMMA WalkExists ==
  ASSUME NEW S, NEW l \in Seq(S), NEW e, NEW n
  PROVE  Walks(WalkOf(l, e, n), l, e, n)
<1> DEFINE Start == [left |-> <<>>, removed |-> 0]
           Steps(r, m) ==
             r = [i \in 0 .. m |-> IF i = 0 THEN Start ELSE Visited(r[i - 1], l[i], e, n)]
           Fine == {m \in Nat : \E r : Steps(r, m)}
<1>1. 0 \in Fine
  <2>1. Steps([i \in 0 .. 0 |-> Start], 0)
    OBVIOUS
  <2> QED
    BY <2>1
<1>2. ASSUME NEW m \in Nat, m \in Fine PROVE m + 1 \in Fine
  <2>1. PICK r : Steps(r, m)
    BY <1>2
  <2> HIDE DEF Start
  <2> DEFINE r2 == [i \in 0 .. m + 1 |->
                      IF i = m + 1 THEN Visited(r[m], l[m + 1], e, n) ELSE r[i]]
  <2>2. Steps(r2, m + 1)
    <3> SUFFICES ASSUME NEW i \in 0 .. m + 1
                 PROVE  r2[i] = IF i = 0 THEN Start ELSE Visited(r2[i - 1], l[i], e, n)
      OBVIOUS
    <3>1. CASE i = m + 1
      BY <3>1
    <3>2. CASE i \in 0 .. m
      BY <2>1, <3>2
    <3> QED
      BY <3>1, <3>2
  <2> HIDE DEF r2
  <2>3. \E f : Steps(f, m + 1)
    BY <2>2, Zenon
  <2> HIDE DEF Steps
  <2> QED
    BY <2>3
<1> HIDE DEF Fine
<1>3. Len(l) \in Fine
  BY <1>1, <1>2, NatRange
<1>4. \E q : Walks(q, l, e, n)
  BY <1>3 DEF Fine, Walks
<1> QED
  BY <1>4 DEF WalkOf

\* What is left of the first elements is a list of such elements, and all of them if
\* none has been removed.
LEMMA WalkLeaves ==
  ASSUME NEW S, NEW l \in Seq(S), NEW e, NEW n
  PROVE  LET walk == WalkOf(l, e, n)[Len(l)]
         IN /\ walk.left \in Seq(S) /\ walk.removed \in Nat
            /\ walk.removed = 0 => walk.left = l
<1> DEFINE q == WalkOf(l, e, n)
           Good(i) == /\ q[i] \in [left : Seq(S), removed : Nat]
                      /\ q[i].removed = 0 => q[i].left = SubSeq(l, 1, i)
           Fine == {i \in Nat : i <= Len(l) => Good(i)}
<1>1. q = [i \in 0 .. Len(l) |-> IF i = 0 THEN [left |-> <<>>, removed |-> 0]
                                 ELSE Visited(q[i - 1], l[i], e, n)]
  BY WalkExists DEF Walks
<1> HIDE DEF q
<1>2. 0 \in Fine
  <2>1. q[0] = [left |-> <<>>, removed |-> 0]
    BY <1>1
  <2>2. SubSeq(l, 1, 0) = <<>>
    BY SubSeqEmpty
  <2>3. <<>> \in Seq(S)
    OBVIOUS
  <2>4. q[0].left = <<>> /\ q[0].removed = 0 /\ q[0] \in [left : Seq(S), removed : Nat]
    BY <2>1, <2>3
  <2>5. Good(0)
    BY <2>2, <2>4
  <2> QED
    BY <2>5
<1>3. ASSUME NEW i \in Nat, i \in Fine PROVE i + 1 \in Fine
  <2> SUFFICES ASSUME i + 1 <= Len(l) PROVE Good(i + 1)
    OBVIOUS
  <2>1. Good(i)
    BY <1>3
  <2>2. q[i + 1] = Visited(q[i], l[i + 1], e, n)
    BY <1>1
  <2>3. l[i + 1] \in S
    OBVIOUS
  <2>4. CASE q[i + 1] = [q[i] EXCEPT !.removed = @ + 1]
    BY <2>1, <2>4
  <2>5. CASE q[i + 1] = [q[i] EXCEPT !.left = Append(@, l[i + 1])]
    <3>1. q[i + 1].left = Append(q[i].left, l[i + 1]) /\ q[i + 1].removed = q[i].removed
      BY <2>1, <2>5
    <3>4. Append(q[i].left, l[i + 1]) \in Seq(S)
      BY <2>1, <2>3
    <3>2. q[i + 1] \in [left : Seq(S), removed : Nat]
      BY <2>1, <2>5, <3>4
    <3>3. Append(SubSeq(l, 1, i), l[i + 1]) = SubSeq(l, 1, i + 1)
      OBVIOUS
    <3> QED
      BY <2>1, <3>1, <3>2, <3>3
  <2> QED
    BY <2>2, <2>4, <2>5 DEF Visited
<1> HIDE DEF Fine
<1>4. Len(l) \in Fine
  BY <1>2, <1>3, NatRange
<1>5. SubSeq(l, 1, Len(l)) = l
  BY SubSeqFull
<1> QED
  BY <1>4, <1>5 DEF Fine, q

LEMMA ReverseIs ==
  ASSUME NEW S, NEW l \in Seq(S)
  PROVE  Reverse(l) \in Seq(S) /\ Reverse(Reverse(l)) = l
<1>1. Reverse(l) \in Seq(S) /\ Len(Reverse(l)) = Len(l)
  BY DEF Reverse
<1>2. Reverse(Reverse(l)) = [i \in 1 .. Len(l) |-> Reverse(l)[Len(l) - i + 1]]
  BY <1>1 DEF Reverse
<1>3. \A i \in 1 .. Len(l) : Reverse(l)[Len(l) - i + 1] = l[i]
  BY DEF Reverse
<1>4. Reverse(Reverse(l)) = [i \in 1 .. Len(l) |-> l[i]]
  BY <1>2, <1>3
<1> QED
  BY <1>1, <1>4

\* LREM leaves a list of elements of the list, the list itself if it removes none.
LEMMA LremLeaves ==
  ASSUME NEW S, NEW list \in Seq(S), NEW toremove, NEW e
  PROVE  LET walk == Lrem(list, toremove, e)
         IN /\ walk.left \in Seq(S) /\ walk.removed \in Nat
            /\ walk.removed = 0 => walk.left = list
<1> DEFINE n == IF toremove < 0 THEN -toremove ELSE toremove
           Walk(l) == WalkOf(l, e, n)[Len(l)]
<1>1. Lrem(list, toremove, e) =
        IF toremove < 0 THEN [Walk(Reverse(list)) EXCEPT !.left = Reverse(@)] ELSE Walk(list)
  BY DEF Lrem, WalkOf, Walks, Visited
<1> HIDE DEF n
<1>2. CASE toremove < 0
  <2>1. Reverse(list) \in Seq(S) /\ Reverse(Reverse(list)) = list
    BY ReverseIs
  <2>2. /\ Walk(Reverse(list)).left \in Seq(S) /\ Walk(Reverse(list)).removed \in Nat
        /\ Walk(Reverse(list)).removed = 0 => Walk(Reverse(list)).left = Reverse(list)
    BY <2>1, WalkLeaves
  <2> QED
    BY <1>1, <1>2, <2>1, <2>2, ReverseIs
<1>3. CASE ~(toremove < 0)
  BY <1>1, <1>3, WalkLeaves
<1> QED
  BY <1>2, <1>3

\* The set algebra of two sets yields elements of them, and finitely many.
LEMMA SetAlgebra ==
  ASSUME NEW X, NEW dv \in Seq({s \in SUBSET X : IsFiniteSet(s)}), Len(dv) = 2
  PROVE  /\ Sinter(dv) \subseteq X /\ IsFiniteSet(Sinter(dv))
         /\ Sunion(dv) \subseteq X /\ IsFiniteSet(Sunion(dv))
         /\ Sdiff(dv) \subseteq X /\ IsFiniteSet(Sdiff(dv))
<1>1. /\ dv[1] \subseteq X /\ IsFiniteSet(dv[1]) /\ dv[2] \subseteq X /\ IsFiniteSet(dv[2])
      /\ DOMAIN dv = {1, 2}
  OBVIOUS
<1>2. Sinter(dv) \subseteq X /\ IsFiniteSet(Sinter(dv))
  <2> DEFINE Smallest(j) == \A i \in DOMAIN dv : Cardinality(dv[j]) <= Cardinality(dv[i])
             smallest == CHOOSE j \in DOMAIN dv : Smallest(j)
  <2>1. Cardinality(dv[1]) \in Nat /\ Cardinality(dv[2]) \in Nat
    BY <1>1, FS_CardinalityType
  <2>2. Smallest(1) \/ Smallest(2)
    BY <1>1, <2>1
  <2>3. smallest \in DOMAIN dv
    <3> HIDE DEF Smallest
    <3> QED
      BY <1>1, <2>2
  <2> HIDE DEF smallest
  <2>4. dv[smallest] \subseteq X /\ IsFiniteSet(dv[smallest])
    BY <1>1, <2>3
  <2>5. Sinter(dv) = {ele \in dv[smallest] : \A j \in DOMAIN dv \ {smallest} : ele \in dv[j]}
    BY DEF Sinter, smallest
  <2>6. Sinter(dv) \subseteq dv[smallest]
    BY <2>5
  <2> QED
    BY <2>4, <2>6, FS_Subset
<1>3. Sunion(dv) \subseteq X /\ IsFiniteSet(Sunion(dv))
  <2>1. Sunion(dv) = dv[1] \cup dv[2]
    <3>1. {dv[j] : j \in DOMAIN dv} = {dv[1], dv[2]}
      BY <1>1
    <3> QED
      BY <3>1 DEF Sunion
  <2> QED
    BY <1>1, <2>1, FS_Union
<1>4. Sdiff(dv) \subseteq X /\ IsFiniteSet(Sdiff(dv))
  <2> DEFINE Steps(f) == f = [i \in 1 .. Len(dv) |->
                                IF i = 1 THEN dv[1]
                                ELSE IF f[i - 1] = {} THEN {} ELSE f[i - 1] \ dv[i]]
             after == CHOOSE f : Steps(f)
  <2>1. Sdiff(dv) = after[Len(dv)]
    BY DEF Sdiff
  <2>2. Steps([i \in 1 .. 2 |-> IF i = 1 THEN dv[1]
                                ELSE IF dv[1] = {} THEN {} ELSE dv[1] \ dv[2]])
    OBVIOUS
  <2>3. \E f : Steps(f)
    <3> HIDE DEF Steps
    <3> QED
      BY <2>2
  <2>4. Steps(after)
    <3> HIDE DEF Steps
    <3> QED
      BY <2>3
  <2> HIDE DEF after
  <2>5. after[1] = dv[1] /\ (after[2] = {} \/ after[2] = after[1] \ dv[2])
    BY <2>4
  <2>6. Sdiff(dv) \subseteq dv[1]
    BY <2>1, <2>5
  <2> QED
    BY <1>1, <2>6, FS_Subset
<1> QED
  BY <1>2, <1>3, <1>4

-----------------------------------------------------------------------------
(* A database, what shows of it, and what a command may do to it.          *)

Typed(b) ==
  /\ DOMAIN b.dict \subseteq Keys /\ \A k \in DOMAIN b.dict : b.dict[k] \in Value
  /\ DOMAIN b.expires \subseteq Keys
  /\ \A k \in DOMAIN b.expires : b.expires[k] \in 0 .. 2 * Wrap32 - 1
  /\ b.dirty \in Nat

\* What a client sees of b at time t.
AliveAt(b, t) == {k \in DOMAIN b.dict : ~(k \in DOMAIN b.expires /\ t > b.expires[k])}
ShownAt(b, t) ==
  [k \in AliveAt(b, t) |->
     [value |-> b.dict[k], until |-> IF k \in DOMAIN b.expires THEN b.expires[k] ELSE -1]]

\* c is b but for keys without a timeout, and for keys that are gone.
Trimmed(b, c) ==
  /\ Typed(c) /\ c.dirty >= b.dirty
  /\ \A k \in DOMAIN c.expires \cap DOMAIN c.dict :
       /\ k \in DOMAIN b.expires \cap DOMAIN b.dict
       /\ c.expires[k] = b.expires[k] /\ c.dict[k] = b.dict[k]

\* And unless that is counted, nothing shows.
Sound(b, c) ==
  /\ Trimmed(b, c)
  /\ c.dirty = b.dirty => ShownAt(c, now) = ShownAt(b, now)

LEMMA SameSound == ASSUME NEW b, Typed(b) PROVE Sound(b, b)
BY DEF Sound, Trimmed, Typed

LEMMA TrimmedTwice ==
  ASSUME NEW b, NEW c, NEW e, Typed(b), Trimmed(b, c), Trimmed(c, e)
  PROVE  Trimmed(b, e)
BY DEF Trimmed, Typed

LEMMA SoundTwice ==
  ASSUME NEW b, NEW c, NEW e, Typed(b), Sound(b, c), Sound(c, e)
  PROVE  Sound(b, e)
<1>1. Trimmed(b, e)
  BY TrimmedTwice DEF Sound
<1>2. b.dirty \in Nat /\ c.dirty \in Nat /\ e.dirty \in Nat /\ c.dirty >= b.dirty
      /\ e.dirty >= c.dirty
  BY DEF Sound, Trimmed, Typed
<1>3. e.dirty = b.dirty => c.dirty = b.dirty /\ e.dirty = c.dirty
  BY <1>2
<1> QED
  BY <1>1, <1>3 DEF Sound

LEMMA CountedSound ==
  ASSUME NEW b, NEW c, Typed(b), Trimmed(b, c), c.dirty > b.dirty
  PROVE  Sound(b, c)
BY DEF Sound, Trimmed, Typed

\* A value of a kind holds what that kind holds.
LEMMA TypedValue ==
  ASSUME NEW b, NEW k, Typed(b), Has(b, k)
  PROVE  /\ b.dict[k] \in Value /\ k \in Keys
         /\ IsA(b, k, "string") => b.dict[k].val \in Int
         /\ IsA(b, k, "list") => b.dict[k].val \in Seq(Elems) /\ b.dict[k] = List(b.dict[k].val)
         /\ IsA(b, k, "set") => b.dict[k].val \in SUBSET Elems /\ IsFiniteSet(b.dict[k].val)
<1>1. b.dict[k] \in Value /\ k \in Keys
  BY DEF Typed, Has
<1>2. CASE b.dict[k] \in [type : {"string"}, val : Int]
  BY <1>1, <1>2 DEF IsA
<1>3. CASE b.dict[k] \in [type : {"list"}, val : Seq(Elems)]
  BY <1>1, <1>3 DEF IsA, List
<1>4. CASE b.dict[k] \in [type : {"set"}, val : {s \in SUBSET Elems : IsFiniteSet(s)}]
  <2>1. /\ b.dict[k].type = "set" /\ b.dict[k].val \in SUBSET Elems
        /\ IsFiniteSet(b.dict[k].val)
    BY <1>4
  <2> QED
    BY <1>1, <2>1 DEF IsA
<1> QED
  BY <1>1, <1>2, <1>3, <1>4 DEF Value

LEMMA ValuesAre ==
  /\ \A n \in Int : Str(n) \in Value
  /\ \A l \in Seq(Elems) : List(l) \in Value
  /\ \A s \in SUBSET Elems : IsFiniteSet(s) => Set(s) \in Value
BY DEF Value, Str, List, Set

-----------------------------------------------------------------------------
(* The helpers.                                                            *)

LEMMA DeleteKeysIs ==
  ASSUME NEW b, NEW ks
  PROVE  LET c == DeleteKeys(b, ks)
         IN /\ c.dict = [k \in DOMAIN b.dict \ ks |-> b.dict[k]]
            /\ c.expires = [k \in DOMAIN b.expires \ ks |-> b.expires[k]]
            /\ c.dirty = b.dirty
BY WithoutIs DEF DeleteKeys, Db

LEMMA DeleteKeysTrimmed ==
  ASSUME NEW b, NEW ks, Typed(b)
  PROVE  Trimmed(b, DeleteKeys(b, ks))
<1> DEFINE c == DeleteKeys(b, ks)
<1>1. /\ c.dict = [k \in DOMAIN b.dict \ ks |-> b.dict[k]]
      /\ c.expires = [k \in DOMAIN b.expires \ ks |-> b.expires[k]]
      /\ c.dirty = b.dirty
  BY DeleteKeysIs
<1> HIDE DEF c
<1>2. Typed(c)
  BY <1>1 DEF Typed
<1>3. Trimmed(b, c)
  BY <1>1, <1>2 DEF Trimmed, Typed
<1> QED
  BY <1>3 DEF c

\* Keys that do not show may go.
LEMMA DeleteKeysShows ==
  ASSUME NEW b, NEW ks, Typed(b), ks \cap AliveAt(b, now) = {}
  PROVE  Sound(b, DeleteKeys(b, ks))
<1> DEFINE c == DeleteKeys(b, ks)
<1>1. /\ c.dict = [k \in DOMAIN b.dict \ ks |-> b.dict[k]]
      /\ c.expires = [k \in DOMAIN b.expires \ ks |-> b.expires[k]]
  BY DeleteKeysIs
<1>2. Trimmed(b, c)
  BY DeleteKeysTrimmed
<1> HIDE DEF c
<1>3. AliveAt(c, now) = AliveAt(b, now)
  BY <1>1 DEF AliveAt
<1> DEFINE Shows(e, k) ==
             [value |-> e.dict[k],
              until |-> IF k \in DOMAIN e.expires THEN e.expires[k] ELSE -1]
<1>4. ASSUME NEW k \in AliveAt(b, now) PROVE Shows(c, k) = Shows(b, k)
  <2>1. k \in DOMAIN b.dict /\ k \notin ks
    BY DEF AliveAt
  <2>2. c.dict[k] = b.dict[k]
    BY <1>1, <2>1
  <2>3. k \in DOMAIN c.expires <=> k \in DOMAIN b.expires
    BY <1>1, <2>1
  <2>4. k \in DOMAIN c.expires => c.expires[k] = b.expires[k]
    BY <1>1, <2>1
  <2> QED
    BY <2>2, <2>3, <2>4
<1>5. ShownAt(c, now) = ShownAt(b, now)
  <2>1. /\ ShownAt(c, now) = [k \in AliveAt(c, now) |-> Shows(c, k)]
        /\ ShownAt(b, now) = [k \in AliveAt(b, now) |-> Shows(b, k)]
    BY DEF ShownAt
  <2> HIDE DEF Shows
  <2> QED
    BY <1>3, <1>4, <2>1
<1> QED
  BY <1>2, <1>5 DEF Sound, c

LEMMA ExpiredSound ==
  ASSUME NEW b, NEW ks, Typed(b)
  PROVE  Sound(b, Expired(b, ks))
<1>1. {k \in ks : Due(b, k)} \cap AliveAt(b, now) = {}
  BY DEF Due, Volatile, AliveAt
<1> QED
  BY <1>1, DeleteKeysShows DEF Expired

LEMMA ClaimedSound ==
  ASSUME NEW b, NEW ks, Typed(b)
  PROVE  Sound(b, Claimed(b, ks)) /\ \A k \in ks : ~Volatile(Claimed(b, ks), k)
<1> DEFINE gone == ks \cap DOMAIN b.expires
           c == Claimed(b, ks)
           d == DeleteKeys(b, gone)
<1>1. c.dict = d.dict /\ c.expires = d.expires /\ c.dirty = b.dirty + Cardinality(gone)
  BY DEF Claimed, DeleteKeys, Db
<1>2. IsFiniteSet(gone)
  <2>1. gone \in SUBSET Keys
    BY DEF Typed
  <2> QED
    BY <2>1, KeyspaceAssumption, FS_Subset
<1>3. Cardinality(gone) \in Nat /\ (Cardinality(gone) = 0 <=> gone = {})
  BY <1>2, FS_CardinalityType, FS_EmptySet
<1>4. Trimmed(b, d) /\ d.dirty = b.dirty
  BY DeleteKeysTrimmed, DeleteKeysIs
<1>5. gone = {} => ShownAt(d, now) = ShownAt(b, now)
  <2>1. gone = {} => gone \cap AliveAt(b, now) = {}
    OBVIOUS
  <2> HIDE DEF gone
  <2> QED
    BY <1>4, <2>1, DeleteKeysShows DEF Sound
<1>6. \A k \in ks : ~Volatile(c, k)
  BY ClaimedDomains DEF Volatile
<1> HIDE DEF gone, c, d
<1>7. Typed(c)
  BY <1>1, <1>3, <1>4 DEF Trimmed, Typed
<1>8. Trimmed(b, c)
  BY <1>1, <1>3, <1>4, <1>7 DEF Trimmed, Typed
<1>9. c.dirty = b.dirty => gone = {}
  BY <1>1, <1>3 DEF Typed
<1>10. ShownAt(c, now) = ShownAt(d, now)
  BY <1>1 DEF ShownAt, AliveAt
<1> QED
  BY <1>5, <1>6, <1>8, <1>9, <1>10 DEF Sound, c

\* What is stored is counted.
LEMMA StoreSound ==
  ASSUME NEW b, NEW w, NEW k \in Keys, NEW v \in Value,
         Typed(b), Trimmed(b, w), ~Volatile(w, k)
  PROVE  Sound(b, Store(w, k, v)) /\ Store(w, k, v).dirty > b.dirty
<1> DEFINE c == Store(w, k, v)
<1>1. /\ c.dict = [x \in DOMAIN w.dict \cup {k} |-> IF x = k THEN v ELSE w.dict[x]]
      /\ c.expires = w.expires /\ c.dirty = w.dirty + 1
  BY DEF Store, Put, Db
<1> HIDE DEF c
<1>2. Typed(c)
  BY <1>1 DEF Typed, Trimmed
<1>3. c.dirty > b.dirty
  BY <1>1 DEF Typed, Trimmed
<1>4. Trimmed(b, c)
  BY <1>1, <1>2 DEF Typed, Trimmed, Volatile
<1> QED
  BY <1>3, <1>4, CountedSound DEF c

LEMMA SetSound ==
  ASSUME NEW b, NEW w, NEW k \in Keys, NEW v \in Value, Typed(b), Trimmed(b, w)
  PROVE  Sound(b, RemoveExpire(Store(w, k, v), k))
<1> DEFINE c == RemoveExpire(Store(w, k, v), k)
<1>1. /\ c.dict = [x \in DOMAIN w.dict \cup {k} |-> IF x = k THEN v ELSE w.dict[x]]
      /\ c.expires = [x \in DOMAIN w.expires \ {k} |-> w.expires[x]]
      /\ c.dirty = w.dirty + 1
  BY WithoutIs DEF RemoveExpire, Store, Put, Db
<1> HIDE DEF c
<1>2. Typed(c)
  BY <1>1 DEF Typed, Trimmed
<1>3. c.dirty > b.dirty
  BY <1>1 DEF Typed, Trimmed
<1>4. Trimmed(b, c)
  BY <1>1, <1>2 DEF Typed, Trimmed
<1> QED
  BY <1>3, <1>4, CountedSound DEF c

-----------------------------------------------------------------------------
(* The commands.                                                           *)

LEMMA SetGenericSound ==
  ASSUME NEW b, NEW k \in Keys, NEW n \in Int, NEW nx, Typed(b)
  PROVE  Sound(b, SetGeneric(b, k, n, nx))
<1>1. Trimmed(b, b) /\ Sound(b, b) /\ Str(n) \in Value
  BY SameSound, ValuesAre DEF Sound
<1> QED
  BY <1>1, SetSound DEF SetGeneric

LEMMA GetSetSound ==
  ASSUME NEW b, NEW k \in Keys, NEW n \in Int, Typed(b)
  PROVE  Sound(b, GetSet(b, k, n))
<1>1. Trimmed(b, Expired(b, {k})) /\ Str(n) \in Value
  BY ExpiredSound, ValuesAre DEF Sound
<1> QED
  BY <1>1, SetSound DEF GetSet

LEMMA IncrDecrSound ==
  ASSUME NEW b, NEW k \in Keys, NEW incr \in Int, Typed(b)
  PROVE  Sound(b, IncrDecr(b, k, incr))
<1> DEFINE w == Claimed(b, {k})
           value == IF IsA(w, k, "string") THEN w.dict[k].val ELSE 0
           after == Store(w, k, Str(value + incr))
<1>1. Trimmed(b, w) /\ Typed(w) /\ ~Volatile(w, k)
  BY ClaimedSound DEF Sound, Trimmed
<1> HIDE DEF w
<1>2. value \in Int
  BY <1>1, TypedValue DEF IsA
<1> HIDE DEF value
<1>3. Str(value + incr) \in Value
  BY <1>2, ValuesAre
<1>4. Sound(b, after) /\ Sound(b, RemoveExpire(after, k))
  BY <1>1, <1>3, StoreSound, SetSound
<1>5. IncrDecr(b, k, incr) = IF Has(w, k) THEN RemoveExpire(after, k) ELSE after
  BY DEF IncrDecr, w, value
<1> QED
  BY <1>4, <1>5

LEMMA DelSound ==
  ASSUME NEW b, NEW ks, Typed(b)
  PROVE  Sound(b, Del(b, ks))
<1> DEFINE w == DeleteKeys(b, ks)
           c == Del(b, ks)
           n == Cardinality(ks \cap DOMAIN b.dict)
<1>1. c.dict = w.dict /\ c.expires = w.expires /\ c.dirty = b.dirty + n
  BY DEF Del, Db
<1>2. ks \cap DOMAIN b.dict \in SUBSET Keys
  BY DEF Typed
<1>3. IsFiniteSet(ks \cap DOMAIN b.dict)
  BY <1>2, KeyspaceAssumption, FS_Subset
<1>4. n \in Nat /\ (n = 0 => ks \cap DOMAIN b.dict = {})
  BY <1>3, FS_CardinalityType, FS_EmptySet
<1>5. Trimmed(b, w) /\ w.dirty = b.dirty
  BY DeleteKeysTrimmed, DeleteKeysIs
<1>6. n = 0 => ShownAt(w, now) = ShownAt(b, now)
  <2>1. n = 0 => ks \cap AliveAt(b, now) = {}
    BY <1>4 DEF AliveAt
  <2> HIDE DEF n
  <2> QED
    BY <1>5, <2>1, DeleteKeysShows DEF Sound
<1>7. ShownAt(c, now) = ShownAt(w, now)
  BY <1>1 DEF ShownAt, AliveAt
<1> HIDE DEF w, c, n
<1>8. Trimmed(b, c)
  BY <1>1, <1>4, <1>5 DEF Trimmed, Typed
<1>9. c.dirty = b.dirty => n = 0
  BY <1>1, <1>4 DEF Typed
<1> QED
  BY <1>6, <1>7, <1>8, <1>9 DEF Sound, c

LEMMA RenameGenericSound ==
  ASSUME NEW b, NEW src \in Keys, NEW dst \in Keys, NEW nx, Typed(b)
  PROVE  Sound(b, RenameGeneric(b, src, dst, nx))
<1> DEFINE w == Claimed(b, {src})
           t == Claimed(w, {dst})
           s == Store(t, dst, w.dict[src])
           c == DeleteKeys(s, {src})
<1>1. \/ RenameGeneric(b, src, dst, nx) \in {b, w, t}
      \/ Has(w, src) /\ RenameGeneric(b, src, dst, nx) = c
  BY DEF RenameGeneric
<1>2. Sound(b, b) /\ Sound(b, w) /\ Typed(w)
  BY SameSound, ClaimedSound DEF Sound, Trimmed
<1>3. Sound(w, t) /\ ~Volatile(t, dst)
  BY <1>2, ClaimedSound
<1> HIDE DEF w, t
<1>4. Sound(b, t)
  BY <1>2, <1>3, SoundTwice
<1>5. ASSUME Has(w, src) PROVE Sound(b, c)
  <2>1. w.dict[src] \in Value
    BY <1>2, <1>5, TypedValue
  <2>2. Trimmed(b, t)
    BY <1>4 DEF Sound
  <2>3. Sound(b, s) /\ s.dirty > b.dirty
    BY <1>3, <2>1, <2>2, StoreSound
  <2> HIDE DEF s
  <2>4. Trimmed(b, s) /\ Typed(s)
    BY <2>3 DEF Sound, Trimmed
  <2>5. Trimmed(s, c) /\ c.dirty = s.dirty
    BY <2>4, DeleteKeysTrimmed, DeleteKeysIs
  <2> QED
    BY <2>3, <2>4, <2>5, TrimmedTwice, CountedSound
<1> QED
  BY <1>1, <1>2, <1>4, <1>5

\* MOVE changes two databases, and counts what it changes.
LEMMA MoveKeySound ==
  ASSUME NEW from, NEW to, NEW k \in Keys, Typed(from), Typed(to)
  PROVE  LET moved == MoveKey(from, to, k)
         IN /\ Trimmed(from, moved[1]) /\ Trimmed(to, moved[2])
            /\ \/ Sound(from, moved[1]) /\ Sound(to, moved[2])
               \/ moved[2].dirty > to.dirty
<1> DEFINE w == Claimed(from, {k})
           t == Claimed(to, {k})
           moved == MoveKey(from, to, k)
<1>1. \/ moved = <<w, to>> \/ moved = <<w, t>>
      \/ Has(w, k) /\ moved = <<DeleteKeys(w, {k}), Store(t, k, w.dict[k])>>
  BY DEF MoveKey
<1>2. Sound(from, w) /\ Sound(to, to) /\ Sound(to, t) /\ ~Volatile(t, k)
  BY SameSound, ClaimedSound
<1>3. Typed(w) /\ Trimmed(from, w) /\ Trimmed(to, t) /\ Trimmed(to, to)
  BY <1>2 DEF Sound, Trimmed
<1> HIDE DEF w, t, moved
<1>4. CASE moved = <<w, to>> \/ moved = <<w, t>>
  BY <1>2, <1>3, <1>4 DEF moved
<1>5. CASE Has(w, k) /\ moved = <<DeleteKeys(w, {k}), Store(t, k, w.dict[k])>>
  <2>1. w.dict[k] \in Value
    BY <1>3, <1>5, TypedValue
  <2>2. Sound(to, Store(t, k, w.dict[k])) /\ Store(t, k, w.dict[k]).dirty > to.dirty
    BY <1>2, <1>3, <2>1, StoreSound
  <2>3. Trimmed(from, DeleteKeys(w, {k}))
    BY <1>3, DeleteKeysTrimmed, TrimmedTwice
  <2> QED
    BY <1>5, <2>2, <2>3 DEF Sound, moved
<1> QED
  BY <1>1, <1>4, <1>5

\* What a write to one key begins with.
LEMMA ClaimedKey ==
  ASSUME NEW b, NEW k \in Keys, Typed(b)
  PROVE  LET w == Claimed(b, {k})
         IN /\ Sound(b, w) /\ Trimmed(b, w) /\ Typed(w)
            /\ \A v \in Value : Sound(b, Store(w, k, v))
            /\ IsA(w, k, "list") => w.dict[k].val \in Seq(Elems)
                                    /\ w.dict[k] = List(w.dict[k].val)
            /\ IsA(w, k, "set") => w.dict[k].val \in SUBSET Elems /\ IsFiniteSet(w.dict[k].val)
<1> DEFINE w == Claimed(b, {k})
<1>1. Sound(b, w) /\ Trimmed(b, w) /\ Typed(w) /\ ~Volatile(w, k)
  BY ClaimedSound DEF Sound, Trimmed
<1> HIDE DEF w
<1>2. \A v \in Value : Sound(b, Store(w, k, v))
  BY <1>1, StoreSound
<1>3. /\ IsA(w, k, "list") => w.dict[k].val \in Seq(Elems) /\ w.dict[k] = List(w.dict[k].val)
      /\ IsA(w, k, "set") => w.dict[k].val \in SUBSET Elems /\ IsFiniteSet(w.dict[k].val)
  BY <1>1, TypedValue DEF IsA
<1> QED
  BY <1>1, <1>2, <1>3 DEF w

LEMMA PushGenericSound ==
  ASSUME NEW b, NEW k \in Keys, NEW e \in Elems, NEW where, Typed(b)
  PROVE  Sound(b, PushGeneric(b, k, e, where))
<1> DEFINE w == Claimed(b, {k})
           list == IF Has(w, k) THEN w.dict[k].val ELSE <<>>
           new == IF where = "head" THEN <<e>> \o list ELSE Append(list, e)
<1>1. PushGeneric(b, k, e, where) = IF Has(w, k) /\ ~IsA(w, k, "list") THEN w
                                    ELSE Store(w, k, List(new))
  BY DEF PushGeneric
<1>2. Sound(b, w) /\ \A v \in Value : Sound(b, Store(w, k, v))
  BY ClaimedKey
<1>3. \/ Has(w, k) /\ ~IsA(w, k, "list")
      \/ list \in Seq(Elems)
  <2>1. IsA(w, k, "list") => w.dict[k].val \in Seq(Elems)
    BY ClaimedKey
  <2>2. <<>> \in Seq(Elems)
    OBVIOUS
  <2> HIDE DEF w
  <2> QED
    BY <2>1, <2>2 DEF list
<1> HIDE DEF w, list
<1>4. list \in Seq(Elems) => new \in Seq(Elems)
  OBVIOUS
<1> HIDE DEF new
<1> QED
  BY <1>1, <1>2, <1>3, <1>4, ValuesAre

LEMMA LsetSound ==
  ASSUME NEW b, NEW k \in Keys, NEW index \in Int, NEW e \in Elems, Typed(b)
  PROVE  Sound(b, Lset(b, k, index, e))
<1> DEFINE w == Claimed(b, {k})
           list == w.dict[k].val
           n == IF index < 0 THEN Len(list) + index + 1 ELSE index + 1
           new == [list EXCEPT ![n] = e]
<1>1. Lset(b, k, index, e) = IF IsA(w, k, "list") /\ ListIndex(list, index) # <<>>
                             THEN Store(w, k, List(new)) ELSE w
  BY DEF Lset
<1>2. Sound(b, w) /\ \A v \in Value : Sound(b, Store(w, k, v))
  BY ClaimedKey
<1>3. IsA(w, k, "list") => list \in Seq(Elems)
  BY ClaimedKey
<1> HIDE DEF w, list
<1>4. ASSUME list \in Seq(Elems) PROVE new \in Seq(Elems)
  <2>1. new = [i \in 1 .. Len(list) |-> IF i = n THEN e ELSE list[i]]
    BY <1>4
  <2>2. \A i \in 1 .. Len(list) : list[i] \in Elems
    BY <1>4
  <2> HIDE DEF new, n
  <2> QED
    BY <1>4, <2>1, <2>2
<1> HIDE DEF new
<1> QED
  BY <1>1, <1>2, <1>3, <1>4, ValuesAre

LEMMA PopGenericSound ==
  ASSUME NEW b, NEW k \in Keys, NEW where, Typed(b)
  PROVE  Sound(b, PopGeneric(b, k, where))
<1> DEFINE w == Claimed(b, {k})
           list == w.dict[k].val
           new == IF where = "head" THEN Tail(list) ELSE Front(list)
<1>1. PopGeneric(b, k, where) = IF IsA(w, k, "list") /\ list # <<>>
                                THEN Store(w, k, List(new)) ELSE w
  BY DEF PopGeneric
<1>2. Sound(b, w) /\ \A v \in Value : Sound(b, Store(w, k, v))
  BY ClaimedKey
<1>3. IsA(w, k, "list") => list \in Seq(Elems)
  BY ClaimedKey
<1> HIDE DEF w, list
<1>4. ASSUME list \in Seq(Elems), list # <<>> PROVE new \in Seq(Elems)
  <2>1. Tail(list) \in Seq(Elems)
    BY <1>4, HeadTailProperties
  <2>2. Front(list) \in Seq(Elems)
    BY <1>4, SubSeqProperties DEF Front
  <2> QED
    BY <2>1, <2>2
<1> HIDE DEF new
<1> QED
  BY <1>1, <1>2, <1>3, <1>4, ValuesAre

LEMMA LtrimLeaves ==
  ASSUME NEW S, NEW list \in Seq(S), NEW from \in Int, NEW to \in Int
  PROVE  Ltrim(list, from, to) \in Seq(S)
<1> DEFINE llen == Len(list)
           start == Converted(from, llen)
           end == Converted(to, llen)
           none == start > end \/ start >= llen
           ltrim == IF none THEN llen ELSE start
           rtrim == IF none \/ end >= llen THEN 0 ELSE llen - end - 1
<1>1. start \in Nat /\ end \in Nat /\ llen \in Nat
  BY DEF Converted
<1>2. Ltrim(list, from, to) = SubSeq(list, ltrim + 1, llen - rtrim)
  BY DEF Ltrim
<1> HIDE DEF start, end
<1>3. ltrim \in Nat /\ llen - rtrim \in Int /\ llen - rtrim <= llen
  BY <1>1
<1>4. \A i \in ltrim + 1 .. llen - rtrim : list[i] \in S
  <2> HIDE DEF ltrim, rtrim
  <2> QED
    BY <1>1, <1>3
<1> HIDE DEF ltrim, rtrim, llen
<1> QED
  BY <1>1, <1>2, <1>3, <1>4, SubSeqProperties

LEMMA LtrimKeySound ==
  ASSUME NEW b, NEW k \in Keys, NEW from \in Int, NEW to \in Int, Typed(b)
  PROVE  Sound(b, LtrimKey(b, k, from, to))
<1>1. \A v \in Value : Sound(b, Store(Claimed(b, {k}), k, v))
  BY ClaimedKey
<1>2. IsA(Claimed(b, {k}), k, "list")
        => List(Ltrim(Claimed(b, {k}).dict[k].val, from, to)) \in Value
  BY ClaimedKey, LtrimLeaves, ValuesAre
<1> QED
  BY <1>1, <1>2, ClaimedKey DEF LtrimKey

LEMMA LremKeySound ==
  ASSUME NEW b, NEW k \in Keys, NEW toremove, NEW e, Typed(b)
  PROVE  Sound(b, LremKey(b, k, toremove, e))
<1> DEFINE w == Claimed(b, {k})
           walk == Lrem(w.dict[k].val, toremove, e)
           c == Db(Put(w.dict, k, List(walk.left)), w.expires, w.dirty + walk.removed)
<1>1. LremKey(b, k, toremove, e) = IF ~IsA(w, k, "list") THEN w ELSE c
  BY DEF LremKey
<1>2. Sound(b, w) /\ Typed(w) /\ ~Volatile(w, k)
  BY ClaimedKey, ClaimedSound
<1>3. ASSUME IsA(w, k, "list") PROVE Sound(w, c)
  <2>1. w.dict[k].val \in Seq(Elems) /\ w.dict[k] = List(w.dict[k].val)
    BY <1>3, ClaimedKey
  <2>2. /\ walk.left \in Seq(Elems) /\ walk.removed \in Nat
        /\ walk.removed = 0 => walk.left = w.dict[k].val
    BY <2>1, LremLeaves
  <2> HIDE DEF walk, w
  <2>3. List(walk.left) \in Value
    BY <2>2, ValuesAre
  <2>4. /\ c.dict = [x \in DOMAIN w.dict \cup {k} |-> IF x = k THEN List(walk.left) ELSE w.dict[x]]
        /\ c.expires = w.expires /\ c.dirty = w.dirty + walk.removed
    BY DEF Put, Db
  <2> HIDE DEF c
  <2>5. Typed(c)
    BY <1>2, <2>2, <2>3, <2>4 DEF Typed
  <2>6. Trimmed(w, c)
    <3>1. w.dirty \in Nat /\ c.dirty >= w.dirty
      BY <1>2, <2>2, <2>4 DEF Typed
    <3>2. ASSUME NEW x \in DOMAIN c.expires \cap DOMAIN c.dict
          PROVE  /\ x \in DOMAIN w.expires \cap DOMAIN w.dict
                 /\ c.expires[x] = w.expires[x] /\ c.dict[x] = w.dict[x]
      BY <1>2, <2>4 DEF Volatile
    <3> QED
      BY <2>5, <3>1, <3>2 DEF Trimmed
  <2>7. ASSUME walk.removed = 0 PROVE ShownAt(c, now) = ShownAt(w, now)
    <3>1. k \in DOMAIN w.dict
      BY <1>3 DEF IsA, Has
    <3>2. List(walk.left) = w.dict[k]
      BY <2>1, <2>2, <2>7
    <3>3. c.dict = [x \in DOMAIN w.dict |-> w.dict[x]]
      BY <2>4, <3>1, <3>2
    <3>4. DOMAIN c.dict = DOMAIN w.dict /\ \A x \in DOMAIN w.dict : c.dict[x] = w.dict[x]
      BY <3>3
    <3>5. AliveAt(c, now) = AliveAt(w, now)
      BY <2>4, <3>4 DEF AliveAt
    <3>6. \A x \in AliveAt(w, now) : c.dict[x] = w.dict[x]
      BY <3>4 DEF AliveAt
    <3> QED
      BY <2>4, <3>5, <3>6 DEF ShownAt
  <2>8. c.dirty = w.dirty => walk.removed = 0
    BY <1>2, <2>2, <2>4 DEF Typed
  <2> QED
    BY <2>6, <2>7, <2>8 DEF Sound
<1> HIDE DEF w, c
<1> QED
  BY <1>1, <1>2, <1>3, SoundTwice

LEMMA SaddSound ==
  ASSUME NEW b, NEW k \in Keys, NEW e \in Elems, Typed(b)
  PROVE  Sound(b, Sadd(b, k, e))
<1> DEFINE w == Claimed(b, {k})
           set == IF Has(w, k) THEN w.dict[k].val ELSE {}
<1>1. Sadd(b, k, e) = IF Has(w, k) /\ ~IsA(w, k, "set") THEN w
                      ELSE IF e \in set THEN w ELSE Store(w, k, Set(set \cup {e}))
  BY DEF Sadd
<1>2. Sound(b, w) /\ \A v \in Value : Sound(b, Store(w, k, v))
  BY ClaimedKey
<1>3. IsA(w, k, "set") => w.dict[k].val \in SUBSET Elems /\ IsFiniteSet(w.dict[k].val)
  BY ClaimedKey
<1> HIDE DEF w
<1>4. \/ Has(w, k) /\ ~IsA(w, k, "set")
      \/ set \in SUBSET Elems /\ IsFiniteSet(set)
  <2>1. {} \in SUBSET Elems /\ IsFiniteSet({})
    BY FS_EmptySet
  <2>2. CASE Has(w, k)
    <3>1. set = w.dict[k].val
      BY <2>2
    <3> HIDE DEF set
    <3> QED
      BY <1>3, <2>2, <3>1
  <2>3. CASE ~Has(w, k)
    <3>1. set = {}
      BY <2>3
    <3> HIDE DEF set
    <3> QED
      BY <2>1, <3>1
  <2> QED
    BY <2>2, <2>3
<1> HIDE DEF set
<1>5. set \in SUBSET Elems /\ IsFiniteSet(set) => Set(set \cup {e}) \in Value
  BY FS_AddElement, ValuesAre
<1> QED
  BY <1>1, <1>2, <1>4, <1>5

LEMMA SremSound ==
  ASSUME NEW b, NEW k \in Keys, NEW e, Typed(b)
  PROVE  Sound(b, Srem(b, k, e))
<1> DEFINE w == Claimed(b, {k})
<1>1. Srem(b, k, e) = IF IsA(w, k, "set") /\ e \in w.dict[k].val
                      THEN Store(w, k, Set(w.dict[k].val \ {e})) ELSE w
  BY DEF Srem
<1>2. Sound(b, w) /\ \A v \in Value : Sound(b, Store(w, k, v))
  BY ClaimedKey
<1>3. IsA(w, k, "set") => w.dict[k].val \in SUBSET Elems /\ IsFiniteSet(w.dict[k].val)
  BY ClaimedKey
<1> HIDE DEF w
<1>4. IsA(w, k, "set") => Set(w.dict[k].val \ {e}) \in Value
  BY <1>3, FS_RemoveElement, ValuesAre
<1> QED
  BY <1>1, <1>2, <1>4

LEMMA SmoveSound ==
  ASSUME NEW b, NEW src \in Keys, NEW dst \in Keys, NEW e \in Elems, Typed(b)
  PROVE  Sound(b, Smove(b, src, dst, e))
<1> DEFINE w == Claimed(b, {src, dst})
           taken == Store(w, src, Set(w.dict[src].val \ {e}))
           set == IF Has(taken, dst) THEN taken.dict[dst].val ELSE {}
           c == Db(Put(taken.dict, dst, Set(set \cup {e})), taken.expires, taken.dirty)
           moves == /\ IsA(w, src, "set") /\ e \in w.dict[src].val
                    /\ Has(w, dst) => IsA(w, dst, "set")
<1>1. Smove(b, src, dst, e) = IF moves THEN c ELSE w
  BY DEF Smove
<1>2. Sound(b, w) /\ Trimmed(b, w) /\ Typed(w) /\ ~Volatile(w, src) /\ ~Volatile(w, dst)
  BY ClaimedSound DEF Sound, Trimmed
<1> HIDE DEF w
<1>3. ASSUME moves PROVE Sound(b, c)
  <2>1. w.dict[src].val \in SUBSET Elems /\ IsFiniteSet(w.dict[src].val)
    BY <1>2, <1>3, TypedValue DEF IsA
  <2>2. Set(w.dict[src].val \ {e}) \in Value
    BY <2>1, FS_RemoveElement, ValuesAre
  <2>3. Trimmed(b, taken) /\ taken.dirty > b.dirty /\ Typed(taken)
    <3>1. Sound(b, taken) /\ taken.dirty > b.dirty
      BY <1>2, <2>2, StoreSound
    <3> HIDE DEF taken
    <3> QED
      BY <3>1 DEF Sound, Trimmed
  <2>4. Has(taken, dst) => IsA(taken, dst, "set")
    <3>1. /\ DOMAIN taken.dict = DOMAIN w.dict \cup {src}
          /\ \A x \in DOMAIN w.dict \ {src} : taken.dict[x] = w.dict[x]
          /\ taken.dict[src].type = "set"
      BY DEF Store, Put, Db, Set
    <3> HIDE DEF taken
    <3> QED
      BY <1>3, <3>1 DEF IsA, Has
  <2>5. taken.expires = w.expires
    BY DEF Store, Db
  <2> HIDE DEF taken
  <2>6. set \in SUBSET Elems /\ IsFiniteSet(set)
    BY <2>3, <2>4, TypedValue, FS_EmptySet
  <2> HIDE DEF set
  <2>7. Set(set \cup {e}) \in Value
    BY <2>6, FS_AddElement, ValuesAre
  <2>8. /\ c.dict = [x \in DOMAIN taken.dict \cup {dst} |->
                       IF x = dst THEN Set(set \cup {e}) ELSE taken.dict[x]]
        /\ c.expires = taken.expires /\ c.dirty = taken.dirty
    BY DEF Put, Db
  <2> HIDE DEF c
  <2>9. Typed(c)
    BY <2>3, <2>7, <2>8 DEF Typed
  <2>10. Trimmed(taken, c)
    <3>1. taken.dirty \in Nat /\ c.dirty >= taken.dirty
      BY <2>3, <2>8 DEF Typed
    <3>2. ASSUME NEW x \in DOMAIN c.expires \cap DOMAIN c.dict
          PROVE  /\ x \in DOMAIN taken.expires \cap DOMAIN taken.dict
                 /\ c.expires[x] = taken.expires[x] /\ c.dict[x] = taken.dict[x]
      BY <1>2, <2>5, <2>8 DEF Volatile
    <3> QED
      BY <2>9, <3>1, <3>2 DEF Trimmed
  <2> QED
    BY <2>3, <2>8, <2>10, TrimmedTwice, CountedSound
<1> HIDE DEF c, moves
<1> QED
  BY <1>1, <1>2, <1>3

LEMMA LookedUpSound ==
  ASSUME NEW b, NEW ks, NEW stops, Typed(b)
  PROVE  Sound(b, LookedUp(b, ks, stops))
BY ClaimedSound DEF LookedUp

OperandsOf(w, ks) == [j \in DOMAIN ks |-> IF Has(w, ks[j]) THEN w.dict[ks[j]].val ELSE {}]

\* Two sets that are found when no volatile key stays.
LEMMA OperandsAre ==
  ASSUME NEW b, NEW k1, NEW k2, Typed(b), WrongType(b, <<k1, k2>>) = {}
  PROVE  LET w == LookedUp(b, <<k1, k2>>, {})
             dv == OperandsOf(w, <<k1, k2>>)
         IN /\ dv \in Seq({s \in SUBSET Elems : IsFiniteSet(s)}) /\ Len(dv) = 2
            /\ Missing(b, <<k1, k2>>) = {} => \A j \in {1, 2} : Has(w, <<k1, k2>>[j])
<1> DEFINE ks == <<k1, k2>>
           w == LookedUp(b, ks, {})
           dv == OperandsOf(w, ks)
           F == {s \in SUBSET Elems : IsFiniteSet(s)}
<1>1. DOMAIN ks = {1, 2} /\ DOMAIN ks = 1 .. 2
  OBVIOUS
<1>2. w = Claimed(b, {ks[j] : j \in {1, 2}})
  <2>1. {i \in DOMAIN ks : \A s \in {} : i <= s} = {1, 2}
    BY <1>1
  <2> HIDE DEF ks
  <2> QED
    BY <2>1 DEF LookedUp
<1> HIDE DEF ks
<1>3. /\ Typed(w)
      /\ \A k \in {ks[j] : j \in {1, 2}} : ~Volatile(w, k)
  BY <1>2, ClaimedSound DEF Sound, Trimmed
<1>4. /\ w.dict = [k \in DOMAIN b.dict \ ({ks[j] : j \in {1, 2}} \cap DOMAIN b.expires) |-> b.dict[k]]
  <2> DEFINE K == {ks[j] : j \in {1, 2}}
  <2>1. w = Claimed(b, K)
    BY <1>2
  <2> HIDE DEF K
  <2>2. w.dict = Without(b.dict, K \cap DOMAIN b.expires)
    BY <2>1 DEF Claimed, Db
  <2>3. w.dict = [k \in DOMAIN b.dict \ (K \cap DOMAIN b.expires) |-> b.dict[k]]
    BY <2>2, WithoutIs
  <2> QED
    BY <2>3 DEF K
<1> HIDE DEF w
<1>5. ASSUME NEW j \in {1, 2}
      PROVE  (Has(w, ks[j]) <=> Stays(b, ks[j])) /\ (Has(w, ks[j]) => IsA(w, ks[j], "set"))
  <2>1. ks[j] \in {ks[i] : i \in {1, 2}}
    OBVIOUS
  <2>2. Has(w, ks[j]) <=> Stays(b, ks[j])
    BY <1>4, <2>1 DEF Has, Stays, Volatile
  <2>3. Has(w, ks[j]) => w.dict[ks[j]] = b.dict[ks[j]]
    BY <1>4 DEF Has
  <2>4. Stays(b, ks[j]) => IsA(b, ks[j], "set")
    BY <1>1 DEF WrongType, ks
  <2> QED
    BY <2>2, <2>3, <2>4 DEF IsA
<1>6. ASSUME NEW j \in {1, 2} PROVE dv[j] \in F
  <2>1. dv[j] = IF Has(w, ks[j]) THEN w.dict[ks[j]].val ELSE {}
    BY <1>1 DEF OperandsOf
  <2>2. {} \in F
    BY FS_EmptySet
  <2>3. Has(w, ks[j]) => w.dict[ks[j]].val \in F
    BY <1>3, <1>5, TypedValue
  <2> QED
    BY <2>1, <2>2, <2>3
<1>7. DOMAIN dv = 1 .. 2
  BY <1>1 DEF OperandsOf
<1>8. dv = [j \in 1 .. 2 |-> dv[j]]
  BY <1>7 DEF OperandsOf
<1> HIDE DEF dv, F
<1>9. dv \in Seq(F) /\ Len(dv) = 2
  <2>1. \A j \in 1 .. 2 : dv[j] \in F
    BY <1>6
  <2> QED
    BY <1>7, <1>8, <2>1
<1>10. Missing(b, ks) = {} => \A j \in {1, 2} : Has(w, ks[j])
  BY <1>1, <1>5 DEF Missing
<1> QED
  BY <1>9, <1>10 DEF dv, F, w, ks

\* Without the key dst, what shows is lost under dst alone.
LostAt(b, c, dst) ==
  /\ Trimmed(b, c)
  /\ c.dirty = b.dirty =>
       ShownAt(c, now) = [k \in AliveAt(b, now) \ {dst} |-> ShownAt(b, now)[k]]

LEMMA TargetLost ==
  ASSUME NEW b, NEW w, NEW dst, Typed(b), Sound(b, w)
  PROVE  LostAt(b, DeleteKeys(w, {dst}), dst)
<1> DEFINE c == DeleteKeys(w, {dst})
<1>1. /\ c.dict = [k \in DOMAIN w.dict \ {dst} |-> w.dict[k]]
      /\ c.expires = [k \in DOMAIN w.expires \ {dst} |-> w.expires[k]]
      /\ c.dirty = w.dirty
  BY DeleteKeysIs
<1>2. Trimmed(b, w) /\ Typed(w)
  BY DEF Sound, Trimmed
<1>3. Trimmed(b, c)
  BY <1>2, DeleteKeysTrimmed, TrimmedTwice
<1> HIDE DEF c
<1>4. AliveAt(c, now) = AliveAt(w, now) \ {dst}
  BY <1>1 DEF AliveAt
<1>5. ASSUME NEW k \in AliveAt(w, now) \ {dst} PROVE ShownAt(c, now)[k] = ShownAt(w, now)[k]
  <2>1. k \in AliveAt(c, now) /\ k \in AliveAt(w, now) /\ k \in DOMAIN w.dict /\ k # dst
    BY <1>4 DEF AliveAt
  <2>2. /\ c.dict[k] = w.dict[k]
        /\ (k \in DOMAIN c.expires) = (k \in DOMAIN w.expires)
        /\ k \in DOMAIN w.expires => c.expires[k] = w.expires[k]
    BY <1>1, <2>1
  <2> QED
    BY <2>1, <2>2 DEF ShownAt
<1>6. ShownAt(c, now) = [k \in AliveAt(w, now) \ {dst} |-> ShownAt(w, now)[k]]
  <2>1. ShownAt(c, now) = [k \in AliveAt(c, now) |-> ShownAt(c, now)[k]]
    BY DEF ShownAt
  <2> QED
    BY <1>4, <1>5, <2>1
<1>7. w.dirty = b.dirty => AliveAt(w, now) = AliveAt(b, now) /\ ShownAt(w, now) = ShownAt(b, now)
  <2>1. w.dirty = b.dirty => ShownAt(w, now) = ShownAt(b, now)
    BY DEF Sound
  <2>2. AliveAt(w, now) = DOMAIN ShownAt(w, now) /\ AliveAt(b, now) = DOMAIN ShownAt(b, now)
    BY DEF ShownAt
  <2> QED
    BY <2>1, <2>2
<1> QED
  BY <1>1, <1>3, <1>6, <1>7 DEF LostAt, c

\* Deleting the target and storing in it is counted.
LEMMA ReplacedSound ==
  ASSUME NEW b, NEW w, NEW dst \in Keys, NEW v \in Value, Typed(b), Sound(b, w)
  PROVE  Sound(b, Store(DeleteKeys(w, {dst}), dst, v))
<1>1. Typed(w) /\ Trimmed(b, w)
  BY DEF Sound, Trimmed
<1>2. Trimmed(b, DeleteKeys(w, {dst}))
  BY <1>1, DeleteKeysTrimmed, TrimmedTwice
<1>3. ~Volatile(DeleteKeys(w, {dst}), dst)
  BY DeleteKeysDomains DEF Volatile
<1> QED
  BY <1>2, <1>3, StoreSound

LEMMA SinterStoreSound ==
  ASSUME NEW b, NEW dst \in Keys, NEW k1, NEW k2, Typed(b)
  PROVE  LET c == SinterStore(b, dst, <<k1, k2>>) IN Sound(b, c) \/ LostAt(b, c, dst)
<1> DEFINE ks == <<k1, k2>>
           stops == WrongType(b, ks) \cup Missing(b, ks)
           w == LookedUp(b, ks, stops)
           dv == [j \in DOMAIN ks |-> w.dict[ks[j]].val]
           c == SinterStore(b, dst, ks)
<1>1. /\ stops = {} => c = Store(DeleteKeys(w, {dst}), dst, Set(Sinter(dv)))
      /\ stops # {} => c \in {w, DeleteKeys(w, {dst})}
  BY DEF SinterStore
<1>2. Sound(b, w)
  BY LookedUpSound
<1>3. ASSUME stops = {} PROVE Set(Sinter(dv)) \in Value
  <2> DEFINE v == LookedUp(b, ks, {})
             dw == OperandsOf(v, ks)
  <2>1. WrongType(b, ks) = {} /\ Missing(b, ks) = {}
    BY <1>3
  <2>2. /\ dw \in Seq({s \in SUBSET Elems : IsFiniteSet(s)}) /\ Len(dw) = 2
        /\ \A j \in {1, 2} : Has(v, ks[j])
    BY <2>1, OperandsAre
  <2>3. w = v
    BY <1>3
  <2>4. DOMAIN ks = {1, 2}
    OBVIOUS
  <2> HIDE DEF v, w, ks
  <2>5. dv = dw
    BY <2>2, <2>3, <2>4 DEF OperandsOf
  <2> HIDE DEF dv, dw
  <2> QED
    BY <2>2, <2>5, SetAlgebra, ValuesAre
<1> HIDE DEF w, dv, stops
<1>4. CASE stops = {}
  BY <1>1, <1>2, <1>3, <1>4, ReplacedSound
<1>5. CASE stops # {}
  BY <1>1, <1>2, <1>5, TargetLost
<1> QED
  BY <1>4, <1>5

LEMMA SunionDiffStoreSound ==
  ASSUME NEW b, NEW dst \in Keys, NEW k1, NEW k2, NEW op, Typed(b)
  PROVE  Sound(b, SunionDiffStore(b, dst, <<k1, k2>>, op))
<1> DEFINE ks == <<k1, k2>>
           w == LookedUp(b, ks, WrongType(b, ks))
           dv == OperandsOf(w, ks)
           result == IF op = "union" THEN Sunion(dv) ELSE Sdiff(dv)
<1>1. SunionDiffStore(b, dst, ks, op) =
        IF WrongType(b, ks) # {} THEN w ELSE Store(DeleteKeys(w, {dst}), dst, Set(result))
  BY DEF SunionDiffStore, OperandsOf
<1>2. Sound(b, w)
  BY LookedUpSound
<1>3. ASSUME WrongType(b, ks) = {} PROVE Set(result) \in Value
  <2>1. dv \in Seq({s \in SUBSET Elems : IsFiniteSet(s)}) /\ Len(dv) = 2
    BY <1>3, OperandsAre
  <2> HIDE DEF dv
  <2>2. Sunion(dv) \in SUBSET Elems /\ IsFiniteSet(Sunion(dv))
        /\ Sdiff(dv) \in SUBSET Elems /\ IsFiniteSet(Sdiff(dv))
    BY <2>1, SetAlgebra
  <2>3. result \in SUBSET Elems /\ IsFiniteSet(result)
    BY <2>2
  <2> QED
    BY <2>3, ValuesAre
<1> HIDE DEF w, result
<1> QED
  BY <1>1, <1>2, <1>3, ReplacedSound

LEMMA FlushdbSound ==
  ASSUME NEW b, Typed(b)
  PROVE  Sound(b, Flushdb(b))
<1> DEFINE c == Flushdb(b)
           n == Cardinality(DOMAIN b.dict)
<1>1. c.dict = Empty /\ c.expires = Empty /\ c.dirty = b.dirty + n
  BY DEF Flushdb, Db
<1>2. n \in Nat /\ (n = 0 => DOMAIN b.dict = {})
  <2>1. IsFiniteSet(DOMAIN b.dict)
    BY KeyspaceAssumption, FS_Subset DEF Typed
  <2> QED
    BY <2>1, FS_CardinalityType, FS_EmptySet
<1>3. DOMAIN Empty = {}
  BY DEF Empty
<1> HIDE DEF c, n
<1>4. Typed(c)
  BY <1>1, <1>2, <1>3 DEF Typed
<1>5. Trimmed(b, c)
  BY <1>1, <1>2, <1>3, <1>4 DEF Trimmed, Typed
<1>6. c.dirty = b.dirty => AliveAt(c, now) = {} /\ AliveAt(b, now) = {}
  BY <1>1, <1>2, <1>3 DEF AliveAt, Typed
<1>7. c.dirty = b.dirty => ShownAt(c, now) = ShownAt(b, now)
  BY <1>6 DEF ShownAt
<1> QED
  BY <1>5, <1>7 DEF Sound, c

-----------------------------------------------------------------------------
(* The databases of a server.                                              *)

Types ==
  /\ now \in 0 .. MaxTime /\ counted \in BOOLEAN /\ seen \in BOOLEAN
  /\ DOMAIN db = Dbs /\ DOMAIN prompt = Dbs
  /\ \A d \in Dbs : Typed(At(d)) /\ Typed(Prompt(d))

LEMMA AtIs ==
  ASSUME NEW d
  PROVE  /\ At(d).dict = db[d].dict /\ At(d).expires = db[d].expires /\ At(d).dirty = 0
         /\ Prompt(d).dict = prompt[d] /\ Prompt(d).expires = Empty /\ Prompt(d).dirty = 0
         /\ At(d)'.dict = db'[d].dict /\ At(d)'.expires = db'[d].expires /\ At(d)'.dirty = 0
         /\ Prompt(d)'.dict = prompt'[d] /\ Prompt(d)'.expires = Empty /\ Prompt(d)'.dirty = 0
BY DEF At, Prompt, Db

\* What shows, before a step and after it.
LEMMA ShownIs ==
  /\ Shown = [d \in Dbs |-> ShownAt(db[d], now)]
  /\ Shown' = [d \in Dbs |-> ShownAt(db'[d], now')]
<1>1. ASSUME NEW d \in Dbs
      PROVE  [k \in DOMAIN Buried(At(d)).dict |-> Entry(At(d), k)] = ShownAt(db[d], now)
  <2>1. DOMAIN Buried(At(d)).dict = AliveAt(db[d], now)
    BY AtIs, DeleteKeysDomains DEF Buried, Due, Volatile, AliveAt
  <2>2. \A k : Entry(At(d), k) =
                 [value |-> db[d].dict[k],
                  until |-> IF k \in DOMAIN db[d].expires THEN db[d].expires[k] ELSE -1]
    BY AtIs DEF Entry, Volatile
  <2> QED
    BY <2>1, <2>2 DEF ShownAt
<1>2. Shown = [d \in Dbs |-> ShownAt(db[d], now)]
  BY <1>1 DEF Shown
<1>3. ASSUME NEW d \in Dbs
      PROVE  [k \in DOMAIN Buried(At(d))'.dict |-> Entry(At(d), k)'] = ShownAt(db'[d], now')
  <2>1. DOMAIN Buried(At(d))'.dict = AliveAt(db'[d], now')
    <3> DEFINE b == At(d)'
               due == {k \in DOMAIN b.dict : k \in DOMAIN b.expires /\ now' > b.expires[k]}
    <3>1. Buried(At(d))' = DeleteKeys(b, due)
      BY DEF Buried, Due, Volatile, DeleteKeys, Db, Without, Restrict
    <3>2. b.dict = db'[d].dict /\ b.expires = db'[d].expires
      BY AtIs
    <3> HIDE DEF b
    <3>3. DOMAIN DeleteKeys(b, due).dict = DOMAIN b.dict \ due
      BY DeleteKeysDomains
    <3> QED
      BY <3>1, <3>2, <3>3 DEF AliveAt
  <2>2. \A k : Entry(At(d), k)' =
                 [value |-> db'[d].dict[k],
                  until |-> IF k \in DOMAIN db'[d].expires THEN db'[d].expires[k] ELSE -1]
    BY DEF Entry, Volatile, At, Db
  <2> QED
    BY <2>1, <2>2 DEF ShownAt
<1>4. Shown' = [d \in Dbs |-> ShownAt(db'[d], now')]
  BY <1>3 DEF Shown
<1> QED
  BY <1>2, <1>4

\* One database is changed by what a command does to it.
LEMMA RunLeaves ==
  ASSUME Types, NEW d \in Dbs, NEW b, NEW p, Run(d, b, p), Typed(b), Typed(p),
         seen' \in BOOLEAN
  PROVE  /\ Types'
         /\ Shown' = [Shown EXCEPT ![d] = ShownAt(b, now)]
         /\ counted' = (b.dirty > 0) /\ now' = now
<1>1. /\ db' = [db EXCEPT ![d] = Tables(b)] /\ counted' = (b.dirty > 0)
      /\ prompt' = [prompt EXCEPT ![d] = p.dict] /\ now' = now
  BY DEF Run
<1> DEFINE t == Tables(b)
<1>2. t.dict = b.dict /\ t.expires = b.expires
  BY DEF Tables
<1> HIDE DEF t
<1>3. \A x \in Dbs : db'[x] = IF x = d THEN t ELSE db[x]
  BY <1>1 DEF Types, t
<1>4. \A x \in Dbs : prompt'[x] = IF x = d THEN p.dict ELSE prompt[x]
  BY <1>1 DEF Types
<1>5. ASSUME NEW x \in Dbs PROVE Typed(At(x))' /\ Typed(Prompt(x))'
  <2>1. Typed(At(x)')
    <3>1. CASE x = d
      <4>1. At(x)'.dict = b.dict /\ At(x)'.expires = b.expires /\ At(x)'.dirty = 0
        BY <1>2, <1>3, <3>1, AtIs
      <4> QED
        BY <4>1 DEF Typed
    <3>2. CASE x # d
      <4>1. At(x)'.dict = At(x).dict /\ At(x)'.expires = At(x).expires /\ At(x)'.dirty = 0
        BY <1>3, <3>2, AtIs
      <4> QED
        BY <4>1 DEF Typed, Types
    <3> QED
      BY <3>1, <3>2
  <2>2. Typed(Prompt(x)')
    <3>1. CASE x = d
      <4>1. Prompt(x)'.dict = p.dict /\ Prompt(x)'.expires = Empty /\ Prompt(x)'.dirty = 0
        BY <1>4, <3>1, AtIs
      <4> QED
        BY <4>1 DEF Typed, Empty
    <3>2. CASE x # d
      <4>1. /\ Prompt(x)'.dict = Prompt(x).dict /\ Prompt(x)'.expires = Empty
            /\ Prompt(x)'.dirty = 0
        BY <1>4, <3>2, AtIs
      <4> QED
        BY <4>1 DEF Typed, Types, Empty
    <3> QED
      BY <3>1, <3>2
  <2> QED
    BY <2>1, <2>2 DEF Typed
<1>6. Types'
  <2>1. DOMAIN db' = Dbs /\ DOMAIN prompt' = Dbs /\ counted' \in BOOLEAN
    BY <1>1 DEF Types
  <2> QED
    BY <1>1, <1>5, <2>1 DEF Types
<1>7. ShownAt(t, now) = ShownAt(b, now)
  BY <1>2 DEF ShownAt, AliveAt
<1>8. Shown' = [Shown EXCEPT ![d] = ShownAt(b, now)]
  BY <1>1, <1>3, <1>7, ShownIs
<1> QED
  BY <1>1, <1>6, <1>8

\* An uncounted step of which nothing shows, and a counted one.
LEMMA QuietRefines ==
  ASSUME counted' = FALSE, now' = now, Shown' = Shown
  PROVE  Live!Next
BY DEF Live!Next, Live!Quiet

LEMMA WriteRefines ==
  ASSUME counted' = TRUE, now' = now, DOMAIN Shown' = Dbs,
         \A d \in Dbs : \A k \in DOMAIN Shown'[d] :
           \/ Shown'[d][k].until = -1
           \/ k \in DOMAIN Shown[d] /\ Shown'[d][k] = Shown[d][k]
  PROVE  Live!Next
BY DEF Live!Next, Live!Write, Live!Forever

\* Where keys are only trimmed, what shows has no timeout or is as it was.
LEMMA TrimmedShows ==
  ASSUME NEW b, NEW c, Trimmed(b, c), NEW k \in DOMAIN ShownAt(c, now)
  PROVE  \/ ShownAt(c, now)[k].until = -1
         \/ k \in DOMAIN ShownAt(b, now) /\ ShownAt(c, now)[k] = ShownAt(b, now)[k]
<1>1. k \in AliveAt(c, now) /\ k \in DOMAIN c.dict
  BY DEF ShownAt, AliveAt
<1>2. CASE k \notin DOMAIN c.expires
  BY <1>1, <1>2 DEF ShownAt
<1>3. CASE k \in DOMAIN c.expires
  <2>1. /\ k \in DOMAIN b.expires \cap DOMAIN b.dict
        /\ c.expires[k] = b.expires[k] /\ c.dict[k] = b.dict[k]
    BY <1>1, <1>3 DEF Trimmed
  <2>2. k \in AliveAt(b, now)
    BY <1>1, <1>3, <2>1 DEF AliveAt
  <2> QED
    BY <1>1, <1>3, <2>1, <2>2 DEF ShownAt
<1> QED
  BY <1>2, <1>3

LEMMA RunRefines ==
  ASSUME Types, NEW d \in Dbs, NEW b, NEW p, Run(d, b, p), Typed(p), seen' \in BOOLEAN,
         \/ Sound(At(d), b)
         \/ \E dst : LostAt(At(d), b, dst)
  PROVE  Types' /\ Live!Next
<1>1. Typed(At(d)) /\ At(d).dirty = 0
  BY AtIs DEF Types
<1>2. Trimmed(At(d), b) /\ Typed(b)
  BY DEF Sound, LostAt, Trimmed
<1>3. /\ Types' /\ Shown' = [Shown EXCEPT ![d] = ShownAt(b, now)]
      /\ counted' = (b.dirty > 0) /\ now' = now
  BY <1>2, RunLeaves
<1>4. Shown[d] = ShownAt(At(d), now) /\ DOMAIN Shown = Dbs /\ b.dirty \in Nat
  <2>1. ShownAt(At(d), now) = ShownAt(db[d], now)
    BY AtIs DEF ShownAt, AliveAt
  <2> QED
    BY <1>2, <2>1, ShownIs DEF Typed
<1>5. CASE b.dirty > 0
  <2>1. ASSUME NEW x \in Dbs, NEW k \in DOMAIN Shown'[x]
        PROVE  \/ Shown'[x][k].until = -1
               \/ k \in DOMAIN Shown[x] /\ Shown'[x][k] = Shown[x][k]
    <3>1. CASE x = d
      <4>1. Shown'[x] = ShownAt(b, now) /\ Shown[x] = ShownAt(At(d), now)
        BY <1>3, <1>4, <3>1
      <4> QED
        BY <1>2, <2>1, <4>1, TrimmedShows
    <3>2. CASE x # d
      BY <1>3, <1>4, <2>1, <3>2
    <3> QED
      BY <3>1, <3>2
  <2>2. DOMAIN Shown' = Dbs /\ counted' = TRUE
    BY <1>3, <1>4, <1>5
  <2> QED
    BY <1>3, <2>1, <2>2, WriteRefines
<1>8. b.dirty = 0 => counted' = FALSE
  <2>1. b.dirty = 0 => (b.dirty > 0) = FALSE
    OBVIOUS
  <2> QED
    BY <1>3, <2>1
<1>6. CASE b.dirty = 0 /\ Sound(At(d), b)
  <2>1. ShownAt(b, now) = Shown[d] /\ counted' = FALSE
    BY <1>1, <1>4, <1>6, <1>8 DEF Sound
  <2>2. Shown' = Shown
    BY <1>3, <1>4, <2>1, ShownIs
  <2> QED
    BY <1>3, <2>1, <2>2, QuietRefines
<1>7. ASSUME b.dirty = 0, NEW dst, LostAt(At(d), b, dst) PROVE Live!Next
  <2>1. /\ ShownAt(b, now) = [k \in DOMAIN Shown[d] \ {dst} |-> Shown[d][k]]
        /\ counted' = FALSE
    <3>1. ShownAt(b, now) = [k \in AliveAt(At(d), now) \ {dst} |-> ShownAt(At(d), now)[k]]
      BY <1>1, <1>7 DEF LostAt
    <3>2. DOMAIN ShownAt(At(d), now) = AliveAt(At(d), now)
      BY DEF ShownAt
    <3> QED
      BY <1>4, <1>7, <1>8, <3>1, <3>2
  <2>2. CASE dst \in DOMAIN Shown[d]
    <3>1. Shown' = [Shown EXCEPT ![d] = Live!Alone(@, DOMAIN @ \ {dst})]
      BY <1>3, <1>4, <2>1 DEF Live!Alone
    <3> QED
      BY <1>3, <2>1, <2>2, <3>1 DEF Live!Next, Live!LoseTarget
  <2>3. CASE dst \notin DOMAIN Shown[d]
    <3>1. ShownAt(b, now) = Shown[d]
      BY <1>4, <2>1, <2>3 DEF ShownAt
    <3>2. Shown' = Shown
      BY <1>3, <1>4, <3>1, ShownIs
    <3> QED
      BY <1>3, <2>1, <3>2, QuietRefines
  <2> QED
    BY <2>2, <2>3
<1> QED
  BY <1>3, <1>4, <1>5, <1>6, <1>7

-----------------------------------------------------------------------------
(* One lemma per action: types are kept, and the step is one of LiveMap.   *)

LEMMA ArgumentsAre ==
  /\ \A n \in Numbers : n \in Int
  /\ \A i \in Indexes : i \in Int
  /\ \A seconds \in Timeouts : seconds \in Int /\ seconds <= Wrap32
  /\ Wrap32 \in Nat /\ MaxTime \in Nat /\ MaxTime < Wrap32
BY KeyspaceAssumption DEF KeyspaceAssumption

\* Both servers execute the same command.
LEMMA SameCommand ==
  ASSUME Types, NEW d \in Dbs, NEW b, NEW p, Run(d, b, p), seen' \in BOOLEAN,
         Sound(At(d), b), Sound(Prompt(d), p)
  PROVE  Types' /\ Live!Next
<1>1. Typed(p)
  BY DEF Sound, Trimmed
<1> QED
  BY <1>1, RunRefines

LEMMA ExpireKeyRefines ==
  ASSUME Types, NEW d \in Dbs, NEW k \in Keys, NEW seconds \in Timeouts,
         ExpireKey(d, k, seconds)
  PROVE  Types' /\ Live!Next
<1> DEFINE b == At(d)
           c == Expire(At(d), k, seconds)
           p == IF seconds > 0 THEN DeleteKeys(Prompt(d), {k}) ELSE Prompt(d)
           when == now + seconds
<1>1. Run(d, c, p) /\ seen' \in BOOLEAN
  BY DEF ExpireKey, Types
<1>2. Typed(b) /\ Typed(Prompt(d))
  BY DEF Types
<1>3. Typed(p)
  BY <1>2, DeleteKeysTrimmed DEF Trimmed
<1>4. c = b \/ (/\ Has(b, k) /\ seconds > 0 /\ ~Volatile(b, k)
                /\ c = Db(b.dict, Put(b.expires, k, when), b.dirty))
  BY DEF Expire, SetExpire
<1>5. CASE c = b
  BY <1>1, <1>2, <1>3, <1>5, SameSound, RunRefines
<1>6. CASE /\ Has(b, k) /\ seconds > 0 /\ ~Volatile(b, k)
           /\ c = Db(b.dict, Put(b.expires, k, when), b.dirty)
  <2>1. when \in 0 .. 2 * Wrap32 - 1 /\ when > now
    <3>1. now \in 0 .. MaxTime
      BY DEF Types
    <3> QED
      BY <1>6, <3>1, ArgumentsAre
  <2>2. /\ c.dict = b.dict /\ c.dirty = 0
        /\ c.expires = [x \in DOMAIN b.expires \cup {k} |-> IF x = k THEN when ELSE b.expires[x]]
    BY <1>6, AtIs DEF Db, Put
  <2> HIDE DEF b, c, p, when
  <2>3. Typed(c)
    BY <1>2, <2>1, <2>2 DEF Typed
  <2>4. /\ Types' /\ Shown' = [Shown EXCEPT ![d] = ShownAt(c, now)]
        /\ counted' = (c.dirty > 0) /\ now' = now
    BY <1>1, <1>3, <2>3, RunLeaves
  <2>5. counted' = FALSE
    <3>1. (c.dirty > 0) = FALSE
      BY <2>2
    <3> QED
      BY <2>4, <3>1
  <2>6. Shown[d] = ShownAt(b, now) /\ DOMAIN Shown = Dbs
    <3>1. ShownAt(b, now) = ShownAt(db[d], now)
      BY AtIs DEF ShownAt, AliveAt, b
    <3> QED
      BY <3>1, ShownIs
  <2>7. /\ AliveAt(c, now) = AliveAt(b, now) /\ k \in AliveAt(b, now)
    <3>1. k \in DOMAIN b.dict /\ k \notin DOMAIN b.expires
      BY <1>6 DEF Has, Volatile
    <3>2. ~(now > when)
      <4>1. now \in Nat
        BY DEF Types
      <4> QED
        BY <2>1, <4>1
    <3> QED
      BY <2>2, <3>1, <3>2 DEF AliveAt
  <2>8. /\ ShownAt(b, now)[k].until = -1 /\ ShownAt(c, now)[k].until = when
        /\ ShownAt(c, now) = [ShownAt(b, now) EXCEPT ![k].until = when]
    <3>1. k \notin DOMAIN b.expires
      BY <1>6 DEF Volatile
    <3>2. /\ ShownAt(b, now)[k] = [value |-> b.dict[k], until |-> -1]
          /\ ShownAt(c, now)[k] = [value |-> b.dict[k], until |-> when]
      BY <2>2, <2>7, <3>1 DEF ShownAt
    <3>3. \A x \in AliveAt(b, now) \ {k} : ShownAt(c, now)[x] = ShownAt(b, now)[x]
      BY <2>2, <2>7 DEF ShownAt
    <3>4. /\ ShownAt(c, now) = [x \in AliveAt(b, now) |-> ShownAt(c, now)[x]]
          /\ ShownAt(b, now) = [x \in AliveAt(b, now) |-> ShownAt(b, now)[x]]
      BY <2>7 DEF ShownAt
    <3>5. [ShownAt(b, now)[k] EXCEPT !.until = when] = ShownAt(c, now)[k]
      BY <3>2
    <3>6. ShownAt(c, now) = [ShownAt(b, now) EXCEPT ![k] = ShownAt(c, now)[k]]
      <4> DEFINE f == ShownAt(b, now)
                 g == ShownAt(c, now)
      <4> HIDE DEF f, g
      <4>1. /\ g = [x \in AliveAt(b, now) |-> g[x]] /\ f = [x \in AliveAt(b, now) |-> f[x]]
            /\ \A x \in AliveAt(b, now) \ {k} : g[x] = f[x]
        BY <3>3, <3>4 DEF f, g
      <4> QED
        BY <2>7, <4>1 DEF f, g
    <3> QED
      BY <2>7, <3>2, <3>5, <3>6
  <2>9. Shown'[d] = ShownAt(c, now)
    BY <2>4, <2>6
  <2>10. k \in DOMAIN Shown[d] \cap DOMAIN Shown'[d]
    BY <2>6, <2>7, <2>9 DEF ShownAt
  <2>11. Shown' = [Shown EXCEPT ![d][k].until = Shown'[d][k].until]
    BY <2>4, <2>6, <2>8, <2>9
  <2>12. Shown[d][k].until = -1 /\ Shown'[d][k].until > now
    BY <2>1, <2>6, <2>8, <2>9
  <2>13. Live!Expire
    BY <2>4, <2>5, <2>10, <2>11, <2>12 DEF Live!Expire, Live!Forever
  <2> QED
    BY <2>4, <2>13 DEF Live!Next
<1> QED
  BY <1>4, <1>5, <1>6

LEMMA WriteKeyRefines ==
  ASSUME Types, NEW d \in Dbs, NEW k \in Keys, WriteKey(d, k)
  PROVE  Types' /\ Live!Next
<1> DEFINE b == At(d)
           q == Prompt(d)
<1>0. Typed(b) /\ Typed(q) /\ seen \in BOOLEAN
  BY DEF Types
<1> HIDE DEF b, q
<1>1. ASSUME NEW n \in Numbers, Set_(d, k, n) PROVE Types' /\ Live!Next
  <2>1. Run(d, SetGeneric(b, k, n, FALSE), SetGeneric(q, k, n, FALSE)) /\ seen' = seen
    BY <1>1 DEF Set_, b, q
  <2> QED BY <1>0, <2>1, ArgumentsAre, SetGenericSound, SameCommand DEF b, q
<1>2. ASSUME NEW n \in Numbers, Setnx(d, k, n) PROVE Types' /\ Live!Next
  <2>1. Run(d, SetGeneric(b, k, n, TRUE), SetGeneric(q, k, n, TRUE))
    BY <1>2 DEF Setnx, b, q
  <2>2. seen' \in BOOLEAN
    BY <1>2 DEF Setnx
  <2> QED BY <1>0, <2>1, <2>2, ArgumentsAre, SetGenericSound, SameCommand DEF b, q
<1>3. ASSUME NEW n \in Numbers, Getset(d, k, n) PROVE Types' /\ Live!Next
  <2>1. Run(d, GetSet(b, k, n), GetSet(q, k, n)) /\ seen' = seen
    BY <1>3 DEF Getset, b, q
  <2> QED BY <1>0, <2>1, ArgumentsAre, GetSetSound, SameCommand DEF b, q
<1>4. ASSUME NEW incr \in {-1, 1}, Incrby(d, k, incr) PROVE Types' /\ Live!Next
  <2>1. Run(d, IncrDecr(b, k, incr), IncrDecr(q, k, incr)) /\ seen' = seen /\ incr \in Int
    BY <1>4 DEF Incrby, b, q
  <2> QED BY <1>0, <2>1, IncrDecrSound, SameCommand DEF b, q
<1>5. ASSUME NEW e \in Elems, NEW where \in {"head", "tail"}, Push(d, k, e, where)
      PROVE  Types' /\ Live!Next
  <2>1. Run(d, PushGeneric(b, k, e, where), PushGeneric(q, k, e, where)) /\ seen' = seen
    BY <1>5 DEF Push, b, q
  <2> QED BY <1>0, <2>1, PushGenericSound, SameCommand DEF b, q
<1>6. ASSUME NEW e \in Elems, NEW i \in Indexes, SetElement(d, k, i, e)
      PROVE  Types' /\ Live!Next
  <2>1. Run(d, Lset(b, k, i, e), Lset(q, k, i, e)) /\ seen' = seen
    BY <1>6 DEF SetElement, b, q
  <2> QED BY <1>0, <2>1, ArgumentsAre, LsetSound, SameCommand DEF b, q
<1>7. ASSUME NEW e \in Elems, NEW i \in Indexes, RemoveElements(d, k, i, e)
      PROVE  Types' /\ Live!Next
  <2>1. Run(d, LremKey(b, k, i, e), LremKey(q, k, i, e)) /\ seen' = seen
    BY <1>7 DEF RemoveElements, b, q
  <2> QED BY <1>0, <2>1, LremKeySound, SameCommand DEF b, q
<1>8. ASSUME NEW e \in Elems, AddMember(d, k, e) PROVE Types' /\ Live!Next
  <2>1. Run(d, Sadd(b, k, e), Sadd(q, k, e)) /\ seen' = seen
    BY <1>8 DEF AddMember, b, q
  <2> QED BY <1>0, <2>1, SaddSound, SameCommand DEF b, q
<1>9. ASSUME NEW e \in Elems, RemMember(d, k, e) PROVE Types' /\ Live!Next
  <2>1. Run(d, Srem(b, k, e), Srem(q, k, e)) /\ seen' = seen
    BY <1>9 DEF RemMember, b, q
  <2> QED BY <1>0, <2>1, SremSound, SameCommand DEF b, q
<1>10. ASSUME NEW where \in {"head", "tail"}, Pop(d, k, where) PROVE Types' /\ Live!Next
  <2>1. Run(d, PopGeneric(b, k, where), PopGeneric(q, k, where)) /\ seen' = seen
    BY <1>10 DEF Pop, b, q
  <2> QED BY <1>0, <2>1, PopGenericSound, SameCommand DEF b, q
<1>11. ASSUME NEW from \in Indexes, NEW to \in Indexes, Trim(d, k, from, to)
       PROVE  Types' /\ Live!Next
  <2>1. Run(d, LtrimKey(b, k, from, to), LtrimKey(q, k, from, to)) /\ seen' = seen
    BY <1>11 DEF Trim, b, q
  <2> QED BY <1>0, <2>1, ArgumentsAre, LtrimKeySound, SameCommand DEF b, q
<1>12. ASSUME NEW seconds \in Timeouts, ExpireKey(d, k, seconds) PROVE Types' /\ Live!Next
  BY <1>12, ExpireKeyRefines
<1> QED
  BY <1>1, <1>2, <1>3, <1>4, <1>5, <1>6, <1>7, <1>8, <1>9, <1>10, <1>11, <1>12 DEF WriteKey

\* Whatever replaces the databases, if it is well typed.
LEMMA TypesAfter ==
  ASSUME Types, NEW f, NEW g, db' = [d \in Dbs |-> f[d]], prompt' = [d \in Dbs |-> g[d]],
         now' \in 0 .. MaxTime, counted' \in BOOLEAN, seen' \in BOOLEAN,
         \A d \in Dbs : \E b : Typed(b) /\ b.dict = f[d].dict /\ b.expires = f[d].expires,
         \A d \in Dbs : \E q : Typed(q) /\ q.dict = g[d]
  PROVE  Types'
<1>1. ASSUME NEW d \in Dbs PROVE Typed(At(d))' /\ Typed(Prompt(d))'
  <2>1. /\ At(d)'.dict = f[d].dict /\ At(d)'.expires = f[d].expires /\ At(d)'.dirty = 0
        /\ Prompt(d)'.dict = g[d] /\ Prompt(d)'.expires = Empty /\ Prompt(d)'.dirty = 0
    BY AtIs
  <2>2. PICK b : Typed(b) /\ b.dict = f[d].dict /\ b.expires = f[d].expires
    OBVIOUS
  <2>3. PICK q : Typed(q) /\ q.dict = g[d]
    OBVIOUS
  <2>4. Typed(At(d)')
    BY <2>1, <2>2 DEF Typed
  <2>5. Typed(Prompt(d)')
    BY <2>1, <2>3 DEF Typed, Empty
  <2> QED
    BY <2>4, <2>5 DEF Typed
<1>2. DOMAIN db' = Dbs /\ DOMAIN prompt' = Dbs
  OBVIOUS
<1> QED
  BY <1>1, <1>2 DEF Types

LEMMA MoveRefines ==
  ASSUME Types, NEW d \in Dbs, NEW to \in Dbs, NEW k \in Keys, Move(d, to, k)
  PROVE  Types' /\ Live!Next
<1> DEFINE m == MoveKey(At(d), At(to), k)
           q == MoveKey(Prompt(d), Prompt(to), k)
           t1 == Tables(m[1])
           t2 == Tables(m[2])
           f == [x \in Dbs |-> IF x = to THEN t2 ELSE IF x = d THEN t1 ELSE db[x]]
           g == [x \in Dbs |-> IF x = to THEN q[2].dict ELSE IF x = d THEN q[1].dict
                               ELSE prompt[x]]
<1>1. /\ d # to /\ now' = now /\ seen' = seen
      /\ db' = [db EXCEPT ![d] = t1, ![to] = t2]
      /\ counted' = (m[1].dirty + m[2].dirty > 0)
      /\ prompt' = [prompt EXCEPT ![d] = q[1].dict, ![to] = q[2].dict]
  BY DEF Move
<1>2. /\ Typed(At(d)) /\ Typed(At(to)) /\ Typed(Prompt(d)) /\ Typed(Prompt(to))
      /\ At(d).dirty = 0 /\ At(to).dirty = 0
  BY AtIs DEF Types
<1>3. /\ Trimmed(At(d), m[1]) /\ Trimmed(At(to), m[2])
      /\ \/ Sound(At(d), m[1]) /\ Sound(At(to), m[2])
         \/ m[2].dirty > At(to).dirty
  BY <1>2, MoveKeySound
<1>4. Typed(q[1]) /\ Typed(q[2])
  BY <1>2, MoveKeySound DEF Trimmed
<1> HIDE DEF m, q
<1>5. /\ t1.dict = m[1].dict /\ t1.expires = m[1].expires
      /\ t2.dict = m[2].dict /\ t2.expires = m[2].expires
  BY DEF Tables
<1> HIDE DEF t1, t2
<1>6. db' = f /\ prompt' = g
  BY <1>1 DEF Types
<1>7. Typed(m[1]) /\ Typed(m[2]) /\ m[1].dirty \in Nat /\ m[2].dirty \in Nat
  BY <1>3 DEF Trimmed, Typed
<1>8. Types'
  <2>1. ASSUME NEW x \in Dbs
        PROVE  \E b : Typed(b) /\ b.dict = f[x].dict /\ b.expires = f[x].expires
    <3>1. CASE x = to
      BY <1>5, <1>7, <3>1
    <3>2. CASE x # to /\ x = d
      BY <1>5, <1>7, <3>2
    <3>3. CASE x # to /\ x # d
      BY <3>3, AtIs DEF Types
    <3> QED
      BY <3>1, <3>2, <3>3
  <2>2. ASSUME NEW x \in Dbs PROVE \E r : Typed(r) /\ r.dict = g[x]
    <3>1. CASE x = to
      BY <1>4, <3>1
    <3>2. CASE x # to /\ x = d
      BY <1>4, <3>2
    <3>3. CASE x # to /\ x # d
      BY <3>3, AtIs DEF Types
    <3> QED
      BY <3>1, <3>2, <3>3
  <2>3. now' \in 0 .. MaxTime /\ counted' \in BOOLEAN /\ seen' \in BOOLEAN
    BY <1>1 DEF Types
  <2>4. db' = [x \in Dbs |-> f[x]] /\ prompt' = [x \in Dbs |-> g[x]]
    BY <1>6
  <2> HIDE DEF f, g
  <2> QED
    BY <2>1, <2>2, <2>3, <2>4, TypesAfter
<1>9. /\ DOMAIN Shown' = Dbs /\ DOMAIN Shown = Dbs
      /\ \A x \in Dbs : Shown'[x] = ShownAt(f[x], now)
      /\ \A x \in Dbs : Shown[x] = ShownAt(At(x), now)
  <2>1. \A x \in Dbs : ShownAt(At(x), now) = ShownAt(db[x], now)
    BY AtIs DEF ShownAt, AliveAt
  <2> QED
    BY <1>1, <1>6, <2>1, ShownIs
<1>10. ShownAt(t1, now) = ShownAt(m[1], now) /\ ShownAt(t2, now) = ShownAt(m[2], now)
  BY <1>5 DEF ShownAt, AliveAt
<1>11. \A x \in Dbs : Shown'[x] = IF x = to THEN ShownAt(m[2], now)
                                  ELSE IF x = d THEN ShownAt(m[1], now) ELSE Shown[x]
  <2>1. \A x \in Dbs : ShownAt(db[x], now) = Shown[x]
    BY ShownIs
  <2> QED
    BY <1>9, <1>10, <2>1
<1> HIDE DEF f, g
<1>12. CASE m[1].dirty + m[2].dirty > 0
  <2>1. ASSUME NEW x \in Dbs, NEW y \in DOMAIN Shown'[x]
        PROVE  \/ Shown'[x][y].until = -1
               \/ y \in DOMAIN Shown[x] /\ Shown'[x][y] = Shown[x][y]
    <3>1. CASE x = to
      <4>1. Shown'[x] = ShownAt(m[2], now) /\ Shown[x] = ShownAt(At(to), now)
        BY <1>9, <1>11, <3>1
      <4> QED
        BY <1>3, <2>1, <4>1, TrimmedShows
    <3>2. CASE x # to /\ x = d
      <4>1. Shown'[x] = ShownAt(m[1], now) /\ Shown[x] = ShownAt(At(d), now)
        BY <1>9, <1>11, <3>2
      <4> QED
        BY <1>3, <2>1, <4>1, TrimmedShows
    <3>3. CASE x # to /\ x # d
      BY <1>11, <2>1, <3>3
    <3> QED
      BY <3>1, <3>2, <3>3
  <2>2. counted' = TRUE
    BY <1>1, <1>12
  <2> QED
    BY <1>1, <1>8, <1>9, <2>1, <2>2, WriteRefines
<1>13. CASE ~(m[1].dirty + m[2].dirty > 0)
  <2>1. m[1].dirty = 0 /\ m[2].dirty = 0 /\ (m[1].dirty + m[2].dirty > 0) = FALSE
    BY <1>7, <1>13
  <2>2. ShownAt(m[1], now) = Shown[d] /\ ShownAt(m[2], now) = Shown[to]
    BY <1>2, <1>3, <1>9, <2>1 DEF Sound
  <2>3. Shown' = Shown
    <3>1. \A x \in Dbs : Shown'[x] = Shown[x]
      BY <1>11, <2>2
    <3>2. Shown' = [x \in Dbs |-> Shown'[x]] /\ Shown = [x \in Dbs |-> Shown[x]]
      BY ShownIs
    <3> QED
      BY <3>1, <3>2
  <2>4. counted' = FALSE
    BY <1>1, <2>1
  <2> QED
    BY <1>1, <1>8, <2>3, <2>4, QuietRefines
<1> QED
  BY <1>12, <1>13

LEMMA WriteKeysRefines ==
  ASSUME Types, NEW d \in Dbs, WriteKeys(d)
  PROVE  Types' /\ Live!Next
<1> DEFINE b == At(d)
           q == Prompt(d)
<1>0. Typed(b) /\ Typed(q) /\ seen \in BOOLEAN
  BY DEF Types
<1> HIDE DEF b, q
<1>1. ASSUME NEW ks \in SUBSET Keys, DelKeys(d, ks) PROVE Types' /\ Live!Next
  <2>1. Run(d, Del(b, ks), Del(q, ks)) /\ seen' = seen
    BY <1>1 DEF DelKeys, b, q
  <2> QED BY <1>0, <2>1, DelSound, SameCommand DEF b, q
<1>2. ASSUME NEW src \in Keys, NEW dst \in Keys, NEW nx \in BOOLEAN, Rename(d, src, dst, nx)
      PROVE  Types' /\ Live!Next
  <2>1. Run(d, RenameGeneric(b, src, dst, nx), RenameGeneric(q, src, dst, nx)) /\ seen' = seen
    BY <1>2 DEF Rename, b, q
  <2> QED BY <1>0, <2>1, RenameGenericSound, SameCommand DEF b, q
<1>3. ASSUME NEW src \in Keys, NEW dst \in Keys, NEW e \in Elems, MoveMember(d, src, dst, e)
      PROVE  Types' /\ Live!Next
  <2>1. Run(d, Smove(b, src, dst, e), Smove(q, src, dst, e)) /\ seen' = seen
    BY <1>3 DEF MoveMember, b, q
  <2> QED BY <1>0, <2>1, SmoveSound, SameCommand DEF b, q
<1>4. ASSUME NEW to \in Dbs, NEW k \in Keys, Move(d, to, k) PROVE Types' /\ Live!Next
  BY <1>4, MoveRefines
<1>5. ASSUME NEW dst \in Keys, NEW k1 \in Keys, NEW k2 \in Keys, StoreInter(d, dst, <<k1, k2>>)
      PROVE  Types' /\ Live!Next
  <2>1. Run(d, SinterStore(b, dst, <<k1, k2>>), SinterStore(q, dst, <<k1, k2>>)) /\ seen' = seen
    BY <1>5 DEF StoreInter, b, q
  <2>2. Typed(SinterStore(q, dst, <<k1, k2>>))
    BY <1>0, SinterStoreSound DEF Sound, LostAt, Trimmed
  <2> QED BY <1>0, <2>1, <2>2, SinterStoreSound, RunRefines DEF b
<1>6. ASSUME NEW dst \in Keys, NEW k1 \in Keys, NEW k2 \in Keys, NEW op \in {"union", "diff"},
             StoreUnionDiff(d, dst, <<k1, k2>>, op)
      PROVE  Types' /\ Live!Next
  <2>1. Run(d, SunionDiffStore(b, dst, <<k1, k2>>, op), SunionDiffStore(q, dst, <<k1, k2>>, op))
        /\ seen' = seen
    BY <1>6 DEF StoreUnionDiff, b, q
  <2> QED BY <1>0, <2>1, SunionDiffStoreSound, SameCommand DEF b, q
<1>7. ASSUME FlushDb(d) PROVE Types' /\ Live!Next
  <2>1. Run(d, Flushdb(b), Flushdb(q)) /\ seen' = seen
    BY <1>7 DEF FlushDb, b, q
  <2> QED BY <1>0, <2>1, FlushdbSound, SameCommand DEF b, q
<1> QED BY <1>1, <1>2, <1>3, <1>4, <1>5, <1>6, <1>7 DEF WriteKeys

LEMMA ReadRefines ==
  ASSUME Types, NEW d \in Dbs, NEW ks, Read(d, ks)
  PROVE  Types' /\ Live!Next
<1>1. Run(d, Expired(At(d), ks), Prompt(d)) /\ seen' = seen
  BY DEF Read
<1>2. Typed(At(d)) /\ Typed(Prompt(d)) /\ seen \in BOOLEAN
  BY DEF Types
<1> QED
  BY <1>1, <1>2, ExpiredSound, RunRefines

LEMMA CronRefines ==
  ASSUME Types, NEW drawn \in [Dbs -> SUBSET Keys], Cron(drawn)
  PROVE  Types' /\ Live!Next
<1> DEFINE c(d) == DeleteKeys(At(d), drawn[d])
           f == [d \in Dbs |-> Tables(c(d))]
<1>1. /\ db' = f /\ counted' = FALSE /\ now' = now /\ prompt' = prompt /\ seen' = seen
      /\ \A d \in Dbs : drawn[d] \subseteq DueKeys(d)
  BY DEF Cron
<1>2. ASSUME NEW d \in Dbs
      PROVE  /\ Typed(c(d)) /\ f[d].dict = c(d).dict /\ f[d].expires = c(d).expires
             /\ ShownAt(f[d], now) = ShownAt(db[d], now)
  <2>1. drawn[d] \cap AliveAt(At(d), now) = {}
    BY <1>1 DEF DueKeys, Due, Volatile, AliveAt
  <2>2. Sound(At(d), c(d)) /\ c(d).dirty = At(d).dirty
    BY <2>1, DeleteKeysShows, DeleteKeysIs DEF Types
  <2>3. f[d].dict = c(d).dict /\ f[d].expires = c(d).expires
    BY DEF Tables
  <2> HIDE DEF c, f
  <2>4. /\ ShownAt(f[d], now) = ShownAt(c(d), now)
        /\ ShownAt(At(d), now) = ShownAt(db[d], now)
    BY <2>3, AtIs DEF ShownAt, AliveAt
  <2> QED
    BY <2>2, <2>3, <2>4 DEF Sound, Trimmed
<1>3. ASSUME NEW d \in Dbs PROVE Typed(Prompt(d)) /\ Prompt(d).dict = prompt[d]
  BY AtIs DEF Types
<1>4. db' = [d \in Dbs |-> f[d]]
  BY <1>1
<1> HIDE DEF c, f
<1>5. Shown' = Shown
  BY <1>1, <1>2, <1>4, ShownIs
<1>6. Types'
  <2> DEFINE g == [d \in Dbs |-> prompt[d]]
  <2>1. ASSUME NEW d \in Dbs PROVE Typed(At(d))' /\ Typed(Prompt(d))'
    <3>1. /\ At(d)'.dict = f[d].dict /\ At(d)'.expires = f[d].expires /\ At(d)'.dirty = 0
          /\ Prompt(d)'.dict = prompt[d] /\ Prompt(d)'.expires = Empty /\ Prompt(d)'.dirty = 0
      BY <1>1, <1>4, AtIs
    <3>2. Typed(At(d)')
      BY <1>2, <3>1 DEF Typed
    <3>3. Typed(Prompt(d)')
      BY <1>3, <3>1 DEF Typed, Empty
    <3> QED
      BY <3>2, <3>3 DEF Typed
  <2> QED
    BY <1>1, <1>4, <2>1 DEF Types
<1> QED
  BY <1>1, <1>5, <1>6, QuietRefines

LEMMA FlushallRefines ==
  ASSUME Types, Flushall
  PROVE  Types' /\ Live!Next
<1>1. /\ db' = [d \in Dbs |-> [dict |-> Empty, expires |-> Empty]]
      /\ prompt' = [d \in Dbs |-> Empty] /\ counted' \in BOOLEAN /\ now' = now /\ seen' = seen
  BY DEF Flushall
<1>2. ASSUME NEW d \in Dbs PROVE Typed(At(d))' /\ Typed(Prompt(d))'
  <2>1. /\ At(d)'.dict = Empty /\ At(d)'.expires = Empty /\ At(d)'.dirty = 0
        /\ Prompt(d)'.dict = Empty /\ Prompt(d)'.expires = Empty /\ Prompt(d)'.dirty = 0
    BY <1>1, AtIs
  <2>2. Typed(At(d)') /\ Typed(Prompt(d)')
    BY <2>1 DEF Typed, Empty
  <2> QED
    BY <2>2 DEF Typed
<1>3. Types'
  BY <1>1, <1>2 DEF Types
<1>4. ASSUME NEW d \in Dbs PROVE ShownAt(db'[d], now') = [k \in {} |-> -1]
  <2>1. AliveAt(db'[d], now') = {}
    BY <1>1 DEF AliveAt, Empty
  <2> QED
    BY <2>1 DEF ShownAt
<1>5. Shown' = [d \in Dbs |-> [k \in {} |-> -1]]
  BY <1>4, ShownIs
<1>6. Live!Flushall
  BY <1>1, <1>5 DEF Live!Flushall, Live!Forever
<1> QED
  BY <1>3, <1>6 DEF Live!Next

\* What shows of b at time t, of what lasts until then.
LEMMA ElapsedShows ==
  ASSUME NEW b, NEW t \in Nat, NEW later \in Nat, t <= later,
         \A k \in DOMAIN b.expires : b.expires[k] \in Nat
  PROVE  LET map == ShownAt(b, t)
         IN ShownAt(b, later) =
              Live!Alone(map, {k \in DOMAIN map : Live!Lives(map[k], later)})
<1> DEFINE map == ShownAt(b, t)
           left == {k \in DOMAIN map : Live!Lives(map[k], later)}
<1>1. left = AliveAt(b, later)
  <2>1. DOMAIN map = AliveAt(b, t)
    BY DEF ShownAt
  <2>2. ASSUME NEW k \in AliveAt(b, t)
        PROVE  Live!Lives(map[k], later) <=> ~(k \in DOMAIN b.expires /\ later > b.expires[k])
    <3>1. map[k].until = IF k \in DOMAIN b.expires THEN b.expires[k] ELSE -1
      BY DEF ShownAt
    <3> HIDE DEF map
    <3> QED
      BY <3>1 DEF Live!Lives, Live!Forever
  <2>3. AliveAt(b, later) \subseteq AliveAt(b, t)
    BY DEF AliveAt
  <2> QED
    BY <2>1, <2>2, <2>3 DEF AliveAt
<1>2. \A k \in left : ShownAt(b, later)[k] = map[k]
  <2>1. \A k \in AliveAt(b, later) : k \in AliveAt(b, t)
    BY DEF AliveAt
  <2> HIDE DEF left
  <2> QED
    BY <1>1, <2>1 DEF ShownAt
<1>3. ShownAt(b, later) = [k \in AliveAt(b, later) |-> ShownAt(b, later)[k]]
  BY DEF ShownAt
<1> HIDE DEF left, map
<1>4. ShownAt(b, later) = [k \in left |-> map[k]]
  BY <1>1, <1>2, <1>3
<1> QED
  BY <1>4 DEF Live!Alone, left, map

LEMMA TickRefines ==
  ASSUME Types, Tick
  PROVE  Types' /\ Live!Next
<1>1. /\ now < MaxTime /\ now' = now + 1 /\ counted' = FALSE
      /\ db' = db /\ prompt' = prompt /\ seen' = seen
  BY DEF Tick
<1>2. now \in Nat /\ now' \in 0 .. MaxTime
  BY <1>1, ArgumentsAre DEF Types
<1>3. ASSUME NEW d \in Dbs PROVE Typed(At(d))' /\ Typed(Prompt(d))'
  <2>1. /\ At(d)'.dict = At(d).dict /\ At(d)'.expires = At(d).expires /\ At(d)'.dirty = 0
        /\ Prompt(d)'.dict = Prompt(d).dict /\ Prompt(d)'.expires = Empty
        /\ Prompt(d)'.dirty = 0
    BY <1>1, AtIs
  <2>2. Typed(At(d)') /\ Typed(Prompt(d)')
    BY <2>1 DEF Typed, Types, Empty
  <2> QED
    BY <2>2 DEF Typed
<1>4. Types'
  BY <1>1, <1>2, <1>3 DEF Types
<1> DEFINE lost == [d \in Dbs |-> {}]
<1>5. ASSUME NEW d \in Dbs
      PROVE  Shown'[d] = Live!Alone(Shown[d],
                           {k \in DOMAIN Shown[d] \ lost[d] : Live!Lives(Shown[d][k], now')})
  <2>1. Shown[d] = ShownAt(db[d], now) /\ Shown'[d] = ShownAt(db[d], now')
    BY <1>1, ShownIs
  <2>2. \A k \in DOMAIN db[d].expires : db[d].expires[k] \in Nat
    BY AtIs DEF Types, Typed
  <2>3. DOMAIN Shown[d] \ lost[d] = DOMAIN Shown[d]
    OBVIOUS
  <2>4. now' \in Nat /\ now <= now'
    BY <1>1, <1>2
  <2> HIDE DEF lost
  <2> QED
    BY <1>2, <2>1, <2>2, <2>3, <2>4, ElapsedShows
<1>6. Shown' = [d \in Dbs |-> Live!Alone(Shown[d],
                 {k \in DOMAIN Shown[d] \ lost[d] : Live!Lives(Shown[d][k], now')})]
  <2> HIDE DEF lost
  <2> QED
    BY <1>5, ShownIs
<1>7. Live!Elapse
  BY <1>1, <1>2, <1>6 DEF Live!Elapse
<1> QED
  BY <1>4, <1>7 DEF Live!Next

\* What is loaded is what a dump can hold and has not expired meanwhile.
LEMMA LoadedShows ==
  ASSUME NEW b, NEW later \in Nat, now \in Nat, now <= later,
         \A k \in DOMAIN b.expires : b.expires[k] \in 0 .. 2 * Wrap32 - 1
  PROVE  LET map == ShownAt(b, now)
             lost == {k \in DOMAIN map : map[k].until > Wrap32 - 1}
             c == Loaded(b, later)
         IN /\ ShownAt(c, later) =
                 Live!Alone(map, {k \in DOMAIN map \ lost : Live!Lives(map[k], later)})
            /\ \A k \in DOMAIN c.expires : /\ k \in DOMAIN b.expires
                                           /\ c.expires[k] = b.expires[k]
            /\ \A k \in DOMAIN c.dict : k \in DOMAIN b.dict /\ c.dict[k] = b.dict[k]
<1> DEFINE map == ShownAt(b, now)
           lost == {k \in DOMAIN map : map[k].until > Wrap32 - 1}
           left == {k \in DOMAIN map \ lost : Live!Lives(map[k], later)}
           c == Loaded(b, later)
           saved == {k \in DOMAIN b.dict : ~Due(b, k)}
           alive == {k \in saved : Volatile(b, k) => Saved32(b.expires[k]) >= later}
<1>1. /\ c.dict = [k \in alive |-> b.dict[k]]
      /\ c.expires = [k \in alive \cap DOMAIN b.expires |-> Saved32(b.expires[k])]
  BY DEF Loaded, Restrict
<1>2. ASSUME NEW k \in DOMAIN b.expires
      PROVE  Saved32(b.expires[k]) >= later
               <=> b.expires[k] <= Wrap32 - 1 /\ later <= b.expires[k]
  BY ArgumentsAre DEF Saved32
<1>3. ASSUME NEW k \in alive, k \in DOMAIN b.expires
      PROVE  c.expires[k] = b.expires[k] /\ later <= b.expires[k]
  <2>1. Saved32(b.expires[k]) >= later
    BY <1>3 DEF Volatile
  <2> HIDE DEF alive
  <2> QED
    BY <1>1, <1>2, <1>3, <2>1, ArgumentsAre DEF Saved32
<1>4. saved = AliveAt(b, now) /\ DOMAIN map = AliveAt(b, now)
  BY DEF Due, Volatile, AliveAt, ShownAt
<1>5. ASSUME NEW k \in AliveAt(b, now)
      PROVE  map[k] = [value |-> b.dict[k],
                       until |-> IF k \in DOMAIN b.expires THEN b.expires[k] ELSE -1]
  BY DEF ShownAt
<1> HIDE DEF map, saved, c
<1>6. left = alive
  <2>1. ASSUME NEW k \in AliveAt(b, now)
        PROVE  k \in left <=> (k \in DOMAIN b.expires => Saved32(b.expires[k]) >= later)
    <3>1. k \in left <=> ~(map[k].until > Wrap32 - 1) /\ Live!Lives(map[k], later)
      BY <1>4
    <3>2. CASE k \in DOMAIN b.expires
      <4>1. map[k].until = b.expires[k]
        <5>1. map[k] = [value |-> b.dict[k], until |-> b.expires[k]]
          BY <1>5, <3>2
        <5> QED
          BY <5>1
      <4> HIDE DEF left
      <4> QED
        BY <1>2, <3>1, <3>2, <4>1, ArgumentsAre DEF Live!Lives, Live!Forever
    <3>3. CASE k \notin DOMAIN b.expires
      <4>1. map[k].until = -1
        <5>1. map[k] = [value |-> b.dict[k], until |-> -1]
          BY <1>5, <3>3
        <5> QED
          BY <5>1
      <4> HIDE DEF left
      <4> QED
        BY <3>1, <3>3, <4>1, ArgumentsAre DEF Live!Lives, Live!Forever
    <3> QED
      BY <3>2, <3>3
  <2>2. left \subseteq AliveAt(b, now) /\ alive \subseteq AliveAt(b, now)
    BY <1>4
  <2>3. \A k \in AliveAt(b, now) :
          k \in alive <=> (k \in DOMAIN b.expires => Saved32(b.expires[k]) >= later)
    BY <1>4 DEF Volatile
  <2> HIDE DEF left, alive
  <2> QED
    BY <2>1, <2>2, <2>3
<1>7. AliveAt(c, later) = alive
  <2>1. DOMAIN c.dict = alive /\ DOMAIN c.expires \subseteq DOMAIN b.expires
    BY <1>1
  <2>2. ASSUME NEW k \in alive, k \in DOMAIN c.expires PROVE ~(later > c.expires[k])
    <3>1. k \in DOMAIN b.expires
      BY <2>1, <2>2
    <3>2. b.expires[k] \in Nat
      BY <3>1
    <3> HIDE DEF alive
    <3> QED
      BY <1>3, <2>2, <3>1, <3>2
  <2> HIDE DEF alive
  <2> QED
    BY <2>1, <2>2 DEF AliveAt
<1>8. ASSUME NEW k \in alive PROVE ShownAt(c, later)[k] = map[k]
  <2>1. /\ c.dict[k] = b.dict[k] /\ (k \in DOMAIN c.expires <=> k \in DOMAIN b.expires)
        /\ k \in AliveAt(b, now)
    BY <1>1, <1>4
  <2> HIDE DEF alive
  <2>2. ShownAt(c, later)[k] = [value |-> c.dict[k],
                                until |-> IF k \in DOMAIN c.expires THEN c.expires[k] ELSE -1]
    BY <1>7, <1>8 DEF ShownAt
  <2> QED
    BY <1>3, <1>5, <1>8, <2>1, <2>2
<1>9. ShownAt(c, later) = [k \in left |-> map[k]]
  <2> HIDE DEF left, alive
  <2>1. ShownAt(c, later) = [k \in AliveAt(c, later) |-> ShownAt(c, later)[k]]
    BY DEF ShownAt
  <2> QED
    BY <1>6, <1>7, <1>8, <2>1
<1>10. /\ \A k \in DOMAIN c.expires : k \in DOMAIN b.expires /\ c.expires[k] = b.expires[k]
       /\ \A k \in DOMAIN c.dict : k \in DOMAIN b.dict /\ c.dict[k] = b.dict[k]
  <2>1. alive \subseteq DOMAIN b.dict
    BY <1>4 DEF AliveAt
  <2> HIDE DEF alive
  <2> QED
    BY <1>1, <1>3, <2>1
<1> QED
  BY <1>9, <1>10 DEF Live!Alone, map, c

LEMMA RestartRefines ==
  ASSUME Types, NEW later \in 0 .. MaxTime, Restart(later)
  PROVE  Types' /\ Live!Next
<1> DEFINE f == [d \in Dbs |-> Loaded(db[d], later)]
           lost == [d \in Dbs |-> {k \in DOMAIN Shown[d] : Shown[d][k].until > Wrap32 - 1}]
<1>1. /\ db' = f /\ now' = later /\ now <= later /\ counted' = FALSE
      /\ prompt' = prompt /\ seen' = seen
  BY DEF Restart
<1>2. now \in Nat /\ later \in Nat
  BY DEF Types
<1>3. ASSUME NEW d \in Dbs
      PROVE  /\ Shown[d] = ShownAt(db[d], now) /\ Shown'[d] = ShownAt(f[d], later)
             /\ Shown'[d] = Live!Alone(Shown[d],
                  {k \in DOMAIN Shown[d] \ lost[d] : Live!Lives(Shown[d][k], later)})
             /\ \A k \in DOMAIN f[d].expires : /\ k \in DOMAIN db[d].expires
                                               /\ f[d].expires[k] = db[d].expires[k]
             /\ \A k \in DOMAIN f[d].dict : /\ k \in DOMAIN db[d].dict
                                            /\ f[d].dict[k] = db[d].dict[k]
  <2>1. Shown[d] = ShownAt(db[d], now) /\ Shown'[d] = ShownAt(f[d], later)
    BY <1>1, ShownIs
  <2>2. \A k \in DOMAIN db[d].expires : db[d].expires[k] \in 0 .. 2 * Wrap32 - 1
    BY AtIs DEF Types, Typed
  <2>3. f[d] = Loaded(db[d], later)
        /\ lost[d] = {k \in DOMAIN Shown[d] : Shown[d][k].until > Wrap32 - 1}
    OBVIOUS
  <2> HIDE DEF f, lost
  <2> DEFINE map == ShownAt(db[d], now)
             gone == {k \in DOMAIN map : map[k].until > Wrap32 - 1}
             c == Loaded(db[d], later)
  <2>4. /\ ShownAt(c, later) =
             Live!Alone(map, {k \in DOMAIN map \ gone : Live!Lives(map[k], later)})
        /\ \A k \in DOMAIN c.expires : /\ k \in DOMAIN db[d].expires
                                       /\ c.expires[k] = db[d].expires[k]
        /\ \A k \in DOMAIN c.dict : k \in DOMAIN db[d].dict /\ c.dict[k] = db[d].dict[k]
    BY <1>1, <1>2, <2>2, LoadedShows
  <2> HIDE DEF c
  <2>5. f[d] = c /\ lost[d] = gone /\ Shown[d] = map
    BY <2>1, <2>3 DEF c
  <2> HIDE DEF map, gone
  <2> QED
    BY <2>1, <2>4, <2>5 DEF map
<1>4. Types'
  <2>1. ASSUME NEW d \in Dbs PROVE Typed(At(d))' /\ Typed(Prompt(d))'
    <3>1. /\ At(d)'.dict = f[d].dict /\ At(d)'.expires = f[d].expires /\ At(d)'.dirty = 0
          /\ Prompt(d)'.dict = Prompt(d).dict /\ Prompt(d)'.expires = Empty
          /\ Prompt(d)'.dirty = 0
      BY <1>1, AtIs
    <3>2. /\ db[d].dict = At(d).dict /\ db[d].expires = At(d).expires
          /\ Typed(At(d)) /\ Typed(Prompt(d))
      BY AtIs DEF Types
    <3>5. /\ \A k \in DOMAIN f[d].expires : /\ k \in DOMAIN db[d].expires
                                            /\ f[d].expires[k] = db[d].expires[k]
          /\ \A k \in DOMAIN f[d].dict : /\ k \in DOMAIN db[d].dict
                                         /\ f[d].dict[k] = db[d].dict[k]
      BY <1>3
    <3> HIDE DEF f
    <3>3. Typed(At(d)')
      BY <3>1, <3>2, <3>5 DEF Typed
    <3>4. Typed(Prompt(d)')
      BY <3>1, <3>2 DEF Typed, Empty
    <3> QED
      BY <3>3, <3>4 DEF Typed
  <2> QED
    BY <1>1, <2>1 DEF Types
<1>5. Shown' = [d \in Dbs |-> Live!Alone(Shown[d],
                 {k \in DOMAIN Shown[d] \ lost[d] : Live!Lives(Shown[d][k], now')})]
  <2> HIDE DEF f, lost
  <2>1. Shown' = [d \in Dbs |-> Shown'[d]]
    BY ShownIs
  <2> QED
    BY <1>1, <1>3, <2>1
<1>6. Live!Elapse
  BY <1>1, <1>2, <1>5 DEF Live!Elapse
<1> QED
  BY <1>4, <1>6 DEF Live!Next

LEMMA TypesInit ==
  ASSUME Init
  PROVE  Types /\ Live!Init
<1>1. /\ db = [d \in Dbs |-> [dict |-> Empty, expires |-> Empty]]
      /\ now = 0 /\ counted = FALSE /\ seen = FALSE /\ prompt = [d \in Dbs |-> Empty]
  BY DEF Init
<1>2. ASSUME NEW d \in Dbs PROVE Typed(At(d)) /\ Typed(Prompt(d))
  <2>1. /\ At(d).dict = Empty /\ At(d).expires = Empty /\ At(d).dirty = 0
        /\ Prompt(d).dict = Empty /\ Prompt(d).expires = Empty /\ Prompt(d).dirty = 0
    BY <1>1, AtIs
  <2>2. DOMAIN Empty = {}
    BY DEF Empty
  <2> QED
    BY <2>1, <2>2 DEF Typed
<1>3. Types
  <2>1. now \in 0 .. MaxTime /\ DOMAIN db = Dbs /\ DOMAIN prompt = Dbs
    BY <1>1, ArgumentsAre
  <2>2. counted \in BOOLEAN /\ seen \in BOOLEAN
    BY <1>1
  <2> QED
    BY <1>2, <2>1, <2>2 DEF Types
<1>4. ASSUME NEW d \in Dbs PROVE ShownAt(db[d], now) = [k \in {} |-> -1]
  <2>1. AliveAt(db[d], now) = {}
    BY <1>1 DEF AliveAt, Empty
  <2> QED
    BY <2>1 DEF ShownAt
<1>5. Shown = [d \in Dbs |-> [k \in {} |-> -1]]
  BY <1>4, ShownIs
<1> QED
  BY <1>1, <1>3, <1>5 DEF Live!Init, Live!Forever

LEMMA TypesNext ==
  ASSUME Types, [Next]_vars
  PROVE  Types' /\ [Live!Next]_(Live!vars)
<1>1. ASSUME NEW d \in Dbs, NEW k \in Keys, WriteKey(d, k) PROVE Types' /\ Live!Next
  BY <1>1, WriteKeyRefines
<1>2. ASSUME NEW d \in Dbs, WriteKeys(d) PROVE Types' /\ Live!Next
  BY <1>2, WriteKeysRefines
<1>3. ASSUME NEW d \in Dbs, NEW ks \in SUBSET Keys, Read(d, ks) \/ Randomkey(d, ks)
      PROVE  Types' /\ Live!Next
  BY <1>3, ReadRefines DEF Randomkey
<1>4. ASSUME Flushall PROVE Types' /\ Live!Next
  BY <1>4, FlushallRefines
<1>5. ASSUME NEW drawn \in [Dbs -> SUBSET Keys], Cron(drawn) PROVE Types' /\ Live!Next
  BY <1>5, CronRefines
<1>6. ASSUME Tick PROVE Types' /\ Live!Next
  BY <1>6, TickRefines
<1>7. ASSUME NEW later \in 0 .. MaxTime, Restart(later) PROVE Types' /\ Live!Next
  BY <1>7, RestartRefines
<1>8. ASSUME UNCHANGED vars PROVE Types' /\ UNCHANGED Live!vars
  <2>1. db' = db /\ now' = now /\ counted' = counted /\ prompt' = prompt /\ seen' = seen
    BY <1>8 DEF vars
  <2>2. Shown' = Shown
    BY <2>1, ShownIs
  <2>3. ASSUME NEW d \in Dbs PROVE Typed(At(d))' /\ Typed(Prompt(d))'
    <3>1. At(d)' = At(d) /\ Prompt(d)' = Prompt(d)
      BY <2>1 DEF At, Prompt
    <3>2. Typed(At(d)') /\ Typed(Prompt(d)')
      BY <3>1 DEF Types
    <3> QED
      BY <3>2 DEF Typed
  <2> QED
    BY <2>1, <2>2, <2>3 DEF Types, Live!vars
<1> QED
  BY <1>1, <1>2, <1>3, <1>4, <1>5, <1>6, <1>7, <1>8 DEF Next

-----------------------------------------------------------------------------
(* Reads.                                                                  *)

\* In a tidy database a lookup finds a key just if burying leaves it.
LEMMA FoundSame ==
  ASSUME NEW b, NEW k, Tidy(b)
  PROVE  Found(b, k) = Found(Buried(b), k)
<1> DEFINE g == Buried(b)
           due == {x \in DOMAIN b.dict : Due(b, x)}
<1>1. /\ g.dict = [x \in DOMAIN b.dict \ due |-> b.dict[x]]
      /\ g.expires = [x \in DOMAIN b.expires \ due |-> b.expires[x]]
  BY DeleteKeysIs DEF Buried
<1>2. ASSUME NEW e
      PROVE  LET w == Expired(e, {k})
             IN w.dict = [x \in DOMAIN e.dict \ {y \in {k} : Due(e, y)} |-> e.dict[x]]
  BY DeleteKeysIs DEF Expired
<1>3. ASSUME NEW e
      PROVE  Found(e, k) = IF k \in DOMAIN e.dict /\ ~Due(e, k) THEN e.dict[k] ELSE None
  BY <1>2 DEF Found, Has
<1> HIDE DEF g
<1>4. k \in DOMAIN g.dict <=> k \in DOMAIN b.dict /\ ~Due(b, k)
  BY <1>1
<1>5. ~Due(b, k) => ~Due(g, k)
  BY <1>1 DEF Due, Volatile
<1>6. k \in DOMAIN g.dict => g.dict[k] = b.dict[k]
  BY <1>1
<1>7. Found(b, k) = IF k \in DOMAIN b.dict /\ ~Due(b, k) THEN b.dict[k] ELSE None
  BY <1>3
<1>8. Found(g, k) = IF k \in DOMAIN g.dict /\ ~Due(g, k) THEN g.dict[k] ELSE None
  BY <1>3
<1> QED
  BY <1>4, <1>5, <1>6, <1>7, <1>8 DEF g

\* So do reads of several keys, TTL and KEYS.
LEMMA ReadsSame ==
  ASSUME NEW b, Tidy(b), Typed(b), now \in Nat
  PROVE  Answers(b) = Answers(Buried(b))
<1> DEFINE g == Buried(b)
<1>1. \A k : Found(b, k) = Found(g, k)
  BY FoundSame
<1>2. ASSUME NEW k PROVE Ttl(b, k) = Ttl(g, k)
  <2> DEFINE due == {x \in DOMAIN b.dict : Due(b, x)}
  <2>1. g.expires = [x \in DOMAIN b.expires \ due |-> b.expires[x]]
    BY DeleteKeysIs DEF Buried
  <2>2. k \in due <=> Due(b, k)
    BY DEF Tidy, Due, Volatile
  <2> HIDE DEF g, due
  <2>3. Volatile(g, k) <=> Volatile(b, k) /\ ~Due(b, k)
    BY <2>1, <2>2 DEF Volatile
  <2>4. Volatile(g, k) => g.expires[k] = b.expires[k]
    BY <2>1 DEF Volatile
  <2>5. Volatile(b, k) => (Due(b, k) <=> ~(b.expires[k] >= now))
    <3>1. Volatile(b, k) => b.expires[k] \in Nat
      BY DEF Typed, Volatile
    <3> QED
      BY <3>1 DEF Due
  <2> QED
    BY <2>3, <2>4, <2>5 DEF Ttl
<1>3. ASSUME NEW m PROVE KeysRead(b, m) = KeysRead(g, m)
  <2>1. \A e : DOMAIN Expired(e, m).dict = DOMAIN e.dict \ {k \in m : Due(e, k)}
    BY DeleteKeysDomains DEF Expired
  <2> DEFINE due == {x \in DOMAIN b.dict : Due(b, x)}
  <2>2. /\ g.dict = [x \in DOMAIN b.dict \ due |-> b.dict[x]]
        /\ g.expires = [x \in DOMAIN b.expires \ due |-> b.expires[x]]
    BY DeleteKeysIs DEF Buried
  <2> HIDE DEF g
  <2>3. \A x \in DOMAIN g.dict : ~Due(g, x)
    BY <2>2 DEF Due, Volatile
  <2> QED
    BY <2>1, <2>2, <2>3 DEF KeysRead
<1> HIDE DEF g
<1>4. ASSUME NEW k
      PROVE  /\ Get(b, k) = Get(g, k) /\ Exists(b, k) = Exists(g, k)
             /\ Type(b, k) = Type(g, k) /\ Llen(b, k) = Llen(g, k)
             /\ Scard(b, k) = Scard(g, k)
  BY <1>1 DEF Get, Exists, Type, Llen, Scard, Reply
<1>5. ASSUME NEW k, NEW i, NEW e
      PROVE  /\ Lindex(b, k, i) = Lindex(g, k, i) /\ LrangeKey(b, k, 0, i) = LrangeKey(g, k, 0, i)
             /\ Sismember(b, k, e) = Sismember(g, k, e)
  <2>1. Lindex(b, k, i) = Lindex(g, k, i)
    BY <1>1 DEF Lindex, Reply
  <2>2. LrangeKey(b, k, 0, i) = LrangeKey(g, k, 0, i)
    BY <1>1 DEF LrangeKey, Reply
  <2>3. Sismember(b, k, e) = Sismember(g, k, e)
    <3> DEFINE R(o) == IF o.type = "none" THEN Bulk(FALSE)
                       ELSE IF o.type # "set" THEN <<"error">> ELSE Bulk(e \in o.val)
    <3>1. Sismember(b, k, e) = R(Found(b, k)) /\ Sismember(g, k, e) = R(Found(g, k))
      BY DEF Sismember, Reply
    <3> HIDE DEF R
    <3> QED
      BY <1>1, <3>1
  <2> QED
    BY <2>1, <2>2, <2>3
<1>6. ASSUME NEW ks, NEW op
      PROVE  /\ Mget(b, ks) = Mget(g, ks) /\ SinterRead(b, ks) = SinterRead(g, ks)
             /\ SunionDiffRead(b, ks, op) = SunionDiffRead(g, ks, op)
  <2> DEFINE o1 == [j \in DOMAIN ks |-> Found(b, ks[j])]
             o2 == [j \in DOMAIN ks |-> Found(g, ks[j])]
             Stops(o) == {j \in DOMAIN ks : o[j].type # "set"}
             Inter(o) ==
               IF Stops(o) = {} THEN Bulk(Sinter([j \in DOMAIN ks |-> o[j].val]))
               ELSE IF o[FirstOf(Stops(o))].type = "none" THEN <<"null">> ELSE <<"error">>
             Dv(o) == [j \in DOMAIN ks |-> o[j].val]
             UnionDiff(o) ==
               IF \E j \in DOMAIN ks : o[j].type \notin {"none", "set"} THEN <<"error">>
               ELSE Bulk(IF op = "union" THEN Sunion(Dv(o)) ELSE Sdiff(Dv(o)))
  <2>1. o1 = o2
    BY <1>1
  <2>2. /\ SinterRead(b, ks) = Inter(o1) /\ SinterRead(g, ks) = Inter(o2)
        /\ SunionDiffRead(b, ks, op) = UnionDiff(o1) /\ SunionDiffRead(g, ks, op) = UnionDiff(o2)
    BY DEF SinterRead, SunionDiffRead
  <2>3. Mget(b, ks) = Mget(g, ks)
    BY <1>4 DEF Mget
  <2> HIDE DEF o1, o2
  <2>4. Inter(o1) = Inter(o2) /\ UnionDiff(o1) = UnionDiff(o2)
    BY <2>1
  <2> HIDE DEF Inter, UnionDiff
  <2> QED
    BY <2>2, <2>3, <2>4
<1>7. ASSUME NEW k1 \in Keys PROVE Answers(b)[k1] = Answers(g)[k1]
  <2>1. /\ {<<Lindex(b, k1, i), LrangeKey(b, k1, 0, i)>> : i \in Indexes}
             = {<<Lindex(g, k1, i), LrangeKey(g, k1, 0, i)>> : i \in Indexes}
        /\ {<<Sismember(b, k1, e)>> : e \in Elems} = {<<Sismember(g, k1, e)>> : e \in Elems}
    BY <1>5
  <2> DEFINE Two(e, k2) ==
               <<Mget(e, <<k1, k2>>), SinterRead(e, <<k1, k2>>),
                 SunionDiffRead(e, <<k1, k2>>, "union"), SunionDiffRead(e, <<k1, k2>>, "diff"),
                 KeysRead(e, {k1, k2})>>
  <2>2. \A k2 \in Keys : Two(b, k2) = Two(g, k2)
    BY <1>3, <1>6
  <2>3. [k2 \in Keys |-> Two(b, k2)] = [k2 \in Keys |-> Two(g, k2)]
    <3> HIDE DEF Two
    <3> QED
      BY <2>2
  <2> QED
    BY <1>2, <1>4, <2>1, <2>3 DEF Answers
<1>8. Answers(b) = [k1 \in Keys |-> Answers(b)[k1]] /\ Answers(g) = [k1 \in Keys |-> Answers(g)[k1]]
  BY DEF Answers
<1> QED
  BY <1>7, <1>8 DEF g

-----------------------------------------------------------------------------
(* The theorems.                                                           *)

LEMMA TypesAlways == Spec => []Types
<1>1. Init => Types
  BY TypesInit
<1>2. Types /\ [Next]_vars => Types'
  BY TypesNext
<1> QED
  BY <1>1, <1>2, PTL DEF Spec

\* Keys, values and timeouts are of their types whatever the commands do: LREM and
\* LTRIM leave lists of elements, SINTERSTORE and its kind finite sets of elements.
THEOREM KeyspaceTypes == Spec => []TypeOK
<1>1. Types => TypeOK
  <2> SUFFICES ASSUME Types PROVE TypeOK
    OBVIOUS
  <2>1. ASSUME NEW d \in Dbs
        PROVE  /\ Partial(db[d].dict, Value) /\ Partial(db[d].expires, Nat)
               /\ Partial(prompt[d], Value)
    BY AtIs DEF Types, Typed, Partial
  <2> QED
    BY <2>1 DEF Types, TypeOK
<1> QED
  BY <1>1, TypesAlways, PTL

\* No read shows whether an expired key has been deleted yet.
THEOREM ExpiredKeysAreNotRead == Spec => []ReadsIgnoreTheDead
<1>1. Types /\ IInv => ReadsIgnoreTheDead
  <2> SUFFICES ASSUME Types, IInv PROVE ReadsIgnoreTheDead
    OBVIOUS
  <2>1. now \in Nat
    BY DEF Types
  <2>2. \A d \in Dbs : Tidy(At(d)) /\ Typed(At(d))
    BY IInvAt DEF Types
  <2> QED
    BY <2>1, <2>2, ReadsSame DEF ReadsIgnoreTheDead
<1> QED
  BY <1>1, TypesAlways, Inductive, PTL

\* The two tables, lookups that delete, cron and restarts implement the map of LiveMap:
\* every change but those it names is counted, and no timeout is ever moved.
THEOREM KeyspaceIsLiveMap == Spec => IsLiveMap
<1>1. Init => Live!Init
  BY TypesInit
<1>2. Types /\ [Next]_vars => [Live!Next]_(Live!vars)
  BY TypesNext
<1> QED
  BY <1>1, <1>2, TypesAlways, PTL DEF Spec, IsLiveMap, Live!Spec

===============================================================================
