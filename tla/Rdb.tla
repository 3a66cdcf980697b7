--------------------------------- MODULE Rdb ----------------------------------
(***************************************************************************)
(* The format of the dump: what rdbSave writes and what rdbLoad makes of   *)
(* it.  A string object is a sequence of bytes, 0 .. 255, and so is a      *)
(* dump.  A dataset is a sequence of databases, number 0 first; a database *)
(* is the sequence of its entries in the order of the dictionary, and a    *)
(* list or a set the sequence of its elements.                             *)
(***************************************************************************)
EXTENDS Integers, FiniteSets, SequencesExt

REDIS_STRING == 0
REDIS_LIST == 1
REDIS_SET == 2
EXPIRETIME == 253
SELECTDB == 254
EOF == 255

\* The two high bits of the byte of a length, and what ENCVAL may mean.
LEN6 == 0
LEN14 == 1
LEN32 == 2
ENCVAL == 3
INT8 == 0
INT16 == 1
INT32 == 2
LZF == 3

Never == -1   \* no timeout

\* "REDIS0001"
Signature == <<82, 69, 68, 73, 83, 48, 48, 48, 49>>

-----------------------------------------------------------------------------
(* Numbers.                                                                *)

\* The n low bytes of a number, in two's complement, the lowest first.
LowBytes(v, n) ==
  SubSeq(<<v % 256, (v \div 256) % 256, (v \div 65536) % 256, (v \div 16777216) % 256>>, 1, n)

\* The number that bytes make, the highest first, behind what is above them.
FromBytes(above, b) ==
  LET number[i \in 0 .. Len(b)] == IF i = 0 THEN above ELSE number[i - 1] * 256 + b[i]
  IN number[Len(b)]

\* The signed number of which they are the low bytes.
FromLowBytes(b) == FromBytes(IF Last(b) >= 128 THEN -1 ELSE 0, Reverse(b))

\* Mutant of SaveLen: a length of 64 is taken for one of 6 bits.
SaveLenTo64(len) ==
  IF len <= 64 THEN <<len + 64 * LEN6>>
  ELSE IF len < 16384 THEN <<len \div 256 + 64 * LEN14, len % 256>>
  ELSE <<64 * LEN32>> \o Reverse(LowBytes(len, 4))

SaveLen(len) ==
  IF len < 64 THEN <<len + 64 * LEN6>>
  ELSE IF len < 16384 THEN <<len \div 256 + 64 * LEN14, len % 256>>
  ELSE <<64 * LEN32>> \o Reverse(LowBytes(len, 4))

Digit == 48 .. 57
Minus == 45

\* A string that "%lld" prints, and strtoll reads: no sign but one minus, no zero in
\* front, nothing before and nothing after.
IsNumber(s) ==
  LET digits == IF s # <<>> /\ s[1] = Minus THEN Tail(s) ELSE s
  IN /\ digits # <<>>
     /\ \A i \in DOMAIN digits : digits[i] \in Digit
     /\ digits[1] = 48 => s = <<48>>

\* -2^31 and 2^31 - 1: TLC's own integers have 32 bits, so it is the digits that are
\* compared.
Fits32(s) ==
  LET neg    == s[1] = Minus
      digits == IF neg THEN Tail(s) ELSE s
      limit  == <<50, 49, 52, 55, 52, 56, 51, 54, 52, IF neg THEN 56 ELSE 55>>
      higher == {i \in 1 .. 10 : digits[i] # limit[i]}
  IN \/ Len(digits) < 10
     \/ /\ Len(digits) = 10
        /\ \/ higher = {}
           \/ \E i \in higher : digits[i] < limit[i] /\ \A j \in higher : i <= j

ValueOf(s) ==
  LET neg    == s[1] = Minus
      digits == IF neg THEN Tail(s) ELSE s
      Digit0(c) == IF neg THEN 48 - c ELSE c - 48
      number[i \in 0 .. Len(digits)] ==
        IF i = 0 THEN 0 ELSE number[i - 1] * 10 + Digit0(digits[i])
  IN number[Len(digits)]

\* The decimal digits of a number that is not positive.
Digits(v) ==
  LET digits[n \in v .. 0] ==
        LET d == (10 - (n % 10)) % 10
        IN (IF n > -10 THEN <<>> ELSE digits[(n + d) \div 10]) \o <<48 + d>>
  IN digits[v]

\* sdscatprintf "%lld".
Printed(v) == IF v < 0 THEN <<Minus>> \o Digits(v) ELSE Digits(-v)

Has8Bits(v)  == v >= -128 /\ v <= 127
Has16Bits(v) == v >= -32768 /\ v <= 32767

EncodingByte(enc) == <<64 * ENCVAL + enc>>

\* rdbTryIntegerEncoding: <<>> if the string is not a number of 32 bits.
IntegerEncoding(s) ==
  IF ~IsNumber(s) \/ ~Fits32(s) THEN <<>>
  ELSE LET v == ValueOf(s)
       IN IF Has8Bits(v) THEN EncodingByte(INT8) \o LowBytes(v, 1)
          ELSE IF Has16Bits(v) THEN EncodingByte(INT16) \o LowBytes(v, 2)
          ELSE EncodingByte(INT32) \o LowBytes(v, 4)

-----------------------------------------------------------------------------
(* Saving.                                                                 *)

\* Stands for lzf_compress: one byte again and again is all it can shorten.
Compressed(s) == IF \A i \in DOMAIN s : s[i] = s[1] THEN <<s[1]>> ELSE <<>>

Decompressed(c, len) == [i \in 1 .. len |-> c[1]]

\* rdbSaveLzfStringObject: four bytes have to be saved.
LzfEncoding(s) ==
  LET c == Compressed(s)
  IN IF c = <<>> \/ Len(c) > Len(s) - 4 THEN <<>>
     ELSE EncodingByte(LZF) \o SaveLen(Len(c)) \o SaveLen(Len(s)) \o c

SaveString(s) ==
  IF Len(s) <= 11 /\ IntegerEncoding(s) # <<>> THEN IntegerEncoding(s)
  ELSE IF Len(s) > 20 /\ LzfEncoding(s) # <<>> THEN LzfEncoding(s)
  ELSE SaveLen(Len(s)) \o s

SaveStrings(elems) ==
  SaveLen(Len(elems)) \o FlattenSeq([i \in DOMAIN elems |-> SaveString(elems[i])])

\* One turn of rdbSave's loop; a key that has expired is left out.
SaveEntry(e, now) ==
  IF e.expire # Never /\ e.expire < now THEN <<>>
  ELSE (IF e.expire = Never THEN <<>> ELSE <<EXPIRETIME>> \o LowBytes(e.expire, 4))
       \o <<e.type>> \o SaveString(e.key)
       \o (IF e.type = REDIS_STRING THEN SaveString(e.val) ELSE SaveStrings(e.val))

SaveDb(j, entries, now) ==
  IF entries = <<>> THEN <<>>
  ELSE <<SELECTDB>> \o SaveLen(j)
       \o FlattenSeq([i \in DOMAIN entries |-> SaveEntry(entries[i], now)])

\* rdbSave, when nothing fails.
SaveDump(dbs, now) ==
  Signature \o FlattenSeq([j \in DOMAIN dbs |-> SaveDb(j - 1, dbs[j], now)]) \o <<EOF>>

-----------------------------------------------------------------------------
(* Loading.  What a function has read is its `val`; `ok` is FALSE at the   *)
(* end of the file, and `rest` what is still to be read.                   *)

\* The server exits, or rdbLoad returns REDIS_ERR.
Short == [ok |-> FALSE, val |-> <<>>, rest |-> <<>>, encoded |-> FALSE]

Got(val, rest) == [ok |-> TRUE, val |-> val, rest |-> rest, encoded |-> FALSE]

\* What rdbLoadLen finds in the place of a length.
Encoding(val, rest) == [ok |-> TRUE, val |-> val, rest |-> rest, encoded |-> TRUE]

Read(f, n) == IF Len(f) < n THEN Short ELSE Got(SubSeq(f, 1, n), SubSeq(f, n + 1, Len(f)))

\* What was read, as val, unless reading failed; and what is done next with it.
As(read, val) == IF read.ok THEN Got(val, read.rest) ELSE Short
Then(read, Next(_)) == IF read.ok THEN Next(read) ELSE Short

\* rdbLoadLen, of version 1, behind its first byte.
LenBehind(first) ==
  LET byte == first.val[1]
      type == byte \div 64
      more == Read(first.rest, IF type = LEN14 THEN 1 ELSE 4)
  IN CASE type = LEN6   -> Got(byte % 64, first.rest)
       [] type = ENCVAL -> Encoding(byte % 64, first.rest)
       [] type = LEN14  -> As(more, (byte % 64) * 256 + more.val[1])
       [] OTHER         -> As(more, FromBytes(0, more.val))

LoadLen(f) == Then(Read(f, 1), LenBehind)

\* rdbLoadIntegerObject.  Another encoding fails its assertion.
LoadInteger(f, enc) ==
  LET read == Read(f, IF enc = INT8 THEN 1 ELSE IF enc = INT16 THEN 2 ELSE 4)
  IN IF enc \in {INT8, INT16, INT32} THEN As(read, Printed(FromLowBytes(read.val))) ELSE Short

\* rdbLoadLzfStringObject.  Reading nothing is a failure.
LoadLzf(f) ==
  LET Content(clen, len) ==
        LET c == Read(len.rest, clen.val)
        IN IF clen.val = 0 THEN Short ELSE As(c, Decompressed(c.val, len.val))
  IN Then(LoadLen(f), LAMBDA clen : Then(LoadLen(clen.rest), LAMBDA len : Content(clen, len)))

\* rdbLoadStringObject.
LoadString(f) ==
  Then(LoadLen(f), LAMBDA len : IF ~len.encoded THEN Read(len.rest, len.val)
                                ELSE IF len.val = LZF THEN LoadLzf(len.rest)
                                ELSE LoadInteger(len.rest, len.val))

\* The elements of a list or a set.
LoadStrings(f) ==
  LET Element(read) == LET ele == LoadString(read.rest) IN As(ele, Append(read.val, ele.val))
      Elements(len) ==
        LET after[i \in 0 .. len.val] ==
              IF i = 0 THEN As(len, <<>>) ELSE Then(after[i - 1], Element)
        IN after[len.val]
  IN Then(LoadLen(f), Elements)

\* The type of an entry, or what stands in its place, and the timeout before it; -1 is
\* what a time that could not be read looks like.
LoadType(f) ==
  LET Timed(code, time) ==
        IF FromLowBytes(time) = Never THEN Short
        ELSE As(code, [type |-> code.val[1], expire |-> FromLowBytes(time)])
  IN Then(Read(f, 1), LAMBDA op :
       IF op.val[1] # EXPIRETIME THEN As(op, [type |-> op.val[1], expire |-> Never])
       ELSE Then(Read(op.rest, 4), LAMBDA time :
              Then(Read(time.rest, 1), LAMBDA code : Timed(code, time.val))))

\* Its key and its value.
LoadKeyVal(f, type) ==
  LET Value(g) == IF type = REDIS_STRING THEN LoadString(g)
                  ELSE IF type \in {REDIS_LIST, REDIS_SET} THEN LoadStrings(g)
                  ELSE Short
      Entry(key, val) == As(val, [key |-> key.val, val |-> val.val])
  IN Then(LoadString(f), LAMBDA key : Entry(key, Value(key.rest)))

\* Adding it to database db.  A key the database has is fatal; an entry whose time has
\* come is deleted again.
Added(dbs, db, kv, type, expire, now) ==
  IF expire # Never /\ expire < now THEN dbs
  ELSE [dbs EXCEPT ![db] =
          Append(@, [key |-> kv.key, type |-> type, val |-> kv.val, expire |-> expire])]

Duplicate(dbs, db, key) == \E i \in DOMAIN dbs[db] : dbs[db][i].key = key

\* What was read before a turn: the databases so far, and which one is selected; or
\* the whole dump.
Reading(dbs, db) == [dbs |-> dbs, db |-> db, eof |-> FALSE]
Complete(dbs)    == [dbs |-> dbs, db |-> 1, eof |-> TRUE]

\* A turn of rdbLoad's loop.  A database that the configuration does not have is fatal.
LoadTurn(read, now) ==
  LET at == read.val
      Select(dbid) ==
        IF dbid.val >= Len(at.dbs) THEN Short ELSE As(dbid, Reading(at.dbs, dbid.val + 1))
      Add(kv, t) ==
        IF Duplicate(at.dbs, at.db, kv.val.key) THEN Short
        ELSE As(kv, Reading(Added(at.dbs, at.db, kv.val, t.type, t.expire, now), at.db))
  IN IF at.eof THEN read
     ELSE Then(LoadType(read.rest), LAMBDA t :
            CASE t.val.type = EOF      -> As(t, Complete(at.dbs))
              [] t.val.type = SELECTDB -> Then(LoadLen(t.rest), Select)
              [] OTHER -> Then(LoadKeyVal(t.rest, t.val.type), LAMBDA kv : Add(kv, t.val)))

\* rdbLoad's loop over a file.  Every turn reads a byte, so none is left after as many
\* turns as there are bytes.
LoadLoop(f, dbs, now) ==
  LET start == Got(Reading(dbs, 1), f)
      after[n \in 0 .. Len(f)] ==
        IF n = 0 THEN start ELSE Then(after[n - 1], LAMBDA read : LoadTurn(read, now))
  IN after[Len(f)]

\* rdbLoad, into dbnum empty databases.
LoadDump(f, dbnum, now) ==
  IF Len(f) < 9 \/ SubSeq(f, 1, 9) # Signature THEN Short
  ELSE Then(LoadLoop(SubSeq(f, 10, Len(f)), [j \in 1 .. dbnum |-> <<>>], now),
            LAMBDA end : IF end.val.eof THEN As(end, end.val.dbs) ELSE Short)

=============================================================================
