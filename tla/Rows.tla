-------------------------------- MODULE Rows --------------------------------
(***************************************************************************)
(* The rows of a table: how they are written as bytes, and how they are    *)
(* read while other tasks write.                                           *)
(***************************************************************************)
EXTENDS Naturals, Sequences, SequencesExt, FiniteSets

-----------------------------------------------------------------------------
(* How a tuple becomes the bytes of a database key or value and how those    *)
(* bytes become a tuple again (codec/serialize.rs, codec/deserialize.rs).    *)
(* Records are separated by the byte 0xFF, which no UTF-8 text contains but  *)
(* which the bytes of a number may.                                          *)
(*                                                                           *)
(* A byte is a number in 0..SEP, SEP standing for 0xFF; a u64 has WIDTH      *)
(* bytes.  An element is [kind, val]: a text or an optional text is a        *)
(* sequence of bytes below SEP (the absent one is empty), a number a natural,*)
(* a raw value (CBOR, a byte slice) any sequence of bytes.                   *)

CONSTANTS
    SEP,         \* the separator byte, the largest one
    WIDTH,       \* bytes of an integer
    Tuples,      \* the tuples written: sequences of elements
    ReadAs(_)    \* the kinds the rows of a tuple are read with

VARIABLES
    tuple,  \* what is being written
    field,  \* elements of it written so far
    sep,    \* Serializer::sep, a record was started
    buf,    \* the bytes
    pos,    \* Deserializer::pos
    rec,    \* Deserializer::rec
    out,    \* the elements read back
    coding  \* "write", "read", "done" or "failed"

codecVars == <<tuple, field, sep, buf, pos, rec, out, coding>>

(* Integers are written most significant byte first. *)
ToBytes(n) == [i \in 1..WIDTH |-> (n \div (SEP + 1)^(WIDTH - i)) % (SEP + 1)]
FromBytes(b) == FoldLeft(LAMBDA acc, d : acc * (SEP + 1) + d, 0, b)

(* The bytes of one element: a text, an optional text that is there and a    *)
(* raw value are written as they are, an absent optional as nothing, Interfix*)
(* as nothing after the separator that starts its record.                    *)
serialize_element(e) ==
    CASE e.kind = "num" -> ToBytes(e.val)
      [] e.kind = "interfix" -> <<>>
      [] OTHER -> e.val

(* Every record of a tuple but the first is preceded by the separator; a     *)
(* single value is written without one.                                      *)
record_start_none(started) == <<>>
record_start(started) == IF started THEN <<SEP>> ELSE <<>>

IsTuple(t) == Len(t) > 1

(* One call of serialize with everything it writes. *)
serialize(t) ==
    FoldLeft(LAMBDA b, i : b \o record_start(i > 1) \o serialize_element(t[i]),
             <<>>, [i \in 1..Len(t) |-> i])

CodecInit ==
    /\ tuple \in Tuples
    /\ field = 0 /\ sep = FALSE /\ buf = <<>>
    /\ pos = 0 /\ rec = 0 /\ out = <<>>
    /\ coding = "write"

WriteElement ==
    /\ coding = "write" /\ field < Len(tuple)
    /\ buf' = buf \o record_start(sep) \o serialize_element(tuple[field + 1])
    /\ sep' = IsTuple(tuple)
    /\ field' = field + 1
    /\ UNCHANGED <<tuple, pos, rec, out, coding>>

EndWrite ==
    /\ coding = "write" /\ field = Len(tuple)
    /\ coding' = "read"
    /\ UNCHANGED <<tuple, field, sep, buf, pos, rec, out>>

(* The bytes from p up to the next separator, and up to the end. *)
record_next(p) ==
    LET seps == {i \in p + 1..Len(buf) : buf[i] = SEP}
    IN  SubSeq(buf, p + 1, IF seps = {} THEN Len(buf) ELSE Min(seps) - 1)
record_trail(p) == SubSeq(buf, p + 1, Len(buf))

(* Before an element of a tuple the separator is stepped over, except before *)
(* the first one.                                                            *)
RecordAt == IF IsTuple(tuple) /\ (pos # 0 \/ rec > 0) THEN pos + 1 ELSE pos

(* What reading an element of a kind at p consumes, in bytes. *)
Consumes_by_record(kind, p) ==
    IF kind = "raw" THEN Len(record_trail(p)) ELSE Len(record_next(p))
Consumes(kind, p) ==
    CASE kind = "num" -> WIDTH
      [] kind = "raw" \/ kind = "ignoreall" -> Len(record_trail(p))
      [] kind = "ignore" /\ ~IsTuple(tuple) -> Len(record_trail(p))
      [] OTHER -> Len(record_next(p))

(* An integer needs all its bytes. *)
Underflows(kind, p) == kind = "num" /\ p + WIDTH > Len(buf)

Decoded(kind, bytes) == [kind |-> kind, val |-> IF kind = "num" THEN FromBytes(bytes) ELSE bytes]

Ignores == {"ignore", "ignoreall"}

(* One element, read where its record starts; a tuple whose bytes have run   *)
(* out and an integer cut short fail the whole read.                         *)
ReadElement ==
    /\ coding = "read" /\ rec < Len(ReadAs(tuple))
    /\ LET kind == ReadAs(tuple)[rec + 1]
           n == Consumes(kind, RecordAt)
       IN  IF (IsTuple(tuple) /\ pos >= Len(buf)) \/ Underflows(kind, RecordAt)
           THEN coding' = "failed" /\ UNCHANGED <<pos, out>>
           ELSE /\ pos' = RecordAt + n
                /\ out' = IF kind \in Ignores THEN out
                          ELSE Append(out, Decoded(kind, SubSeq(buf, RecordAt + 1, RecordAt + n)))
                /\ UNCHANGED coding
    /\ rec' = rec + 1
    /\ UNCHANGED <<tuple, field, sep, buf>>

(* from_slice is done; a debug build asserts that at most a trailing         *)
(* separator is left.                                                        *)
finished == Len(buf) - pos = 0 \/ (Len(buf) - pos = 1 /\ buf[pos + 1] = SEP)
EndRead ==
    /\ coding = "read" /\ rec = Len(ReadAs(tuple))
    /\ coding' = IF finished THEN "done" ELSE "failed"
    /\ UNCHANGED <<tuple, field, sep, buf, pos, rec, out>>

CodecNext == WriteElement \/ EndWrite \/ ReadElement \/ EndRead

(* What a reader of the row is meant to get: the elements that were written, *)
(* less the ones it asked to have ignored.                                   *)
Meant ==
    LET kept == SelectSeq([i \in 1..Len(ReadAs(tuple)) |-> i],
                          LAMBDA i : ReadAs(tuple)[i] \notin Ignores)
    IN  [j \in 1..Len(kept) |-> tuple[kept[j]].val]

(* Every key and value shape the services store reads back as what was       *)
(* written, whatever bytes its numbers have: reading never fails, leaves     *)
(* nothing over and yields each element it did not ask to ignore.            *)
ReadsBack ==
    /\ coding # "failed"
    /\ coding = "done" => [i \in DOMAIN out |-> out[i].val] = Meant

(* A scan by the first elements of a key, closed with Interfix, selects the  *)
(* rows whose first elements are those and no row of a longer text that      *)
(* happens to begin alike.                                                   *)
PrefixSelects ==
    coding = "read" =>
        \A t \in Tuples : \A k \in 1..Len(t) - 1 :
            (\A i \in 1..k : t[i].kind # "num") /\ k < Len(tuple)
                /\ (\A i \in 1..k : tuple[i].kind = t[i].kind) =>
            (IsPrefix(serialize(Append(SubSeq(t, 1, k), [kind |-> "interfix", val |-> <<>>])), buf)
                <=> SubSeq(tuple, 1, k) = SubSeq(t, 1, k))

-----------------------------------------------------------------------------
(* Reading a table: one key (map/get.rs) and a range or a prefix of keys     *)
(* (map/iter.rs, map/cursor.rs) while other tasks write to it.  A read that  *)
(* the block cache can answer is answered on the spot; another one goes to a *)
(* thread of the pool and is answered later.                                 *)
(*                                                                           *)
(* Keys are sequences of bytes (module Codec); a row is its key.  RocksDB is *)
(* the set of the keys, of which an iterator sees the state at its creation. *)
(* A behaviour is one read among the writes of others, which do what another *)
(* reader's deletions would do.                                              *)

CONSTANTS
    TableKeys,      \* the keys a row may have
    ScanPrefixes,   \* what is scanned for
    MaxTableWrites  \* bound on the writes during a read

VARIABLES
    table,   \* the keys of the rows
    writes,  \* how many times a row was added or removed
    scan,    \* the scan: how it was asked for and what it saw
    look     \* a read of one key

scanVars == <<table, writes, scan, look>>

(* RocksDB's order of keys. *)
Before(a, b) ==
    \/ IsStrictPrefix(a, b)
    \/ \E i \in 1..Len(a) : /\ i <= Len(b) /\ a[i] < b[i]
                            /\ SubSeq(a, 1, i - 1) = SubSeq(b, 1, i - 1)

NoScan == [stage |-> "idle", rev |-> FALSE, prefix |-> <<>>, byPrefix |-> FALSE, delete |-> FALSE,
           snap |-> {}, at |-> <<>>, valid |-> FALSE, got |-> <<>>]
NoLook == [stage |-> "idle", key |-> <<>>, seen |-> {}, answer |-> FALSE]

ScansInit ==
    /\ table \in SUBSET TableKeys
    /\ writes = 0 /\ scan = NoScan /\ look = NoLook

(* The first key after every key that has the prefix: the last byte below the*)
(* maximum is raised and what follows it dropped.  No bound where there is   *)
(* no such byte.                                                             *)
Unbounded == <<SEP + 1>>
prefix_upper_bound_last(p) ==
    IF p = <<>> \/ Last(p) = SEP THEN Unbounded ELSE Front(p) \o <<Last(p) + 1>>
prefix_upper_bound(p) ==
    LET below == {i \in 1..Len(p) : p[i] < SEP}
    IN  IF below = {} THEN Unbounded
        ELSE SubSeq(p, 1, Max(below) - 1) \o <<p[Max(below)] + 1>>

(* The keys an iterator of this scan can be on. *)
InBounds(sc) == {k \in sc.snap : ~sc.byPrefix \/ Before(k, prefix_upper_bound(sc.prefix))}

(* keys_prefix, stream_prefix, count_prefix and their reverse and raw forms; *)
(* keys_from, stream_from, count_from; the ones without a start begin at the *)
(* empty key.  The forms that yield values or typed keys differ in what they *)
(* do with a row, not in which rows they visit.                              *)
Asks(p, byPrefix, rev, drop) ==
    scan' = [NoScan EXCEPT !.stage = "asked", !.rev = rev, !.prefix = p, !.byPrefix = byPrefix,
                           !.delete = drop, !.snap = table]

keys == \E p \in ScanPrefixes, rev \in BOOLEAN, byPrefix \in BOOLEAN : Asks(p, byPrefix, rev, FALSE)
raw_del_prefix == \E p \in ScanPrefixes : Asks(p, TRUE, FALSE, TRUE)
for_clear == Asks(<<>>, FALSE, FALSE, TRUE)

StartScan ==
    /\ scan.stage = "idle" /\ look.stage = "idle"
    /\ keys \/ raw_del_prefix \/ for_clear
    /\ UNCHANGED <<table, writes, look>>

(* Where the cursor is put: from the prefix forwards, or from the last key   *)
(* below the bound backwards; a range scan backwards starts at the key at or *)
(* below the one given.                                                      *)
First(set) == CHOOSE k \in set : \A o \in set \ {k} : Before(k, o)
Final(set) == CHOOSE k \in set : \A o \in set \ {k} : Before(o, k)
Place(sc, set) == [sc EXCEPT !.valid = set # {},
                             !.at = IF set = {} THEN <<>> ELSE IF sc.rev THEN Final(set) ELSE First(set)]
AtOrAbove(sc) == {k \in InBounds(sc) : k = sc.prefix \/ Before(sc.prefix, k)}
AtOrBelow(sc) == {k \in InBounds(sc) : k = sc.prefix \/ Before(k, sc.prefix)}
seek(sc) ==
    Place(sc, CASE ~sc.rev -> AtOrAbove(sc)
                [] sc.rev /\ sc.byPrefix -> InBounds(sc)
                [] OTHER -> IF sc.prefix = <<>> THEN InBounds(sc) ELSE AtOrBelow(sc))

(* The position is in the block cache, or a pool thread finds it: the        *)
(* iterator is the same one, made when the scan was asked for.               *)
Positions ==
    /\ scan.stage = "asked"
    /\ scan' = [seek(scan) EXCEPT !.stage = "open"]
    /\ UNCHANGED <<table, writes, look>>

(* A prefix scan ends at the first key without the prefix. *)
Yields == scan.valid /\ (scan.byPrefix => IsPrefix(scan.prefix, scan.at))

(* Cursor::poll_next: hand out the row and move on.  del_prefix and clear    *)
(* remove each row they are handed.                                          *)
Steps ==
    /\ scan.stage = "open" /\ Yields
    /\ scan' = Place([scan EXCEPT !.got = Append(@, scan.at)],
                     {k \in InBounds(scan) : IF scan.rev THEN Before(k, scan.at) ELSE Before(scan.at, k)})
    /\ table' = IF scan.delete THEN table \ {scan.at} ELSE table
    /\ UNCHANGED <<writes, look>>

Ends ==
    /\ scan.stage = "open" /\ ~Yields
    /\ scan' = [scan EXCEPT !.stage = "done"]
    /\ UNCHANGED <<table, writes, look>>

(* What get_cached makes of the block cache's answer: the row, its absence,  *)
(* or "cannot tell without reading the disk".                                *)
cached_handle_from_all(present, incomplete) == [known |-> TRUE, present |-> present /\ ~incomplete]
cached_handle_from(present, incomplete) == [known |-> ~incomplete, present |-> present]

(* get, and contains, exists, qry and the batched forms on top of it. *)
get(k) ==
    /\ look.stage = "idle" /\ scan.stage = "idle"
    /\ \E incomplete \in BOOLEAN :
         LET cached == cached_handle_from(k \in table, incomplete)
         IN  look' = [stage |-> IF cached.known THEN "answered" ELSE "queued", key |-> k,
                      seen |-> {k \in table}, answer |-> cached.present]
    /\ UNCHANGED <<table, writes, scan>>

get_blocking ==
    /\ look.stage = "queued"
    /\ look' = [look EXCEPT !.stage = "answered", !.answer = look.key \in table]
    /\ UNCHANGED <<table, writes, scan>>

(* Another task adds or removes a row. *)
TableWrite(k) ==
    /\ writes < MaxTableWrites
    /\ writes' = writes + 1
    /\ table' = SymDiff(table, {k})
    /\ look' = IF look.stage = "queued" /\ look.key = k
               THEN [look EXCEPT !.seen = @ \union {k \in table'}] ELSE look
    /\ UNCHANGED scan

ScansNext ==
    \/ StartScan \/ Positions \/ Steps \/ Ends \/ get_blocking
    \/ \E k \in TableKeys : get(k) \/ TableWrite(k)

(* A scan hands out, in order and once each, exactly the rows that matched   *)
(* when it was asked for, however the bytes of its prefix end and whatever   *)
(* is written meanwhile.                                                     *)
Matching(sc) ==
    {k \in sc.snap : CASE sc.byPrefix -> IsPrefix(sc.prefix, k)
                       [] sc.rev /\ sc.prefix # <<>> -> k = sc.prefix \/ Before(k, sc.prefix)
                       [] OTHER -> ~Before(k, sc.prefix)}
ScanExact ==
    scan.stage = "done" =>
        /\ ToSet(scan.got) = Matching(scan)
        /\ \A i, j \in 1..Len(scan.got) : i < j =>
             IF scan.rev THEN Before(scan.got[j], scan.got[i]) ELSE Before(scan.got[i], scan.got[j])

(* The answer about a key is one that was true at some moment of the call: a *)
(* row that the block cache does not hold is never reported missing.         *)
AnswerWasTrue == look.stage = "answered" => look.answer \in look.seen
=============================================================================
