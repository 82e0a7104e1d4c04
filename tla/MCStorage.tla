----------------------------- MODULE MCStorage ------------------------------
(* What the server keeps, for TLC: the database crate (the codec, reading,   *)
(* writing, the thread pool), the two-phase counter, and the media store     *)
(* with its previews, each on its own; "unit" says which.  Three media tasks *)
(* cover an upload, a waiter and whoever interferes; four requests and one   *)
(* stop cover a reservation, its upload, a download before it and a deletion *)
(* or a quarantine.                                                          *)
EXTENDS Rows, Database, TwoPhaseCounter, Media

CONSTANTS t1, t2, w1, w2, c1, c2

VARIABLE unit

(* Texts of up to two bytes, one of them the beginning of another. *)
Texts == {<<>>, <<0>>, <<1>>, <<0, 1>>}
Ids == Texts \ {<<>>}
Str(S) == {[kind |-> "str", val |-> v] : v \in S}
Opt == {[kind |-> "opt", val |-> v] : v \in {<<>>, <<0>>, <<1>>}}
Num == {[kind |-> "num", val |-> n] : n \in {0, 1, 2, 5, 6, 8}}
Raw == {[kind |-> "raw", val |-> v] : v \in {<<>>, <<2>>, <<0, 2>>, <<2, 1>>}}

(* The shapes the services write: a read receipt, a to-device message, room  *)
(* account data, a media row's value, a single number and a CBOR value.      *)
MCTuples ==
    {<<a, n, b>> : a \in Str(Ids), n \in Num, b \in Str(Ids)}
    \union {<<a, b, n>> : a \in Str(Ids), b \in Str(Texts), n \in Num}
    \union {<<o, a, n, b>> : o \in Opt, a \in Str(Ids), n \in Num, b \in Str(Ids)}
    \union {<<n, a>> : n \in Num, a \in Str(Texts)}
    \union {<<a, b>> : a \in Str(Ids), b \in Str(Texts)}
    \union {<<n>> : n \in Num} \union {<<r>> : r \in Raw}
KindsOf(t) == [i \in 1..Len(t) |-> t[i].kind]

(* How they are read: account data ignores the type, a list of a user's      *)
(* rows the user.                                                            *)
MCReadAs(t) ==
    CASE KindsOf(t) = <<"opt", "str", "num", "str">> -> <<"opt", "str", "num", "ignore">>
      [] KindsOf(t) = <<"str", "str">> -> <<"ignore", "str">>
      [] OTHER -> KindsOf(t)

MCTableKeys == {<<0>>, <<0, 2>>, <<0, 2, 2>>, <<1>>, <<2, 1>>}
MCScanPrefixes == {<<>>, <<0>>, <<0, 2>>, <<2>>}

MCWriteLists == {<<<<0, 1>>, <<1>>>>}
MCWatchings == {<<0>>}

Mq(id, tags, cpus) == [id |-> id, tags |-> tags, cpus |-> cpus]
MCDevices ==
    {[nr_requests |-> 4, mq |-> <<>>],
     [nr_requests |-> 4, mq |-> <<Mq(0, 1, {1}), Mq(1, 2, {2})>>],
     [nr_requests |-> 1, mq |-> <<Mq(1, 2, {1}), Mq(0, 1, {2})>>],
     [nr_requests |-> 4, mq |-> <<Mq(0, 1, {9}), Mq(1, 1, {1, 2})>>],
     [nr_requests |-> 4, mq |-> <<Mq(0, 1, {1, 2}), Mq(1, 1, {2})>>]}

APage == [scheme |-> TRUE, star |-> FALSE, host |-> "none", contains |-> FALSE, root |-> "allow",
          address |-> TRUE, ok |-> TRUE, type |-> "html", forMedia |-> TRUE, picture |-> TRUE,
          titled |-> TRUE, embeds |-> FALSE]

MCPages ==
  {APage, [APage EXCEPT !.ok = FALSE, !.type = "image"], [APage EXCEPT !.type = "video"],
   [APage EXCEPT !.picture = FALSE, !.titled = FALSE, !.embeds = TRUE],
   [APage EXCEPT !.type = "image", !.forMedia = FALSE], [APage EXCEPT !.picture = FALSE],
   [APage EXCEPT !.root = "deny"], [APage EXCEPT !.address = FALSE]}

tableVars == <<codecVars, scanVars, writeVars, poolVars>>
contentVars == <<mediaVars, previewVars>>

StorageInit ==
    /\ unit \in {"codec", "scans", "writes", "pool", "counter", "media", "preview"}
    /\ IF unit = "codec" THEN tuple \in Tuples ELSE tuple = <<[kind |-> "num", val |-> 0]>>
    /\ IF unit = "scans" THEN table \in SUBSET TableKeys ELSE table = {}
    /\ IF unit = "pool" THEN device \in Devices ELSE device = [nr_requests |-> 4, mq |-> <<>>]
    /\ IF unit = "preview" THEN site \in MCPages ELSE site = APage
    /\ IF unit = "media" THEN ours \in BOOLEAN ELSE ours = TRUE
    /\ CodecInit /\ ScansInit /\ WritesInit /\ PoolInit /\ Init /\ MediaInit /\ PreviewInit

TableStep ==
    \/ unit = "codec" /\ CodecNext /\ UNCHANGED <<scanVars, writeVars, poolVars>>
    \/ unit = "scans" /\ ScansNext /\ UNCHANGED <<codecVars, writeVars, poolVars>>
    \/ unit = "writes" /\ WritesNext /\ UNCHANGED <<codecVars, scanVars, poolVars>>
    \/ unit = "pool" /\ PoolNext /\ UNCHANGED <<codecVars, scanVars, writeVars>>

StorageNext ==
    /\ UNCHANGED unit
    /\ \/ TableStep /\ UNCHANGED <<vars, contentVars>>
       \/ unit = "counter" /\ Next /\ UNCHANGED <<tableVars, contentVars>>
       \/ unit = "media" /\ MediaNext /\ UNCHANGED <<tableVars, vars, previewVars>>
       \/ unit = "preview" /\ PreviewNext /\ UNCHANGED <<tableVars, vars, mediaVars>>

StorageSpec == StorageInit /\ [][StorageNext]_<<unit, tableVars, vars, contentVars>> /\ PoolFair

(* What the services store is what they read: a row decodes to what was    *)
(* encoded, a prefix selects its rows alone, a scan over a changing table  *)
(* yields the rows it should in order, and an answered lookup was true.    *)
RowsReadBack == ReadsBack /\ PrefixSelects /\ ScanExact /\ AnswerWasTrue
=============================================================================
