-------------------------------- MODULE Room --------------------------------
(***************************************************************************)
(* One room of one server: the events other servers send into it, the      *)
(* events local users send, a history purge and the room's deletion.       *)
(* (crates/phantom-service/src/rooms: event_handler, timeline, state,      *)
(* state_cache, delete; crates/phantom-api/src/client/rooms/send.rs)       *)
(*                                                                         *)
(* Accepting an event from another server holds the room's federation lock *)
(* throughout (fed is not idle) and its state lock only to write.  Sending *)
(* and deleting hold the state lock, and purging holds no lock.  What the  *)
(* holder of the state lock has still to write is the sequence writes.     *)
(* The database makes each write on its own: others run, and a crash may   *)
(* come, between any two of them.                                          *)
(*                                                                         *)
(* Left out: backfill, redactions, relations, notifications, appservices,  *)
(* ACLs and signatures (an event that fails those is not received), the    *)
(* shortening of ids, and how states are stored (StateDiffs).              *)
(***************************************************************************)
EXTENDS StateRes

CONSTANTS
  Event,        \* the events by id; prev and auth of local ones are filled in
  Founded,      \* the events 1 .. Founded are the room as it was created
  Remote,       \* ids of the events other servers send
  Local,        \* ids of the events this server may come to send
  StateIds,     \* the state at an event as the server that sent it names it
  Txn,          \* the transaction a local message is sent under, or ""
  Leaves,       \* for each local user the leave event deletion would send
  Cutoff,       \* a purge removes messages with a lesser timestamp
  IncludeLocal, \* whether it also removes those of local users
  MaxPrev,      \* MAX_PREV_EVENTS
  MaxReceives, MaxPurges, MaxDeletes, MaxErrors, MaxCrashes

Ids == DOMAIN Event

ASSUME RoomAssumption ==
  /\ Founded \in Nat \ {0}
  /\ Ids = 1 .. Len(Event)
  /\ (1 .. Founded) \cup Remote \cup Local = Ids
  /\ DOMAIN StateIds = Remote
  /\ DOMAIN Txn = Local
  /\ \A u \in DOMAIN Leaves : Leaves[u] \in Local
  /\ MaxPrev \in Nat \ {0}

VARIABLES
  db,       \* the tables, below
  built,    \* prev and auth of each local event signed so far
  fed,      \* the event being received, where it is and what is known of it
  lock,     \* who holds the state lock
  writes,   \* what its holder has still to write
  purge,    \* the purge under way
  count     \* how often what is bounded has happened

vars == <<db, built, fed, lock, writes, purge, count>>

NoState == <<>>

Chained(n) == [k \in {Key(Event[i]) : i \in 1 .. n} |->
                 CHOOSE i \in 1 .. n :
                   Key(Event[i]) = k /\ \A j \in i + 1 .. n : Key(Event[j]) # k]

MembersOf(ev, state) ==
  {k[2] : k \in {j \in DOMAIN state :
                   j[1] = "member" /\ ev[state[j]].member = "join"}}

Founding ==
  [pduid_pdu |-> [i \in Ids |-> IF i <= Founded THEN 1 ELSE 0],  \* rows of each
   eventid_pduid |-> 1 .. Founded,      \* the events with an index entry
   outliers |-> {},                     \* eventid_outlierpdu
   purged |-> {},                       \* eventid_purged
   softfailed |-> {},                   \* softfailedeventids
   event_state |-> [i \in 1 .. Founded |-> Chained(i - 1)],
                                        \* shorteventid_shortstatehash
   room_state |-> Chained(Founded),     \* roomid_shortstatehash
   leaves |-> {Founded},                \* roomid_pduleaves
   joined |-> MembersOf(Event, Chained(Founded)),     \* roomuserid_joined
   shortroomid |-> TRUE,                \* roomid_shortroomid
   answered |-> {}]                     \* userdevicetxnid_response

Idle == [pc |-> "idle", e |-> 0, x |-> 0, gap |-> <<>>, at |-> NoState,
         soft |-> FALSE]

Resting == [pc |-> "idle", keep |-> {}, rows |-> {}, todo |-> <<>>]

Init ==
  /\ db = Founding
  /\ built = <<>>
  /\ fed = Idle
  /\ lock = "none" /\ writes = <<>>
  /\ purge = Resting
  /\ count = [receives |-> 0, purges |-> 0, deletes |-> 0, errors |-> 0, crashes |-> 0]

Counted(what, max) == /\ count[what] < max
                      /\ count' = [count EXCEPT ![what] = @ + 1]

-----------------------------------------------------------------------------
(* One write of the database.                                              *)

W(table, e) == [w |-> table, e |-> e, s |-> NoState]
WS(table, e, state) == [w |-> table, e |-> e, s |-> state]

Ev == [i \in Ids |->
         IF i \in DOMAIN built
         THEN [Event[i] EXCEPT !.prev = built[i].prev, !.auth = built[i].auth]
         ELSE Event[i]]

(* update_membership: everyone but a joined user leaves the joined index. *)
UpdateMembership(joined, x) ==
  IF x.member = "join" THEN joined \cup {x.key} ELSE joined \ {x.key}

Effect(d, w) ==
  CASE w.w = "row"         -> [d EXCEPT !.pduid_pdu[w.e] = @ + 1]
    [] w.w = "unrow"       -> [d EXCEPT !.pduid_pdu[w.e] = 0]
    [] w.w = "index"       -> [d EXCEPT !.eventid_pduid = @ \cup {w.e}]
    [] w.w = "unindex"     -> [d EXCEPT !.eventid_pduid = @ \ {w.e}]
    [] w.w = "unoutlier"   -> [d EXCEPT !.outliers = @ \ {w.e}]
    [] w.w = "purged"      -> [d EXCEPT !.purged = @ \cup {w.e}]
    [] w.w = "softfail"    -> [d EXCEPT !.softfailed = @ \cup {w.e}]
    [] w.w = "event_state" -> [d EXCEPT !.event_state =
                                 [i \in DOMAIN @ \cup {w.e} |->
                                    IF i = w.e THEN w.s ELSE @[i]]]
    [] w.w = "room_state"  -> [d EXCEPT !.room_state = w.s]
    [] w.w = "noleaves"    -> [d EXCEPT !.leaves = {}]
    [] w.w = "leaf"        -> [d EXCEPT !.leaves = @ \cup {w.e}]
    [] w.w = "member"      -> [d EXCEPT !.joined = UpdateMembership(@, Ev[w.e])]
    [] w.w = "nomembers"   -> [d EXCEPT !.joined = {}]
    [] w.w = "noroom"      -> [d EXCEPT !.shortroomid = FALSE]
    [] w.w = "answer"      -> [d EXCEPT !.answered = @ \cup {Txn[w.e]}]
    [] w.w = "send"        -> d      \* send_pdu_servers: the outbox, see Sending

Timeline == {i \in Ids : db.pduid_pdu[i] > 0}

(* pdu_exists and get_pdu: indexed in the timeline or held as an outlier. *)
Held == (db.eventid_pduid \cap Timeline) \cup db.outliers

Prev(e) == Ev[e].prev

-----------------------------------------------------------------------------
(* handle_incoming_pdu, under the room's federation lock.                  *)

(* Another server builds on the local events it was sent, and was sent no  *)
(* event that is not in the timeline.                                      *)
Sendable(e) == Event[e].prev \cap Local \subseteq db.eventid_pduid \cup db.purged

Receive(e) ==
  /\ fed.pc = "idle"
  /\ Sendable(e)
  /\ e \notin db.eventid_pduid
  /\ e \notin db.purged
  /\ db.shortroomid
  /\ CreateKey \in DOMAIN db.room_state
  /\ Timeline # {}
  /\ Counted("receives", MaxReceives)
  /\ fed' = [Idle EXCEPT !.pc = "outlier", !.e = e]
  /\ UNCHANGED <<db, built, lock, writes, purge>>

(* The event is older than the room's first row, which its create event    *)
(* keeps (purges leave state events).                                      *)
Predates(e) == Ev[e].ts < Event[1].ts

(* auth_state_of: the auth events at hand, by their keys. *)
AuthStateOf(e, held) ==
  LET here == Event[e].auth \cap held
      keys == {Key(Ev[a]) : a \in here}
  IN [k \in keys \cup {CreateKey} |->
        IF k \in keys THEN CHOOSE a \in here : Key(Ev[a]) = k ELSE 1]

(* handle_outlier_pdu: auth events that are missing are fetched, if their  *)
(* server answers, and must authorize it.                                  *)
Fetched(S) ==
  {{}, (AuthChain(Ev, UNION {Event[e].auth : e \in S}) \cap Remote) \ Held}

Authorized(S, fetched) ==
  {e \in S : e \in db.outliers \/ AuthCheck(Ev, Event[e], AuthStateOf(e, Held \cup fetched))}

StoreOutlier ==
  /\ fed.pc = "outlier"
  /\ \E fetched \in Fetched({fed.e} \ db.outliers) :
       LET stored == Authorized({fed.e}, fetched)
       IN /\ db' = [db EXCEPT !.outliers = @ \cup fetched \cup stored]
          /\ fed' = IF stored = {} \/ Predates(fed.e) THEN Idle
                    ELSE [fed EXCEPT !.pc = "gap"]
  /\ UNCHANGED <<built, lock, writes, purge, count>>

Ancestors(e) ==
  LET up[n \in 0 .. Len(Event)] ==
        IF n = 0 THEN Prev(e)
        ELSE UNION {{i} \cup Prev(i) : i \in up[n - 1]}
  IN up[Len(Event)]

OldestFirst(S) ==
  LET before(a, b) == Ev[a].ts < Ev[b].ts \/ (Ev[a].ts = Ev[b].ts /\ a < b)
  IN [n \in 1 .. Cardinality(S) |->
        CHOOSE e \in S : Cardinality({d \in S : before(d, e)}) = n - 1]

(* fill_gap and fetch_missing_events: the previous events that are not in  *)
(* the timeline, and what the origin sends of what lies before this one,   *)
(* each stored as an outlier with what its auth check needed.              *)
FillGap ==
  /\ fed.pc = "gap"
  /\ LET open == Prev(fed.e) \ (db.eventid_pduid \cup db.purged)
         held == open \cap db.outliers
     IN \E sent \in IF open = held THEN {{}}
                    ELSE SUBSET (Ancestors(fed.e) \cap Remote) :
        \E fetched \in Fetched(sent \ db.outliers) :
          LET stored == Authorized(sent, fetched \cup sent)
          IN /\ db' = [db EXCEPT !.outliers = @ \cup fetched \cup stored]
             /\ fed' = [fed EXCEPT !.pc = "place", !.gap =
                          OldestFirst(stored \cup held \cup (open \cap fetched))]
  /\ UNCHANGED <<built, lock, writes, purge, count>>

(* The oldest event of the gap is placed next; when the gap has taken too  *)
(* long, or is filled, the event received itself.                          *)
NextOfGap ==
  /\ fed.pc = "place" /\ fed.x = 0 /\ fed.gap # <<>>
  /\ LET g == Head(fed.gap)
         skip == \/ Predates(g)
                 \/ g \in db.eventid_pduid \cup db.purged
                 \/ g \notin db.outliers
     IN fed' = [fed EXCEPT !.gap = Tail(@), !.x = IF skip THEN 0 ELSE g]
  /\ UNCHANGED <<db, built, lock, writes, purge, count>>

GapDone ==
  /\ fed.pc = "place" /\ fed.x = 0
  /\ fed' = [fed EXCEPT !.gap = <<>>, !.x = fed.e]
  /\ UNCHANGED <<db, built, lock, writes, purge, count>>

(* The end of upgrade_outlier_to_timeline_pdu: on with the gap, or done. *)
Placed == IF fed.x = fed.e THEN Idle
          ELSE [fed EXCEPT !.pc = "place", !.x = 0, !.at = NoState, !.soft = FALSE]

(* state_at_event, where this server can tell. *)
Known(x) == \A p \in Prev(x) : p \in Held /\ p \in DOMAIN db.event_state

StateAt(x) ==
  LET after(p) == StateAfter(Ev, p, db.event_state[p])
  IN IF Cardinality(Prev(x)) = 1 THEN after(CHOOSE p \in Prev(x) : TRUE)
     ELSE Resolve(Ev, Held, {after(p) : p \in Prev(x)})

(* upgrade_outlier_to_timeline_pdu up to the state lock.  The state at the *)
(* event, which its server is asked for when this one cannot tell, must    *)
(* authorize it; the current state decides whether it is soft-failed.      *)
Judged(x, at) ==
  IF AuthCheck(Ev, Ev[x], at)
  THEN [fed EXCEPT !.pc = "write", !.at = at,
                   !.soft = ~AuthCheck(Ev, Ev[x], db.room_state)]
  ELSE Placed

(* fetch_state: the events the origin names that are missing are fetched. *)
FetchState(x) ==
  /\ fed' = Judged(x, StateIds[x])
  /\ db' = [db EXCEPT !.outliers = @ \cup (Values(StateIds[x]) \ Held)]

Judge ==
  /\ fed.pc = "place" /\ fed.x # 0
  /\ LET x == fed.x
         done == x \in db.eventid_pduid \cup db.softfailed
                 \/ CreateKey \notin DOMAIN db.room_state
     IN \/ done /\ fed' = Placed /\ UNCHANGED db
        \/ ~done /\ Known(x) /\ fed' = Judged(x, StateAt(x)) /\ UNCHANGED db
        \/ ~done /\ ~Known(x) /\ fed' = Placed /\ UNCHANGED db
        \/ ~done /\ ~Known(x) /\ FetchState(x)
  /\ UNCHANGED <<built, lock, writes, purge, count>>

-----------------------------------------------------------------------------
(* The writes an event makes, in their order.                              *)

Each(table, S) == LET s == OldestFirst(S) IN [i \in DOMAIN s |-> W(table, s[i])]

MembersAmong(S) == {i \in S : Ev[i].kind = "member"}

(* Mutant: only state events are indexed. *)
AppendPdu_Unindexed(e, kept) ==
  <<W("noleaves", 0)>> \o Each("leaf", kept) \o <<W("leaf", e), W("row", e)>>
  \o (IF IsState(Ev[e]) THEN <<W("index", e)>> ELSE <<>>)
  \o <<W("unoutlier", e)>> \o Each("member", MembersAmong({e}))

(* Mutant: the outlier copy goes before the row is there. *)
AppendPdu_OutlierFirst(e, kept) ==
  <<W("noleaves", 0)>> \o Each("leaf", kept) \o
  <<W("leaf", e), W("unoutlier", e), W("row", e), W("index", e)>>
  \o Each("member", MembersAmong({e}))

(* append_pdu: the forward extremities, the row, its index entry, the      *)
(* outlier copy, and then what a membership event implies.                 *)
AppendPdu(e, kept) ==
  <<W("noleaves", 0)>> \o Each("leaf", kept) \o
  <<W("leaf", e), W("row", e), W("index", e), W("unoutlier", e)>>
  \o Each("member", MembersAmong({e}))

(* install_state: the members among what the resolved state adds, then it. *)
InstallState(resolved) ==
  Each("member", MembersAmong(Held \cap (Values(resolved) \ Values(db.room_state))))
  \o <<WS("room_state", 0, resolved)>>

(* Mutant: the event received becomes the only extremity. *)
Extremities_None(x) == {}

(* extremities: what the event does not supersede and the server holds. *)
Extremities(x) == (db.leaves \ Prev(x)) \cap Held

Accepted(x) ==
  (IF IsState(Ev[x])
   THEN InstallState(Resolve(Ev, Held, {db.room_state, StateAfter(Ev, x, fed.at)}))
   ELSE <<>>)
  \o <<WS("event_state", x, fed.at)>>
  \o (IF db.shortroomid THEN AppendPdu(x, Extremities(x)) ELSE <<>>)

SoftFailed(x) == <<WS("event_state", x, fed.at), W("softfail", x)>>

(* The event received is written under the state lock. *)
Enter ==
  /\ fed.pc = "write" /\ lock = "none"
  /\ lock' = "fed"
  /\ writes' = IF fed.soft THEN SoftFailed(fed.x)
               ELSE IF IsState(Ev[fed.x]) /\ db.room_state = NoState THEN <<>>
               ELSE Accepted(fed.x)
  /\ UNCHANGED <<db, built, fed, purge, count>>

(* build_and_append_pdu: a local event follows the forward extremities, at *)
(* most MaxPrev of them, is judged by the current state, and becomes the   *)
(* only extremity.                                                         *)
Parents == {S \in SUBSET db.leaves :
              \/ S = db.leaves /\ Cardinality(S) <= MaxPrev
              \/ Cardinality(S) = MaxPrev}

Sign(l, prev) ==
  [Event[l] EXCEPT !.prev = prev, !.auth = SelectAuth(Event, Event[l], db.room_state)]

Buildable(l, prev) == /\ l \notin DOMAIN built
                      /\ AuthCheck(Ev, Sign(l, prev), db.room_state)

Build(l, prev) ==
  built' = [i \in DOMAIN built \cup {l} |->
              IF i = l THEN [prev |-> prev, auth |-> Sign(l, prev).auth]
              ELSE built[i]]

BuiltWrites(l) ==
  <<WS("event_state", l, db.room_state)>> \o AppendPdu(l, {})
  \o <<WS("room_state", 0, IF IsState(Event[l]) THEN Put(db.room_state, Event[l], l)
                           ELSE db.room_state),
       W("send", l)>>

(* check_existing_txnid: no answer is stored under the transaction. *)
Fresh(l) == Txn[l] \notin db.answered

(* send_message_event_route and send_state_event_for_key. *)
Send(l) ==
  /\ lock = "none"
  /\ Fresh(l)
  /\ l \notin {Leaves[u] : u \in DOMAIN Leaves}
  /\ \E prev \in Parents : Buildable(l, prev) /\ Build(l, prev)
  /\ lock' = "send"
  /\ writes' = BuiltWrites(l)
               \o (IF Txn[l] = "" THEN <<>> ELSE <<W("answer", l)>>)
  /\ UNCHANGED <<db, fed, purge, count>>

-----------------------------------------------------------------------------
(* delete_room_cancellable: every local user leaves, then the room goes,   *)
(* table after table, the rows one by one.                                 *)
DeleteRoom ==
  /\ lock = "none"
  /\ Counted("deletes", MaxDeletes)
  /\ lock' = "delete"
  /\ writes' = Each("evict", {Leaves[u] : u \in DOMAIN Leaves \cap db.joined})
               \o <<W("purge_room", 0)>>
  /\ UNCHANGED <<db, built, fed, purge>>

Pending(table) == writes # <<>> /\ Head(writes).w = table

(* evict: the user's leave event, or only the cache when that cannot be    *)
(* sent.                                                                   *)
Evict ==
  /\ Pending("evict")
  /\ LET l == Head(writes).e
         able == {prev \in Parents : Buildable(l, prev)}
     IN \/ /\ able = {}
           /\ db' = [db EXCEPT !.joined = @ \ {Event[l].key}]
           /\ writes' = Tail(writes)
           /\ UNCHANGED built
        \/ \E prev \in able :
             /\ Build(l, prev)
             /\ writes' = BuiltWrites(l) \o Tail(writes)
             /\ UNCHANGED db
  /\ UNCHANGED <<fed, lock, purge, count>>

(* delete_all_pdus *)
Dropped ==
  LET rows == OldestFirst(Timeline)
  IN FlattenSeq([n \in DOMAIN rows |->
       <<W("unrow", rows[n]), W("unindex", rows[n]), W("unoutlier", rows[n])>>])

PurgeRoom ==
  /\ Pending("purge_room")
  /\ writes' = IF ~db.shortroomid THEN <<>>
               ELSE Dropped
                    \o <<W("noleaves", 0), W("nomembers", 0),
                         WS("room_state", 0, NoState), W("noroom", 0)>>
  /\ UNCHANGED <<db, built, fed, lock, purge, count>>

(* A cancelled deletion stops between evictions or before the purge. *)
CancelDelete ==
  /\ Pending("evict") \/ Pending("purge_room")
  /\ writes' = <<>>
  /\ UNCHANGED <<db, built, fed, lock, purge, count>>

-----------------------------------------------------------------------------
(* The holder of the state lock makes its next write, or is done.          *)
Write ==
  /\ writes # <<>> /\ Head(writes).w \notin {"evict", "purge_room"}
  /\ db' = Effect(db, Head(writes))
  /\ writes' = Tail(writes)
  /\ UNCHANGED <<built, fed, lock, purge, count>>

Release ==
  /\ lock # "none" /\ writes = <<>>
  /\ lock' = "none"
  /\ fed' = IF lock = "fed" THEN Placed ELSE fed
  /\ UNCHANGED <<db, built, writes, purge, count>>

(* send_pdu_servers fails: the event is in the timeline, the client gets   *)
(* an error; a deletion goes on with the next user.                        *)
SendFails ==
  /\ Pending("send")
  /\ Counted("errors", MaxErrors)
  /\ writes' = IF lock = "delete" THEN Tail(writes) ELSE <<>>
  /\ UNCHANGED <<db, built, fed, lock, purge>>

(* The process dies and starts again. *)
Crash ==
  /\ Counted("crashes", MaxCrashes)
  /\ fed' = Idle /\ lock' = "none" /\ writes' = <<>> /\ purge' = Resting
  /\ UNCHANGED <<db, built>>

-----------------------------------------------------------------------------
(* purge_history, under no lock: the extremities are read, then the rows   *)
(* as they are at that moment.                                             *)
PurgeHistory ==
  /\ purge.pc = "idle" /\ db.shortroomid
  /\ Counted("purges", MaxPurges)
  /\ purge' = [Resting EXCEPT !.pc = "scan", !.keep = db.leaves]
  /\ UNCHANGED <<db, built, fed, lock, writes>>

Purgeable(i) ==
  /\ db.pduid_pdu[i] > 0
  /\ Ev[i].ts < Cutoff
  /\ i \notin purge.keep
  /\ ~IsState(Ev[i])
  /\ IncludeLocal \/ Ev[i].sender \notin DOMAIN Leaves

PurgeScan ==
  /\ purge.pc = "scan"
  /\ purge' = [purge EXCEPT !.pc = "rows", !.rows = {i \in Ids : Purgeable(i)}]
  /\ UNCHANGED <<db, built, fed, lock, writes, count>>

PurgeWrites(i) ==
  <<W("unrow", i), W("unindex", i), W("unoutlier", i), W("purged", i)>>

PurgeEvent(i) ==
  /\ purge.todo = <<>> /\ i \in purge.rows
  /\ purge' = [purge EXCEPT !.rows = @ \ {i}, !.todo = PurgeWrites(i)]
  /\ UNCHANGED <<db, built, fed, lock, writes, count>>

PurgeWrite ==
  /\ purge.todo # <<>>
  /\ db' = Effect(db, Head(purge.todo))
  /\ purge' = [purge EXCEPT !.todo = Tail(@)]
  /\ UNCHANGED <<built, fed, lock, writes, count>>

PurgeEnds ==
  /\ purge.pc = "rows" /\ purge.rows = {} /\ purge.todo = <<>>
  /\ purge' = Resting
  /\ UNCHANGED <<db, built, fed, lock, writes, count>>

-----------------------------------------------------------------------------
Federation ==
  StoreOutlier \/ FillGap \/ NextOfGap \/ GapDone \/ Judge \/ Enter

Locked == Evict \/ PurgeRoom \/ Write \/ Release

Purging == PurgeScan \/ (\E i \in Ids : PurgeEvent(i)) \/ PurgeWrite \/ PurgeEnds

Next ==
  \/ \E e \in Remote : Receive(e)
  \/ Federation
  \/ \E l \in Local : Send(l)
  \/ DeleteRoom \/ CancelDelete
  \/ Locked
  \/ PurgeHistory \/ Purging
  \/ SendFails \/ Crash

Spec == Init /\ [][Next]_vars

-----------------------------------------------------------------------------
TypeOK ==
  /\ DOMAIN db.pduid_pdu = Ids
  /\ UNION {db.eventid_pduid, db.outliers, db.purged, db.softfailed, db.leaves,
            DOMAIN db.event_state, Values(db.room_state)} \subseteq Ids
  /\ DOMAIN built \subseteq Local
  /\ lock \in {"none", "fed", "send", "delete"}
  /\ lock = "none" => writes = <<>>
  /\ lock = "fed" => fed.pc = "write"
  /\ fed.pc \in {"idle", "outlier", "gap", "place", "write"}

(* No event has two places in the timeline, however often it is sent,      *)
(* fetched for a gap or received again, and every row is indexed once its  *)
(* write is over.  A crash between the two leaves a row that nothing finds *)
(* and the event may be stored again; a purge, under no lock, may remove   *)
(* the row in between and leave the entry.  (handle_incoming_pdu, fill_gap *)
(* and upgrade each look for the event, under the federation lock)         *)
TimelineOnce ==
  count.crashes = 0 =>
    /\ \A i \in Ids : db.pduid_pdu[i] <= 1
    /\ lock = "none" /\ count.purges = 0 => Timeline = db.eventid_pduid

(* The room's graph has no dead ends besides its forward extremities: an   *)
(* event in the timeline is one, or an event there, or one purged from     *)
(* there, follows it, so what is sent next follows everything.  A crash    *)
(* while the extremities are replaced can lose them.  (extremities,        *)
(* append_pdu: the set is replaced, never added to)                        *)
NothingOrphaned ==
  lock = "none" /\ purge.todo = <<>> /\ db.shortroomid /\ count.crashes = 0 =>
    \A i \in Timeline :
      i \in db.leaves \/ \E j \in Timeline \cup db.purged : i \in Prev(j)

(* The server holds every event its current state names, and every event   *)
(* that the state at an event of the timeline names.  (install_state runs  *)
(* before the row is written, on the outlier copy; purge_history keeps     *)
(* state events)                                                           *)
StateIsHeld ==
  db.shortroomid /\ ~(lock = "delete" /\ ~Pending("evict")) =>
    /\ Values(db.room_state) \subseteq Held
    /\ \A i \in Timeline \cap DOMAIN db.event_state :
         Values(db.event_state[i]) \subseteq Held

(* An event the room's state now forbids is never shown: what is accepted  *)
(* into the timeline is authorized by the state it is accepted into.       *)
(* (architecture.md: "recorded and built upon but never shown")            *)
NeverShown ==
  [][lock = "none" /\ lock' = "fed" /\ ~fed.soft
       => AuthCheck(Ev, Ev[fed.x], db.room_state)]_vars
=============================================================================
