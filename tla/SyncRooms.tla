----------------------------- MODULE SyncRooms ------------------------------
(***************************************************************************)
(* What a device is told of its rooms: by /sync, with the state between    *)
(* two tokens, and by sliding sync, with a cursor for every room.          *)
(***************************************************************************)
EXTENDS Integers, FiniteSets, FiniteSetsExt

-----------------------------------------------------------------------------
(***************************************************************************)
(* The state a /sync (v3) answer carries for one room.  An answer holds    *)
(* the last events of the window (since, next_batch] and, before them, the *)
(* state that changed between the state recorded for the token `since` and *)
(* the state before the first event it holds.  The client merges the two.  *)
(* The room's history is linear: an event's state is the one before it     *)
(* with the event applied.                                                 *)
(***************************************************************************)

CONSTANTS
    StateKeys,   \* the room's state keys, "me" (the user's membership) among them
    MaxEvents,   \* the last count drawn
    Limits,      \* the timeline limits of the client's filters
    MaxDropped   \* answers lost

ASSUME SyncStateAssumption == "me" \in StateKeys /\ Limits \subseteq Nat \ {0}

VARIABLES
    newest,     \* the global count
    history,    \* per count: the state key the event set, "message" or "other" (no event here)
    departs,    \* the counts of the user's departures
    token_states, \* roomsynctoken_shortstatehash: per token, the state or NoState
    asking,     \* the request: [pc, since, next_batch, limit, answer]
    view,       \* the client: its token, the room's state as it has it and as of when,
                \* whether it was last sent the state before the newest event, and
                \* whether it went on from a token it has no state for, the user having
                \* been out of the room
    dropped

stateVars == << newest, history, departs, token_states, asking, view, dropped >>

Counts == 1 .. MaxEvents
Latest(S) == IF S = {} THEN 0 ELSE Max(S)
Events == {n \in Counts : n <= newest /\ history[n] # "other"}

(* The state, by event, after the events at or below the count.            *)
StateAfter(c) == [k \in StateKeys |-> Latest({n \in Events : n <= c /\ history[n] = k})]
NoState == [k \in StateKeys |-> -1]

(* What is recorded with an event is the state before it.                  *)
pdu_shortstatehash(n) == StateAfter(n - 1)

JoinedAt(state) == state["me"] > 0 /\ state["me"] \notin departs

Nothing == [kind |-> "none", changed_keys |-> NoState, timeline |-> {}, whole |-> FALSE]
NotAsking == [pc |-> "idle", pos |-> 0, next_batch |-> 0, limit |-> 0, full |-> FALSE,
              answer |-> Nothing]

SyncStateInit ==
    /\ newest = 1 /\ history = [n \in Counts |-> IF n = 1 THEN "me" ELSE "other"]
    /\ departs = {} /\ token_states = [n \in Counts |-> NoState]
    /\ asking = NotAsking
    /\ view = [token |-> 0, state |-> StateAfter(0), at |-> 0, behind |-> FALSE, passed |-> FALSE]
    /\ dropped = 0

(* An event of the room, or a row elsewhere; the user leaves and rejoins.  *)
AppendEvent(key) ==
    /\ newest < MaxEvents
    /\ newest' = newest + 1
    /\ history' = [history EXCEPT ![newest'] = key]
    /\ departs' = IF key = "me" /\ JoinedAt(StateAfter(newest)) THEN departs \cup {newest'} ELSE departs
    /\ UNCHANGED << token_states, asking, view, dropped >>

(* next_batch is the count when the request is taken; without a row newer  *)
(* than its token a request waits, unless it wants the whole state.        *)
SampleNextBatch(limit, full) ==
    /\ asking.pc = "idle" /\ (view.token < newest \/ full)
    /\ asking' = [NotAsking EXCEPT !.pc = "build", !.pos = view.token, !.next_batch = newest,
                                   !.limit = limit, !.full = full]
    /\ UNCHANGED << newest, history, departs, token_states, view, dropped >>

(* The events of the window the answer carries: the last `limit`.          *)
TimelinePdus ==
    LET due == {n \in Events : asking.pos < n /\ n <= asking.next_batch}
    IN  {n \in due : Cardinality({m \in due : m > n}) < asking.limit}

shortstatehash_at_count_now == pdu_shortstatehash(Latest(Events))

(* The state before the room's newest event at or below next_batch.        *)
shortstatehash_at_count ==
    pdu_shortstatehash(Latest({n \in Events : n <= asking.next_batch}))

SinceState == IF asking.pos = 0 THEN NoState ELSE token_states[asking.pos]

IsInitial(pos) == asking.full \/ pos = NoState \/ ~JoinedAt(pos)

(* All of the state before the timeline for a client that has none, or     *)
(* that joined since; else what differs from its token's state.            *)
calculate_state_changes(pos, horizon, current) ==
    LET initial == IsInitial(pos)
    IN  [k \in StateKeys |->
            IF horizon[k] # 0 /\ (initial \/ (pos # current /\ pos[k] # horizon[k]))
            THEN horizon[k] ELSE -1]

(* What is sent: the state, less what the timeline repeats, then the       *)
(* timeline.                                                               *)
JoinedRoom(timeline, changed_keys) ==
    [kind |-> "join", timeline |-> timeline, whole |-> IsInitial(SinceState),
     changed_keys |-> [k \in StateKeys |-> IF changed_keys[k] \in timeline /\ ~asking.full
                                     THEN -1 ELSE changed_keys[k]]]

(* The answer for a joined room; its token records the state it covers.    *)
load_joined_room ==
    LET timeline == TimelinePdus
        current == shortstatehash_at_count
        horizon == IF timeline = {} THEN current ELSE pdu_shortstatehash(Min(timeline))
    IN  /\ asking.pc = "build" /\ JoinedAt(StateAfter(newest))
        /\ token_states' = [token_states EXCEPT ![asking.next_batch] = current]
        /\ asking' = [asking EXCEPT !.pc = "answer", !.answer =
               JoinedRoom(timeline, calculate_state_changes(SinceState, horizon, current))]
        /\ UNCHANGED << newest, history, departs, view, dropped >>

(* The answer for a room the user left: the state at the departure, unless *)
(* it was told already or lies past next_batch.                            *)
handle_left_room ==
    LET left_count == StateAfter(newest)["me"]
        left_state == [pdu_shortstatehash(left_count) EXCEPT !["me"] = left_count]
        too_late == left_count <= asking.pos
        too_soon == left_count > asking.next_batch
    IN  /\ asking.pc = "build" /\ ~JoinedAt(StateAfter(newest))
        /\ asking' = [asking EXCEPT !.pc = "answer",
               !.answer = IF too_late \/ too_soon THEN Nothing
                          ELSE [kind |-> "leave", timeline |-> {},
                                whole |-> asking.full \/ SinceState = NoState,
                                changed_keys |-> [k \in StateKeys |->
                                    IF asking.full \/ SinceState[k] # left_state[k]
                                    THEN left_state[k] ELSE -1]]]
        /\ UNCHANGED << newest, history, departs, token_states, view, dropped >>

(* The client merges the state, then the timeline.                         *)
MergeAnswer ==
    LET answer == asking.answer
        merged == [k \in StateKeys |->
            IF \E n \in answer.timeline : history[n] = k
            THEN Max({n \in answer.timeline : history[n] = k})
            ELSE IF answer.changed_keys[k] = -1 THEN view.state[k] ELSE answer.changed_keys[k]]
    IN  /\ asking.pc = "answer"
        /\ view' = [token |-> asking.next_batch,
                    state |-> merged,
                    at |-> CASE answer.kind = "join" -> asking.next_batch
                             [] answer.kind = "leave" -> merged["me"]
                             [] OTHER -> view.at,
                    behind |-> /\ answer.kind # "leave" /\ answer.timeline = {}
                               /\ view.behind \/ answer.whole,
                    passed |-> ~answer.whole /\ (view.passed \/ view.at < view.token)]
        /\ asking' = NotAsking
        /\ UNCHANGED << newest, history, departs, token_states, dropped >>

DropAnswer ==
    /\ asking.pc = "answer" /\ dropped < MaxDropped
    /\ dropped' = dropped + 1 /\ asking' = NotAsking
    /\ UNCHANGED << newest, history, departs, token_states, view >>

SyncStateNext ==
    \/ \E key \in StateKeys \cup {"message", "other"} : AppendEvent(key)
    \/ \E limit \in Limits, full \in BOOLEAN : SampleNextBatch(limit, full)
    \/ load_joined_room \/ handle_left_room \/ MergeAnswer \/ DropAnswer

(* A client that merges the answers it receives holds the room's state as  *)
(* of the position they cover, however short their timelines, whichever    *)
(* answers were lost and whatever was stored while one was being built.    *)
(* Excepted are a client that was sent the whole state with no event (that *)
(* state is the one before the newest event) until the next event, and one *)
(* whose token is of a time the user was out of the room, until the whole  *)
(* state is sent: another answer may have recorded a state for that token. *)
ClientHasState == ~view.behind /\ ~view.passed => view.state = StateAfter(view.at)

-----------------------------------------------------------------------------
(***************************************************************************)
(* Simplified sliding sync: one connection of one device.  The server      *)
(* keeps, per room, the cursor `roomsince` up to which the room was        *)
(* delivered, in a cache before a table; the client keeps a position, the  *)
(* global count its last answer was built at.  Answers are lost, rooms     *)
(* fail, the server restarts and the connection expires, while events,     *)
(* receipts and departures go on between the steps of a request.           *)
(*                                                                         *)
(* A timeline event, a receipt and an account data row are the count they  *)
(* are stored under.  Rows are drawn and stored in one step here: rows     *)
(* drawn and not yet stored are the subject of SyncPoll.                   *)
(***************************************************************************)

CONSTANTS
    SlideRooms,   \* the user's rooms; a room id is a number, so that rooms are sorted
    AskConfigs,   \* what the client may ask: [width |-> rooms of its list, sub |-> rooms]
    MaxRows,      \* the last count drawn
    MaxSlips,     \* lost answers, failed rooms, failed writes, restarts, expiries
    ListLimit,    \* timeline_limit of the client's list
    SubLimit      \* timeline_limit of its subscriptions

ASSUME SlidingAssumption ==
    /\ SlideRooms \subseteq Nat /\ IsFiniteSet(SlideRooms)
    /\ ListLimit \in Nat \ {0} /\ SubLimit \in Nat \ {0}

VARIABLES
    tick,       \* the global count
    log,        \* per room: its timeline
    keyed,      \* the timeline events that set the room's required state
    receipt,    \* per room: the user's own receipt, 0 for none
    left,       \* per room: the count of the user's departure, 0 while joined
    global,     \* the user's newest global account data row
    cache,      \* the connection in memory
    table,      \* the connection in userdeviceconnid_slidingsync
    req,        \* the request in progress, with its answer once it is built
    client,     \* its position, what it was given, the gaps it was told of, its cursors
    overtaken,  \* history: events a pass left out because a newer one was stored meanwhile
    excused,    \* history: events passed by a retraction, or by rewinding after a lost answer
    slips

slideRows == << log, keyed, receipt, left, global >>
slideVars == << tick, slideRows, cache, table, req, client, overtaken, excused, slips >>

Newest(S) == IF S = {} THEN 0 ELSE Max(S)
Between(S, a, b) == {n \in S : a < n /\ n <= b}
Zero == [r \in SlideRooms |-> 0]

Connection == [known |-> TRUE, roomsince |-> Zero, config_hash |-> Zero, width |-> 0, sub |-> {}]
NoConnection == [Connection EXCEPT !.known = FALSE]
Response == [got |-> {}, gaps |-> {}, pos |-> 0]
IdleRequest == [pc |-> "idle", globalsince |-> 0, next_batch |-> 0,
                conn |-> NoConnection, window |-> {}, listed |-> {}, gone |-> {},
                payload_count |-> Zero, response |-> Response]
NewClient == [pos |-> 0, got |-> {}, gaps |-> {}, upto |-> Zero]

SlideInit ==
    /\ tick = 0 /\ log = [r \in SlideRooms |-> {}] /\ keyed = {}
    /\ receipt = Zero /\ left = Zero /\ global = 0
    /\ cache = NoConnection /\ table = NoConnection
    /\ req = IdleRequest /\ client = NewClient
    /\ overtaken = {} /\ excused = {} /\ slips = 0

Slip == slips < MaxSlips /\ slips' = slips + 1

(***************************************************************************)
(* What happens in the rooms.                                              *)
(***************************************************************************)
Others == << cache, table, req, client, overtaken, excused, slips >>

(* An event is stored, setting the room's required state or not; joining   *)
(* again is such an event.                                                 *)
RoomGains(r, sets) ==
    /\ tick < MaxRows
    /\ tick' = tick + 1
    /\ log' = [log EXCEPT ![r] = @ \cup {tick'}]
    /\ keyed' = IF sets THEN keyed \cup {tick'} ELSE keyed
    /\ left' = [left EXCEPT ![r] = 0]
    /\ UNCHANGED << receipt, global, Others >>

(* The user reads the room: a receipt, then the stamp that zeroes the      *)
(* room's counts, one count later.                                         *)
ReadRoom(r) ==
    /\ tick + 1 < MaxRows /\ left[r] = 0 /\ log[r] # {}
    /\ tick' = tick + 2
    /\ receipt' = [receipt EXCEPT ![r] = tick + 1]
    /\ UNCHANGED << log, keyed, left, global, Others >>

last_notification_read(r) == IF receipt[r] = 0 THEN 0 ELSE receipt[r] + 1

LeaveRoom(r) ==
    /\ tick < MaxRows /\ left[r] = 0 /\ log[r] # {}
    /\ tick' = tick + 1
    /\ left' = [left EXCEPT ![r] = tick']
    /\ UNCHANGED << log, keyed, receipt, global, Others >>

SetGlobal ==
    /\ tick < MaxRows
    /\ tick' = tick + 1 /\ global' = tick'
    /\ UNCHANGED << log, keyed, receipt, left, Others >>

(***************************************************************************)
(* The connection.                                                         *)
(***************************************************************************)

(* The cached connection, or else the stored one.                          *)
LoadedConnection == IF cache.known THEN cache ELSE table

(* Merges the request's list and subscriptions into the connection.        *)
update_cache(conn, asked) == [conn EXCEPT !.width = asked.width, !.sub = asked.sub]
config_changed(conn, asked) == conn.width # asked.width \/ conn.sub # asked.sub

update_rooms_prologue_keeps_cursor(conn, pos) == conn

(* Rooms delivered past the client's position are rewound to it.           *)
update_rooms_prologue(conn, pos) ==
    LET ahead == {r \in SlideRooms : pos # 0 /\ conn.roomsince[r] > pos}
    IN  [conn EXCEPT !.roomsince = [r \in SlideRooms |-> IF r \in ahead THEN pos ELSE @[r]],
                     !.config_hash = [r \in SlideRooms |-> IF r \in ahead THEN 0 ELSE @[r]]]

(* The rooms of `complete` are delivered up to next_batch; those with a    *)
(* payload were delivered under the configuration `hash`.                  *)
update_rooms_epilogue(conn, next_batch, complete, paid, hash) ==
    [conn EXCEPT
        !.roomsince = [r \in SlideRooms |-> IF r \in complete THEN next_batch ELSE @[r]],
        !.config_hash = [r \in SlideRooms |-> IF r \in paid THEN hash[r] ELSE @[r]]]

(* The connection replaces the cached one; its row is written when it      *)
(* changed, and a write that fails leaves the old row.                     *)
StoreConnection(conn) ==
    /\ cache' = conn
    /\ \/ table' = conn /\ UNCHANGED slips
       \/ table' = table /\ table # conn /\ Slip

(***************************************************************************)
(* A request.                                                              *)
(***************************************************************************)

(* A position without a connection is refused, and the client starts over. *)
RefuseUnknownPos ==
    /\ req.pc = "idle" /\ client.pos # 0 /\ ~LoadedConnection.known
    /\ client' = NewClient
    /\ UNCHANGED << tick, slideRows, cache, table, req, overtaken, excused, slips >>

(* Loads the connection and fixes next_batch.  A changed configuration of  *)
(* a client that is caught up draws a new position to answer under.        *)
sync_events_v5_route(asked) ==
    LET pos == client.pos
        conn == IF pos = 0 THEN Connection ELSE LoadedConnection
        changed == config_changed(conn, asked)
        draws == changed /\ pos # 0 /\ pos >= tick
        next_batch == IF draws THEN tick + 1 ELSE tick
        rewound == update_rooms_prologue(update_cache(conn, asked), pos)
    IN  /\ req.pc = "idle" /\ (pos = 0 \/ conn.known)
        /\ draws => tick < MaxRows
        /\ tick' = next_batch
        /\ req' = [IdleRequest EXCEPT !.pc = "select", !.conn = rewound,
                                      !.globalsince = Min({pos, tick}),
                                      !.next_batch = next_batch]
        /\ IF pos = 0
           THEN cache' = NoConnection /\ table' = NoConnection
           ELSE UNCHANGED << cache, table >>
        /\ excused' = excused \cup
               UNION {Between(log[r] \cup {receipt[r]}, client.upto[r], pos) :
                          r \in {q \in SlideRooms : conn.roomsince[q] > pos}}
        /\ UNCHANGED << slideRows, client, overtaken, slips >>

(* A count past next_batch is left to the next pass.                       *)
bounded_count(n) == IF n <= req.next_batch THEN n ELSE 0

(* What orders a room, and what makes its payload due.                     *)
event_count(r) == bounded_count(IF left[r] # 0 THEN left[r] ELSE Newest(log[r]))
payload_count(r) ==
    IF left[r] # 0 THEN bounded_count(left[r])
    ELSE Max({bounded_count(Newest(log[r])), bounded_count(last_notification_read(r))})

(* Newest first, then by room id.                                          *)
room_sort(a, b) == event_count(a) > event_count(b) \/ (event_count(a) = event_count(b) /\ a < b)

Joined == {r \in SlideRooms : left[r] = 0 /\ log[r] # {}}

(* The first `width` rooms of the list.                                    *)
select_list_range(width) == {r \in Joined : Cardinality({q \in Joined : room_sort(q, r)}) < width}

(* Departures from rooms that were delivered.                              *)
Retractions ==
    {r \in SlideRooms : /\ left[r] # 0 /\ req.conn.roomsince[r] # 0
                        /\ payload_count(r) > req.conn.roomsince[r]}

(* The request between two passes, and with its answer on the way.         *)
AtWait(conn) == [IdleRequest EXCEPT !.pc = "wait", !.conn = conn, !.globalsince = req.globalsince,
                                    !.next_batch = req.next_batch]
SlideAnswer(conn, response) ==
    [IdleRequest EXCEPT !.pc = "answered", !.conn = conn, !.response = response]

(* The rooms of this pass.  A room whose probe fails is due.               *)
selector(failed) ==
    LET conn == req.conn
        listed == select_list_range(conn.width)
        subscribed == {r \in conn.sub : log[r] # {}}
    IN  /\ req.pc = "select"
        /\ IF failed = {} THEN UNCHANGED slips ELSE Slip
        /\ failed \subseteq listed
        /\ req' = IF req.globalsince = req.next_batch THEN AtWait(conn) ELSE [req EXCEPT
               !.pc = "collect",
               !.window = Retractions \cup subscribed \cup listed,
               !.listed = listed,
               !.gone = {r \in SlideRooms : left[r] # 0},
               !.payload_count = [r \in SlideRooms |->
                   IF r \in failed THEN req.next_batch ELSE payload_count(r)]]
        /\ UNCHANGED << tick, slideRows, cache, table, client, overtaken, excused >>

(* The limit of the room's timeline, from its list and its subscription;   *)
(* with the required state, which no request changes here, it is what the  *)
(* configuration hash stands for.                                          *)
merged_room_details(r) ==
    Max({0} \cup (IF r \in req.listed THEN {ListLimit} ELSE {})
            \cup (IF r \in req.conn.sub THEN {SubLimit} ELSE {}))
room_config(r) == merged_room_details(r) + 1

RoomConfigChanged(r) == req.conn.config_hash[r] # room_config(r)
payload_is_fresh(r) ==
    \/ req.conn.roomsince[r] = 0
    \/ req.payload_count[r] > req.conn.roomsince[r]
    \/ RoomConfigChanged(r)

(* The last `limit` events of the range, and whether there were more.      *)
load_timeline(r) ==
    LET due == Between(log[r], req.conn.roomsince[r], req.next_batch)
    IN  {n \in due : Cardinality({m \in due : m > n}) < merged_room_details(r)}

(* The required state the room has now: all of it on a first or a          *)
(* reconfigured delivery, and else what is newer than the cursor or        *)
(* differs from the state before the last event at the cursor.             *)
collect_required_state(r) ==
    LET pos == req.conn.roomsince[r]
        now == Newest(log[r] \cap keyed)
        latest == Newest(Between(log[r], 0, req.next_batch))
        anchor == Newest(Between(log[r], 0, pos))
        full == pos = 0 \/ RoomConfigChanged(r)
    IN  IF now # 0 /\ (full \/ (latest > pos /\ (now > pos \/ now = anchor)))
        THEN {now} ELSE {}

(* A joined room's payload, and one that only tells the user left.         *)
handle_room(r) ==
    LET sent == load_timeline(r)
        due == Between(log[r], req.conn.roomsince[r], req.next_batch)
    IN  [got |-> sent \cup collect_required_state(r), gaps |-> due \ sent]
leave_or_ban_response(r) ==
    [got |-> Between({left[r]}, req.conn.roomsince[r], req.next_batch),
     gaps |-> Between(log[r], req.conn.roomsince[r], req.next_batch)]

Payload(r) == IF r \in req.gone THEN leave_or_ban_response(r) ELSE handle_room(r)

ReceiptsDue(r) == Between({receipt[r]}, req.conn.roomsince[r], req.next_batch)
GlobalDue == Between({global}, req.globalsince, req.next_batch)

(* Assembles every room of the window that does not fail, over             *)
(* (roomsince, next_batch], and the extensions over                        *)
(* (globalsince, next_batch]; answers unless there is nothing to tell.     *)
collect(failed) ==
    LET complete == req.window \ failed
        paid == {r \in complete : payload_is_fresh(r)}
        unpaid == complete \ paid
        got == UNION {Payload(r).got : r \in paid}
                 \cup UNION {ReceiptsDue(r) : r \in complete} \cup GlobalDue
        conn == update_rooms_epilogue(req.conn, req.next_batch, complete, paid,
                    [r \in SlideRooms |-> room_config(r)])
        empty == paid = {} /\ got = {}
        response == [got |-> got, gaps |-> UNION {Payload(r).gaps : r \in paid},
                     pos |-> req.next_batch]
    IN  /\ req.pc = "collect" /\ failed \subseteq req.window
        /\ IF empty
           THEN /\ req' = AtWait(conn)
                /\ IF failed = {} THEN UNCHANGED slips ELSE Slip
                /\ UNCHANGED << cache, table >>
           ELSE /\ req' = SlideAnswer(conn, response)
                /\ IF failed = {} THEN StoreConnection(conn)
                   ELSE Slip /\ cache' = conn /\ table' = conn
        /\ overtaken' = overtaken \cup
               UNION {Between(log[r], req.conn.roomsince[r], req.next_batch) : r \in unpaid}
        /\ excused' = excused \cup UNION {Payload(r).gaps : r \in paid \cap req.gone}
        /\ UNCHANGED << tick, slideRows, client >>

(* Nothing woke the request before its timeout: an empty answer.           *)
AnswerEmpty ==
    /\ req.pc = "wait"
    /\ req' = SlideAnswer(req.conn, [Response EXCEPT !.pos = req.next_batch])
    /\ StoreConnection(req.conn)
    /\ UNCHANGED << tick, slideRows, client, overtaken, excused >>

(* A row stored since the sample wakes the request for another pass.       *)
Wake ==
    /\ req.pc = "wait" /\ tick > req.next_batch
    /\ req' = [req EXCEPT !.pc = "select", !.globalsince = req.next_batch, !.next_batch = tick]
    /\ UNCHANGED << tick, slideRows, cache, table, client, overtaken, excused, slips >>

(***************************************************************************)
(* The client and the server's end.                                        *)
(***************************************************************************)
Receive ==
    /\ req.pc = "answered"
    /\ client' = [pos |-> req.response.pos, got |-> client.got \cup req.response.got,
                  gaps |-> client.gaps \cup req.response.gaps, upto |-> req.conn.roomsince]
    /\ req' = IdleRequest
    /\ UNCHANGED << tick, slideRows, cache, table, overtaken, excused, slips >>

(* The request is given up, or its answer lost; the client asks again from *)
(* its old position.                                                       *)
Lose ==
    /\ req.pc # "idle" /\ Slip
    /\ req' = IdleRequest
    /\ UNCHANGED << tick, slideRows, cache, table, client, overtaken, excused >>

RestartServer ==
    /\ Slip
    /\ req' = IdleRequest /\ cache' = NoConnection
    /\ UNCHANGED << tick, slideRows, table, client, overtaken, excused >>

(* The worker deletes a connection left unused too long.                   *)
expire_connections ==
    /\ Slip /\ req.pc = "idle" /\ table.known
    /\ cache' = NoConnection /\ table' = NoConnection
    /\ UNCHANGED << tick, slideRows, req, client, overtaken, excused >>

SlideNext ==
    \/ \E r \in SlideRooms, sets \in BOOLEAN : RoomGains(r, sets)
    \/ \E r \in SlideRooms : ReadRoom(r) \/ LeaveRoom(r)
    \/ SetGlobal
    \/ RefuseUnknownPos
    \/ \E asked \in AskConfigs : sync_events_v5_route(asked)
    \/ \E failed \in SUBSET SlideRooms : selector(failed) \/ collect(failed)
    \/ AnswerEmpty \/ Wake \/ Receive \/ Lose \/ RestartServer \/ expire_connections

(***************************************************************************)
(* Properties.                                                             *)
(***************************************************************************)

(* Whether the client has the event, or was told the timeline has a gap    *)
(* there; a gap over required state still owes the state.                  *)
Delivered(r, n) ==
    \/ n \in client.got
    \/ n \in client.gaps /\ (n \in keyed => \E m \in log[r] \cap keyed :
                                 m >= n /\ m \in client.got \cup excused \cup overtaken)

(* No room's cursor passes what was not delivered: what lies below the     *)
(* cursors of the last answer the client has was given to it, whatever     *)
(* windows it asked for and whichever answers, rooms, writes or server     *)
(* failed.  Excused are the events passed while a newer one was being      *)
(* stored, and those passed by a retraction or a rewind after a lost       *)
(* answer.                                                                 *)
CursorIsDelivered ==
    \A r \in SlideRooms :
        /\ \A n \in log[r] : n <= client.upto[r] /\ n \notin overtaken \cup excused
               => Delivered(r, n)
        /\ receipt[r] # 0 /\ receipt[r] <= client.upto[r] => receipt[r] \in client.got \cup excused

(* roomsince never advances past an event that was not sent, as handle_room *)
(* says of a failed load.                                                  *)
NeverPastUnsent ==
    \A r \in SlideRooms : \A n \in log[r] :
        n <= client.upto[r] /\ n \notin excused => Delivered(r, n)
=============================================================================
