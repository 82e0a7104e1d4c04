----------------------------- MODULE Membership -----------------------------
(***************************************************************************)
(* Who is in a room: joins, leaves, knocks, invites, kicks and bans asked  *)
(* for here and at another server, and the membership cache they keep.     *)
(* (crates/phantom-service/src/rooms: membership, state_cache;             *)
(* crates/phantom-api/src/client/rooms/membership, server/membership)      *)
(*                                                                         *)
(* One room, this server and one other that holds the room too.  A request *)
(* is a slot.  It keeps the room's federation lock and its state lock over *)
(* the calls it makes to the other server, as the code does; what a holder *)
(* of the state lock writes without calling out is one step (Room splits   *)
(* those writes).  An event is its membership and a stamp.  The member     *)
(* part of the authorization rules is reduced to one operator (StateRes    *)
(* has them in full), and what this server sends into the room is at the   *)
(* other server at once (Sending has the delivery).                        *)
(***************************************************************************)
EXTENDS Naturals, FiniteSets

CONSTANTS
  Locals,        \* users of this server
  Remotes,       \* users of the other server
  Mods,          \* users who may kick, ban and unban
  Ignores,       \* pairs <<sender, user>>: the user ignores the sender
  Guests,        \* local users who are guests
  Confs,         \* join rules and configurations: rule, auto, delete, forced
  Requests,      \* what clients ask for: op, by and about whom
  Slots,         \* requests that may be under way at once: 1 .. n
  MaxJoinTries,  \* max_join_attempts_per_join_request
  MaxAccepts,    \* ATTEMPTS
  MaxRequests,   \* requests of clients
  MaxRemote      \* member events the other server makes of its own accord

Users == Locals \cup Remotes

ASSUME MembershipAssumption ==
  /\ Locals \cap Remotes = {}
  /\ Mods \subseteq Users
  /\ Ignores \subseteq Users \X Users
  /\ Confs \subseteq [rule : {"public", "invite", "knock", "restricted"},
                      auto : BOOLEAN, delete : BOOLEAN, forced : BOOLEAN]
  /\ {MaxJoinTries, MaxAccepts} \subseteq Nat \ {0}

VARIABLES
  db,      \* the room's tables, below
  there,   \* the member events of the room at the other server
  conf,    \* the room's join rule, and auto_accept_invites,
           \* delete_rooms_after_leave and forget_forced_upon_leave
  fed, st, \* the slot that holds the federation lock, the state lock
  slot,    \* the requests under way
  inbox,   \* what the other server has sent and this one not handled
  queue,   \* invites to be accepted without asking the user
  stamp,   \* of the latest event
  count,   \* requests made, and events the other server made
  declined,\* users who declined their last invite, where the call was answered
  adrift   \* users whose cached membership was last set without an event

mvars == <<db, there, conf, fed, st, slot, inbox, queue, stamp, count, declined, adrift>>

NoEvent == [m |-> "none", n |-> 0]
Free == 0
Rest == [op |-> "none", by |-> "none", u |-> "none", pc |-> "rest", auto |-> FALSE,
         tries |-> 0, m |-> "none", e |-> NoEvent, snap |-> [u \in Users |-> NoEvent]]

Host(u) == IF u \in Locals THEN "here" ELSE "there"

Counted(row) == [joined |-> Cardinality({u \in Users : row[u] = "joined"}),
                 invited |-> Cardinality({u \in Users : row[u] = "invited"}),
                 servers |-> {Host(u) : u \in {v \in Users : row[v] = "joined"}}]

\* A room here with its creator, or one only the other server has.
MembershipInit ==
  /\ \E home \in {"here", "there"} :
       \E first \in Mods :
         LET joins == [u \in Users |-> IF u = first THEN [m |-> "join", n |-> 1] ELSE NoEvent]
             row == [u \in Users |-> IF u = first /\ home = "here" THEN "joined" ELSE "none"]
         IN /\ Host(first) = home
            /\ there = joins
            /\ db = [known |-> home = "here", banned |-> FALSE, pending |-> "none",
                     state |-> IF home = "here" THEN joins ELSE [u \in Users |-> NoEvent],
                     row |-> row, counts |-> Counted(row),
                     once |-> IF home = "here" THEN {first} ELSE {}]
  /\ conf \in Confs
  /\ fed = Free /\ st = Free
  /\ slot = [p \in Slots |-> Rest]
  /\ inbox = {} /\ queue = {}
  /\ stamp = 1 /\ count = [asked |-> 0, remote |-> 0]
  /\ declined = {} /\ adrift = {}

-----------------------------------------------------------------------------
(* The membership cache. *)

is_joined(u) == db.row[u] = "joined"
is_invited(u) == db.row[u] = "invited"
is_knocked(u) == db.row[u] = "knocked"
is_left(u) == db.row[u] = "left"

local_users_in_room == {u \in Locals : is_joined(u)}
room_members_invited == {u \in Users : is_invited(u)}
server_in_room(host) == host \in db.counts.servers
present == server_in_room("here")

update_joined_count(d) == [d EXCEPT !.counts = Counted(d.row)]

forget_row(d, u) == [d EXCEPT !.row[u] = IF @ = "left" THEN "none" ELSE @]

mark_as(d, u, row) == [d EXCEPT !.row[u] = row]

\* The first join also copies the user's settings from the room's predecessor.
mark_as_joined(d, u) == [mark_as(d, u, "joined") EXCEPT !.once = @ \cup {u}]

mark_as_left(d, u) ==
  IF u \in Locals /\ (conf.forced \/ d.banned)
  THEN forget_row(mark_as(d, u, "left"), u)
  ELSE mark_as(d, u, "left")

(* Mutant: the user's own leave is recorded and the joined servers are not. *)
update_membership_uncounted(d, u, m, by, counting) ==
  CASE m = "join" -> update_joined_count(mark_as_joined(d, u))
    [] m = "invite" -> update_joined_count(mark_as(d, u, "invited"))
    [] m = "knock" -> mark_as(d, u, "knocked")
    [] OTHER -> mark_as_left(d, u)

\* An invite from someone the user ignores changes nothing.
update_membership(d, u, m, by, counting) ==
  LET marked == CASE m = "join" -> mark_as_joined(d, u)
                  [] m = "invite" -> mark_as(d, u, "invited")
                  [] m = "knock" -> mark_as(d, u, "knocked")
                  [] OTHER -> mark_as_left(d, u)
  IN IF m = "invite" /\ <<by, u>> \in Ignores THEN d
     ELSE IF counting THEN update_joined_count(marked) ELSE marked

delete_room_memberships(d) ==
  [d EXCEPT !.known = FALSE, !.once = {}, !.pending = "none",
            !.state = [u \in Users |-> NoEvent],
            !.row = [u \in Users |-> IF u \in Locals /\ @[u] = "left" THEN "left" ELSE "none"],
            !.counts = Counted([u \in Users |-> "none"])]

-----------------------------------------------------------------------------
(* Events. *)

\* Whether the room lets by make u's membership m, given the member events s.
authorized(s, by, u, m) ==
  CASE m = "join" -> /\ by = u /\ s[u].m # "ban"
                     /\ conf.rule = "public" \/ s[u].m \in {"invite", "join"}
    [] m = "knock" -> by = u /\ conf.rule = "knock" /\ s[u].m \notin {"ban", "invite", "join"}
    [] m = "invite" -> s[by].m = "join" /\ s[u].m \notin {"join", "ban"}
    [] m = "leave" -> \/ by = u /\ s[u].m \in {"join", "invite", "knock"}
                      \/ by \in Mods /\ s[by].m = "join" /\ s[u].m # "none"
    [] OTHER -> by \in Mods /\ s[by].m = "join"

\* A restricted room: a member here lets in whoever is in an allowed room,
\* which guests are not.
requires_authorising_user(u) == conf.rule = "restricted" /\ ~is_joined(u) /\ ~is_invited(u)

authorizing_user(u) == requires_authorising_user(u) /\ u \notin Guests
                       /\ db.state[u].m # "ban" /\ local_users_in_room # {}

may_join(u) == db.known /\ (authorized(db.state, u, u, "join") \/ authorizing_user(u))

\* An invite to a local user may be queued to be accepted.
auto_accept(u, by, m) ==
  IF conf.auto /\ m = "invite" /\ u \in Locals THEN queue \cup {[u |-> u, by |-> by]} ELSE queue

\* Appending a member event: the cache, then the room's state, then the others.
Appended(d, u, e, by) ==
  [update_membership(d, u, e.m, by, TRUE) EXCEPT !.state[u] = e, !.known = TRUE]

New(m) == [m |-> m, n |-> stamp + 1]

\* Beside the tables: an invite may be queued, and the other server is told.
Sent(d, u, m, by) ==
  /\ stamp' = stamp + 1
  /\ queue' = auto_accept(u, by, m)
  /\ there' = IF "there" \in d.counts.servers THEN [there EXCEPT ![u] = New(m)]
              ELSE IF u \in Remotes THEN [d.state EXCEPT ![u] = New(m)] ELSE there
  /\ adrift' = adrift \ {u}
  /\ declined' = IF m = "leave" /\ is_invited(u) /\ by = u THEN declined \cup {u}
                 ELSE declined \ {u}

append(u, m, by) == db' = Appended(db, u, New(m), by) /\ Sent(db, u, m, by)

(* Mutant: only what the newcomer's state adds for remote users is cached. *)
force_state_remote_only(d, state) ==
  LET added == {u \in Remotes : state[u] # d.state[u] /\ state[u] # NoEvent}
      row == [u \in Users |-> IF u \in added
                              THEN update_membership(d, u, state[u].m, u, FALSE).row[u]
                              ELSE d.row[u]]
  IN update_joined_count([d EXCEPT !.state = state, !.row = row, !.known = TRUE])

\* Replaces the room's state; only events it did not have reach the cache.
force_state(d, state) ==
  LET added == {u \in Users : state[u] # d.state[u] /\ state[u] # NoEvent}
      row == [u \in Users |-> IF u \in added
                              THEN update_membership(d, u, state[u].m, u, FALSE).row[u]
                              ELSE d.row[u]]
      joins == {u \in added : state[u].m = "join"}
  IN update_joined_count([d EXCEPT !.state = state, !.row = row, !.known = TRUE,
                                   !.once = @ \cup joins])

\* Who is still adrift once the room's state is replaced by another.
Settled(state) == {u \in adrift : state[u] = db.state[u]}

Calm == UNCHANGED <<db, there, queue, stamp, declined, adrift>>

-----------------------------------------------------------------------------
(* Requests. *)

\* A request takes the first slot that is free.
FirstFree(p) == slot[p] = Rest /\ \A q \in Slots : q < p => slot[q] # Rest

To(p, pc) == slot' = [slot EXCEPT ![p].pc = pc]

End(p) == slot' = [slot EXCEPT ![p] = Rest]

Unlock(p) == fed' = (IF fed = p THEN Free ELSE fed) /\ st' = (IF st = p THEN Free ELSE st)

Locks == UNCHANGED <<fed, st>>

\* The other server is worth asking: it has members of the room.
Elsewhere == \E u \in Remotes : there[u].m = "join"

is_local_only == db.known /\ ~Elsewhere
is_local_join == is_local_only \/ present

\* A failed join is tried again; a queued one only while still acceptable.
JoinFails(p) ==
  LET tries == slot[p].tries + 1
      most == IF slot[p].auto THEN MaxAccepts ELSE MaxJoinTries
  IN slot' = [slot EXCEPT ![p] = IF tries >= most THEN Rest
                                 ELSE [@ EXCEPT !.pc = "join", !.tries = tries]]

banned_room_check == ~db.banned

join_room_by_id_route(r) == banned_room_check
knock_room_route(r) == banned_room_check

\* An invite of someone banned is refused; of someone the sender ignores, not sent.
invite_user_route(r) ==
  /\ banned_room_check
  /\ db.state[r.u].m # "ban"
  /\ <<r.u, r.by>> \notin Ignores
  /\ r.u \in Locals => is_joined(r.by)

\* No account is bound to the address yet.
invite_third_party(r) == banned_room_check /\ is_joined(r.by)

kick_user_route(r) == r.by # r.u

require_known_room == db.known /\ present

\* The identity server's callback, for an invite one of our users sent.
bind_callback_route(r) == r.u \in Locals /\ r.by \in Locals

\* The other server's request, for a user of its own one of ours invited.
exchange_third_party_invite_route(r) == r.u \in Remotes /\ require_known_room

\* What a user of the other server has this one make an event for.
Templates == {"make_join", "make_leave", "make_knock"}

Routed(r) ==
  CASE r.op = "join" -> join_room_by_id_route(r)
    [] r.op = "knock" -> knock_room_route(r)
    [] r.op = "invite" -> invite_user_route(r)
    [] r.op = "third_party" -> invite_third_party(r)
    [] r.op = "kick" -> kick_user_route(r)
    [] r.op = "exchange" -> bind_callback_route(r) \/ exchange_third_party_invite_route(r)
    [] r.op \in Templates -> require_known_room
    [] OTHER -> TRUE

\* A client or the other server asks; a request refused at once is none.
Request(p, r) ==
  /\ FirstFree(p) /\ count.asked < MaxRequests
  /\ Routed(r)
  /\ slot' = [slot EXCEPT ![p] = [Rest EXCEPT !.op = r.op, !.by = r.by, !.u = r.u,
                !.pc = IF r.op \in {"join", "exchange"} THEN r.op ELSE "ask"]]
  /\ count' = [count EXCEPT !.asked = @ + 1]
  /\ Calm /\ Locks /\ UNCHANGED <<conf, inbox>>

acceptable(i) == is_invited(i.u) /\ <<i.by, i.u>> \notin Ignores

\* The worker takes a queued invite and joins in the user's name.
accept(p, i) ==
  /\ FirstFree(p) /\ i \in queue
  /\ queue' = queue \ {i}
  /\ slot' = [slot EXCEPT ![p] =
       IF acceptable(i)
       THEN [Rest EXCEPT !.op = "join", !.by = i.by, !.u = i.u, !.pc = "join", !.auto = TRUE]
       ELSE Rest]
  /\ Locks /\ UNCHANGED <<db, there, conf, inbox, stamp, count, declined, adrift>>

In(p, pc) == slot[p].pc = pc

JoinStart(p) ==
  /\ In(p, "join")
  /\ IF slot[p].auto /\ ~acceptable(slot[p]) THEN End(p)
     ELSE To(p, IF is_local_join THEN "join_state" ELSE "join_fed")
  /\ Calm /\ Locks /\ UNCHANGED <<conf, inbox, count>>

\* The state lock, when the room was here; it may be gone by now.
lock_join(p) ==
  /\ In(p, "join_state") /\ st = Free
  /\ IF is_local_join THEN st' = p /\ To(p, "joining") ELSE st' = st /\ To(p, "join_fed")
  /\ Calm /\ UNCHANGED <<fed, conf, inbox, count>>

(* Mutant: the state lock is taken before the federation lock. *)
lock_join_remote_reversed(p) ==
  /\ \/ In(p, "join_fed") /\ st = Free /\ st' = p /\ fed' = fed /\ To(p, "join_fed_state")
     \/ In(p, "join_fed_state") /\ fed = Free /\ fed' = p /\ st' = st /\ To(p, "joining")
  /\ Calm /\ UNCHANGED <<conf, inbox, count>>

\* The federation lock first, as whoever accepts an event takes them.
lock_join_remote(p) ==
  /\ \/ In(p, "join_fed") /\ fed = Free /\ fed' = p /\ st' = st /\ To(p, "join_fed_state")
     \/ In(p, "join_fed_state") /\ st = Free /\ st' = p /\ fed' = fed /\ To(p, "joining")
  /\ Calm /\ UNCHANGED <<conf, inbox, count>>

guest_can_join(u) == u \in Guests => conf.rule = "public"

\* Whether the join goes to the other server, asked again under the locks.
remotely(p) == fed = p /\ ~is_local_join

\* The refusals, and a join that finds the user joined.
JoinChecked(p) ==
  LET u == slot[p].u
      refused == \/ ~guest_can_join(u)
                 \/ ~is_joined(u) /\ db.state[u].m = "ban" /\ ~is_invited(u)
  IN /\ In(p, "joining")
     /\ \/ refused /\ JoinFails(p) /\ Unlock(p)
        \/ ~refused /\ is_joined(u) /\ End(p) /\ Unlock(p)
        \/ /\ ~refused /\ ~is_joined(u)
           /\ To(p, IF remotely(p) THEN "join_ask" ELSE "join_local")
           /\ fed' = (IF fed = p /\ ~remotely(p) THEN Free ELSE fed)
           /\ UNCHANGED st
     /\ Calm /\ UNCHANGED <<conf, inbox, count>>

\* The event is built here; failing that the other server may have it made.
join_local(p) ==
  LET u == slot[p].u
  IN /\ In(p, "join_local") /\ Unlock(p)
     /\ IF may_join(u)
        THEN append(u, "join", u) /\ End(p)
        ELSE /\ IF is_local_only THEN JoinFails(p) ELSE To(p, "join_assist")
             /\ Calm
     /\ UNCHANGED <<conf, inbox, count>>

\* The other server lets the user join: make_join and send_join.
Grants(u) ==
  /\ Elsewhere
  /\ \/ authorized(there, u, u, "join")
     \/ conf.rule = "restricted" /\ there[u].m # "ban" /\ u \notin Guests

\* It signs a join of a room that is here, which is then accepted as its event.
JoinAssist(p) ==
  LET u == slot[p].u
  IN /\ In(p, "join_assist")
     /\ \/ /\ Grants(u)
           /\ stamp' = stamp + 1
           /\ there' = [there EXCEPT ![u] = [m |-> "join", n |-> stamp + 1]]
           /\ inbox' = inbox \cup {[what |-> "pdu", u |-> u, by |-> u, e |-> there'[u]]}
           /\ End(p)
        \/ JoinFails(p) /\ UNCHANGED <<there, stamp, inbox>>
     /\ Locks /\ UNCHANGED <<db, conf, queue, count, declined, adrift>>

\* Under both locks, a server is asked for an event to sign.
make_join_request(p) ==
  /\ In(p, "join_ask")
  /\ \/ Grants(slot[p].u) /\ To(p, "join_send") /\ Locks
     \/ JoinFails(p) /\ Unlock(p)
  /\ Calm /\ UNCHANGED <<conf, inbox, count>>

create_join_event == New("join")

\* It is signed and sent back; the answer is the state before it.
execute_send_join(p) ==
  LET u == slot[p].u
  IN /\ In(p, "join_send")
     /\ \/ /\ Grants(u)
           /\ stamp' = stamp + 1 /\ there' = [there EXCEPT ![u] = create_join_event]
           /\ slot' = [slot EXCEPT ![p].pc = "join_apply", ![p].snap = there,
                                  ![p].e = create_join_event]
           /\ Locks
        \/ JoinFails(p) /\ Unlock(p) /\ UNCHANGED <<there, stamp>>
     /\ UNCHANGED <<db, conf, inbox, queue, count, declined, adrift>>

\* The members left out of the answer are asked for again, which may fail
\* with the user already joined there.
fetch_omitted_state(p) ==
  /\ In(p, "join_apply")
  /\ JoinFails(p) /\ Unlock(p)
  /\ Calm /\ UNCHANGED <<conf, inbox, count>>

\* A restricted join must come back as the event that was sent.
merge_restricted_signature(p) ==
  /\ In(p, "join_apply") /\ conf.rule = "restricted"
  /\ JoinFails(p) /\ Unlock(p)
  /\ Calm /\ UNCHANGED <<conf, inbox, count>>

\* An event of the answer that does not validate is left out of its state; the
\* one tried is the joining user's own, their invite among others.
ingest_send_join_state(state, bad) == [v \in Users |-> IF v \in bad THEN NoEvent ELSE state[v]]

\* The join must be allowed by the state it came with.
auth_check_join(u, state) ==
  \/ authorized(state, u, u, "join")
  \/ conf.rule = "restricted" /\ state[u].m # "ban"

apply_state(d, state) == force_state(d, state)

\* The state is replaced by the answer's, and the join appended to it; a join
\* that state does not allow is given up, with the user already joined there.
join_remote(p) ==
  /\ In(p, "join_apply") /\ Unlock(p)
  /\ \E bad \in {{}, {slot[p].u}} :
       LET u == slot[p].u
           state == ingest_send_join_state(slot[p].snap, bad)
       IN IF auth_check_join(u, state)
          THEN /\ db' = Appended(apply_state(db, state), u, slot[p].e, u)
               /\ adrift' = Settled(state) \ {u}
               /\ End(p)
          ELSE JoinFails(p) /\ UNCHANGED <<db, adrift>>
  /\ UNCHANGED <<there, conf, inbox, queue, stamp, count, declined>>

-----------------------------------------------------------------------------
(* Leaving, knocking and what is asked for under the state lock alone. *)

Asks(p, op) == In(p, "ask") /\ slot[p].op = op

is_leaveable(m) == m \in {"invite", "join", "knock"}

\* delete_rooms_after_leave: a room no local user is in or invited to goes.
LeftRoom(d) ==
  IF conf.delete /\ \A u \in Locals : d.row[u] \notin {"joined", "invited"}
  THEN delete_room_memberships(d) ELSE d

\* The cache alone is told.
clear_local_leave(u) ==
  /\ db' = LeftRoom(update_membership(db, u, "leave", u, TRUE))
  /\ adrift' = adrift \cup {u}
  /\ UNCHANGED queue

(* Mutant: a leave goes by the member event held here, which may be stale. *)
leave_remotely_by_state(u) == ~present /\ ~is_leaveable(db.state[u].m)

\* Whether the other server must be asked: the room is not here, and the user
\* is not knocking.
leave_remotely(u) == ~present /\ ~is_knocked(u)

leave_locally(u) ==
  IF is_leaveable(db.state[u].m)
  THEN /\ db' = LeftRoom(Appended(db, u, New("leave"), u))
       /\ Sent(db, u, "leave", u)
  ELSE /\ clear_local_leave(u)
       /\ declined' = IF is_invited(u) THEN declined \cup {u} ELSE declined
       /\ UNCHANGED <<there, stamp>>

leave(p) ==
  LET u == slot[p].u
  IN /\ Asks(p, "leave") /\ st = Free
     /\ \/ /\ db.banned
           /\ clear_local_leave(u)
           /\ End(p) /\ Locks /\ UNCHANGED <<there, stamp, declined>>
        \/ /\ ~db.banned /\ leave_remotely(u)
           /\ To(p, "leave_ask") /\ st' = p
           /\ Calm /\ UNCHANGED fed
        \/ /\ ~db.banned /\ ~leave_remotely(u)
           /\ leave_locally(u)
           /\ End(p) /\ Locks
     /\ UNCHANGED <<conf, inbox, count>>

\* make_leave and send_leave; whatever comes of them the user has left.
remote_leave(p) ==
  LET u == slot[p].u
  IN /\ In(p, "leave_ask")
     /\ \/ /\ Elsewhere /\ authorized(there, u, u, "leave")
           /\ stamp' = stamp + 1 /\ there' = [there EXCEPT ![u] = New("leave")]
           /\ declined' = IF is_invited(u) THEN declined \cup {u} ELSE declined
        \/ UNCHANGED <<there, stamp, declined>>
     /\ clear_local_leave(u)
     /\ End(p) /\ Unlock(p) /\ UNCHANGED <<conf, inbox, count>>

\* Built here, or else, with the state lock kept, asked of the other server.
knock_local(p) ==
  LET u == slot[p].u
  IN \/ authorized(db.state, u, u, "knock") /\ append(u, "knock", u) /\ End(p) /\ Locks
     \/ ~authorized(db.state, u, u, "knock") /\ is_local_only /\ End(p) /\ Calm /\ Locks
     \/ /\ ~authorized(db.state, u, u, "knock") /\ ~is_local_only
        /\ To(p, "knock_ask") /\ st' = p /\ Calm /\ UNCHANGED fed

knock(p) ==
  LET u == slot[p].u
      refused == is_invited(u) \/ is_joined(u) \/ db.state[u].m = "ban"
      again == present /\ is_knocked(u)
  IN /\ Asks(p, "knock") /\ st = Free
     /\ \/ (refused \/ again) /\ End(p) /\ Calm /\ Locks
        \/ ~refused /\ ~again /\ is_local_join /\ knock_local(p)
        \/ /\ ~refused /\ ~again /\ ~is_local_join
           /\ To(p, "knock_ask") /\ st' = p /\ Calm /\ UNCHANGED fed
     /\ UNCHANGED <<conf, inbox, count>>

\* The few events of the answer, the knock among them.
ingest_send_knock_state(u) == [v \in Users |-> IF v = u THEN New("knock") ELSE NoEvent]

\* In a room that is here only the cache and the timeline learn of the knock.
finalize_knock(u) ==
  /\ db' = update_membership(db, u, "knock", u, TRUE)
  /\ adrift' = adrift \cup {u}

\* A room that is not here gets the answer as its state.
knock_remote(u) ==
  LET stripped == ingest_send_knock_state(u)
  IN /\ db' = Appended(apply_state(db, stripped), u, New("knock"), u)
     /\ adrift' = Settled(stripped) \ {u}

\* A server of the room is asked for an event to sign.
make_knock_request(p) ==
  /\ In(p, "knock_ask")
  /\ \/ /\ Elsewhere /\ authorized(there, slot[p].u, slot[p].u, "knock")
        /\ To(p, "knock_send") /\ Locks
     \/ End(p) /\ Unlock(p)
  /\ Calm /\ UNCHANGED <<conf, inbox, count>>

build_knock_event == New("knock")

\* It is signed and sent back, and what is known here of the room is brought
\* up to it.
execute_send_knock(p) ==
  LET u == slot[p].u
  IN /\ In(p, "knock_send")
     /\ \/ /\ Elsewhere /\ authorized(there, u, u, "knock")
           /\ stamp' = stamp + 1 /\ there' = [there EXCEPT ![u] = build_knock_event]
           /\ IF present THEN finalize_knock(u) ELSE knock_remote(u)
        \/ UNCHANGED <<there, stamp, db, adrift>>
     /\ End(p) /\ Unlock(p)
     /\ UNCHANGED <<conf, inbox, queue, count, declined>>

knock_over_federation(p) == make_knock_request(p) \/ execute_send_knock(p)

\* A member event from one user about another, if the rules let it.
build_and_append_pdu(r, m) ==
  IF authorized(db.state, r.by, r.u, m) THEN append(r.u, m, r.by) ELSE Calm

kick(r) == r.op = "kick" /\ IF is_leaveable(db.state[r.u].m) THEN build_and_append_pdu(r, "leave") ELSE Calm
ban(r) == r.op = "ban" /\ build_and_append_pdu(r, "ban")
unban(r) == r.op = "unban" /\ IF db.state[r.u].m = "ban" THEN build_and_append_pdu(r, "leave") ELSE Calm
local_invite(r) == r.op = "invite" /\ r.u \in Locals /\ build_and_append_pdu(r, "invite")

Moderate(p) ==
  /\ In(p, "ask") /\ st = Free
  /\ kick(slot[p]) \/ ban(slot[p]) \/ unban(slot[p]) \/ local_invite(slot[p])
  /\ End(p) /\ Locks /\ UNCHANGED <<conf, inbox, count>>

\* Takes no lock, and only ever drops the row of a room left.
forget_room_route(p) ==
  /\ Asks(p, "forget")
  /\ db' = forget_row(db, slot[p].u)
  /\ End(p) /\ Locks /\ UNCHANGED <<there, conf, inbox, queue, stamp, count, declined, adrift>>

-----------------------------------------------------------------------------
(* Third-party invites. *)

send_third_party_invite(p) ==
  /\ Asks(p, "third_party") /\ st = Free
  /\ db' = IF db.state[slot[p].by].m = "join" THEN [db EXCEPT !.pending = "pending"] ELSE db
  /\ End(p) /\ Locks /\ UNCHANGED <<there, conf, inbox, queue, stamp, count, declined, adrift>>

\* The pending invite is looked up, used and revoked, each on its own.
exchange_third_party_invite(p) ==
  LET r == slot[p]
  IN /\ \/ /\ In(p, "exchange")
           /\ IF db.pending = "pending" /\ ~is_joined(r.u) /\ ~is_invited(r.u)
              THEN To(p, "exchange_invite") ELSE End(p)
           /\ Calm
        \/ /\ In(p, "exchange_invite") /\ st = Free
           /\ IF db.pending = "pending" /\ authorized(db.state, r.by, r.u, "invite")
              THEN append(r.u, "invite", r.by) /\ To(p, "revoke")
              ELSE Calm /\ End(p)
        \/ /\ In(p, "revoke") /\ st = Free
           /\ db' = IF db.state[r.by].m = "join" THEN [db EXCEPT !.pending = "revoked"] ELSE db
           /\ End(p) /\ UNCHANGED <<there, queue, stamp, declined, adrift>>
     /\ Locks /\ UNCHANGED <<conf, inbox, count>>

-----------------------------------------------------------------------------
(* With the other server. *)

\* An invite of its user is signed there before it is accepted here.
remote_invite(p) ==
  LET r == slot[p]
  IN /\ \/ /\ Asks(p, "invite") /\ r.u \in Remotes /\ st = Free
           /\ IF authorized(db.state, r.by, r.u, "invite") THEN To(p, "invite_sent") ELSE End(p)
        \/ /\ In(p, "invite_sent")
           /\ \/ slot' = [slot EXCEPT ![p].pc = "accept", ![p].m = "invite"]
              \/ End(p)
     /\ Calm /\ Locks /\ UNCHANGED <<conf, inbox, count>>

\* Templates for its users, refused when the event would be.
create_join_event_template(u) == may_join(u)
create_leave_event_template(u) == authorized(db.state, u, u, "leave")
create_knock_event_template(u) == authorized(db.state, u, u, "knock")

make_membership(p) ==
  LET r == slot[p]
      make(op, m, made) ==
        r.op = op /\ IF made THEN slot' = [slot EXCEPT ![p].pc = "send", ![p].m = m] ELSE End(p)
  IN /\ In(p, "ask") /\ r.op \in Templates /\ st = Free
     /\ \/ make("make_join", "join", create_join_event_template(r.u))
        \/ make("make_leave", "leave", create_leave_event_template(r.u))
        \/ make("make_knock", "knock", create_knock_event_template(r.u))
     /\ Calm /\ Locks /\ UNCHANGED <<conf, inbox, count>>

\* The event comes back signed: it must be the user's own, of the kind asked
\* for, and the room still here.
parse_membership_event(m, expected) == m = expected

accept_sent(p, m, expected) ==
  /\ slot[p].m = expected
  /\ IF require_known_room /\ parse_membership_event(m, expected) THEN To(p, "accept") ELSE End(p)

create_join_event_v2_route(p, m) == accept_sent(p, m, "join")
create_leave_event_v2_route(p, m) == accept_sent(p, m, "leave")
create_knock_event_v1_route(p, m) == accept_sent(p, m, "knock")

send_membership(p) ==
  /\ In(p, "send")
  /\ \E m \in {"join", "leave", "knock"} :
       create_join_event_v2_route(p, m) \/ create_leave_event_v2_route(p, m)
       \/ create_knock_event_v1_route(p, m)
  /\ Calm /\ Locks /\ UNCHANGED <<conf, inbox, count>>

lock_federation(p) ==
  /\ In(p, "accept") /\ fed = Free
  /\ fed' = p /\ To(p, "handle")
  /\ Calm /\ UNCHANGED <<st, conf, inbox, count>>

\* The federation lock is held; the state lock is taken to write.
handle_incoming_pdu(p) ==
  LET r == slot[p]
      by == IF r.m = "invite" THEN r.by ELSE r.u
      fits == IF r.m = "join" THEN may_join(r.u) ELSE authorized(db.state, by, r.u, r.m)
  IN /\ In(p, "handle") /\ st = Free
     /\ IF db.known /\ fits THEN append(r.u, r.m, by) ELSE Calm
     /\ End(p) /\ Unlock(p) /\ UNCHANGED <<conf, inbox, count>>

\* The other server makes an event of its own.
RemoteEvent(by, u, m) ==
  /\ count.remote < MaxRemote
  /\ authorized(there, by, u, m) /\ m # there[u].m
  /\ there' = [there EXCEPT ![u] = New(m)]
  /\ inbox' = inbox
       \cup {[what |-> "pdu", u |-> u, by |-> by, e |-> New(m)] :
               x \in {v \in Locals : there[v].m = "join"}}
       \cup {[what |-> "invite", u |-> u, by |-> by, e |-> New(m)] :
               x \in {v \in Locals : v = u /\ m = "invite"}}
  /\ stamp' = stamp + 1
  /\ count' = [count EXCEPT !.remote = @ + 1]
  /\ declined' = declined \ {u}
  /\ Locks /\ UNCHANGED <<db, conf, slot, queue, adrift>>

\* The messages of a kind are taken up in the order they came.
Take(p, msg, what) ==
  /\ FirstFree(p) /\ msg \in inbox /\ msg.what = what /\ fed = Free
  /\ \A other \in inbox : other.what = what => msg.e.n <= other.e.n
  /\ inbox' = inbox \ {msg}
  /\ Calm /\ UNCHANGED <<st, conf, count>>

Started(p, msg) == [Rest EXCEPT !.op = msg.what, !.u = msg.u, !.by = msg.by,
                               !.e = msg.e, !.pc = msg.what]

Receive(p, msg) ==
  /\ Take(p, msg, "pdu")
  /\ IF db.known THEN fed' = p /\ slot' = [slot EXCEPT ![p] = Started(p, msg)]
     ELSE UNCHANGED <<fed, slot>>

check_invite_permitted == ~db.banned

create_invite_route(p, msg) ==
  /\ Take(p, msg, "invite") /\ check_invite_permitted
  /\ fed' = p /\ slot' = [slot EXCEPT ![p] = Started(p, msg)]

\* An invite whose event or stripped state does not validate, or whose room is
\* banned, is answered with an error.
refuse_invite(p, msg) == Take(p, msg, "invite") /\ UNCHANGED <<fed, slot>>

\* An event of the other server, accepted where the rules allow it.
ReceivePdu(p) ==
  LET r == slot[p]
      fits == IF r.e.m = "join" THEN may_join(r.u) \/ conf.rule = "restricted"
              ELSE authorized(db.state, r.by, r.u, r.e.m)
  IN /\ In(p, "pdu") /\ st = Free
     /\ IF db.known /\ fits
        THEN /\ db' = Appended(db, r.u, r.e, r.by)
             /\ queue' = auto_accept(r.u, r.by, r.e.m)
             /\ adrift' = adrift \ {r.u}
        ELSE UNCHANGED <<db, queue, adrift>>
     /\ End(p) /\ Unlock(p) /\ UNCHANGED <<there, conf, inbox, stamp, count, declined>>

\* An invite to a room that is not here is all that is known of it.
record_invite(p) ==
  LET r == slot[p]
  IN /\ In(p, "invite") /\ st = Free
     /\ IF present THEN UNCHANGED <<db, queue, adrift>>
        ELSE /\ db' = update_membership(db, r.u, "invite", r.by, TRUE)
             /\ queue' = auto_accept(r.u, r.by, "invite")
             /\ adrift' = adrift \cup {r.u}
     /\ End(p) /\ Unlock(p) /\ UNCHANGED <<there, conf, inbox, stamp, count, declined>>

\* An administrator bans the room from this server.
BanRoom ==
  /\ ~db.banned /\ count.asked < MaxRequests
  /\ db' = [db EXCEPT !.banned = TRUE]
  /\ count' = [count EXCEPT !.asked = @ + 1]
  /\ Locks /\ UNCHANGED <<there, conf, slot, inbox, queue, stamp, declined, adrift>>

-----------------------------------------------------------------------------
Joining(p) == JoinStart(p) \/ lock_join(p) \/ lock_join_remote(p) \/ JoinChecked(p)
              \/ join_local(p) \/ JoinAssist(p) \/ make_join_request(p) \/ execute_send_join(p)
              \/ fetch_omitted_state(p) \/ merge_restricted_signature(p) \/ join_remote(p)

MStep(p) == Joining(p) \/ leave(p) \/ remote_leave(p) \/ knock(p) \/ knock_over_federation(p)
            \/ Moderate(p) \/ forget_room_route(p) \/ send_third_party_invite(p)
            \/ exchange_third_party_invite(p) \/ remote_invite(p) \/ make_membership(p)
            \/ send_membership(p) \/ lock_federation(p) \/ handle_incoming_pdu(p)
            \/ ReceivePdu(p) \/ record_invite(p)

MembershipNext ==
  \/ \E p \in Slots : MStep(p)
  \/ \E p \in Slots, r \in Requests : Request(p, r)
  \/ \E p \in Slots, i \in queue : accept(p, i)
  \/ \E p \in Slots, msg \in inbox :
       Receive(p, msg) \/ create_invite_route(p, msg) \/ refuse_invite(p, msg)
  \/ \E by \in Remotes, u \in Users, m \in {"join", "leave", "ban", "invite"} : RemoteEvent(by, u, m)
  \/ BanRoom

-----------------------------------------------------------------------------
(* With the state lock free and the server in the room, the cached         *)
(* membership of every user whose last change came as an event is the one  *)
(* their member event gives.  What sync, push and federation are told of a *)
(* room is read from the cache, and force_state only brings it what the    *)
(* state it replaces did not hold.                                         *)
CacheFollowsState ==
  st = Free /\ present =>
    \A u \in Users \ adrift :
      LET m == db.state[u].m
      IN CASE m = "join" -> is_joined(u)
           [] m = "knock" -> is_knocked(u)
           [] m = "invite" -> is_invited(u) \/ \E v \in Users : <<v, u>> \in Ignores
           [] m \in {"leave", "ban"} -> db.row[u] \in {"left", "none"}
           [] OTHER -> TRUE

(* With the state lock free, the joined servers and the joined count are   *)
(* those of the joined users: server_in_room, by which a join, a leave or  *)
(* a knock is done here or at another server, is never stale.              *)
ServersAreMembers == st = Free => db.counts = Counted(db.row)

(* A user who declined an invite, and whose server could reach the other,  *)
(* is not left invited there until invited again: member events left over  *)
(* from an earlier stay do not keep the answer from the room (leave.rs).   *)
DeclineReachesRoom == Elsewhere => \A u \in declined : there[u].m # "invite"

(* However the two locks of the room are contended and whatever the other  *)
(* server does not answer, some request under way can go on: no two hold   *)
(* what the other waits for.                                               *)
NotStuck == (\E p \in Slots : slot[p] # Rest) => \E p \in Slots : ENABLED MStep(p)

(* Who is in the room, as every part of the server is told: the cache, the *)
(* counts and the other server's view agree with what happened, and no     *)
(* request waits for ever.                                                 *)
MembershipSound == CacheFollowsState /\ ServersAreMembers /\ DeclineReachesRoom /\ NotStuck
=============================================================================
