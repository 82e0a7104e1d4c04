------------------------------ MODULE Inbound -------------------------------
(***************************************************************************)
(* What another server sends to this one and asks of it to close a gap.    *)
(***************************************************************************)
EXTENDS Naturals, Sequences, FiniteSets, SequencesExt

-----------------------------------------------------------------------------
(***************************************************************************)
(* An incoming federation transaction.  Its PDUs are grouped by room and   *)
(* sorted so that an event follows the events of the batch it cites; the   *)
(* rooms are handled side by side, each one in order under its federation  *)
(* lock; the EDUs are all handled at once after the PDUs.  A to-device     *)
(* message is delivered unless its message id was recorded before, and     *)
(* recorded after the delivery.                                            *)
(*                                                                         *)
(* The other server sends a transaction again until it is answered.  Its   *)
(* request may be dropped, which ends the handler at its next await, or    *)
(* the server stops in the middle: what was done stays done.               *)
(***************************************************************************)

CONSTANTS Txns,          \* [pdus, prev, room, bad, edus] : what may be sent
          Origins, MaxDrops, PduLimit, EduLimit

VARIABLES txn,           \* the transaction each origin is sending
          todo,          \* per origin and room, the sorted PDUs left
          edus,          \* per origin, the EDUs under way
          federation_lock, handled,
          order,         \* per origin, the PDUs handled in this attempt
          typing_now, queued, recorded, answer, drops

txnVars == <<txn, todo, edus, federation_lock, handled, order, typing_now, queued, recorded, answer, drops>>

RoomsIn(t) == {t.room[t.pdus[i]] : i \in DOMAIN t.pdus}
NoLock == "free"

-----------------------------------------------------------------------------
(* A PDU that does not parse is dropped; the rest are grouped by room.     *)
parse_incoming_pdu(t, r) == SelectSeq(t.pdus, LAMBDA p: p \notin t.bad /\ t.room[p] = r)

is_sorted(t, s) ==
  \A i, j \in DOMAIN s : s[j] \in t.prev[s[i]] => j < i

sort_pdus_as_sent(t, s) == s

(* An order of the batch in which cited events come first; a batch that    *)
(* cites itself in a circle stays as it came.                              *)
sort_pdus(t, s) ==
  LET orders == {q \in SetToAllKPermutations(ToSet(s)) :
                   Len(q) = Len(s) /\ is_sorted(t, q)}
  IN  IF is_sorted(t, s) \/ orders = {} THEN s ELSE CHOOSE q \in orders : TRUE

-----------------------------------------------------------------------------
NoTxn == [pdus |-> <<>>, prev |-> <<>>, room |-> <<>>, bad |-> {}, edus |-> {}]

(* send_transaction_message_route: the limits, then the rooms' work.       *)
Receive(o) ==
  /\ answer[o] = "unanswered" /\ txn[o] # NoTxn /\ todo[o] = <<>>
  /\ IF Len(txn[o].pdus) > PduLimit \/ Cardinality(txn[o].edus) > EduLimit
     THEN answer' = [answer EXCEPT ![o] = "refused"] /\ UNCHANGED <<todo, edus>>
     ELSE /\ todo' = [todo EXCEPT ![o] = [r \in RoomsIn(txn[o]) |->
                        sort_pdus(txn[o], parse_incoming_pdu(txn[o], r))]]
          /\ answer' = [answer EXCEPT ![o] = "pdus"]
          /\ UNCHANGED edus
  /\ UNCHANGED <<txn, federation_lock, handled, order, typing_now, queued, recorded, drops>>

(* handle_room: the room's lock, then each event in turn; whether it is    *)
(* accepted or rejected, it has a result.                                  *)
lock_federation(o, r) ==
  /\ answer[o] = "pdus" /\ r \in DOMAIN todo[o] /\ todo[o][r] # <<>> /\ federation_lock[r] = NoLock
  /\ federation_lock' = [federation_lock EXCEPT ![r] = o]
  /\ UNCHANGED <<txn, todo, edus, handled, order, typing_now, queued, recorded, answer, drops>>

handle_room(o, r) ==
  /\ answer[o] = "pdus" /\ r \in DOMAIN todo[o] /\ todo[o][r] # <<>> /\ federation_lock[r] = o
  /\ handled' = handled \cup {Head(todo[o][r])}
  /\ order' = [order EXCEPT ![o] = Append(@, Head(todo[o][r]))]
  /\ todo' = [todo EXCEPT ![o][r] = Tail(@)]
  /\ federation_lock' = IF Len(todo[o][r]) = 1 THEN [federation_lock EXCEPT ![r] = NoLock]
                        ELSE federation_lock
  /\ UNCHANGED <<txn, edus, typing_now, queued, recorded, answer, drops>>

(* When every room is done the EDUs are started, all together.             *)
PdusDone(o) ==
  /\ answer[o] = "pdus" /\ \A r \in DOMAIN todo[o] : todo[o][r] = <<>>
  /\ edus' = [edus EXCEPT ![o] = [e \in txn[o].edus |-> "new"]]
  /\ answer' = [answer EXCEPT ![o] = "edus"]
  /\ UNCHANGED <<txn, todo, federation_lock, handled, order, typing_now, queued, recorded, drops>>

(* typing_update: the sender must belong to the origin and be joined.      *)
typing_update(o, e) ==
  /\ answer[o] = "edus" /\ e \in DOMAIN edus[o] /\ edus[o][e] = "new" /\ e.kind = "typing"
  /\ typing_now' = IF ~e.own THEN typing_now
                   ELSE IF e.on THEN typing_now \cup {e.user} ELSE typing_now \ {e.user}
  /\ edus' = [edus EXCEPT ![o][e] = "done"]
  /\ UNCHANGED <<txn, todo, federation_lock, handled, order, queued, recorded, answer, drops>>

(* Recording the message id before the delivery instead of after it.       *)
direct_to_device_early(o, e) ==
  /\ answer[o] = "edus" /\ e \in DOMAIN edus[o] /\ edus[o][e] = "new" /\ e.kind = "to_device"
  /\ edus' = [edus EXCEPT ![o][e] = IF ~e.own \/ <<o, e.id>> \in recorded THEN "done" ELSE "deliver"]
  /\ recorded' = recorded \cup {<<o, e.id>>}
  /\ UNCHANGED <<txn, todo, federation_lock, handled, order, typing_now, queued, answer, drops>>

(* direct_to_device: recorded message ids are skipped; then every target   *)
(* device in turn, and the record last.                                    *)
direct_to_device(o, e) ==
  /\ answer[o] = "edus" /\ e \in DOMAIN edus[o] /\ edus[o][e] = "new" /\ e.kind = "to_device"
  /\ edus' = [edus EXCEPT ![o][e] = IF ~e.own \/ <<o, e.id>> \in recorded THEN "done" ELSE "deliver"]
  /\ UNCHANGED <<txn, todo, federation_lock, handled, order, typing_now, queued, recorded, answer, drops>>

deliver_to_device(o, e) ==
  /\ answer[o] = "edus" /\ e \in DOMAIN edus[o] /\ edus[o][e] = "deliver"
  /\ queued' = queued \cup {<<o, e.id, d>> : d \in e.devices}
  /\ edus' = [edus EXCEPT ![o][e] = "record"]
  /\ UNCHANGED <<txn, todo, federation_lock, handled, order, typing_now, recorded, answer, drops>>

add_txnid(o, e) ==
  /\ answer[o] = "edus" /\ e \in DOMAIN edus[o] /\ edus[o][e] = "record"
  /\ recorded' = recorded \cup {<<o, e.id>>}
  /\ edus' = [edus EXCEPT ![o][e] = "done"]
  /\ UNCHANGED <<txn, todo, federation_lock, handled, order, typing_now, queued, answer, drops>>

AnswerTxn(o) ==
  /\ answer[o] = "edus" /\ \A e \in DOMAIN edus[o] : edus[o][e] = "done"
  /\ answer' = [answer EXCEPT ![o] = "ok"]
  /\ UNCHANGED <<txn, todo, edus, federation_lock, handled, order, typing_now, queued, recorded, drops>>

(* The request is dropped, or the server is stopping (check_running): the  *)
(* handler ends where it stands, its locks released.                       *)
Dropped(o) ==
  /\ answer[o] \in {"pdus", "edus"} /\ drops < MaxDrops
  /\ drops' = drops + 1
  /\ answer' = [answer EXCEPT ![o] = "unanswered"]
  /\ todo' = [todo EXCEPT ![o] = <<>>] /\ order' = [order EXCEPT ![o] = <<>>]
  /\ edus' = [edus EXCEPT ![o] = <<>>]
  /\ federation_lock' = [r \in DOMAIN federation_lock |->
                           IF federation_lock[r] = o THEN NoLock ELSE federation_lock[r]]
  /\ UNCHANGED <<txn, handled, typing_now, queued, recorded>>

TxnInit ==
  /\ txn \in [Origins -> Txns]
  /\ todo = [o \in Origins |-> <<>>] /\ edus = [o \in Origins |-> <<>>]
  /\ federation_lock = [r \in UNION {RoomsIn(t) : t \in Txns} |-> NoLock]
  /\ handled = {} /\ order = [o \in Origins |-> <<>>] /\ typing_now = {} /\ queued = {} /\ recorded = {}
  /\ answer = [o \in Origins |-> "unanswered"] /\ drops = 0

TxnNext ==
  \E o \in Origins :
    \/ Receive(o) \/ PdusDone(o) \/ AnswerTxn(o) \/ Dropped(o)
    \/ \E r \in DOMAIN federation_lock : lock_federation(o, r) \/ handle_room(o, r)
    \/ \E e \in txn[o].edus :
         typing_update(o, e) \/ direct_to_device(o, e) \/ deliver_to_device(o, e) \/ add_txnid(o, e)

-----------------------------------------------------------------------------
(* A transaction answered with success is done: each PDU that parses had   *)
(* its turn after the events of the batch it cites, and each to-device     *)
(* message is queued for every device, although earlier attempts were cut  *)
(* off anywhere (edus.rs:232 records a message only once it is delivered). *)
AckedIsDone ==
  \A o \in Origins : answer[o] = "ok" =>
    /\ \A i \in DOMAIN txn[o].pdus : txn[o].pdus[i] \notin txn[o].bad => txn[o].pdus[i] \in handled
    /\ \A e \in txn[o].edus : e.kind = "to_device" /\ e.own =>
         \A d \in e.devices : <<o, e.id, d>> \in queued

(* Within one batch no event is handled before an event of its room that   *)
(* it cites and the batch holds (pdus.rs:78).                              *)
CitedFirst ==
  \A o \in Origins : \A i, j \in DOMAIN order[o] :
    /\ txn[o].room[order[o][i]] = txn[o].room[order[o][j]]
    /\ order[o][j] \in txn[o].prev[order[o][i]]
    => j < i

(* A transaction another server sent is answered after its work: what was  *)
(* acknowledged is done, and an event follows the ones it cites.           *)
TransactionSound == AckedIsDone /\ CitedFirst

-----------------------------------------------------------------------------
(***************************************************************************)
(* What another server fetches from this one to close a gap: the walk back *)
(* from the events it has just heard of (get_missing_events), and pages of *)
(* older history (backfill).  The gap is an ask: a graph of events, which  *)
(* of them this server holds in the room, the latest events the other      *)
(* server names, and the earliest ones it already has.                     *)
(***************************************************************************)

CONSTANTS Asks, MissingLimit, WalkMax, BackfillLimit

VARIABLES ask, seen, pending, walked, answered, filled

missingVars == <<ask, seen, pending, walked, answered, filled>>

-----------------------------------------------------------------------------
(* May the other server read the room at all, and this event of it?        *)

AccessCheck == ask.acl /\ (ask.in_room \/ ask.world_readable \/ ask.knocked)

server_can_see_event(e) ==
  \/ ask.vis[e] \in {"world_readable", "shared"}
  \/ ask.vis[e] \in {"invited", "joined"} /\ ask.were[e]

-----------------------------------------------------------------------------
(* get_missing_events: breadth first from the latest events, each event    *)
(* once, never into the earliest ones, and at most WalkMax events beyond   *)
(* those named.                                                            *)

walk_seed ==
  /\ seen = ToSet(ask.earliest) \cup ToSet(ask.latest)
  /\ pending = [i \in DOMAIN SelectSeq(ask.latest, LAMBDA e: e \notin ToSet(ask.earliest)) |->
                  [id |-> SelectSeq(ask.latest, LAMBDA e: e \notin ToSet(ask.earliest))[i],
                   latest |-> TRUE]]

SeenMax == Cardinality(ToSet(ask.earliest) \cup ToSet(ask.latest)) + WalkMax

(* Not remembering what was seen.                                          *)
Unseen_any(e) == ask.prev[e]

(* The prev_events not seen before, in order, while the walk may grow.     *)
Unseen(e) ==
  LET fresh == SelectSeq(ask.prev[e], LAMBDA p: p \notin seen)
      room == SeenMax - Cardinality(seen)
  IN  IF Len(fresh) <= room THEN fresh ELSE SubSeq(fresh, 1, room)

next_missing_event ==
  /\ ~answered /\ pending # <<>> /\ Len(walked) < MissingLimit
  /\ LET input == Head(pending)
         e == input.id
     IN  IF e \notin ask.held
         THEN pending' = Tail(pending) /\ UNCHANGED <<seen, walked>>
         ELSE /\ seen' = seen \cup ToSet(Unseen(e))
              /\ pending' = Tail(pending) \o [i \in DOMAIN Unseen(e) |->
                                                [id |-> Unseen(e)[i], latest |-> FALSE]]
              /\ walked' = IF input.latest THEN walked ELSE Append(walked, e)
  /\ UNCHANGED <<ask, answered, filled>>

(* The answer is the walk in reverse, oldest first; what the other server  *)
(* may not see it gets redacted.                                           *)
get_missing_events_route ==
  /\ ~answered /\ (pending = <<>> \/ Len(walked) = MissingLimit)
  /\ answered' = TRUE
  /\ UNCHANGED <<ask, seen, pending, walked, filled>>

-----------------------------------------------------------------------------
(* backfill: from the newest event it names, back through the rows it may  *)
(* see.  The other server goes on from the oldest event it was given.      *)

get_backfill_route(v) ==
  LET rows == SelectSeq(Reverse(ask.timeline),
                        LAMBDA e: ask.count[e] <= ask.count[v] /\ server_can_see_event(e))
  IN  IF Len(rows) <= BackfillLimit THEN rows ELSE SubSeq(rows, 1, BackfillLimit)

Backfill ==
  /\ ask.timeline # <<>> /\ AccessCheck
  /\ LET v == IF filled = <<>> THEN Last(ask.timeline) ELSE Last(filled)
         page == get_backfill_route(v)
     IN  /\ SelectSeq(page, LAMBDA e: e \notin ToSet(filled)) # <<>>
         /\ filled' = filled \o SelectSeq(page, LAMBDA e: e \notin ToSet(filled))
  /\ UNCHANGED <<ask, seen, pending, walked, answered>>

MissingInit ==
  /\ ask \in Asks /\ AccessCheck
  /\ walk_seed /\ walked = <<>> /\ answered = FALSE /\ filled = <<>>

MissingNext == next_missing_event \/ get_missing_events_route \/ Backfill

-----------------------------------------------------------------------------
Between(S) == S \cup {e \in ask.held \ ToSet(ask.earliest) :
                        \E d \in S \cap ask.held : e \in ToSet(ask.prev[d])}

Gap == LET grow[n \in 0..Cardinality(DOMAIN ask.prev)] ==
             IF n = 0 THEN ToSet(ask.latest) \ ToSet(ask.earliest) ELSE Between(grow[n - 1])
       IN  grow[Cardinality(DOMAIN ask.prev)] \ ToSet(ask.latest)

(* The events answered fill the gap and nothing else: each comes once, is  *)
(* neither one the other server named nor one behind an event it has, and  *)
(* hangs on a latest event or on another event of the answer, so that it   *)
(* can be connected; and an answer below its limits is the whole gap.      *)
(* Backfill pages leave no visible event out between the newest named and  *)
(* the oldest given (get_missing_events.rs:188, backfill.rs:57).           *)
GapFilled ==
  /\ IsInjective(walked) /\ ToSet(walked) \subseteq Gap
  /\ \A i \in DOMAIN walked :
       \E d \in (ToSet(ask.latest) \cap ask.held) \cup {walked[j] : j \in 1..(i - 1)} :
         walked[i] \in ToSet(ask.prev[d])
  /\ answered /\ Len(walked) < MissingLimit /\ Cardinality(seen) < SeenMax => ToSet(walked) = Gap
  /\ filled # <<>> =>
       \A e \in ToSet(ask.timeline) :
         server_can_see_event(e) /\ ask.count[e] >= ask.count[Last(filled)] => e \in ToSet(filled)
=============================================================================
