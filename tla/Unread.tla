------------------------------- MODULE Unread -------------------------------
(***************************************************************************)
(* Read markers and the unread counts of one room.  An append resets its   *)
(* sender's counts, draws the event's count, stores the event and then     *)
(* counts it, one user after another, for those whose push rules notify;   *)
(* meanwhile receipts reset counts.  Raising a count and resetting it each *)
(* hold the user's count_mutex, and the reset stamps a fresh count, so an  *)
(* event read before it was counted is not counted.                        *)
(*                                                                         *)
(* A receipt (route) sets a private marker or a public receipt first and   *)
(* resets the counts afterwards; neither marker is under a lock.           *)
(***************************************************************************)
EXTENDS Naturals, Sequences, FiniteSets

CONSTANTS Users, Readers, NobodyU, MaxEvents, MaxReceipts

VARIABLES
  ucount,            \* server_state: the last count drawn
  events,            \* the room's events: count, sender, who it notifies
  appending,         \* the append under way
  notificationcount, highlightcount, lastnotificationread,
  privateread, lastprivatereadupdate, readreceipt,
  count_mutex,       \* per user: who holds it
  raising,           \* the old value read by the raise that holds the lock
  receipts,          \* per reader task: what is left of its request
  asked

unreadVars == <<ucount, events, appending, notificationcount, highlightcount,
                lastnotificationread, privateread, lastprivatereadupdate, readreceipt,
                count_mutex, raising, receipts, asked>>

Idle_ == [at |-> "idle", by |-> NobodyU, count |-> 0, todo |-> {}]
NoReceipt == [at |-> "idle", user |-> NobodyU, on |-> 0, current |-> 0]

-----------------------------------------------------------------------------
(* The locked operations.                                                  *)

(* reset_notification_counts: both counts to zero and a fresh stamp.       *)
reset_notification_counts(u, stamp) ==
  /\ count_mutex[u] = "free"
  /\ notificationcount' = [notificationcount EXCEPT ![u] = 0]
  /\ highlightcount' = [highlightcount EXCEPT ![u] = 0]
  /\ lastnotificationread' = [lastnotificationread EXCEPT ![u] = stamp]

(* The same without asking whether the user has read past the event.       *)
increment_start_unasked(u, c) ==
  /\ count_mutex[u] = "free"
  /\ count_mutex' = [count_mutex EXCEPT ![u] = "raise"]
  /\ raising' = [raising EXCEPT ![u] = notificationcount[u]]

(* increment_notification_counts, first half: the lock, the stamp checked  *)
(* and the old value read.                                                 *)
increment_start(u, c) ==
  /\ count_mutex[u] = "free"
  /\ IF lastnotificationread[u] > c
     THEN UNCHANGED <<count_mutex, raising>>
     ELSE count_mutex' = [count_mutex EXCEPT ![u] = "raise"]
          /\ raising' = [raising EXCEPT ![u] = notificationcount[u]]

(* increment, second half: the sum written, and the highlight's count.     *)
increment(u, highlight) ==
  /\ notificationcount' = [notificationcount EXCEPT ![u] = raising[u] + 1]
  /\ highlightcount' = IF highlight THEN [highlightcount EXCEPT ![u] = @ + 1] ELSE highlightcount
  /\ count_mutex' = [count_mutex EXCEPT ![u] = "free"]

-----------------------------------------------------------------------------
(* An append.  The room's state lock is held until the event is counted,   *)
(* so appends do not overlap.                                              *)

AppendStart(u) ==
  /\ appending.at = "idle" /\ Cardinality(events) < MaxEvents
  /\ privateread' = [privateread EXCEPT ![u] = ucount + 1]
  /\ lastprivatereadupdate' = [lastprivatereadupdate EXCEPT ![u] = ucount + 2]
  /\ reset_notification_counts(u, ucount + 3)
  /\ ucount' = ucount + 3
  /\ appending' = [Idle_ EXCEPT !.at = "draw", !.by = u]
  /\ UNCHANGED <<events, readreceipt, count_mutex, raising, receipts, asked>>

AppendDraw ==
  /\ appending.at = "draw"
  /\ ucount' = ucount + 1
  /\ appending' = [appending EXCEPT !.at = "store", !.count = ucount']
  /\ UNCHANGED <<events, notificationcount, highlightcount, lastnotificationread, privateread,
                 lastprivatereadupdate, readreceipt, count_mutex, raising, receipts, asked>>

AppendStore(notify) ==
  /\ appending.at = "store" /\ appending.by \notin notify
  /\ events' = events \cup {[count |-> appending.count, notify |-> notify]}
  /\ appending' = [appending EXCEPT !.at = "count", !.todo = notify]
  /\ UNCHANGED <<ucount, notificationcount, highlightcount, lastnotificationread, privateread,
                 lastprivatereadupdate, readreceipt, count_mutex, raising, receipts, asked>>

CountStart(u) ==
  /\ appending.at = "count" /\ u \in appending.todo /\ \A v \in Users : count_mutex[v] # "raise"
  /\ increment_start(u, appending.count)
  /\ appending' = IF count_mutex'[u] = "raise" THEN appending
                  ELSE [appending EXCEPT !.todo = @ \ {u}]
  /\ UNCHANGED <<ucount, events, notificationcount, highlightcount, lastnotificationread,
                 privateread, lastprivatereadupdate, readreceipt, receipts, asked>>

CountEnd(u, highlight) ==
  /\ count_mutex[u] = "raise"
  /\ increment(u, highlight)
  /\ appending' = [appending EXCEPT !.todo = @ \ {u}]
  /\ UNCHANGED <<ucount, events, lastnotificationread, privateread, lastprivatereadupdate,
                 readreceipt, raising, receipts, asked>>

AppendEnd ==
  /\ appending.at = "count" /\ appending.todo = {}
  /\ appending' = Idle_
  /\ UNCHANGED <<ucount, events, notificationcount, highlightcount, lastnotificationread,
                 privateread, lastprivatereadupdate, readreceipt, count_mutex, raising, receipts, asked>>

-----------------------------------------------------------------------------
(* Receipts.                                                               *)

(* create_receipt_route and set_read_marker_route, public: the user's      *)
(* older receipt is deleted and the new one stored under a fresh count.    *)
readreceipt_update(t, u, c) ==
  /\ receipts[t].at = "idle" /\ asked < MaxReceipts
  /\ readreceipt' = [readreceipt EXCEPT ![u] = [on |-> c, count |-> ucount + 1]]
  /\ ucount' = ucount + 1
  /\ receipts' = [receipts EXCEPT ![t] = [NoReceipt EXCEPT !.at = "reset", !.user = u, !.on = c]]
  /\ asked' = asked + 1
  /\ UNCHANGED <<events, appending, notificationcount, highlightcount, lastnotificationread,
                 privateread, lastprivatereadupdate, count_mutex, raising>>

(* set_private_marker: the marker it would advance is read, then written.  *)
private_read_get_count(t, u, c) ==
  /\ receipts[t].at = "idle" /\ asked < MaxReceipts
  /\ receipts' = [receipts EXCEPT ![t] =
       [at |-> "marker", user |-> u, on |-> c, current |-> privateread[u]]]
  /\ asked' = asked + 1
  /\ UNCHANGED <<ucount, events, appending, notificationcount, highlightcount,
                 lastnotificationread, privateread, lastprivatereadupdate, readreceipt,
                 count_mutex, raising>>

private_read_set(t) ==
  LET r == receipts[t] IN
  /\ r.at = "marker"
  /\ IF r.on > r.current
     THEN /\ privateread' = [privateread EXCEPT ![r.user] = r.on]
          /\ lastprivatereadupdate' = [lastprivatereadupdate EXCEPT ![r.user] = ucount + 1]
          /\ ucount' = ucount + 1
          /\ receipts' = [receipts EXCEPT ![t].at = "reset"]
     ELSE /\ receipts' = [receipts EXCEPT ![t] = NoReceipt]
          /\ UNCHANGED <<privateread, lastprivatereadupdate, ucount>>
  /\ UNCHANGED <<events, appending, notificationcount, highlightcount, lastnotificationread,
                 readreceipt, count_mutex, raising, asked>>

ReceiptReset(t) ==
  /\ receipts[t].at = "reset"
  /\ reset_notification_counts(receipts[t].user, ucount + 1)
  /\ ucount' = ucount + 1
  /\ receipts' = [receipts EXCEPT ![t] = NoReceipt]
  /\ UNCHANGED <<events, appending, privateread, lastprivatereadupdate, readreceipt,
                 count_mutex, raising, asked>>

-----------------------------------------------------------------------------
UnreadInit ==
  /\ ucount = 0 /\ events = {} /\ appending = Idle_ /\ asked = 0
  /\ notificationcount = [u \in Users |-> 0] /\ highlightcount = [u \in Users |-> 0]
  /\ lastnotificationread = [u \in Users |-> 0]
  /\ privateread = [u \in Users |-> 0] /\ lastprivatereadupdate = [u \in Users |-> 0]
  /\ readreceipt = [u \in Users |-> [on |-> 0, count |-> 0]]
  /\ count_mutex = [u \in Users |-> "free"] /\ raising = [u \in Users |-> 0]
  /\ receipts = [t \in Readers |-> NoReceipt]

UnreadNext ==
  \/ \E u \in Users : AppendStart(u) \/ CountStart(u) \/ \E h \in BOOLEAN : CountEnd(u, h)
  \/ AppendDraw \/ AppendEnd
  \/ \E notify \in SUBSET Users : AppendStore(notify)
  \/ \E t \in Readers, u \in Users, e \in events :
       readreceipt_update(t, u, e.count) \/ private_read_get_count(t, u, e.count)
  \/ \E t \in Readers : private_read_set(t) \/ ReceiptReset(t)

UnreadSpec == UnreadInit /\ [][UnreadNext]_unreadVars

-----------------------------------------------------------------------------
(* The events GET /notifications reports as unread: above the stamp.       *)
Unread(u) == {e \in events : u \in e.notify /\ e.count > lastnotificationread[u]}

Pending(u) == IF appending.at = "count" /\ u \in appending.todo
              THEN {e \in Unread(u) : e.count = appending.count} ELSE {}

(* Whatever order receipts and the counting of new events come in, the     *)
(* room's unread count is the number of notifying events above the stamp   *)
(* of the last reset, less the one being counted, so the badge and the     *)
(* list of notifications agree and no room stays unread once it was read   *)
(* (rooms/user.rs:27).                                                     *)
CountsAgree ==
  \A u \in Users :
    /\ count_mutex[u] = "free" =>
         notificationcount[u] = Cardinality(Unread(u)) - Cardinality(Pending(u))
    /\ count_mutex[u] = "raise" => raising[u] = notificationcount[u]
=============================================================================
