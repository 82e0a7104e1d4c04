------------------------------ MODULE Sending ------------------------------
(***************************************************************************)
(* phantom_service::net::sending, one sender worker and its destinations.  *)
(* Callers store an event in `queued` (servernameevent_data) and post a    *)
(* message; the worker moves events to `active` (servercurrentevent_data)  *)
(* and sends them, one transaction per destination at a time.  Both tables *)
(* survive a crash; the channel, the statuses and the futures do not.      *)
(*                                                                         *)
(* Each handler of work_loop runs to completion before the loop selects    *)
(* again, so each is one action.  A future's network exchange is split     *)
(* from its response: the far end may settle events whose response is      *)
(* then lost.                                                              *)
(***************************************************************************)
EXTENDS Integers, Sequences, FiniteSets

CONSTANTS
    Federation, Appservice, Push,   \* the destinations, by kind
    Items,          \* queue keys (a PDU's id or an EDU's count), ordered
    DequeueLimit,   \* DEQUEUE_LIMIT
    Netburst,       \* config startup_netburst
    Keep,           \* config startup_netburst_keep; a negative one, no limit,
                    \* is any number no smaller than Cardinality(Items)
    DbFails,        \* whether a database write may fail
    MaxChan,        \* bound on the messages waiting in the channel
    MaxStops        \* bound on crashes and shutdowns

Dests == Federation \cup Appservice \cup Push
Flush == 0      \* SendingEvent::Flush: no row and an empty queue id

ASSUME SendingAssumption ==
    /\ Items \subseteq Nat \ {Flush}
    /\ Federation \cap Appservice = {}
    /\ Push \cap (Federation \cup Appservice) = {}
    /\ DequeueLimit \in Nat \ {0}
    /\ Netburst \in BOOLEAN /\ DbFails \in BOOLEAN
    /\ Keep \in Nat /\ MaxChan \in Nat /\ MaxStops \in Nat

VARIABLES
    phase,      \* "up", "closing" (channels closed) or "down"
    chan,       \* the worker's channel of Msg
    status,     \* statuses: a TransactionStatus, or "none" for no entry
    cooling,    \* destinations whose failure is still within its backoff
    futures,    \* transactions in flight
    queued,     \* servernameevent_data
    active,     \* servercurrentevent_data
    accepted,   \* history: events queued for each destination
    settled,    \* history: events the destination took or refused for good
    dropped,    \* history: events deleted on the operator's behalf
    stops

volatile == <<phase, chan, status, cooling, futures>>
history == <<accepted, settled, dropped>>
vars == <<volatile, queued, active, history, stops>>

-----------------------------------------------------------------------------

\* The first n rows of a table in key order.
Take(S, n) == {x \in S : Cardinality({y \in S : y < x}) < n}

Future(d, xs, edus) == [dest |-> d, items |-> xs, edus |-> edus]

\* send_events: at most the EDUs of select_edus may ride along, and only to
\* another server.
Edus(d) == IF d \in Federation THEN BOOLEAN ELSE {FALSE}

Init ==
    /\ phase = "up" /\ chan = << >> /\ stops = 0
    /\ status = [d \in Dests |-> "none"]
    /\ cooling = {} /\ futures = {}
    /\ queued = [d \in Dests |-> {}]
    /\ active = [d \in Dests |-> {}]
    /\ accepted = [d \in Dests |-> {}]
    /\ settled = [d \in Dests |-> {}]
    /\ dropped = [d \in Dests |-> {}]

-----------------------------------------------------------------------------
(* The callers' side *)

Msgs(ds, x) == {[dest |-> d, item |-> x, revive |-> FALSE] : d \in ds}

\* queue_one and queue_each: one row per destination in a single batch, then
\* one message each.  Once the channels are closed dispatch fails after the
\* rows are stored.
Queue(ds, x) ==
    /\ phase # "down"
    /\ ds # {}
    /\ \A d \in ds : x \notin accepted[d]
    /\ queued' = [d \in Dests |-> queued[d] \cup (IF d \in ds THEN {x} ELSE {})]
    /\ accepted' = [d \in Dests |-> accepted[d] \cup (IF d \in ds THEN {x} ELSE {})]
    /\ IF phase = "up"
       THEN \E n \in 1 .. MaxChan - Len(chan) : \E order \in [1 .. n -> Msgs(ds, x)] :
              /\ \A m \in Msgs(ds, x) : \E i \in 1 .. n : order[i] = m /\ \A j \in 1 .. n : order[j] = m => j = i
              /\ chan' = chan \o order
       ELSE chan' = chan
    /\ UNCHANGED <<phase, status, cooling, futures, active, settled, dropped, stops>>

\* flush_servers (revive = FALSE) and notify_peer_alive (revive = TRUE).
FlushServer(d, revive) ==
    /\ phase = "up"
    /\ d \in Federation
    /\ Len(chan) < MaxChan
    /\ chan' = Append(chan, [dest |-> d, item |-> Flush, revive |-> revive])
    /\ UNCHANGED <<phase, status, cooling, futures, queued, active, history, stops>>

\* cleanup_events: an appservice or a pusher went away.
CleanupEvents(d) ==
    /\ phase # "down"
    /\ d \in Appservice \cup Push
    /\ queued[d] \cup active[d] # {}
    /\ active' = [active EXCEPT ![d] = {}]
    /\ queued' = [queued EXCEPT ![d] = {}]
    /\ dropped' = [dropped EXCEPT ![d] = @ \cup queued[d] \cup active[d]]
    /\ UNCHANGED <<volatile, accepted, settled, stops>>

-----------------------------------------------------------------------------
(* The worker: messages *)

\* Mutant of Allowed: a running transaction does not block another one.
Allowed_WhileRunning(m) ==
    \/ status[m.dest] # "failed"
    \/ m.revive \/ m.dest \notin cooling \/ m.dest \in Appservice

\* select_events_current: whether a message may start a transaction.
Allowed(m) ==
    \/ status[m.dest] = "none"
    \/ /\ status[m.dest] = "failed"
       /\ m.revive \/ m.dest \notin cooling \/ m.dest \in Appservice

Receive(m) ==
    /\ phase = "up"
    /\ chan # << >>
    /\ m = Head(chan)
    /\ chan' = Tail(chan)

\* A transaction is in flight or the backoff still runs: the message is
\* dropped, its row stays queued.
RequestIgnored(m) ==
    /\ Receive(m)
    /\ ~Allowed(m)
    /\ UNCHANGED <<phase, status, cooling, futures, queued, active, history, stops>>

\* Mutant of RequestRetries: the message's own event is sent instead of the
\* rows of the failed transaction.
RequestRetries_OwnEvent(m) ==
    /\ Receive(m)
    /\ Allowed(m) /\ status[m.dest] = "failed"
    /\ status' = [status EXCEPT ![m.dest] = "retrying"]
    /\ futures' = futures \cup
           {Future(m.dest, IF m.item = Flush THEN {} ELSE {m.item}, FALSE)}
    /\ UNCHANGED <<phase, cooling, queued, active, history, stops>>

\* After a failure only the active rows are sent again; with none left the
\* status is removed and nothing is sent.
RequestRetries(m) ==
    /\ Receive(m)
    /\ Allowed(m) /\ status[m.dest] = "failed"
    /\ IF active[m.dest] # {}
       THEN /\ status' = [status EXCEPT ![m.dest] = "retrying"]
            /\ futures' = futures \cup {Future(m.dest, active[m.dest], FALSE)}
       ELSE /\ status' = [status EXCEPT ![m.dest] = "none"]
            /\ UNCHANGED futures
    /\ UNCHANGED <<phase, cooling, queued, active, history, stops>>

\* Mutant of NewItems: the filter on empty queue ids is missing.
NewItems_Unfiltered(m) == {m.item}

NewItems(m) == IF m.item = Flush THEN {} ELSE {m.item}

\* Data::mark_as_active: one database transaction over both tables.
MarkActive(d, xs) ==
    /\ active' = [active EXCEPT ![d] = @ \cup xs]
    /\ queued' = [queued EXCEPT ![d] = @ \ xs]

\* No entry for the destination: the message's own event goes out, with
\* whatever EDUs are due.
RequestSends(m) ==
    /\ Receive(m)
    /\ Allowed(m) /\ status[m.dest] # "failed"
    /\ status' = [status EXCEPT ![m.dest] = "running"]
    /\ MarkActive(m.dest, NewItems(m))
    /\ \E edus \in Edus(m.dest) :
          futures' = futures \cup {Future(m.dest, NewItems(m), edus)}
    /\ UNCHANGED <<phase, cooling, history, stops>>

\* The entry was already inserted when mark_as_active, or for a server
\* set_latest_educount after it, fails: handle_request sends nothing.
RequestFails(m) ==
    /\ DbFails
    /\ Receive(m)
    /\ Allowed(m) /\ status[m.dest] # "failed"
    /\ status' = [status EXCEPT ![m.dest] = "running"]
    /\ \/ UNCHANGED <<queued, active>>
       \/ m.dest \in Federation /\ MarkActive(m.dest, NewItems(m))
    /\ UNCHANGED <<phase, cooling, futures, history, stops>>

-----------------------------------------------------------------------------
(* The worker: responses *)

\* The far end takes one event of a transaction in flight (or, for a pusher,
\* the event is skipped or refused for good).
Settle(f) ==
    /\ f \in futures
    /\ \E x \in f.items \ settled[f.dest] :
          settled' = [settled EXCEPT ![f.dest] = @ \cup {x}]
    /\ UNCHANGED <<volatile, queued, active, accepted, dropped, stops>>

\* Mutant of ResponseOk: nothing is dequeued after a success.
ResponseOk_NoDequeue(f) ==
    /\ phase = "up"
    /\ f \in futures
    /\ f.items \subseteq settled[f.dest]
    /\ status' = [status EXCEPT ![f.dest] = "none"]
    /\ futures' = futures \ {f}
    /\ active' = [active EXCEPT ![f.dest] = {}]
    /\ UNCHANGED <<phase, chan, cooling, queued, history, stops>>

\* handle_response_ok: the active rows go, then the next queued ones are sent.
\* A failed mark_as_active is only logged: its rows are sent all the same.
ResponseOk(f) ==
    /\ phase = "up"
    /\ f \in futures
    /\ f.items \subseteq settled[f.dest]
    /\ LET d == f.dest
           new == Take(queued[d], DequeueLimit)
       IN IF new # {}
          THEN /\ status' = [status EXCEPT ![d] = "running"]
               /\ futures' = (futures \ {f}) \cup {Future(d, new, FALSE)}
               /\ \/ /\ active' = [active EXCEPT ![d] = new]
                     /\ queued' = [queued EXCEPT ![d] = @ \ new]
                  \/ /\ DbFails
                     /\ active' = [active EXCEPT ![d] = {}]
                     /\ UNCHANGED queued
          ELSE /\ status' = [status EXCEPT ![d] = "none"]
               /\ futures' = futures \ {f}
               /\ active' = [active EXCEPT ![d] = {}]
               /\ UNCHANGED queued
    /\ UNCHANGED <<phase, chan, cooling, history, stops>>

\* handle_response_err.  It panics for an entry that is already failed, and
\* leaves a missing entry alone.  A transaction with nothing to send cannot
\* fail: send_events_dest_federation returns early.
ResponseErr(f) ==
    /\ phase = "up"
    /\ f \in futures
    /\ f.items # {} \/ f.edus
    /\ futures' = futures \ {f}
    /\ IF status[f.dest] \in {"running", "retrying"}
       THEN /\ status' = [status EXCEPT ![f.dest] = "failed"]
            /\ cooling' = cooling \cup {f.dest}
       ELSE UNCHANGED <<status, cooling>>
    /\ UNCHANGED <<phase, chan, queued, active, history, stops>>

\* continue_exponential_backoff_secs turns false as time passes.
BackoffElapses(d) ==
    /\ d \in cooling
    /\ cooling' = cooling \ {d}
    /\ UNCHANGED <<phase, chan, status, futures, queued, active, history, stops>>

-----------------------------------------------------------------------------
(* Shutdown, crash and start *)

\* Service::interrupt closes the channels; work_loop returns.
Interrupt ==
    /\ phase = "up" /\ stops < MaxStops
    /\ phase' = "closing"
    /\ stops' = stops + 1
    /\ UNCHANGED <<chan, status, cooling, futures, queued, active, history>>

\* finish_responses: until the deadline a success deletes its active rows, a
\* failure is ignored.
Finish(f) ==
    /\ phase = "closing"
    /\ f \in futures
    /\ futures' = futures \ {f}
    /\ \/ /\ f.items \subseteq settled[f.dest]
          /\ active' = [active EXCEPT ![f.dest] = {}]
       \/ UNCHANGED active
    /\ UNCHANGED <<phase, chan, status, cooling, queued, history, stops>>

LoseVolatile ==
    /\ phase' = "down"
    /\ chan' = << >> /\ futures' = {} /\ cooling' = {}
    /\ status' = [d \in Dests |-> "none"]
    /\ UNCHANGED <<queued, active, history>>

\* The futures are done or the deadline passed.
Exit == phase = "closing" /\ LoseVolatile /\ UNCHANGED stops

Crash == phase = "up" /\ stops < MaxStops /\ LoseVolatile /\ stops' = stops + 1

Kept(d) == Take(active[d], Keep)

\* startup_netburst: active rows beyond the limit are deleted, the others are
\* sent again unless the burst is switched off.  Queued rows are not read.
Start ==
    /\ phase = "down"
    /\ phase' = "up"
    /\ active' = [d \in Dests |-> Kept(d)]
    /\ dropped' = [d \in Dests |-> dropped[d] \cup (active[d] \ Kept(d))]
    /\ LET burst == {d \in Dests : Netburst /\ Kept(d) # {}}
       IN /\ status' = [d \in Dests |-> IF d \in burst THEN "running" ELSE "none"]
          /\ futures' = {Future(d, Kept(d), FALSE) : d \in burst}
    /\ UNCHANGED <<chan, cooling, queued, accepted, settled, stops>>

-----------------------------------------------------------------------------

HandleRequest ==
    \E m \in {chan[i] : i \in DOMAIN chan} :
       RequestIgnored(m) \/ RequestRetries(m) \/ RequestSends(m) \/ RequestFails(m)

Next ==
    \/ \E ds \in SUBSET Dests, x \in Items : Queue(ds, x)
    \/ \E d \in Dests, revive \in BOOLEAN : FlushServer(d, revive)
    \/ \E d \in Dests : CleanupEvents(d) \/ BackoffElapses(d)
    \/ HandleRequest
    \/ \E f \in futures : Settle(f) \/ ResponseOk(f) \/ ResponseErr(f) \/ Finish(f)
    \/ Interrupt \/ Exit \/ Crash \/ Start

Spec == Init /\ [][Next]_vars

-----------------------------------------------------------------------------
(* Properties *)

Statuses == {"none", "running", "failed", "retrying"}
MsgType == [dest : Dests, item : Items \cup {Flush}, revive : BOOLEAN]
FutureType == [dest : Dests, items : SUBSET Items, edus : BOOLEAN]

\* Type invariant; in particular no row is ever stored for a Flush.
TypeOK ==
    /\ phase \in {"up", "closing", "down"}
    /\ chan \in Seq(MsgType)
    /\ status \in [Dests -> Statuses]
    /\ cooling \subseteq Dests
    /\ futures \subseteq FutureType
    /\ queued \in [Dests -> SUBSET Items]
    /\ active \in [Dests -> SUBSET Items]
    /\ accepted \in [Dests -> SUBSET Items]
    /\ settled \in [Dests -> SUBSET Items]
    /\ dropped \in [Dests -> SUBSET Items]
    /\ stops \in Nat

\* At most one transaction per destination is in flight, and its entry says
\* so: the panic "Request that was not even running failed?!" of
\* handle_response_err (sender/mod.rs:114) is unreachable.
OneInFlight ==
    /\ \A f, g \in futures : f.dest = g.dest => f = g
    /\ \A f \in futures : status[f.dest] \in {"running", "retrying"}

\* A success never deletes an active row it did not send: every active row is
\* part of the transaction in flight, and none is left behind once the entry
\* is gone.  (delete_all_active_requests_for removes by destination.)
ActiveIsInFlight ==
    Netburst => \A d \in Dests :
       /\ \A f \in futures : f.dest = d => active[d] \subseteq f.items
       /\ phase = "up" /\ status[d] = "none" => active[d] = {}

\* No event is lost, whatever the interleaving of callers, worker, responses,
\* crashes and restarts: it is queued, active, settled or dropped on the
\* operator's behalf.
NothingLost ==
    Netburst => \A d \in Dests :
       accepted[d] \subseteq queued[d] \cup active[d] \cup settled[d] \cup dropped[d]

\* One transaction at a time carries every active row, so that nothing is lost.
SenderSound == OneInFlight /\ ActiveIsInFlight /\ NothingLost

\* The rows of the two tables are what the outbox holds.
Promise == INSTANCE Outbox WITH held <- [d \in Dests |-> queued[d] \cup active[d]]

\* The service implements the outbox it promises to its callers (with the
\* startup burst on, its default).
ImplementsOutbox == Promise!Spec

\* An entry that blocks its destination and has no transaction in flight.
Wedged(d) ==
    /\ phase = "up" /\ status[d] \in {"running", "retrying"}
    /\ \A f \in futures : f.dest # d

\* With a peer that recovers, every event queued for it is settled at last,
\* backoff, crashes and restarts notwithstanding; only a failure of the
\* database, and nothing else, may block the destination for good.
EventuallySettled ==
    \A d \in Federation, x \in Items :
       x \in accepted[d] ~> x \in settled[d] \/ (DbFails /\ Wedged(d))
=============================================================================
