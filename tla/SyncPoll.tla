------------------------------ MODULE SyncPoll ------------------------------
(***************************************************************************)
(* /sync v3: one device long-polling while writers store rows for it.      *)
(* A writer first draws its number from the global counter and only then   *)
(* stores its row; a poll arms its watchers, samples the counter, builds   *)
(* an answer from the rows in (since, next_batch], and waits when there is *)
(* nothing to say.  Rows addressed to the device are removed once a poll   *)
(* comes with a since at or past them; the others (account data, receipts, *)
(* presence, events) stay.                                                 *)
(*                                                                         *)
(* A build reads rows in (since, next_batch] and removes rows up to since, *)
(* two disjoint sets, so it is one step.                                   *)
(***************************************************************************)
EXTENDS Naturals, FiniteSets

CONSTANTS
    MaxCount,   \* bound on the numbers drawn
    MaxLost,    \* bound on the answers lost on their way to the client
    MaxShutdowns    \* bound on shutdowns

ASSUME SyncAssumption == MaxCount \in Nat /\ MaxLost \in Nat /\ MaxShutdowns \in Nat

RowKinds == {"device", "kept"}

VARIABLES
    count,      \* the global counter
    drawn,      \* numbers drawn whose row is not stored yet, by kind
    rows,       \* stored rows, by kind
    stopping,   \* server.is_stopping()
    pc,         \* the poll: "idle", "arm", "sample", "build", "wait", "answer"
    since, next,    \* since and next_batch of the poll
    armed, woken,   \* its watchers are registered, one of them fired
    reply,      \* rows in the answer
    token,      \* the client's position
    received,   \* history: rows the client has received
    stored,     \* history: every row ever stored
    raced,      \* history: numbers drawn, not stored, when a poll sampled
    lost,       \* history: answers lost
    shutdowns       \* history: shutdowns

poll == <<pc, since, next, armed, woken, reply>>
device == <<token, received, lost>>
server == <<count, drawn, rows, stopping, stored, shutdowns>>
pollVars == <<server, poll, device, raced>>

All(r) == UNION {r[k] : k \in RowKinds}

PollInit ==
    /\ count = 0 /\ stopping = FALSE
    /\ drawn = [k \in RowKinds |-> {}] /\ rows = [k \in RowKinds |-> {}]
    /\ pc = "idle" /\ since = 0 /\ next = 0 /\ armed = FALSE /\ woken = FALSE
    /\ reply = {}
    /\ token = 0 /\ received = {} /\ stored = {} /\ raced = {} /\ lost = 0 /\ shutdowns = 0

-----------------------------------------------------------------------------
(* Writers *)

\* Counter::next.
Draw(k) ==
    /\ count < MaxCount
    /\ count' = count + 1
    /\ drawn' = [drawn EXCEPT ![k] = @ \cup {count + 1}]
    /\ UNCHANGED <<rows, stopping, shutdowns, stored, poll, device, raced>>

\* Mutant of Put: the table the row goes to is not among the watched ones.
Put_Unwatched(k, n) ==
    /\ n \in drawn[k]
    /\ drawn' = [drawn EXCEPT ![k] = @ \ {n}]
    /\ rows' = [rows EXCEPT ![k] = @ \cup {n}]
    /\ stored' = stored \cup {n}
    /\ UNCHANGED <<count, stopping, shutdowns, poll, device, raced>>

\* The row is stored and Watchers::wake fires the watchers of its prefix.
Put(k, n) ==
    /\ n \in drawn[k]
    /\ drawn' = [drawn EXCEPT ![k] = @ \ {n}]
    /\ rows' = [rows EXCEPT ![k] = @ \cup {n}]
    /\ stored' = stored \cup {n}
    /\ woken' = (woken \/ armed)
    /\ UNCHANGED <<count, stopping, shutdowns, pc, since, next, armed, reply, device, raced>>

\* Server::shutdown wakes every poll.
Stop ==
    /\ ~stopping /\ shutdowns < MaxShutdowns
    /\ stopping' = TRUE /\ shutdowns' = shutdowns + 1
    /\ woken' = (woken \/ armed)
    /\ UNCHANGED <<count, drawn, rows, stored, pc, since, next, armed, reply, device, raced>>

\* A restart keeps the counter and the rows; what was drawn but not stored is
\* gone, and so is the poll.
Restart ==
    /\ stopping
    /\ stopping' = FALSE
    /\ drawn' = [k \in RowKinds |-> {}]
    /\ pc' = "idle" /\ armed' = FALSE /\ woken' = FALSE /\ reply' = {}
    /\ UNCHANGED <<count, rows, stored, shutdowns, since, next, device, raced>>

-----------------------------------------------------------------------------
(* The poll *)

\* A request with the client's position; timeout = 0 and full_state never arm.
Request ==
    /\ pc = "idle" /\ ~stopping
    /\ since' = token
    /\ pc' \in {"arm", "sample"}
    /\ armed' = FALSE /\ woken' = FALSE
    /\ UNCHANGED <<server, next, reply, device, raced>>

\* sync::watch: each pass of the loop arms new watchers.
Arm ==
    /\ pc = "arm"
    /\ armed' = TRUE /\ woken' = stopping
    /\ pc' = "sample"
    /\ UNCHANGED <<server, since, next, reply, device, raced>>

\* Counter::current, and since clamped to it.
Sample ==
    /\ pc = "sample"
    /\ next' = count
    /\ since' = IF since > count THEN count ELSE since
    /\ pc' = "build"
    /\ raced' = raced \cup All(drawn)
    /\ UNCHANGED <<server, armed, woken, reply, device>>

Found == {n \in All(rows) : since < n /\ n <= next}

\* Mutant of Acknowledged: the rows of this very answer are removed too.
Acknowledged_Next == {n \in rows["device"] : n <= next}

\* remove_to_device_events
Acknowledged == {n \in rows["device"] : n <= since}

\* build_sync_events, skipped when there is nothing new (unless full_state,
\* which answers even then).  An empty build goes on to wait.
Build ==
    /\ pc = "build"
    /\ \E full \in (IF armed THEN {FALSE} ELSE BOOLEAN) :
          IF since < next \/ full
          THEN /\ rows' = [rows EXCEPT !["device"] = @ \ Acknowledged]
               /\ reply' = Found
               /\ pc' = IF Found # {} \/ full THEN "answer" ELSE "wait"
          ELSE /\ pc' = "wait"
               /\ UNCHANGED <<rows, reply>>
    /\ UNCHANGED <<count, drawn, stopping, stored, shutdowns, since, next, armed, woken, device, raced>>

\* Woken by a watcher: the loop goes round with the sampled count as since.
Woken ==
    /\ pc = "wait"
    /\ woken /\ ~stopping
    /\ since' = next
    /\ pc' = "arm"
    /\ armed' = FALSE /\ woken' = FALSE
    /\ UNCHANGED <<server, next, reply, device, raced>>

\* Mutant of EmptyResponse: a timeout begins the wait again.
EmptyResponse_WaitsOn ==
    /\ pc = "wait"
    /\ ~woken \/ stopping
    /\ reply' = {}
    /\ pc' = IF stopping THEN "answer" ELSE "wait"
    /\ UNCHANGED <<server, since, next, armed, woken, device, raced>>

\* The timeout, nothing armed, or a shutdown: build_empty_response.
EmptyResponse ==
    /\ pc = "wait"
    /\ ~woken \/ stopping
    /\ reply' = {}
    /\ pc' = "answer"
    /\ UNCHANGED <<server, since, next, armed, woken, device, raced>>

\* The client takes the answer and its next_batch ...
Answer ==
    /\ pc = "answer"
    /\ token' = next
    /\ received' = received \cup reply
    /\ pc' = "idle" /\ reply' = {} /\ armed' = FALSE /\ woken' = FALSE
    /\ UNCHANGED <<server, since, next, lost, raced>>

\* ... or never sees it, at whatever point the connection breaks, and asks
\* again from where it was.
Disconnect ==
    /\ pc # "idle" /\ lost < MaxLost
    /\ lost' = lost + 1
    /\ pc' = "idle" /\ reply' = {} /\ armed' = FALSE /\ woken' = FALSE
    /\ UNCHANGED <<server, since, next, token, received, raced>>

PollNext ==
    \/ \E k \in RowKinds : Draw(k)
    \/ \E k \in RowKinds, n \in 1 .. MaxCount : Put(k, n)
    \/ Stop \/ Restart
    \/ Request \/ Arm \/ Sample \/ Build \/ Woken \/ EmptyResponse
    \/ Answer \/ Disconnect

PollSpec == PollInit /\ [][PollNext]_pollVars

-----------------------------------------------------------------------------
(* Properties *)

\* watch.rs:18: a write landing after the sample, while the answer is built,
\* wakes the poll: a poll never parks over a row it did not look at.
NoLostWakeup ==
    pc = "wait" /\ armed /\ (\E n \in stored : n > next) => woken

\* Nothing stored before the sample that covers it is skipped: the client's
\* position never passes a row it has not received, unless the row's number
\* was drawn and its row not yet stored when a poll sampled the counter.
PositionIsReceived ==
    \A n \in stored : n <= token => n \in received \cup raced

\* v3.rs:410: a removed to-device row is one the device received, under the
\* same proviso: a lost answer or a broken connection never loses one.
RemovedIsReceived ==
    \A n \in stored \ All(rows) : n \in received \cup raced

\* The long poll overlooks nothing: it is woken for what came after its sample,
\* passes what the client received, and removes what the client acknowledged.
PollSound == NoLostWakeup /\ PositionIsReceived /\ RemovedIsReceived

\* A row whose write no poll raced with reaches a client that keeps polling.
EventuallyReceived ==
    \A n \in 1 .. MaxCount : n \in stored ~> n \in received \cup raced

\* v3.rs:138: "a write landing while the response below is built then wakes the
\* wait instead of being missed until the timeout": the write that woke a poll
\* reaches the client.
NotMissed ==
    \A n \in 1 .. MaxCount :
       pc = "wait" /\ armed /\ woken /\ n \in stored ~> n \in received
=============================================================================
