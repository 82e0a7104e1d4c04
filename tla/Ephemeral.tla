----------------------------- MODULE Ephemeral -----------------------------
(***************************************************************************)
(* Presence and typing.  A user's presence is a row that timers take from  *)
(* online to unavailable to offline; clients and timers write it without a *)
(* lock, and each write starts a timer of its own.  Who is typing in a     *)
(* room is kept in memory with the count of the last change; entries whose *)
(* time is over are removed when somebody looks.                           *)
(***************************************************************************)
EXTENDS Integers, FiniteSets

CONSTANTS
    Typers,        \* users who type in the room
    RefreshAfter, IdleAfter, OfflineAfter,   \* presence timeouts
    TypingFor,     \* how long a typing notice lasts
    MaxClock,      \* the last moment
    MaxTyped,      \* the last count drawn
    MaxReboots

ASSUME EphemeralAssumption ==
    RefreshAfter \in Nat /\ IdleAfter \in Nat /\ OfflineAfter \in Nat /\ TypingFor \in Nat

VARIABLES
    clock,
    presence,    \* the user's row: [state, ts (last_active_ts), here (written since the start)]
    writers,     \* set_presence in progress, for a client and for the timer worker
    timers,      \* the moments timers end
    typing,      \* per user: when the notice ends, or -1
    update,      \* the count of the last change
    counted,     \* the global count
    watcher,     \* a syncing client: [pc, since, next, update, token, seen]
    reboots

presenceVars == << presence, writers, timers >>
typingVars == << typing, update, counted, watcher >>
ephemeralVars == << clock, presenceVars, typingVars, reboots >>

States == {"online", "unavailable", "offline"}
Writers == {"client", "timer"}
NoWriter == [pc |-> "idle", state |-> "offline", ago |-> 0]
Typing == {u \in Typers : typing[u] # -1}

PresenceInit ==
    /\ clock = 0
    /\ presence = [state |-> "none", ts |-> 0, here |-> FALSE]
    /\ writers = [w \in Writers |-> NoWriter] /\ timers = {}
    /\ reboots = 0
TypingInit ==
    /\ typing = [u \in Typers |-> -1] /\ update = 0 /\ counted = 0
    /\ watcher = [pc |-> "idle", next |-> 0, update |-> 0, token |-> 0, seen |-> {}]

(***************************************************************************)
(* Presence.                                                               *)
(***************************************************************************)
Ago == clock - presence.ts

Begin(w, state, ago) == writers' = [writers EXCEPT ![w] = [pc |-> "write", state |-> state, ago |-> ago]]

(* A client's activity; a repeated state within the refresh time is left.  *)
ping_presence(state) ==
    /\ writers["client"].pc = "idle"
    /\ presence.state # state \/ Ago >= RefreshAfter
    /\ Begin("client", state, 0)
    /\ UNCHANGED << clock, presence, timers, typingVars, reboots >>

(* The row is replaced, unless the same state is already there with later  *)
(* activity.                                                               *)
WritePresence(w) ==
    LET new == writers[w]
        ts == clock - new.ago
        spam == presence.state = new.state /\ ts < presence.ts
    IN  /\ new.pc = "write"
        /\ presence' = IF spam THEN presence ELSE [state |-> new.state, ts |-> ts, here |-> TRUE]
        /\ writers' = [writers EXCEPT ![w].pc = "arm"]
        /\ UNCHANGED << clock, timers, typingVars, reboots >>

timeout_of_idle(state) == IdleAfter

timeout_of(state) == IF state = "online" THEN IdleAfter ELSE OfflineAfter

(* The write is followed by a timer for the new state.                     *)
SendTimer(w) ==
    /\ writers[w].pc = "arm"
    /\ timers' = timers \cup {clock + timeout_of(writers[w].state)}
    /\ writers' = [writers EXCEPT ![w] = NoWriter]
    /\ UNCHANGED << clock, presence, typingVars, reboots >>

(* The worker takes one timer that ended and steps the state down if its   *)
(* time is over.                                                           *)
process_presence_timer(due) ==
    /\ due <= clock /\ writers["timer"].pc = "idle"
    /\ timers' = timers \ {due}
    /\ \/ presence.state = "online" /\ Ago >= IdleAfter /\ Begin("timer", "unavailable", Ago)
       \/ presence.state = "unavailable" /\ Ago >= OfflineAfter /\ Begin("timer", "offline", Ago)
       \/ /\ ~(presence.state = "online" /\ Ago >= IdleAfter)
          /\ ~(presence.state = "unavailable" /\ Ago >= OfflineAfter)
          /\ UNCHANGED writers
    /\ UNCHANGED << clock, presence, typingVars, reboots >>

(* Timers do not outlive the process.                                      *)
RebootPresence ==
    /\ reboots < MaxReboots /\ reboots' = reboots + 1
    /\ writers' = [w \in Writers |-> NoWriter] /\ timers' = {}
    /\ presence' = [presence EXCEPT !.here = FALSE]
    /\ UNCHANGED << clock, typingVars >>

(***************************************************************************)
(* Typing.                                                                 *)
(***************************************************************************)
Change(users) ==
    /\ counted' = counted + 1
    /\ update' = counted' /\ typing' = users

typing_add(u) ==
    /\ counted < MaxTyped /\ Change([typing EXCEPT ![u] = clock + TypingFor])
    /\ UNCHANGED << clock, presenceVars, watcher, reboots >>

typing_remove(u) ==
    /\ counted < MaxTyped /\ Change([typing EXCEPT ![u] = -1])
    /\ UNCHANGED << clock, presenceVars, watcher, reboots >>

Expired == {u \in Typing : typing[u] < clock}

typings_maintain_silently ==
    /\ typing' = [u \in Typers |-> IF u \in Expired THEN -1 ELSE typing[u]]
    /\ UNCHANGED << update, counted >>

(* Removes the entries whose time is over, as a change.                    *)
typings_maintain ==
    IF Expired = {} THEN UNCHANGED << typing, update, counted >>
    ELSE Change([u \in Typers |-> IF u \in Expired THEN -1 ELSE typing[u]])

(* A sync fixes next_batch.                                                *)
SampleTyping ==
    /\ watcher.pc = "idle"
    /\ watcher' = [watcher EXCEPT !.pc = "look", !.next = counted]
    /\ UNCHANGED << clock, presenceVars, typing, update, counted, reboots >>

(* v3 reads the last change, then the users.                               *)
last_typing_update ==
    /\ watcher.pc = "look" /\ counted <= MaxTyped
    /\ typings_maintain
    /\ watcher' = [watcher EXCEPT !.pc = "users", !.update = update']
    /\ UNCHANGED << clock, presenceVars, reboots >>

typing_users_for_user ==
    /\ watcher.pc = "users"
    /\ watcher' = [pc |-> "idle", next |-> 0, update |-> 0, token |-> watcher.next,
                   seen |-> IF watcher.update > watcher.token THEN Typing ELSE watcher.seen]
    /\ UNCHANGED << clock, presenceVars, typing, update, counted, reboots >>

(* v5 reads both at once, and leaves a change past next_batch to the next  *)
(* pass.                                                                   *)
typing_snapshot_for_user ==
    /\ watcher.pc = "look" /\ counted <= MaxTyped
    /\ typings_maintain
    /\ watcher' = [pc |-> "idle", next |-> 0, update |-> 0, token |-> watcher.next,
                   seen |-> IF watcher.token < update' /\ update' <= watcher.next
                            THEN {u \in Typers : typing'[u] # -1} ELSE watcher.seen]
    /\ UNCHANGED << clock, presenceVars, reboots >>

PassTime ==
    /\ clock < MaxClock /\ clock' = clock + 1
    /\ UNCHANGED << presenceVars, typingVars, reboots >>

PresenceNext ==
    \/ \E s \in States : ping_presence(s)
    \/ \E w \in Writers : WritePresence(w) \/ SendTimer(w)
    \/ \E due \in timers : process_presence_timer(due)
    \/ RebootPresence \/ PassTime

TypingNext ==
    \/ \E u \in Typers : typing_add(u) \/ typing_remove(u)
    \/ SampleTyping \/ last_typing_update \/ typing_users_for_user \/ typing_snapshot_for_user
    \/ PassTime

EphemeralSpec ==
    PresenceInit /\ TypingInit /\ [][PresenceNext \/ TypingNext]_ephemeralVars

(***************************************************************************)
(* Properties.                                                             *)
(***************************************************************************)

(* Nobody stays online for good: while the row says online or unavailable, *)
(* a write is under way or a timer ends late enough to step it down,       *)
(* however clients and timers interleave.  A row left by an earlier run of *)
(* the server has no timer.                                                *)
SteppedDown ==
    presence.here /\ presence.state \in {"online", "unavailable"} =>
        \/ \E w \in Writers : writers[w].pc # "idle"
        \/ \E due \in timers : due >= presence.ts + timeout_of(presence.state)

(* A client whose token covers the last change of a room's typing users    *)
(* shows those users, however removals, expiries and the two reads of an   *)
(* answer interleave.                                                      *)
TypingIsSeen == watcher.token >= update => watcher.seen = Typing

(* Presence and typing do not outlive the activity they report: an idle    *)
(* user steps down, and a client that has the newest token has the list.   *)
EphemeralSound == SteppedDown /\ TypingIsSeen

-----------------------------------------------------------------------------
(***************************************************************************)
(* The ephemeral updates a transaction to another server picks up: changed *)
(* devices, receipts and presence since the position kept for the server.  *)
(* (crates/phantom-service/src/net/sending/sender/edus.rs, select.rs)      *)
(*                                                                         *)
(* Each update draws a number from the global counter and then stores its  *)
(* row; a row is replaced when the same user changes again.                *)
(***************************************************************************)

CONSTANTS
  Users,        \* users with updates
  Locals,       \* those of this server
  SELECT_LIMIT, \* updates of one kind in a transaction
  MaxUpdates    \* updates made

ASSUME EdusAssumption == Locals \subseteq Users /\ SELECT_LIMIT \in Nat \ {0} /\ MaxUpdates \in Nat

Kinds == {"device", "receipt", "presence"}

VARIABLES
  lastcount,  \* the last number drawn
  writing,     \* rows not yet stored: [count, kind, user]
  updates,     \* the tables' rows: [count, kind, user]
  educount,    \* the position kept for the server
  selecting,   \* the selection under way
  selected,    \* history: numbers of rows put in a transaction
  cut,         \* history: numbers of rows a limit left out
  passed       \* history: numbers not yet stored when a window was fixed

evars == <<lastcount, writing, updates, educount, selecting, selected, cut, passed>>

NoSelection == [on |-> FALSE, since |-> 0, upper |-> 0, left |-> {}, max |-> 0]

EdusInit ==
  /\ lastcount = 0 /\ writing = {} /\ updates = {} /\ educount = 0
  /\ selecting = NoSelection /\ selected = {} /\ cut = {} /\ passed = {}

\* server_state.current_count: the last number drawn, stored or not.
current_count == lastcount

UpdateStart(k, u) ==
  /\ lastcount < MaxUpdates
  /\ lastcount' = lastcount + 1
  /\ writing' = writing \cup {[count |-> lastcount + 1, kind |-> k, user |-> u]}
  /\ UNCHANGED <<updates, educount, selecting, selected, cut, passed>>

UpdatePut(w) ==
  /\ writing' = writing \ {w}
  /\ updates' = {r \in updates : ~(r.kind = w.kind /\ r.user = w.user)} \cup {w}
  /\ UNCHANGED <<lastcount, educount, selecting, selected, cut, passed>>

-----------------------------------------------------------------------------
\* The window is fixed first; the three kinds are then read side by side.
select_edus ==
  /\ ~selecting.on
  /\ selecting' = [on |-> TRUE, since |-> educount, upper |-> current_count,
                   left |-> Kinds, max |-> educount]
  /\ passed' = passed \cup {w.count : w \in writing}
  /\ UNCHANGED <<lastcount, writing, updates, educount, selected, cut>>

(* Mutant: the devices' rows are read to the end of the table. *)
InWindow_devices_unbounded(k) ==
  {r \in updates : r.kind = k /\ selecting.since < r.count /\ (k = "device" \/ r.count <= selecting.upper)}

InWindow(k) == {r \in updates : r.kind = k /\ selecting.since < r.count /\ r.count <= selecting.upper}

\* Rows are read room by room up to the limit, so that which are left out
\* does not follow their order; rows of other servers' users only move the
\* position, and for devices not even that.
SelectKind(k, seen) ==
  LET taken == {r \in seen : r.user \in Locals}
      due == {r \in InWindow(k) : r.user \in Locals}
      counts == {selecting.max} \cup {r.count : r \in seen}
  IN /\ selecting.on /\ k \in selecting.left
     /\ IF Cardinality(due) < SELECT_LIMIT
        THEN seen = IF k = "device" THEN due ELSE InWindow(k)
        ELSE Cardinality(taken) = SELECT_LIMIT
     /\ \E top \in counts :
          /\ \A c \in counts : c <= top
          /\ selecting' = [selecting EXCEPT !.left = @ \ {k}, !.max = top]
     /\ selected' = selected \cup {r.count : r \in taken}
     /\ cut' = cut \cup {r.count : r \in due \ taken}
     /\ UNCHANGED <<lastcount, writing, updates, educount, passed>>

select_edus_device_changes ==
  \E seen \in SUBSET {r \in InWindow("device") : r.user \in Locals} : SelectKind("device", seen)

select_edus_receipts ==
  \E seen \in SUBSET InWindow("receipt") : SelectKind("receipt", seen)

select_edus_presence ==
  \E seen \in SUBSET InWindow("presence") : SelectKind("presence", seen)

\* select_events keeps the position before the transaction is sent.
set_latest_educount ==
  /\ selecting.on /\ selecting.left = {}
  /\ educount' = selecting.max
  /\ selecting' = NoSelection
  /\ UNCHANGED <<lastcount, writing, updates, selected, cut, passed>>

EdusNext ==
  \/ \E k \in Kinds, u \in Users : UpdateStart(k, u)
  \/ \E w \in writing : UpdatePut(w)
  \/ select_edus \/ select_edus_device_changes \/ select_edus_receipts \/ select_edus_presence
  \/ set_latest_educount

EdusSpec == EdusInit /\ [][EdusNext]_evars

-----------------------------------------------------------------------------
(* The position never passes an update of one of our users that no         *)
(* transaction carried, unless a limit left it out, or it had drawn its    *)
(* number and not stored its row when a window was fixed: what is stored   *)
(* or replaced while the kinds are read is in the next window.             *)
NoneSkipped ==
  \A r \in updates : r.user \in Locals /\ r.count <= educount => r.count \in selected \cup cut \cup passed
=============================================================================
