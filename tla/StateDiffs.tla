----------------------------- MODULE StateDiffs -----------------------------
(***************************************************************************)
(* A room's state versions as the stack of diffs they are stored in.       *)
(* (crates/phantom-service/src/rooms/state_compressor/mod.rs and the three *)
(* writers of state/mod.rs)                                                *)
(*                                                                         *)
(* A version is a number.  Its row names a parent version and what it adds *)
(* to and removes from it.  Rows never change, so what loading a version   *)
(* builds (full_state, and how many frames are on the stack) is built when *)
(* its row is saved and kept with it.  The state lock of the room is held  *)
(* by the writers, so they do not interleave; a crash may come between any *)
(* two of their writes.                                                    *)
(*                                                                         *)
(* The compressed pair of short ids is a pair of a key and an event, and a *)
(* state is its own hash.  The cache of loaded stacks is left out, since   *)
(* rows never change.                                                      *)
(***************************************************************************)
EXTENDS Integers, FiniteSets

CONSTANTS
  StateKey, Value,       \* state keys, and the events that can stand under one
  Given,            \* the states that come from resolution or another server
  MaxVersions,      \* how many versions are numbered
  MaxCrashes

Entry == StateKey \X Value

(* A state has one event for a key. *)
State == {S \in SUBSET Entry : \A e, f \in S : e[1] = f[1] => e = f}

ASSUME StateDiffsAssumption ==
  /\ IsFiniteSet(StateKey) /\ IsFiniteSet(Value)
  /\ Given \subseteq State /\ MaxVersions \in Nat /\ MaxCrashes \in Nat

VARIABLES
  versions,   \* shortstatehash_statediff, with the stack a row loads as
  short,      \* statehash_shortstatehash: the version of a state, by its hash
  room,       \* roomid_shortstatehash, 0 when there is none
  eventstates, \* the versions of shorteventid_shortstatehash
  counter,    \* the last number drawn
  saving,     \* the recursion of save_state_from_diff under way
  meant,      \* the state each number was drawn for
  crashes

vars == <<versions, short, room, eventstates, counter, saving, meant, crashes>>

Stored == DOMAIN versions

Idle == [op |-> "idle", h |-> 0, new |-> {}, removed |-> {}, sibling |-> 0, up |-> 0]

Init ==
  /\ versions = <<>> /\ short = <<>>
  /\ room = 0 /\ eventstates = {} /\ counter = 0
  /\ saving = Idle /\ meant = <<>> /\ crashes = 0

With(f, x, v) == [y \in DOMAIN f \cup {x} |-> IF y = x THEN v ELSE f[y]]

(* load_shortstatehash_info *)
Full(h) == IF h = 0 THEN {} ELSE versions[h].full
Frames(h) == IF h = 0 THEN 0 ELSE versions[h].frames

-----------------------------------------------------------------------------
(* The three writers up to save_state_from_diff, which starts from the     *)
(* room's version, or from none when there is none to be loaded.           *)
Loaded == IF room \in Stored THEN room ELSE 0

(* A number is drawn for the state; the rest is the difference. *)
Start(op, sibling, S) ==
  /\ counter < MaxVersions
  /\ counter' = counter + 1
  /\ meant' = With(meant, counter + 1, S)
  /\ saving' = [op |-> op, h |-> counter + 1, new |-> S \ Full(Loaded),
                removed |-> Full(Loaded) \ S, sibling |-> sibling, up |-> Loaded]

(* Mutant: the room is pointed to the version before its row is saved. *)
SaveState_PointsFirst(S) ==
  /\ saving = Idle
  /\ \/ /\ S \in DOMAIN short
        /\ room' = short[S]
        /\ UNCHANGED <<short, counter, meant, saving>>
     \/ /\ S \notin DOMAIN short
        /\ Start("room", 2, S)
        /\ short' = With(short, S, counter + 1)
        /\ room' = counter + 1
  /\ UNCHANGED <<versions, eventstates, crashes>>

(* save_state, whose version force_state then makes the room's. *)
SaveState(S) ==
  /\ saving = Idle
  /\ \/ /\ S \in DOMAIN short
        /\ room' = short[S]
        /\ UNCHANGED <<short, counter, meant, saving>>
     \/ /\ S \notin DOMAIN short
        /\ Start("room", 2, S)
        /\ short' = With(short, S, counter + 1)
        /\ UNCHANGED room
  /\ UNCHANGED <<versions, eventstates, crashes>>

(* So large a distance that an event's state is never merged for its size. *)
EventSibling == 1000000

(* set_event_state: it fails when the room's version cannot be loaded, but *)
(* by then the number is the state's.                                      *)
SetEventState(S) ==
  /\ saving = Idle
  /\ \/ /\ S \in DOMAIN short
        /\ eventstates' = eventstates \cup {short[S]}
        /\ UNCHANGED <<short, counter, meant, saving>>
     \/ /\ S \notin DOMAIN short /\ room \in Stored \cup {0}
        /\ Start("event", EventSibling, S)
        /\ short' = With(short, S, counter + 1)
        /\ UNCHANGED eventstates
     \/ /\ S \notin DOMAIN short /\ room \notin Stored \cup {0}
        /\ counter < MaxVersions /\ counter' = counter + 1
        /\ meant' = With(meant, counter + 1, S)
        /\ short' = With(short, S, counter + 1)
        /\ UNCHANGED <<eventstates, saving>>
  /\ UNCHANGED <<versions, room, crashes>>

(* append_to_state: the event before it, then what it replaces. *)
Replaced(e) == {f \in Full(room) : f[1] = e[1]}

AppendToState(e) ==
  /\ saving = Idle
  /\ eventstates' = eventstates \cup ({room} \ {0})
  /\ IF room \in Stored \cup {0} /\ e \notin Replaced(e)
     THEN Start("room", 2, (Full(room) \ Replaced(e)) \cup {e})
     ELSE UNCHANGED <<counter, meant, saving>>
  /\ UNCHANGED <<versions, short, room, crashes>>

-----------------------------------------------------------------------------
(* save_state_from_diff, one call of the recursion a step.                 *)

(* Mutant: what the parent adds is kept although the difference removes it. *)
MergedAdded_Kept(added, removed, new, gone) == added \cup (new \ removed)

(* merge_into_parent: what is removed goes first, then what is new.        *)
MergedAdded(added, removed, new, gone) ==
  (added \ gone) \cup (new \ (removed \cup (gone \ added)))

MergedRemoved(added, removed, new, gone) == (removed \cup (gone \ added)) \ new

Size(S, T) == Cardinality(S) + Cardinality(T)

(* The stack is at its limit, or the diff is large beside its parent's. *)
TooDeep == Frames(saving.up) > 3

TooLarge ==
  LET p == versions[saving.up]
      diffsum == Size(saving.new, saving.removed)
  IN diffsum * diffsum >= 2 * saving.sibling * Size(p.added, p.removed)

MergesUp == saving.up # 0 /\ (TooDeep \/ TooLarge)

Unsaved == saving # Idle /\ saving.h \notin Stored

Merge ==
  /\ Unsaved /\ MergesUp
  /\ LET p == versions[saving.up]
     IN saving' =
          [saving EXCEPT
            !.new = MergedAdded(p.added, p.removed, saving.new, saving.removed),
            !.removed = MergedRemoved(p.added, p.removed, saving.new, saving.removed),
            !.sibling = Size(saving.new, saving.removed),
            !.up = p.parent]
  /\ UNCHANGED <<versions, short, room, eventstates, counter, meant, crashes>>

(* save_statediff.  A row without a parent loads as what it adds. *)
Row ==
  [parent |-> saving.up, added |-> saving.new, removed |-> saving.removed,
   full |-> IF saving.up = 0 THEN saving.new
            ELSE (Full(saving.up) \cup saving.new) \ saving.removed,
   frames |-> Frames(saving.up) + 1]

SaveStateDiff ==
  /\ Unsaved /\ ~MergesUp
  /\ versions' = With(versions, saving.h, Row)
  /\ UNCHANGED <<short, room, eventstates, counter, saving, meant, crashes>>

(* set_room_state, or the event's entry in shorteventid_shortstatehash. *)
Point ==
  /\ saving # Idle /\ saving.h \in Stored
  /\ room' = IF saving.op = "room" THEN saving.h ELSE room
  /\ eventstates' = IF saving.op = "event" THEN eventstates \cup {saving.h} ELSE eventstates
  /\ saving' = Idle
  /\ UNCHANGED <<versions, short, counter, meant, crashes>>

(* The process dies between two writes; the number stays drawn. *)
Crash ==
  /\ saving # Idle
  /\ crashes < MaxCrashes /\ crashes' = crashes + 1
  /\ saving' = Idle
  /\ UNCHANGED <<versions, short, room, eventstates, counter, meant>>

Next ==
  \/ \E S \in Given : SaveState(S) \/ SetEventState(S)
  \/ \E e \in Entry : AppendToState(e)
  \/ Merge \/ SaveStateDiff \/ Point \/ Crash

Spec == Init /\ [][Next]_vars

-----------------------------------------------------------------------------
TypeOK ==
  /\ room \in Nat /\ counter \in Nat /\ crashes \in Nat
  /\ Stored \subseteq 1 .. counter /\ eventstates \subseteq 1 .. counter
  /\ DOMAIN meant = 1 .. counter
  /\ \A h \in Stored :
       /\ versions[h].parent \in {0} \cup Stored
       /\ versions[h].added \subseteq Entry /\ versions[h].removed \subseteq Entry
       /\ versions[h].frames \in Nat
  /\ saving.op \in {"idle", "room", "event"}

(* A row removes only what its parent has and adds only what it has not,   *)
(* so that the order in which loading applies the two does not matter.     *)
(* (new_shortstatehash_info adds first; merge_into_parent removes first)   *)
DiffsAreExact ==
  \A h \in Stored :
    LET base == Full(versions[h].parent)
    IN versions[h].removed \subseteq base /\ versions[h].added \cap base = {}

(* A version loads as the state it was saved for, however its diff was     *)
(* merged up the stack.  (save_state_from_diff, merge_into_parent)         *)
LoadsAsMeant == \A h \in Stored : versions[h].full = meant[h]

(* Loading a version never takes more than four rows.                      *)
(* (save_state_from_diff: parent_states.len() > 3)                         *)
StackIsShort == \A h \in Stored : versions[h].frames <= 4

(* What the room and its events point to can be loaded, as long as no      *)
(* crash came between a state's number and its row.                        *)
(* (save_state and set_event_state, which save no row for a known hash)    *)
PointersLoad == crashes = 0 => ({room} \ {0}) \cup eventstates \subseteq Stored

(* Every state the server points to can be loaded and is the one meant.    *)
StatesLoad == LoadsAsMeant /\ PointersLoad
=============================================================================
