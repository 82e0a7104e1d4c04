------------------------------- MODULE RoomBirth -------------------------------
(***************************************************************************)
(* How a room comes to be, is replaced and is taken away, and the two      *)
(* tables that let others find it: the local aliases                       *)
(* (phantom-service/src/rooms/alias) and the public directory              *)
(* (rooms/directory.rs).  The routes are those of                          *)
(* phantom-api/src/client/rooms: room/create.rs, room/upgrade.rs,          *)
(* alias/directory_room.rs, directory.rs and state.rs; the deletion is     *)
(* phantom-service/src/rooms/delete.rs.                                    *)
(*                                                                         *)
(* A route is a process that appends one event, or writes one table, per   *)
(* step.  An append may be refused (authorization, a failed write), and    *)
(* what the route does then is what partial failure means here: a          *)
(* creation leaves what it had built, an upgrade deletes its replacement.  *)
(* A room's state is abstracted to where each entry came from.             *)
(***************************************************************************)
EXTENDS Naturals, Sequences, SequencesExt

CONSTANTS Rooms, Old, NoRoom, Aliases, NoAlias, Procs, Nobody,
          Wants,        \* the creation requests tried
          AllowEncryption, EncryptByDefault,   \* config.client
          MaxOps, MaxSlips

VARIABLES place,          \* the rooms: what their state holds and where it is from
          alias_roomid, alias_userid, aliasid_alias, publicroomids,
          held,           \* rooms.state.mutex, by room
          admin_room,     \* the room that is the admin room, or NoRoom
          op, ops, slips,
          erased          \* rooms an admin had deleted

birthVars == <<place, alias_roomid, alias_userid, aliasid_alias, publicroomids,
               held, admin_room, op, ops, slips, erased>>

Kinds == {"member", "sender", "levels", "canonical", "join_rules", "history", "guest",
          "encryption", "name", "space"}

\* Entries of the initial state: absent, the empty object, an entry whose
\* content names no algorithm, or a proper one.
Entries == {"absent", "empty", "odd", "set"}

NoWant == [alias |-> NoAlias, public |-> FALSE, preset |-> "private",
           initial |-> [t \in {"join_rules", "encryption", "name"} |-> "absent"],
           name |-> FALSE]

WantType == [alias : Aliases \cup {NoAlias}, public : BOOLEAN, preset : {"private", "public"},
             initial : [{"join_rules", "encryption", "name"} -> Entries], name : BOOLEAN]

ASSUME WantsTyped == Wants \subseteq WantType

Idle == [kind |-> "idle", at |-> "idle", room |-> NoRoom, old |-> NoRoom, target |-> NoRoom,
         alias |-> NoAlias, todo |-> <<>>, want |-> NoWant]

Unborn == [is |-> "none", state |-> [k \in Kinds |-> "none"], canon |-> {},
           tomb |-> NoRoom, lockdown |-> FALSE]

Exists(r) == place[r].is = "live"

Begin(p, what) ==
    /\ op[p] = Idle
    /\ ops < MaxOps
    /\ ops' = ops + 1
    /\ op' = [op EXCEPT ![p] = what]

Lock(p, r) == held[r] = Nobody /\ held' = [held EXCEPT ![r] = p]

\* Every guard the process holds is dropped when its handler returns.
Unlocked(p) == [r \in Rooms |-> IF held[r] = p THEN Nobody ELSE held[r]]

(***************************************************************************)
(* The alias service.                                                      *)
(***************************************************************************)
resolve_local_alias(a) == alias_roomid[a]

local_aliases_for_room(r) == {a \in Aliases : <<r, a>> \in aliasid_alias}

\* The writer's row and the room's row are added and the alias is pointed at
\* the room; a row the alias has under another room stays.
set_alias_by(as, r, who) ==
    /\ alias_userid' = [a \in Aliases |-> IF a \in as THEN who ELSE alias_userid[a]]
    /\ aliasid_alias' = aliasid_alias \cup ({r} \X as)
    /\ alias_roomid' = [a \in Aliases |-> IF a \in as THEN r ELSE alias_roomid[a]]

\* The end of remove_alias, r being the room read at its beginning.
remove_alias(a, r) ==
    /\ aliasid_alias' = aliasid_alias \ {<<r, a>>}
    /\ alias_roomid' = [alias_roomid EXCEPT ![a] = NoRoom]
    /\ alias_userid' = [alias_userid EXCEPT ![a] = "nobody"]

aliasVars == <<alias_roomid, alias_userid, aliasid_alias>>

(***************************************************************************)
(* Creation.                                                               *)
(***************************************************************************)
\* The entries of initial_state that are sent at all.
kept_initial(want) ==
    {t \in DOMAIN want.initial :
        /\ want.initial[t] \in {"odd", "set"}
        /\ t = "encryption" => AllowEncryption
        /\ t = "name" => ~want.name}

take_initial(want, t, default) ==
    <<t, IF t \in kept_initial(want) THEN "initial" ELSE default>>

guest_access_pdu(want) ==
    IF want.preset # "public" THEN <<<<"guest", "preset">>>> ELSE <<>>

apply_preset_state_pdus(want) ==
    <<take_initial(want, "join_rules", "preset"), <<"history", "preset">>>>
        \o guest_access_pdu(want)

encrypts_room_never(want) == FALSE

encrypts_room(want) ==
    "encryption" \in kept_initial(want) /\ want.initial["encryption"] = "set"

\* encryption_enabled_by_default_for_room_type: "all", "invite" or none.
should_encrypt(want) ==
    /\ AllowEncryption
    /\ ~encrypts_room(want)
    /\ \/ EncryptByDefault = "all"
       \/ EncryptByDefault = "invite" /\ want.preset = "private"

apply_initial_state_pdus(want) ==
    [i \in 1 .. Len(SetToSeq(kept_initial(want) \ {"join_rules"})) |->
        <<SetToSeq(kept_initial(want) \ {"join_rules"})[i], "initial">>]
      \o (IF should_encrypt(want) THEN <<<<"encryption", "preset">>>> ELSE <<>>)

apply_name_and_topic_pdus(want) == IF want.name THEN <<<<"name", "asked">>>> ELSE <<>>

apply_canonical_alias_pdu(want) ==
    IF want.alias # NoAlias THEN <<<<"canonical", "asked">>>> ELSE <<>>

\* create_room_route appends these, in this order, after the create event.
CreationPdus(want) ==
    <<<<"member", "asked">>, <<"levels", "preset">>>> \o apply_canonical_alias_pdu(want)
        \o apply_preset_state_pdus(want) \o apply_initial_state_pdus(want)
        \o apply_name_and_topic_pdus(want)

\* room_alias_check: the alias must not resolve, and is not reserved meanwhile.
room_alias_check(want) == want.alias # NoAlias => resolve_local_alias(want.alias) = NoRoom

CreateRoom(p) ==
    \E want \in Wants :
        /\ room_alias_check(want)
        /\ Begin(p, [Idle EXCEPT !.kind = "create", !.at = "create", !.want = want])
        /\ UNCHANGED <<place, aliasVars, publicroomids, held, admin_room, slips, erased>>

\* new_room_id names no known room, so the lock is free.
create_create_event(p) ==
    /\ op[p].kind = "create" /\ op[p].at = "create"
    /\ \E r \in Rooms :
        /\ place[r].is = "none"
        /\ \A s \in Rooms : place[s].is = "none" => held[s] = Nobody
        /\ Lock(p, r)
        /\ place' = [place EXCEPT ![r].is = "live"]
        /\ op' = [op EXCEPT ![p].at = "append", ![p].room = r,
                            ![p].todo = CreationPdus(op[p].want)]
    /\ UNCHANGED <<aliasVars, publicroomids, admin_room, ops, slips, erased>>

WithEntry(room, pdu, want) ==
    [room EXCEPT !.state[pdu[1]] = pdu[2],
                 !.canon = IF pdu[1] = "canonical" THEN {want.alias} ELSE @]

CreateAppend(p) ==
    /\ op[p].kind = "create" /\ op[p].at = "append" /\ op[p].todo # <<>>
    /\ place' = [place EXCEPT ![op[p].room] = WithEntry(@, Head(op[p].todo), op[p].want)]
    /\ op' = [op EXCEPT ![p].todo = Tail(@)]
    /\ UNCHANGED <<aliasVars, publicroomids, held, admin_room, ops, slips, erased>>

\* An event is refused: the route returns and the room stays as far as it got.
CreateRefused(p) ==
    /\ op[p].kind = "create" /\ op[p].at \in {"create", "append"}
    /\ op[p].at = "append" => op[p].todo # <<>>
    /\ slips < MaxSlips
    /\ slips' = slips + 1
    /\ op' = [op EXCEPT ![p] = Idle]
    /\ held' = Unlocked(p)
    /\ UNCHANGED <<place, aliasVars, publicroomids, admin_room, ops, erased>>

\* The room's lock is dropped, the invitations are sent; their failures are
\* only logged.
process_invites(p) ==
    /\ op[p].kind = "create" /\ op[p].at = "append" /\ op[p].todo = <<>>
    /\ held' = Unlocked(p)
    /\ op' = [op EXCEPT ![p].at = "finalize"]
    /\ UNCHANGED <<place, aliasVars, publicroomids, admin_room, ops, slips, erased>>

\* The alias checked before the room was made is taken without a second look.
finalize_alias_and_directory(p) ==
    /\ op[p].kind = "create" /\ op[p].at = "finalize"
    /\ IF op[p].want.alias # NoAlias
         THEN set_alias_by({op[p].want.alias}, op[p].room, "creation")
         ELSE UNCHANGED aliasVars
    /\ publicroomids' = IF op[p].want.public THEN publicroomids \cup {op[p].room}
                                             ELSE publicroomids
    /\ op' = [op EXCEPT ![p] = Idle]
    /\ UNCHANGED <<place, held, admin_room, ops, slips, erased>>

(***************************************************************************)
(* Upgrade.  The route holds the old room's lock throughout.               *)
(***************************************************************************)
upgrade_room_route(p) ==
    \E r \in Rooms :
        /\ Exists(r)
        /\ Lock(p, r)
        /\ Begin(p, [Idle EXCEPT !.kind = "upgrade", !.at = "create", !.old = r])
        /\ UNCHANGED <<place, aliasVars, publicroomids, admin_room, slips, erased>>

\* RECOMMENDED_TRANSFERABLE_STATE_EVENT_TYPES from the last to the first.
move_state_events(old) ==
    SelectSeq(<<<<"levels", "copied">>, <<"join_rules", "copied">>, <<"history", "copied">>,
                <<"guest", "copied">>, <<"name", "copied">>, <<"encryption", "copied">>>>,
              LAMBDA pdu : old.state[pdu[1]] # "none")

\* In the admin room the server user creates the replacement and invites the
\* one who asked.
move_sender_user(old, admin) == IF admin THEN <<<<"sender", "invited">>, <<"sender", "copied">>>>
                                         ELSE <<>>

\* Entries of "space" type may be refused one by one without ending the upgrade.
move_space_state(old) == IF old.state["space"] # "none" THEN <<<<"space", "copied">>>> ELSE <<>>

TransferPdus(old, admin) ==
    <<<<"member", "copied">>>> \o move_state_events(old) \o move_space_state(old)
        \o move_sender_user(old, admin)

upgrade_room_create(p) ==
    /\ op[p].kind = "upgrade" /\ op[p].at = "create"
    /\ \E r \in Rooms :
        /\ place[r].is = "none"
        /\ Lock(p, r)
        /\ place' = [place EXCEPT ![r].is = "live"]
        /\ op' = [op EXCEPT ![p].at = "append", ![p].room = r,
                            ![p].todo = TransferPdus(place[op[p].old], admin_room = op[p].old)]
    /\ UNCHANGED <<aliasVars, publicroomids, admin_room, ops, slips, erased>>

\* The member event is read in the old room; one who has none there cannot be
\* moved.
move_member(p) == place[op[p].old].state["member"] # "none"

TransferAppend(p) ==
    /\ op[p].kind = "upgrade" /\ op[p].at = "append" /\ op[p].todo # <<>>
    /\ Head(op[p].todo)[1] \in {"member", "sender"} => move_member(p)
    /\ place' = [place EXCEPT ![op[p].room] = WithEntry(@, Head(op[p].todo), NoWant)]
    /\ op' = [op EXCEPT ![p].todo = Tail(@)]
    /\ UNCHANGED <<aliasVars, publicroomids, held, admin_room, ops, slips, erased>>

SpaceRefused(p) ==
    /\ op[p].kind = "upgrade" /\ op[p].at = "append" /\ op[p].todo # <<>>
    /\ Head(op[p].todo)[1] = "space"
    /\ slips < MaxSlips
    /\ slips' = slips + 1
    /\ op' = [op EXCEPT ![p].todo = Tail(@)]
    /\ UNCHANGED <<place, aliasVars, publicroomids, held, admin_room, ops, erased>>

\* move_push_rules touches only the sender's account data and comes between
\* the events and the aliases.
move_local_aliases(p) ==
    /\ op[p].kind = "upgrade" /\ op[p].at = "append" /\ op[p].todo = <<>>
    /\ set_alias_by(local_aliases_for_room(op[p].old), op[p].room, "upgrade")
    /\ op' = [op EXCEPT ![p].at = "tombstone"]
    /\ UNCHANGED <<place, publicroomids, held, admin_room, ops, slips, erased>>

\* Only a member may send into the old room.
tombstone_old_room(p) ==
    /\ op[p].kind = "upgrade" /\ op[p].at = "tombstone"
    /\ place[op[p].old].state["member"] \notin {"none", "left"}
    /\ place' = [place EXCEPT ![op[p].old].tomb = op[p].room]
    /\ op' = [op EXCEPT ![p].at = "lockdown"]
    /\ UNCHANGED <<aliasVars, publicroomids, held, admin_room, ops, slips, erased>>

lockdown_old_room_fatal(p) ==
    /\ op[p].kind = "upgrade" /\ op[p].at = "lockdown"
    /\ \/ /\ place' = [place EXCEPT ![op[p].old].lockdown = TRUE]
          /\ slips' = slips
          /\ held' = Unlocked(p)
          /\ op' = [op EXCEPT ![p] = Idle]
       \/ /\ slips < MaxSlips /\ slips' = slips + 1 /\ UNCHANGED <<place, held>>
          /\ op' = [op EXCEPT ![p].at = "evict"]
    /\ UNCHANGED <<aliasVars, publicroomids, admin_room, ops, erased>>

\* Sent or refused, the upgrade has succeeded.
lockdown_old_room(p) ==
    /\ op[p].kind = "upgrade" /\ op[p].at = "lockdown"
    /\ \/ place' = [place EXCEPT ![op[p].old].lockdown = TRUE] /\ slips' = slips
       \/ slips < MaxSlips /\ slips' = slips + 1 /\ UNCHANGED place
    /\ held' = Unlocked(p)
    /\ op' = [op EXCEPT ![p] = Idle]
    /\ UNCHANGED <<aliasVars, publicroomids, admin_room, ops, erased>>

\* transfer_room fails before the tombstone: the replacement is deleted.  Before
\* the replacement exists the route just returns.
UpgradeRefused(p) ==
    /\ op[p].kind = "upgrade" /\ op[p].at \in {"create", "append", "tombstone"}
    /\ \/ slips < MaxSlips /\ slips' = slips + 1
       \/ /\ slips' = slips
          /\ \/ /\ op[p].at = "append" /\ op[p].todo # <<>>
                /\ Head(op[p].todo)[1] \in {"member", "sender"} /\ ~move_member(p)
             \/ /\ op[p].at = "tombstone"
                /\ place[op[p].old].state["member"] \in {"none", "left"}
    /\ IF op[p].at = "create"
         THEN op' = [op EXCEPT ![p] = Idle] /\ held' = Unlocked(p)
         ELSE op' = [op EXCEPT ![p].at = "evict"] /\ UNCHANGED held
    /\ UNCHANGED <<place, aliasVars, publicroomids, admin_room, ops, erased>>

(***************************************************************************)
(* Deletion: by an admin, or of a replacement that could not be filled.    *)
(***************************************************************************)
delete_room(p) ==
    \E r \in Rooms :
        /\ Exists(r)
        /\ Lock(p, r)
        /\ Begin(p, [Idle EXCEPT !.kind = "delete", !.at = "evict", !.room = r])
        /\ UNCHANGED <<place, aliasVars, publicroomids, admin_room, slips, erased>>

evict_keeping_aliases(p) ==
    /\ op[p].kind \in {"upgrade", "delete"} /\ op[p].at = "evict"
    /\ place' = [place EXCEPT ![op[p].room].state["member"] = "left"]
    /\ op' = [op EXCEPT ![p].at = "free", ![p].todo = <<>>]
    /\ UNCHANGED <<aliasVars, publicroomids, held, admin_room, ops, slips, erased>>

\* Each local member leaves; one who cannot is put out of the cache alone.
evict(p) ==
    /\ op[p].kind \in {"upgrade", "delete"} /\ op[p].at = "evict"
    /\ place' = [place EXCEPT ![op[p].room].state["member"] = "left"]
    /\ op' = [op EXCEPT ![p].at = "free",
                        ![p].todo = SetToSeq(local_aliases_for_room(op[p].room))]
    /\ UNCHANGED <<aliasVars, publicroomids, held, admin_room, ops, slips, erased>>

\* remove_alias reads the room the alias resolves to, which need not be this
\* one; an alias that resolves to none is passed over.
FreeRead(p) ==
    /\ op[p].at = "free" /\ op[p].todo # <<>>
    /\ LET a == Head(op[p].todo) IN
       op' = IF resolve_local_alias(a) = NoRoom
               THEN [op EXCEPT ![p].todo = Tail(@)]
               ELSE [op EXCEPT ![p].at = "freeing", ![p].alias = a, ![p].todo = Tail(@),
                               ![p].target = resolve_local_alias(a)]
    /\ UNCHANGED <<place, aliasVars, publicroomids, held, admin_room, ops, slips, erased>>

Free(p) ==
    /\ op[p].at = "freeing"
    /\ remove_alias(op[p].alias, op[p].target)
    /\ op' = [op EXCEPT ![p].at = "free", ![p].alias = NoAlias, ![p].target = NoRoom]
    /\ UNCHANGED <<place, publicroomids, held, admin_room, ops, slips, erased>>

set_not_public(p) ==
    /\ op[p].at = "free" /\ op[p].todo = <<>>
    /\ publicroomids' = publicroomids \ {op[p].room}
    /\ op' = [op EXCEPT ![p].at = "purge"]
    /\ UNCHANGED <<place, aliasVars, held, admin_room, ops, slips, erased>>

purge_room(p) ==
    /\ op[p].at = "purge"
    /\ place' = [place EXCEPT ![op[p].room] = [Unborn EXCEPT !.is = "gone"]]
    /\ erased' = IF op[p].kind = "delete" THEN erased \cup {op[p].room} ELSE erased
    /\ held' = Unlocked(p)
    /\ op' = [op EXCEPT ![p] = Idle]
    /\ UNCHANGED <<aliasVars, publicroomids, admin_room, ops, slips>>

\* An admin may stop a deletion before an eviction, or before the purge.
delete_room_cancellable(p) ==
    /\ op[p].kind = "delete" /\ op[p].at \in {"evict", "purge"}
    /\ held' = Unlocked(p)
    /\ op' = [op EXCEPT ![p] = Idle]
    /\ UNCHANGED <<place, aliasVars, publicroomids, admin_room, ops, slips, erased>>

(***************************************************************************)
(* The alias and directory routes.                                         *)
(***************************************************************************)
\* The alias must be free; that the room exists is not asked.
create_alias_route(p) ==
    \E a \in Aliases, r \in Rooms :
        /\ place[r].is # "none"
        /\ resolve_local_alias(a) = NoRoom
        /\ Begin(p, [Idle EXCEPT !.kind = "alias", !.at = "set", !.alias = a, !.room = r])
        /\ UNCHANGED <<place, aliasVars, publicroomids, held, admin_room, slips, erased>>

CreateAlias(p) ==
    /\ op[p].kind = "alias"
    /\ set_alias_by({op[p].alias}, op[p].room, "user")
    /\ op' = [op EXCEPT ![p] = Idle]
    /\ UNCHANGED <<place, publicroomids, held, admin_room, ops, slips, erased>>

delete_alias_route(p) ==
    \E a \in Aliases :
        /\ resolve_local_alias(a) # NoRoom
        /\ Begin(p, [Idle EXCEPT !.kind = "unalias", !.at = "remove", !.alias = a,
                                 !.room = resolve_local_alias(a)])
        /\ UNCHANGED <<place, aliasVars, publicroomids, held, admin_room, slips, erased>>

RemoveAlias(p) ==
    /\ op[p].kind = "unalias" /\ op[p].at = "remove"
    /\ remove_alias(op[p].alias, op[p].room)
    /\ op' = [op EXCEPT ![p].at = "retire"]
    /\ UNCHANGED <<place, publicroomids, held, admin_room, ops, slips, erased>>

\* Under the room's lock, and only if the sender may: the alias leaves the
\* room's own list.
retire_canonical_alias(p) ==
    /\ op[p].kind = "unalias" /\ op[p].at = "retire"
    /\ held[op[p].room] = Nobody
    /\ \/ Exists(op[p].room) /\ place' = [place EXCEPT ![op[p].room].canon = @ \ {op[p].alias}]
       \/ UNCHANGED place
    /\ op' = [op EXCEPT ![p] = Idle]
    /\ UNCHANGED <<aliasVars, publicroomids, held, admin_room, ops, slips, erased>>

\* A canonical alias is checked to resolve to the room before the lock is taken.
validate_canonical_alias(p) ==
    \E a \in Aliases, r \in Rooms :
        /\ Exists(r)
        /\ a \in place[r].canon \/ resolve_local_alias(a) = r
        /\ Begin(p, [Idle EXCEPT !.kind = "canon", !.at = "send", !.alias = a, !.room = r])
        /\ UNCHANGED <<place, aliasVars, publicroomids, held, admin_room, slips, erased>>

send_state_event_for_key_helper(p) ==
    /\ op[p].kind = "canon"
    /\ held[op[p].room] = Nobody
    /\ place' = IF Exists(op[p].room)
                  THEN [place EXCEPT ![op[p].room].canon = {op[p].alias}] ELSE place
    /\ op' = [op EXCEPT ![p] = Idle]
    /\ UNCHANGED <<aliasVars, publicroomids, held, admin_room, ops, slips, erased>>

set_room_visibility_route(p) ==
    /\ op[p] = Idle
    /\ \E r \in Rooms :
        /\ Exists(r)
        /\ publicroomids' \in {publicroomids \cup {r}, publicroomids \ {r}} \ {publicroomids}
    /\ ops < MaxOps
    /\ ops' = ops + 1
    /\ UNCHANGED <<place, aliasVars, held, admin_room, op, slips, erased>>

BirthInit ==
    /\ \E member \in {"asked", "left", "none"}, space \in {"none", "asked"} :
         place = [r \in Rooms |->
                    IF r = Old
                      THEN [Unborn EXCEPT !.is = "live", !.state["member"] = member,
                                          !.state["levels"] = "preset",
                                          !.state["space"] = space, !.canon = Aliases]
                      ELSE Unborn]
    /\ admin_room \in {Old, NoRoom}
    /\ alias_roomid = [a \in Aliases |-> Old]
    /\ alias_userid = [a \in Aliases |-> "user"]
    /\ aliasid_alias = {Old} \X Aliases
    /\ publicroomids = {}
    /\ held = [r \in Rooms |-> Nobody]
    /\ op = [p \in Procs |-> Idle]
    /\ ops = 0 /\ slips = 0 /\ erased = {}

BirthStep(p) ==
    \/ CreateRoom(p) \/ create_create_event(p) \/ CreateAppend(p) \/ CreateRefused(p)
    \/ process_invites(p) \/ finalize_alias_and_directory(p)
    \/ upgrade_room_route(p) \/ upgrade_room_create(p) \/ TransferAppend(p) \/ SpaceRefused(p)
    \/ move_local_aliases(p) \/ tombstone_old_room(p) \/ lockdown_old_room(p)
    \/ UpgradeRefused(p)
    \/ delete_room(p) \/ evict(p) \/ FreeRead(p) \/ Free(p) \/ set_not_public(p)
    \/ purge_room(p) \/ delete_room_cancellable(p)
    \/ create_alias_route(p) \/ CreateAlias(p) \/ delete_alias_route(p) \/ RemoveAlias(p)
    \/ retire_canonical_alias(p) \/ validate_canonical_alias(p)
    \/ send_state_event_for_key_helper(p) \/ set_room_visibility_route(p)

BirthNext == \E p \in Procs : BirthStep(p)

(***************************************************************************)
(* Properties.                                                             *)
(***************************************************************************)
\* The tombstone is the commitment of an upgrade (upgrade.rs:261): a room whose
\* tombstone names a replacement has that replacement, unless an admin deleted
\* it later.  Whatever fails after the tombstone, the replacement stays.
TombstoneStands ==
    \A r \in Rooms : place[r].tomb # NoRoom =>
        Exists(place[r].tomb) \/ place[r].tomb \in erased

\* An alias an upgrade moved never points at a room that is gone: when the
\* upgrade fails and its replacement is deleted, the aliases moved to it are
\* freed with it, whoever else is adding and removing aliases meanwhile.
MovedAliasesLive ==
    \A a \in Aliases :
        alias_userid[a] = "upgrade" /\ alias_roomid[a] # NoRoom => Exists(alias_roomid[a])

\* What a request asked for: its name before initial_state, initial_state
\* before the preset, and the server's forced encryption only where the
\* request configures none.
AskedFor(want) ==
    [k \in {"join_rules", "name", "encryption"} |->
        CASE k = "name" /\ want.name -> "asked"
          [] k = "encryption" /\ ~AllowEncryption -> "none"
          [] k = "encryption" /\ want.initial[k] # "set" /\ EncryptByDefault = "all" -> "preset"
          [] want.initial[k] \in {"odd", "set"} -> "initial"
          [] k = "join_rules" -> "preset"
          [] OTHER -> "none"]

\* A room whose creation got as far as its alias and its directory entry has the
\* state the request asked for.
BuiltAsAsked ==
    \A p \in Procs : op[p].kind = "create" /\ op[p].at = "finalize" =>
        LET r == op[p].room IN
        Exists(r) => \A k \in DOMAIN AskedFor(op[p].want) :
                        place[r].state[k] = AskedFor(op[p].want)[k]

(* What a creation or an upgrade leaves behind is whole, whatever failed   *)
(* on the way: tombstones and moved aliases name rooms that are there, and *)
(* a room is built as it was asked for.                                    *)
BirthSound == TombstoneStands /\ MovedAliasesLive /\ BuiltAsAsked
================================================================================
