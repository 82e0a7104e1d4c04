--------------------------- MODULE Administration ---------------------------
(***************************************************************************)
(* Who administers the server, and which servers they refuse.              *)
(***************************************************************************)
EXTENDS Naturals, FiniteSets

-----------------------------------------------------------------------------
(***************************************************************************)
(* Who the server's admins are: the local users joined to the admin room.  *)
(* Grants, revocations and deactivations asked for over the admin API, and *)
(* what the members do in the room themselves, as requests that each hold  *)
(* the room's lock while they write and may be dropped at any await.       *)
(*                                                                         *)
(* roomState is what the room's events say, cachedJoined and cachedInvited *)
(* what the membership cache says; a deactivation whose leave is refused   *)
(* clears the cache alone.                                                 *)
(***************************************************************************)

CONSTANTS Humans, Requests, MaxAdminOps

VARIABLES
  setup,                  \* the steps of create_admin_room done, in order
  starts,                 \* how often the server was started
  up,
  roomState, cachedJoined, cachedInvited, power,
  adminLock, areq, adminOps, everAdmin, offs

adminVars == <<setup, starts, up, roomState, cachedJoined, cachedInvited, power, adminLock, areq,
               adminOps, everAdmin, offs>>
bootVars == <<setup, starts, up>>
memberVars == <<roomState, cachedJoined, cachedInvited, power>>

NoLock == "free"
NoRequest == [op |-> "none", by |-> "none", who |-> "none", at |-> "idle"]

-----------------------------------------------------------------------------
(* The room itself.  Creating the server user ends the fresh path, so a    *)
(* start that stops after it is never taken up again.                      *)

Steps == <<"user", "create", "join", "power_levels", "rules", "alias">>

create_admin_room ==
  /\ up = "creating" /\ setup < 6 /\ setup' = setup + 1
  /\ UNCHANGED <<starts, up, memberVars, adminLock, areq, adminOps, everAdmin, offs>>

fresh ==
  /\ up = "down" /\ setup = 0 /\ up' = "creating"
  /\ UNCHANGED <<setup, starts, memberVars, adminLock, areq, adminOps, everAdmin, offs>>

migrate ==
  /\ up = "down" /\ setup > 0 /\ up' = "up"
  /\ UNCHANGED <<setup, starts, memberVars, adminLock, areq, adminOps, everAdmin, offs>>

AdminRoomReady ==
  /\ up = "creating" /\ setup = 6 /\ up' = "up"
  /\ UNCHANGED <<setup, starts, memberVars, adminLock, areq, adminOps, everAdmin, offs>>

\* Found by its alias, while the server user is joined.
get_admin_room == setup = 6

-----------------------------------------------------------------------------
(* Requests.                                                               *)

user_is_admin(u) == get_admin_room /\ u \in cachedJoined

Opens(p, op, by, who, at) ==
  /\ up = "up" /\ areq[p].at = "idle" /\ adminOps < MaxAdminOps
  /\ adminOps' = adminOps + 1
  /\ areq' = [areq EXCEPT ![p] = [op |-> op, by |-> by, who |-> who, at |-> at]]
  /\ UNCHANGED <<bootVars, memberVars, adminLock, everAdmin, offs>>

\* Looked up once, when the request arrives.
AdminAuth(p, op, by, who, at) == user_is_admin(by) /\ Opens(p, op, by, who, at)

grant_admin(p, by, who) == AdminAuth(p, "grant", by, who, "lock")
revoke_admin_route(p, by, who) == who # by /\ AdminAuth(p, "revoke", by, who, "lock")
deactivate(p, by, who) == who # by /\ AdminAuth(p, "deactivate", by, who, "mark")

\* The first account is made an admin by the server, and anyone may leave,
\* accept an invitation, ban a weaker member or deactivate their own account.
GrantFirst(p, who) == ~everAdmin /\ get_admin_room /\ Opens(p, "grant", "server", who, "lock")
Leaves(p, who) == who \in cachedJoined \cup cachedInvited /\ Opens(p, "leave", who, who, "lock")
Accepts(p, who) == who \in cachedInvited /\ Opens(p, "accept", who, who, "lock")
Bans(p, by, who) == by \in cachedJoined /\ by # who /\ Opens(p, "ban", by, who, "lock")
full_deactivate(p, who) == who \notin offs /\ Opens(p, "deactivate", who, who, "mark")

\* The lock is the room's.
Locks(p) ==
  /\ areq[p].at \in {"lock", "relock"} /\ adminLock = NoLock /\ adminLock' = p
  /\ areq' = [areq EXCEPT ![p].at = IF @ = "lock" THEN "locked" ELSE "leaving"]
  /\ UNCHANGED <<bootVars, memberVars, adminOps, everAdmin, offs>>

\* The next step, still under the lock, and the end, which gives it up.
Next_(p, at) == areq' = [areq EXCEPT ![p].at = at]
Unlocks(p) == adminLock' = IF adminLock = p THEN NoLock ELSE adminLock
layer(p) == areq' = [areq EXCEPT ![p] = NoRequest] /\ Unlocks(p)

\* The handler is dropped where it stands, and the audit layer around it.
Dropped_by_client(p) ==
  /\ areq[p].at # "idle" /\ layer(p)
  /\ UNCHANGED <<bootVars, memberVars, adminOps, everAdmin, offs>>

\* The local members but the target; the server user, always joined, counts.
ServerUser == "server"
remaining_admins(who) == {ServerUser} \cup (cachedJoined \ {who})

\* Two of them are to remain.  (mutant: one)
check_pdu_for_admin_room_off_by_one(who) == remaining_admins(who) # {}
check_pdu_for_admin_room(who) == \E a, b \in remaining_admins(who) : a # b

Becomes(who, membership) ==
  /\ roomState' = [roomState EXCEPT ![who] = membership]
  /\ cachedJoined' = IF membership = "join" THEN cachedJoined \cup {who} ELSE cachedJoined \ {who}
  /\ cachedInvited' = IF membership = "invite" THEN cachedInvited \cup {who} ELSE cachedInvited \ {who}

-----------------------------------------------------------------------------
(* Granting: an invitation unless there is one, the join, the power level. *)

make_user_admin(p) ==
  LET who == areq[p].who IN
  /\ areq[p].op = "grant" /\ areq[p].at = "locked"
  /\ IF who \in cachedJoined \/ (who \notin cachedInvited /\ roomState[who] \in {"join", "ban"})
     THEN layer(p) /\ UNCHANGED memberVars
     ELSE /\ Next_(p, "join")
          /\ IF who \in cachedInvited THEN UNCHANGED <<roomState, cachedJoined, cachedInvited>>
             ELSE Becomes(who, "invite")
          /\ UNCHANGED <<power, adminLock>>
  /\ UNCHANGED <<bootVars, adminOps, everAdmin, offs>>

GrantJoins(p) ==
  /\ areq[p].op = "grant" /\ areq[p].at = "join"
  /\ Becomes(areq[p].who, "join") /\ Next_(p, "levels")
  /\ everAdmin' = TRUE
  /\ UNCHANGED <<bootVars, power, adminLock, adminOps, offs>>

GrantLevels(p) ==
  /\ areq[p].op = "grant" /\ areq[p].at = "levels"
  /\ power' = [power EXCEPT ![areq[p].who] = 100] /\ layer(p)
  /\ UNCHANGED <<bootVars, roomState, cachedJoined, cachedInvited, adminOps, everAdmin, offs>>

-----------------------------------------------------------------------------
(* Revoking: the leave, which the room may refuse, then the power level.   *)

revoke_admin(p) ==
  LET who == areq[p].who IN
  /\ areq[p].op = "revoke" /\ areq[p].at = "locked"
  /\ IF who \notin cachedJoined \cup cachedInvited \/ ~check_pdu_for_admin_room(who)
     THEN layer(p) /\ UNCHANGED <<roomState, cachedJoined, cachedInvited>>
     ELSE Becomes(who, "leave") /\ Next_(p, "levels") /\ UNCHANGED adminLock
  /\ UNCHANGED <<bootVars, power, adminOps, everAdmin, offs>>

RevokeLevels(p) ==
  /\ areq[p].op = "revoke" /\ areq[p].at = "levels"
  /\ power' = [power EXCEPT ![areq[p].who] = 0] /\ layer(p)
  /\ UNCHANGED <<bootVars, roomState, cachedJoined, cachedInvited, adminOps, everAdmin, offs>>

-----------------------------------------------------------------------------
(* What members do themselves.                                             *)

Member(p) ==
  LET who == areq[p].who
      by == areq[p].by
      allowed == CASE areq[p].op = "leave" -> roomState[who] \in {"join", "invite"} /\ check_pdu_for_admin_room(who)
                   [] areq[p].op = "accept" -> roomState[who] = "invite"
                   [] areq[p].op = "ban" -> /\ roomState[by] = "join" /\ power[by] = 100 /\ power[who] < 100
                                            /\ check_pdu_for_admin_room(who)
                   [] OTHER -> FALSE
      to == [leave |-> "leave", accept |-> "join", ban |-> "ban"]
  IN
  /\ areq[p].op \in {"leave", "accept", "ban"} /\ areq[p].at = "locked"
  /\ IF allowed THEN Becomes(who, to[areq[p].op]) ELSE UNCHANGED <<roomState, cachedJoined, cachedInvited>>
  /\ everAdmin' = (everAdmin \/ (allowed /\ areq[p].op = "accept"))
  /\ layer(p)
  /\ UNCHANGED <<bootVars, power, adminOps, offs>>

-----------------------------------------------------------------------------
(* Deactivation: the marker, the power level given up in one hold of the   *)
(* lock, the leave in another.                                             *)

deactivate_account(p) ==
  /\ areq[p].at = "mark"
  /\ offs' = offs \cup {areq[p].who} /\ Next_(p, "lock")
  /\ UNCHANGED <<bootVars, memberVars, adminLock, adminOps, everAdmin>>

demote_self(p) ==
  LET who == areq[p].who IN
  /\ areq[p].op = "deactivate" /\ areq[p].at = "locked"
  /\ power' = IF roomState[who] = "join" /\ who \in cachedJoined /\ power[who] = 100
              THEN [power EXCEPT ![who] = 0] ELSE power
  /\ Next_(p, "relock") /\ Unlocks(p)
  /\ UNCHANGED <<bootVars, roomState, cachedJoined, cachedInvited, adminOps, everAdmin, offs>>

\* A refused leave is taken in the cache alone.
leave_room(p) ==
  LET who == areq[p].who IN
  /\ areq[p].op = "deactivate" /\ areq[p].at = "leaving"
  /\ IF who \notin cachedJoined \cup cachedInvited THEN UNCHANGED <<roomState, cachedJoined, cachedInvited>>
     ELSE IF roomState[who] \in {"join", "invite"} /\ check_pdu_for_admin_room(who)
     THEN Becomes(who, "leave")
     ELSE /\ cachedJoined' = cachedJoined \ {who} /\ cachedInvited' = cachedInvited \ {who}
          /\ UNCHANGED roomState
  /\ layer(p)
  /\ UNCHANGED <<bootVars, power, adminOps, everAdmin, offs>>

AdminCrash ==
  /\ up # "down" /\ starts > 0 /\ starts' = starts - 1 /\ up' = "down"
  /\ areq' = [p \in Requests |-> NoRequest] /\ adminLock' = NoLock
  /\ UNCHANGED <<setup, memberVars, adminOps, everAdmin, offs>>

AdminInit ==
  /\ setup = 0 /\ starts = 1 /\ up = "down"
  /\ roomState = [u \in Humans |-> "out"] /\ cachedJoined = {} /\ cachedInvited = {}
  /\ power = [u \in Humans |-> 0]
  /\ adminLock = NoLock /\ areq = [p \in Requests |-> NoRequest] /\ adminOps = 0
  /\ everAdmin = FALSE /\ offs = {}

AdminStep(p) ==
  \/ Locks(p) \/ Dropped_by_client(p) \/ make_user_admin(p) \/ GrantJoins(p) \/ GrantLevels(p)
  \/ revoke_admin(p) \/ RevokeLevels(p) \/ Member(p) \/ deactivate_account(p) \/ demote_self(p)
  \/ leave_room(p)
  \/ \E u \in Humans : GrantFirst(p, u) \/ Leaves(p, u) \/ Accepts(p, u) \/ full_deactivate(p, u)
  \/ \E u, w \in Humans :
       grant_admin(p, u, w) \/ revoke_admin_route(p, u, w) \/ deactivate(p, u, w) \/ Bans(p, u, w)

AdminNext ==
  \/ fresh \/ create_admin_room \/ AdminRoomReady \/ migrate \/ AdminCrash
  \/ \E p \in Requests : AdminStep(p)

AdminSpec == AdminInit /\ [][AdminNext]_adminVars

-----------------------------------------------------------------------------
(* Once there was an admin there is one, deactivations apart, whoever      *)
(* revokes, bans or leaves at the same time: each was let in as an admin   *)
(* before the others acted, and only the count taken under the room's lock *)
(* keeps the last one (build.rs:467, admin/users.rs:271).                  *)
AdminsRemain == everAdmin /\ offs = {} => cachedJoined # {}

-----------------------------------------------------------------------------
(***************************************************************************)
(* The runtime list of refused servers: rows of the database, and the      *)
(* compiled list in memory that every federation request is matched        *)
(* against, read back from the rows after each change.                     *)
(***************************************************************************)

CONSTANTS
  Patterns, Servers, Matching, Admins, MaxEdits,
  Compilable            \* the sets of patterns that compile as one

\* What makes a set too large to compile is its size.
ASSUME BlocksAssumption ==
  {} \in Compilable /\ \A S \in Compilable : SUBSET S \subseteq Compilable

VARIABLES
  servername_blocked,   \* the rows
  blocks,               \* the list in force
  edit, edits,
  overlapped            \* history: one change was begun while another was under way

blockVars == <<servername_blocked, blocks, edit, edits, overlapped>>

NoEdit == [op |-> "none", pattern |-> {}, at |-> "idle", read |-> {}]

Compiles(entries) == entries \in Compilable

is_blocked(server) == \E p \in blocks : <<p, server>> \in Matching
why_forbidden(server) == {p \in blocks : <<p, server>> \in Matching}

Edits(a, op, patterns) ==
  /\ edit[a].at = "idle" /\ edits < MaxEdits /\ edits' = edits + 1
  /\ overlapped' = (overlapped \/ \E b \in Admins : edit[b].at # "idle")
  /\ edit' = [edit EXCEPT ![a] = [op |-> op, pattern |-> patterns, at |-> "write", read |-> {}]]
  /\ UNCHANGED <<servername_blocked, blocks>>

\* Refused when it is on the list, or would make the list too large.
block(a, p) ==
  /\ p \notin servername_blocked /\ Compiles(blocks \cup {p})
  /\ Edits(a, "block", {p})

unblock_pattern(a, p) == p \in servername_blocked /\ Edits(a, "unblock", {p})

\* Every pattern of the list in force that matches the server.
unblock_server(a, server) == Edits(a, "unblock", why_forbidden(server))

Write(a) ==
  /\ edit[a].at = "write"
  /\ servername_blocked' = IF edit[a].op = "block" THEN servername_blocked \cup edit[a].pattern
                           ELSE servername_blocked \ edit[a].pattern
  /\ edit' = [edit EXCEPT ![a].at = "reload"]
  /\ UNCHANGED <<blocks, edits, overlapped>>

\* The rows are read, and the list they compile to put in force after; one
\* that does not compile leaves the list in force.
reload_blocks(a) ==
  /\ edit[a].at = "reload"
  /\ edit' = [edit EXCEPT ![a].at = "compiled", ![a].read = servername_blocked]
  /\ UNCHANGED <<servername_blocked, blocks, edits, overlapped>>

\* Mutant of compile: the list read is added to the list in force.
compile_adds(a) ==
  /\ edit[a].at = "compiled"
  /\ blocks' = IF Compiles(edit[a].read) THEN blocks \cup edit[a].read ELSE blocks
  /\ edit' = [edit EXCEPT ![a] = NoEdit]
  /\ UNCHANGED <<servername_blocked, edits, overlapped>>

compile(a) ==
  /\ edit[a].at = "compiled"
  /\ blocks' = IF Compiles(edit[a].read) THEN edit[a].read ELSE blocks
  /\ edit' = [edit EXCEPT ![a] = NoEdit]
  /\ UNCHANGED <<servername_blocked, edits, overlapped>>

BlocksInit ==
  /\ servername_blocked = {} /\ blocks = {} /\ edits = 0 /\ overlapped = FALSE
  /\ edit = [a \in Admins |-> NoEdit]

BlocksNext ==
  \E a \in Admins :
    \/ Write(a) \/ reload_blocks(a) \/ compile(a)
    \/ \E p \in Patterns : block(a, p) \/ unblock_pattern(a, p)
    \/ \E s \in Servers : unblock_server(a, s)

BlocksSpec == BlocksInit /\ [][BlocksNext]_blockVars

-----------------------------------------------------------------------------
(* With no change under way, the servers refused are the ones the stored   *)
(* list names, however often the list was changed, as long as one change   *)
(* ended before the next began: a list that does not compile is never      *)
(* stored, so the list in force is never left behind.  (block's check of   *)
(* the size, reload_blocks; overlapping changes can leave a stale list)    *)
BlocksInForce ==
  ~overlapped /\ (\A a \in Admins : edit[a].at = "idle") => blocks = servername_blocked
=============================================================================
