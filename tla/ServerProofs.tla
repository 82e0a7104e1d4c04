---------------------------- MODULE ServerProofs ----------------------------
(***************************************************************************)
(* The operator's side, for any number of tasks, admins, requests, faults  *)
(* and restarts: what is said of a task is true, the last admin stays, and *)
(* the list of refused servers in force is the stored one. And a user's    *)
(* unread count agrees with the events it counts.                          *)
(***************************************************************************)
EXTENDS Jobs, Administration, Unread, FiniteSetTheorems, TLAPS

\* How long the two provers may take over a leaf.
USE SMTT(30), ZenonT(30)

-----------------------------------------------------------------------------
(* The refused servers.                                                    *)

\* What an edit is, at each of its steps.
EditType == [op : {"none", "block", "unblock"}, pattern : SUBSET Patterns,
             at : {"idle", "write", "reload", "compiled"}, read : SUBSET Patterns]

BlocksTypes ==
  /\ servername_blocked \in SUBSET Patterns /\ blocks \in SUBSET Patterns
  /\ edit \in [Admins -> EditType] /\ overlapped \in BOOLEAN

\* Where the two lists stand while one change is under way.
OneEdit ==
  /\ \A a, b \in Admins : edit[a].at # "idle" /\ edit[b].at # "idle" => a = b
  /\ Compiles(servername_blocked)
  /\ (\A a \in Admins : edit[a].at = "idle") => blocks = servername_blocked
  /\ \A a \in Admins :
       /\ edit[a].at = "write" =>
            /\ blocks = servername_blocked
            /\ edit[a].op = "block" => Compiles(blocks \cup edit[a].pattern)
            /\ edit[a].op \in {"block", "unblock"}
       /\ edit[a].at = "compiled" => edit[a].read = servername_blocked

BlocksInv == BlocksTypes /\ (~overlapped => OneEdit)

LEMMA BlocksStart == BlocksInit => BlocksInv
<1> SUFFICES ASSUME BlocksInit PROVE BlocksInv
  BY Zenon
<1>2. NoEdit \in EditType
  BY Zenon DEF NoEdit, EditType
<1>3. BlocksTypes
  BY <1>2, Zenon DEF BlocksInit, BlocksTypes, NoEdit
<1>4. Compiles(servername_blocked)
  BY BlocksAssumption, Zenon DEF BlocksInit, Compiles
<1>5. OneEdit
  BY <1>4, Zenon DEF BlocksInit, OneEdit, NoEdit
<1> QED
  BY <1>3, <1>5, Zenon DEF BlocksInv

\* A change begins: alone, and then over lists that agree, or not.
LEMMA EditBegins ==
  ASSUME BlocksInv, NEW a \in Admins, NEW op \in {"block", "unblock"},
         NEW ps \in SUBSET Patterns, Edits(a, op, ps),
         op = "block" => Compiles(blocks \cup ps)
  PROVE  BlocksInv'
<1> DEFINE new == [op |-> op, pattern |-> ps, at |-> "write", read |-> {}]
<1>1. edit' = [edit EXCEPT ![a] = new] /\ edit[a].at = "idle"
      /\ UNCHANGED <<servername_blocked, blocks>>
  BY Zenon DEF Edits
<1>2. new \in EditType
  BY Zenon DEF EditType
<1>3. BlocksTypes'
  BY <1>1, <1>2, Zenon DEF BlocksInv, BlocksTypes, Edits
<1>4. ASSUME ~overlapped' PROVE OneEdit'
  <2>1. ~overlapped /\ \A b \in Admins : edit[b].at = "idle"
    BY <1>4, Zenon DEF Edits
  <2>2. blocks = servername_blocked /\ Compiles(servername_blocked)
    BY <2>1, Zenon DEF BlocksInv, OneEdit
  <2>3. \A b \in Admins : b # a => edit'[b].at = "idle"
    BY <1>1, <2>1, Zenon DEF BlocksInv, BlocksTypes
  <2>4. edit'[a] = new
    BY <1>1, Zenon DEF BlocksInv, BlocksTypes
  <2>5. Compiles(servername_blocked)'
    BY <1>1, <2>2, Zenon DEF Compiles
  <2>6. op = "block" => Compiles(blocks \cup edit[a].pattern)'
    <3>1. blocks' \cup edit'[a].pattern = blocks \cup ps
      BY <1>1, <2>4
    <3> QED
      BY <3>1, Zenon DEF Compiles
  <2>7. \A b \in Admins : edit'[b].at # "idle" => b = a
    BY <2>3, Zenon
  <2>8. edit'[a].at = "write" /\ edit'[a].op = op
    BY <2>4
  <2>9. blocks' = servername_blocked'
    BY <1>1, <2>2, Zenon
  <2> QED
    BY <2>5, <2>6, <2>7, <2>8, <2>9, Zenon DEF OneEdit
<1> QED
  BY <1>3, <1>4, Zenon DEF BlocksInv

LEMMA WriteKeeps == ASSUME BlocksInv, NEW a \in Admins, Write(a) PROVE BlocksInv'
<1>1. edit' = [edit EXCEPT ![a].at = "reload"] /\ UNCHANGED <<blocks, overlapped>>
      /\ edit[a].at = "write" /\ edit[a] \in EditType
  BY Zenon DEF Write, BlocksInv, BlocksTypes
<1>2. edit'[a] = [edit[a] EXCEPT !.at = "reload"] /\ edit'[a] \in EditType
      /\ \A b \in Admins : b # a => edit'[b] = edit[b]
  BY <1>1, Zenon DEF BlocksInv, BlocksTypes, EditType
<1>3. servername_blocked' \in SUBSET Patterns
  BY Zenon DEF Write, BlocksInv, BlocksTypes, EditType
<1>4. BlocksTypes'
  BY <1>1, <1>2, <1>3, Zenon DEF BlocksInv, BlocksTypes, EditType
<1>5. ASSUME ~overlapped' PROVE OneEdit'
  <2>1. OneEdit /\ blocks = servername_blocked
    BY <1>1, <1>5, Zenon DEF BlocksInv, OneEdit
  <2>2. Compiles(servername_blocked)'
    <3>1. CASE edit[a].op = "block"
      BY <3>1, <2>1, <1>1, Zenon DEF Write, OneEdit, Compiles
    <3>2. CASE edit[a].op # "block"
      <4>1. servername_blocked' \subseteq servername_blocked
        BY <3>2, Zenon DEF Write
      <4> QED
        BY <4>1, <2>1, BlocksAssumption, Zenon DEF OneEdit, Compiles
    <3> QED
      BY <3>1, <3>2, Zenon
  <2>3. \A b \in Admins : b # a => edit[b].at = "idle"
    BY <1>1, <2>1, Zenon DEF OneEdit
  <2> QED
    BY <1>1, <1>2, <2>2, <2>3 DEF OneEdit, EditType
<1> QED
  BY <1>4, <1>5, Zenon DEF BlocksInv

LEMMA ReloadKeeps == ASSUME BlocksInv, NEW a \in Admins, reload_blocks(a) PROVE BlocksInv'
<1>1. edit' = [edit EXCEPT ![a].at = "compiled", ![a].read = servername_blocked]
      /\ UNCHANGED <<servername_blocked, blocks, overlapped>>
      /\ edit[a].at = "reload" /\ edit[a] \in EditType /\ servername_blocked \in SUBSET Patterns
  BY Zenon DEF reload_blocks, BlocksInv, BlocksTypes
<1>2. edit'[a] = [edit[a] EXCEPT !.at = "compiled", !.read = servername_blocked] /\ edit'[a] \in EditType
      /\ \A b \in Admins : b # a => edit'[b] = edit[b]
  BY <1>1, Zenon DEF BlocksInv, BlocksTypes, EditType
<1>3. BlocksTypes'
  BY <1>1, <1>2, Zenon DEF BlocksInv, BlocksTypes, EditType
<1>4. ASSUME ~overlapped' PROVE OneEdit'
  <2>1. OneEdit
    BY <1>1, <1>4, Zenon DEF BlocksInv
  <2>2. \A b \in Admins : b # a => edit[b].at = "idle"
    BY <1>1, <2>1, Zenon DEF OneEdit
  <2>3. Compiles(servername_blocked)'
    BY <1>1, <2>1, Zenon DEF OneEdit, Compiles
  <2>4. \A b \in Admins : edit'[b].at # "idle" => b = a
    BY <1>2, <2>2, Zenon
  <2>5. edit'[a].at = "compiled" /\ edit'[a].read = servername_blocked'
    BY <1>1, <1>2, ZenonT(30) DEF EditType
  <2> QED
    BY <2>3, <2>4, <2>5, Zenon DEF OneEdit
<1> QED
  BY <1>3, <1>4, Zenon DEF BlocksInv

LEMMA CompileKeeps == ASSUME BlocksInv, NEW a \in Admins, compile(a) PROVE BlocksInv'
<1>1. edit' = [edit EXCEPT ![a] = NoEdit] /\ UNCHANGED <<servername_blocked, overlapped>>
      /\ edit[a].at = "compiled" /\ edit[a] \in EditType
      /\ blocks' = IF Compiles(edit[a].read) THEN edit[a].read ELSE blocks
  BY Zenon DEF compile, BlocksInv, BlocksTypes
<1>2. NoEdit \in EditType /\ NoEdit.at = "idle" /\ NoEdit.op = "none"
  BY Zenon DEF NoEdit, EditType
<1>3. edit'[a] = NoEdit /\ \A b \in Admins : b # a => edit'[b] = edit[b]
  BY <1>1, Zenon DEF BlocksInv, BlocksTypes
<1>4. BlocksTypes'
  BY <1>1, <1>2, <1>3, Zenon DEF BlocksInv, BlocksTypes, EditType
<1>5. ASSUME ~overlapped' PROVE OneEdit'
  <2>1. OneEdit
    BY <1>1, <1>5, Zenon DEF BlocksInv
  <2>2. \A b \in Admins : b # a => edit[b].at = "idle"
    BY <1>1, <2>1, Zenon DEF OneEdit
  <2>3. blocks' = servername_blocked
    BY <1>1, <2>1, Zenon DEF OneEdit
  <2>4. Compiles(servername_blocked)'
    BY <1>1, <2>1, Zenon DEF OneEdit, Compiles
  <2> QED
    BY <1>1, <1>2, <1>3, <2>2, <2>3, <2>4, Zenon DEF OneEdit
<1> QED
  BY <1>4, <1>5, Zenon DEF BlocksInv

LEMMA BlocksStep == BlocksInv /\ [BlocksNext]_blockVars => BlocksInv'
<1> SUFFICES ASSUME BlocksInv, [BlocksNext]_blockVars PROVE BlocksInv'
  BY Zenon
<1>1. ASSUME NEW a \in Admins, NEW p \in Patterns, block(a, p) PROVE BlocksInv'
  BY <1>1, EditBegins, Zenon DEF block
<1>2. ASSUME NEW a \in Admins, NEW p \in Patterns, unblock_pattern(a, p) PROVE BlocksInv'
  BY <1>2, EditBegins, Zenon DEF unblock_pattern
<1>3. ASSUME NEW a \in Admins, NEW s \in Servers, unblock_server(a, s) PROVE BlocksInv'
  <2>1. PICK ps \in SUBSET Patterns : ps = why_forbidden(s)
    BY Zenon DEF why_forbidden, BlocksInv, BlocksTypes
  <2>2. Edits(a, "unblock", ps)
    BY <1>3, <2>1, Zenon DEF unblock_server, Edits
  <2> QED
    BY <2>2, EditBegins, Zenon
<1>4. CASE UNCHANGED blockVars
  BY <1>4, Zenon DEF blockVars, BlocksInv, BlocksTypes, OneEdit, Compiles
<1> QED
  BY <1>1, <1>2, <1>3, <1>4, WriteKeeps, ReloadKeeps, CompileKeeps, Zenon DEF BlocksNext

(* With changes made one at a time, the servers refused are the ones the   *)
(* stored list names whenever no change is under way, for any patterns and *)
(* any limit on the list's size (reload_blocks, block).                    *)
THEOREM RefusedAreTheStored == BlocksSpec => []BlocksInForce
<1>1. BlocksInv => BlocksInForce
  BY Zenon DEF BlocksInv, OneEdit, BlocksInForce, BlocksTypes
<1> QED
  BY <1>1, BlocksStart, BlocksStep, PTL DEF BlocksSpec

-----------------------------------------------------------------------------
(* The admins.                                                             *)

Places == {"idle", "mark", "lock", "locked", "join", "levels", "relock", "leaving"}
ReqType == [op : {"none", "grant", "revoke", "leave", "accept", "ban", "deactivate"},
            by : Humans \cup {"server", "none"}, who : Humans \cup {"none"}, at : Places]

\* A deactivation past its first step has left its mark: only after that may
\* the cache lose a member whose leave the room refused.
Marked(q) == q.op = "deactivate" /\ q.at \in {"lock", "locked", "relock", "leaving"} => offs # {}

AdminInv ==
  /\ areq \in [Requests -> ReqType] /\ everAdmin \in BOOLEAN
  /\ \A p \in Requests : Marked(areq[p])
  /\ AdminsRemain

\* The count taken under the lock leaves another admin behind.
LEMMA AnotherRemains ==
  ASSUME NEW who, check_pdu_for_admin_room(who) PROVE cachedJoined \ {who} # {}
BY Zenon DEF check_pdu_for_admin_room, remaining_admins

\* A request moves on, ends or begins; the others stay where they are.
LEMMA RequestEnds ==
  ASSUME AdminInv, NEW p \in Requests, areq' = [areq EXCEPT ![p] = NoRequest], offs # {} => offs' # {}
  PROVE  areq' \in [Requests -> ReqType] /\ \A q \in Requests : Marked(areq[q])'
<1>1. NoRequest \in ReqType /\ NoRequest.op = "none"
  BY Zenon DEF NoRequest, ReqType, Places
<1>2. areq'[p] = NoRequest /\ \A q \in Requests : q # p => areq'[q] = areq[q]
  BY Zenon DEF AdminInv
<1>3. areq' \in [Requests -> ReqType]
  BY <1>1, Zenon DEF AdminInv
<1>4. ASSUME NEW q \in Requests PROVE Marked(areq[q])'
  <2>1. CASE q = p
    BY <2>1, <1>1, <1>2, Zenon DEF Marked
  <2>2. CASE q # p
    BY <2>2, <1>2, Zenon DEF AdminInv, Marked
  <2> QED
    BY <2>1, <2>2, Zenon
<1> QED
  BY <1>3, <1>4, Zenon

LEMMA RequestMoves ==
  ASSUME AdminInv, NEW p \in Requests, NEW at \in Places,
         areq' = [areq EXCEPT ![p].at = at], offs # {} => offs' # {},
         areq[p].op = "deactivate" /\ at \in {"lock", "locked", "relock", "leaving"} => offs' # {}
  PROVE  areq' \in [Requests -> ReqType] /\ \A q \in Requests : Marked(areq[q])'
<1>1. areq[p] \in ReqType
  BY Zenon DEF AdminInv
<1>2. areq'[p] = [areq[p] EXCEPT !.at = at] /\ \A q \in Requests : q # p => areq'[q] = areq[q]
  BY Zenon DEF AdminInv
<1>3. areq'[p] \in ReqType /\ areq'[p].op = areq[p].op /\ areq'[p].at = at
  BY <1>1, <1>2 DEF ReqType
<1>4. areq' \in [Requests -> ReqType]
  BY <1>3, Zenon DEF AdminInv
<1> QED
  BY <1>2, <1>3, <1>4, Zenon DEF AdminInv, Marked

LEMMA RequestOpens ==
  ASSUME AdminInv, NEW p \in Requests, NEW op \in {"grant", "revoke", "leave", "accept", "ban", "deactivate"}, NEW by \in Humans \cup {"server"},
         NEW who \in Humans, NEW at \in Places, Opens(p, op, by, who, at),
         op = "deactivate" => at = "mark"
  PROVE  AdminInv'
<1> DEFINE new == [op |-> op, by |-> by, who |-> who, at |-> at]
<1>1. new \in ReqType /\ new.op = op /\ new.at = at
  BY Zenon DEF ReqType
<1>2. areq' = [areq EXCEPT ![p] = new] /\ UNCHANGED <<cachedJoined, everAdmin, offs>>
  BY Zenon DEF Opens, memberVars
<1>3. areq'[p] = new /\ \A q \in Requests : q # p => areq'[q] = areq[q]
  BY <1>2, Zenon DEF AdminInv
<1>4. areq' \in [Requests -> ReqType]
  BY <1>1, <1>2, Zenon DEF AdminInv
<1>5. \A q \in Requests : Marked(areq[q])'
  BY <1>1, <1>2, <1>3, Zenon DEF AdminInv, Marked
<1> QED
  BY <1>2, <1>4, <1>5, Zenon DEF AdminInv, AdminsRemain

\* A step that keeps the admins there are, or leaves one of them.
LEMMA AdminsKept ==
  ASSUME AdminInv, offs # {} => offs' # {},
         \/ everAdmin' = everAdmin /\ (cachedJoined # {} => cachedJoined' # {})
         \/ cachedJoined' # {}
         \/ offs' # {}
  PROVE  AdminsRemain'
  BY Zenon DEF AdminInv, AdminsRemain

LEMMA AdminStart == AdminInit => AdminInv
<1>1. NoRequest \in ReqType /\ NoRequest.op = "none"
  BY Zenon DEF NoRequest, ReqType, Places
<1> SUFFICES ASSUME AdminInit PROVE AdminInv
  BY Zenon
<1>2. areq \in [Requests -> ReqType] /\ \A p \in Requests : areq[p] = NoRequest
  BY <1>1, Zenon DEF AdminInit
<1>3. \A p \in Requests : Marked(areq[p])
  BY <1>1, <1>2, Zenon DEF Marked
<1> QED
  BY <1>2, <1>3, Zenon DEF AdminInit, AdminInv, AdminsRemain

LEMMA AdminRequestStep == ASSUME AdminInv, NEW p \in Requests, AdminStep(p) PROVE AdminInv'
<1> DEFINE who == areq[p].who
<1>1. CASE Locks(p)
  <2>1. UNCHANGED <<cachedJoined, everAdmin, offs>>
    BY <1>1, Zenon DEF Locks, memberVars
  <2>2. \/ areq' = [areq EXCEPT ![p].at = "locked"]
        \/ areq' = [areq EXCEPT ![p].at = "leaving"]
    BY <1>1, Zenon DEF Locks
  <2>3. areq[p].op = "deactivate" => offs # {}
    BY <1>1, Zenon DEF Locks, AdminInv, Marked
  <2> QED
    BY <2>1, <2>2, <2>3, RequestMoves, AdminsKept, Zenon DEF AdminInv, Places
<1>2. CASE Dropped_by_client(p)
  BY <1>2, RequestEnds, AdminsKept, ZenonT(30) DEF Dropped_by_client, layer, memberVars, AdminInv
<1>3. CASE make_user_admin(p)
  <2>1. UNCHANGED <<everAdmin, offs>> /\ areq[p].op = "grant"
    BY <1>3, Zenon DEF make_user_admin
  <2>2. cachedJoined' = cachedJoined
    <3>1. CASE UNCHANGED memberVars
      BY <3>1, Zenon DEF memberVars
    <3>2. CASE ~UNCHANGED memberVars
      BY <1>3, <3>2 DEF make_user_admin, Becomes
    <3> QED
      BY <3>1, <3>2, Zenon
  <2>3. \/ areq' = [areq EXCEPT ![p] = NoRequest]
        \/ areq' = [areq EXCEPT ![p].at = "join"]
    BY <1>3, Zenon DEF make_user_admin, layer, Next_
  <2> QED
    BY <2>1, <2>2, <2>3, RequestEnds, RequestMoves, AdminsKept, Zenon DEF AdminInv, Places
<1>4. CASE GrantJoins(p)
  <2>1. cachedJoined' # {}
    BY <1>4, Zenon DEF GrantJoins, Becomes
  <2> QED
    BY <1>4, <2>1, RequestMoves, AdminsKept, Zenon DEF GrantJoins, Next_, AdminInv, Places
<1>5. CASE GrantLevels(p)
  BY <1>5, RequestEnds, AdminsKept, Zenon DEF GrantLevels, layer, AdminInv
<1>6. CASE revoke_admin(p)
  <2>1. UNCHANGED <<everAdmin, offs>> /\ areq[p].op = "revoke"
    BY <1>6, Zenon DEF revoke_admin
  <2>2. \/ areq' = [areq EXCEPT ![p] = NoRequest]
        \/ areq' = [areq EXCEPT ![p].at = "levels"]
    BY <1>6, Zenon DEF revoke_admin, layer, Next_
  <2>3. cachedJoined' = cachedJoined \/ cachedJoined' # {}
    BY <1>6, AnotherRemains, Zenon DEF revoke_admin, Becomes
  <2> QED
    BY <2>1, <2>2, <2>3, RequestEnds, RequestMoves, AdminsKept, Zenon DEF AdminInv, Places
<1>7. CASE RevokeLevels(p)
  BY <1>7, RequestEnds, AdminsKept, Zenon DEF RevokeLevels, layer, AdminInv
<1>8. CASE Member(p)
  <2>1. UNCHANGED offs /\ areq' = [areq EXCEPT ![p] = NoRequest]
    BY <1>8, Zenon DEF Member, layer
  <2>3. everAdmin' \in BOOLEAN
    BY <1>8, Zenon DEF Member
  <2>2. \/ everAdmin' = everAdmin /\ cachedJoined' = cachedJoined
        \/ cachedJoined' # {}
    <3>1. CASE areq[p].op = "leave"
      <4>1. \/ everAdmin' = everAdmin /\ cachedJoined' = cachedJoined
            \/ check_pdu_for_admin_room(who) /\ Becomes(who, "leave")
        BY <1>8, <3>1 DEF Member, AdminInv
      <4> QED
        BY <4>1, AnotherRemains, Zenon DEF Becomes
    <3>2. CASE areq[p].op = "ban"
      <4>1. \/ everAdmin' = everAdmin /\ cachedJoined' = cachedJoined
            \/ check_pdu_for_admin_room(who) /\ Becomes(who, "ban")
        BY <1>8, <3>2 DEF Member, AdminInv
      <4> QED
        BY <4>1, AnotherRemains, Zenon DEF Becomes
    <3>3. CASE areq[p].op = "accept"
      <4>1. \/ everAdmin' = everAdmin /\ cachedJoined' = cachedJoined
            \/ Becomes(who, "join")
        BY <1>8, <3>3 DEF Member, AdminInv
      <4> QED
        BY <4>1, Zenon DEF Becomes
    <3> QED
      BY <1>8, <3>1, <3>2, <3>3, Zenon DEF Member
  <2> QED
    BY <2>1, <2>2, RequestEnds, AdminsKept, <2>3, Zenon DEF AdminInv
<1>9. CASE deactivate_account(p)
  <2>1. offs' # {} /\ everAdmin' = everAdmin /\ areq' = [areq EXCEPT ![p].at = "lock"]
    BY <1>9, Zenon DEF deactivate_account, Next_
  <2> QED
    BY <2>1, RequestMoves, AdminsKept, Zenon DEF AdminInv, Places
<1>10. CASE demote_self(p)
  <2>1. UNCHANGED <<cachedJoined, everAdmin, offs>> /\ areq' = [areq EXCEPT ![p].at = "relock"]
        /\ areq[p].op = "deactivate" /\ areq[p].at = "locked"
    BY <1>10, Zenon DEF demote_self, Next_
  <2>2. offs # {}
    BY <2>1, Zenon DEF AdminInv, Marked
  <2> QED
    BY <2>1, <2>2, RequestMoves, AdminsKept, Zenon DEF AdminInv, Places
<1>11. CASE leave_room(p)
  <2>1. UNCHANGED <<everAdmin, offs>> /\ areq' = [areq EXCEPT ![p] = NoRequest]
        /\ areq[p].op = "deactivate" /\ areq[p].at = "leaving"
    BY <1>11, Zenon DEF leave_room, layer
  <2>2. offs # {}
    BY <2>1, Zenon DEF AdminInv, Marked
  <2> QED
    BY <2>1, <2>2, RequestEnds, AdminsKept, Zenon DEF AdminInv
<1>12. ASSUME NEW u \in Humans,
              GrantFirst(p, u) \/ Leaves(p, u) \/ Accepts(p, u) \/ full_deactivate(p, u)
       PROVE  AdminInv'
  BY <1>12, RequestOpens, Zenon DEF Places, GrantFirst, Leaves, Accepts, full_deactivate
<1>13. ASSUME NEW u \in Humans, NEW w \in Humans,
              grant_admin(p, u, w) \/ revoke_admin_route(p, u, w) \/ deactivate(p, u, w) \/ Bans(p, u, w)
       PROVE  AdminInv'
  BY <1>13, RequestOpens, Zenon DEF Places, grant_admin, revoke_admin_route, deactivate, Bans, AdminAuth
<1> QED
  BY <1>1, <1>2, <1>3, <1>4, <1>5, <1>6, <1>7, <1>8, <1>9, <1>10, <1>11, <1>12, <1>13, Zenon DEF AdminStep

LEMMA AdminServerStep == AdminInv /\ [AdminNext]_adminVars => AdminInv'
<1> SUFFICES ASSUME AdminInv, [AdminNext]_adminVars PROVE AdminInv'
  BY Zenon
<1>1. CASE \E p \in Requests : AdminStep(p)
  BY <1>1, AdminRequestStep, Zenon
<1>2. CASE fresh \/ create_admin_room \/ AdminRoomReady \/ migrate
  BY <1>2 DEF fresh, create_admin_room, AdminRoomReady, migrate, memberVars, AdminInv, Marked, AdminsRemain
<1>3. CASE AdminCrash
  <2>1. NoRequest \in ReqType /\ NoRequest.op = "none"
    BY Zenon DEF NoRequest, ReqType, Places
  <2>2. areq' = [p \in Requests |-> NoRequest] /\ UNCHANGED <<cachedJoined, everAdmin, offs>>
    BY <1>3, Zenon DEF AdminCrash, memberVars
  <2>3. areq' \in [Requests -> ReqType] /\ \A p \in Requests : areq'[p] = NoRequest
    BY <2>1, <2>2, Zenon
  <2>4. \A p \in Requests : Marked(areq[p])'
    BY <2>1, <2>3, Zenon DEF Marked
  <2> QED
    BY <2>2, <2>3, <2>4, Zenon DEF AdminInv, AdminsRemain
<1>4. CASE UNCHANGED adminVars
  BY <1>4, Zenon DEF adminVars, AdminInv, Marked, AdminsRemain
<1> QED
  BY <1>1, <1>2, <1>3, <1>4, Zenon DEF AdminNext

(* Once there was an admin there is one as long as no account was          *)
(* deactivated, for any number of users and of requests under way at once, *)
(* dropped where they stand or cut off by a crash (remaining_admins,       *)
(* counted under the room's lock).                                         *)
THEOREM AnAdminRemains == AdminSpec => []AdminsRemain
<1>1. AdminInv => AdminsRemain
  BY Zenon DEF AdminInv
<1> QED
  BY <1>1, AdminStart, AdminServerStep, PTL DEF AdminSpec

-----------------------------------------------------------------------------
(* The tracked tasks.                                                      *)

TaskType ==
  [action : {"none", "purge", "backup", "delete", "shutdown", "pruned"},
   status : {"none", "scheduled", "active", "complete", "failed", "cancelled"},
   cancel : {"none", "cooperative", "never", "abort"}, token : BOOLEAN,
   at : {"end", "start", "lock", "evict", "check", "purge", "purging", "engine", "thread"},
   todo : SUBSET LocalMembers, did : SUBSET {"freed", "purged", "saved"}, broke : BOOLEAN, stamp : Nat]

\* What a record may say complete of, and cancelled of.
MayComplete(t) ==
  /\ t.todo = {}
  /\ t.action \in {"delete", "shutdown"} => "freed" \in t.did
  /\ t.action = "delete" => "purged" \in t.did
  /\ t.action = "backup" => "saved" \in t.did
MayCancel(t) ==
  t.cancel = "cooperative" /\ ~t.broke =>
    "purged" \notin t.did /\ (t.todo # {} => "freed" \notin t.did)

\* Where a task stands, and what it has done by then.
Stands(t) ==
  /\ t.at # "end" => t.status \in {"scheduled", "active"}
  /\ t.at = "start" => /\ t.action \in {"purge", "backup", "delete", "shutdown"}
                       /\ t.did = {} /\ t.todo = {} /\ t.cancel = Cancels(t.action)
  /\ t.at = "purging" => t.action = "purge" /\ t.cancel = "abort" /\ t.todo = {}
  /\ t.at \in {"engine", "thread"} => t.action = "backup" /\ t.did = {} /\ t.todo = {}
  /\ t.at \in {"lock", "evict"} => t.action \in {"delete", "shutdown"} /\ t.did = {}
  /\ t.at = "lock" => t.todo = {}
  /\ t.at \in {"check", "purge"} => t.action = "delete" /\ t.todo = {} /\ "freed" \in t.did
  /\ t.at = "check" => "purged" \notin t.did

TaskTrue(t) ==
  /\ Stands(t)
  /\ t.status = "complete" => MayComplete(t)
  /\ t.status = "cancelled" => MayCancel(t)

TasksInv ==
  /\ tasks \in [TaskIds -> TaskType] /\ stamp \in Nat
  /\ \A j \in TaskIds : TaskTrue(tasks[j])

CallersInv ==
  /\ caller \in [Callers \cup {Scheduler} -> {"idle", "purge", "backup"}]
  /\ joined \in SUBSET LocalMembers

\* A backup's thread holds the engine's lock until it ends, and attempts are
\* counted from the one before.
BackupInv ==
  /\ running \subseteq TaskIds /\ \A j \in running : held = j
  /\ {clock, last_backup, last_attempt, closest} \subseteq Nat /\ Interval <= closest

JobsInv == TasksInv /\ CallersInv /\ BackupInv

LEMMA JobsStart == JobsInit => JobsInv
<1> SUFFICES ASSUME JobsInit PROVE JobsInv
  BY Zenon
<1>1. NoTask \in TaskType /\ TaskTrue(NoTask)
  BY Zenon DEF NoTask, TaskType, TaskTrue, Stands
<1>2. tasks \in [TaskIds -> TaskType] /\ \A j \in TaskIds : tasks[j] = NoTask
  BY <1>1, Zenon DEF JobsInit
<1>3. TasksInv
  BY <1>1, <1>2, Zenon DEF JobsInit, TasksInv
<1>4. CallersInv
  BY Zenon DEF JobsInit, CallersInv
<1>5. BackupInv
  BY JobsAssumption DEF JobsInit, BackupInv
<1> QED
  BY <1>3, <1>4, <1>5, Zenon DEF JobsInv

\* One record changes, to a true one.
LEMMA RecordChanges ==
  ASSUME TasksInv, NEW j \in TaskIds, NEW t \in TaskType, TaskTrue(t),
         tasks' = [tasks EXCEPT ![j] = t], stamp' \in Nat
  PROVE  TasksInv'
<1>1. tasks' \in [TaskIds -> TaskType]
  BY Zenon DEF TasksInv
<1>2. ASSUME NEW i \in TaskIds PROVE TaskTrue(tasks'[i])
  <2>1. tasks'[i] = IF i = j THEN t ELSE tasks[i]
    BY Zenon DEF TasksInv
  <2> QED
    BY <2>1, Zenon DEF TasksInv
<1> QED
  BY <1>1, <1>2, Zenon DEF TasksInv

\* A task ends, with the outcome its record may show.
LEMMA TaskFinishes ==
  ASSUME TasksInv, NEW j \in TaskIds, NEW t \in TaskType, NEW ok \in BOOLEAN, finish(j, t, ok),
         ok => MayComplete(t), ~ok => MayCancel(t)
  PROVE  TasksInv'
<1> DEFINE new == [t EXCEPT !.status = outcome_status(ok, t.token), !.at = "end", !.stamp = stamp]
<1>1. tasks' = [tasks EXCEPT ![j] = new] /\ stamp' = stamp + 1 /\ stamp \in Nat
  BY Zenon DEF finish, TasksInv
<1>2. outcome_status(ok, t.token) \in {"complete", "cancelled", "failed"}
      /\ (outcome_status(ok, t.token) = "complete" => ok)
      /\ (outcome_status(ok, t.token) = "cancelled" => ~ok)
  BY Zenon DEF outcome_status
<1>3. new \in TaskType
  BY <1>1, <1>2, ZenonT(90) DEF TaskType
<1>4. /\ new.action = t.action /\ new.todo = t.todo /\ new.did = t.did /\ new.cancel = t.cancel
      /\ new.broke = t.broke /\ new.at = "end" /\ new.status = outcome_status(ok, t.token)
  BY DEF TaskType
<1>5. TaskTrue(new)
  <2> HIDE DEF new
  <2>1. Stands(new)
    BY <1>4, ZenonT(30) DEF Stands
  <2>2. new.status = "complete" => MayComplete(new)
    BY <1>2, <1>4, Zenon DEF MayComplete
  <2>3. new.status = "cancelled" => MayCancel(new)
    BY <1>2, <1>4, Zenon DEF MayCancel
  <2> QED
    BY <2>1, <2>2, <2>3, Zenon DEF TaskTrue
<1>6. stamp' \in Nat
  BY <1>1
<1> QED
  BY <1>1, <1>3, <1>5, <1>6, RecordChanges, Zenon

\* A task is recorded before it runs.
LEMMA TaskSpawned ==
  ASSUME TasksInv, NEW action \in {"purge", "backup", "delete", "shutdown"}, spawn_with(action),
         stamp' = stamp
  PROVE  TasksInv'
<1> DEFINE new == [NoTask EXCEPT !.action = action, !.status = "scheduled", !.cancel = Cancels(action),
                                 !.at = "start"]
<1>1. PICK j \in TaskIds : tasks' = [tasks EXCEPT ![j] = new]
  BY Zenon DEF spawn_with
<1>2. Cancels(action) \in {"cooperative", "never", "abort"}
  BY Zenon DEF Cancels
<1>3. new \in TaskType
  BY <1>2, Zenon DEF NoTask, TaskType
<1>4. TaskTrue(new)
  BY <1>2, Zenon DEF NoTask, TaskTrue, Stands
<1> QED
  BY <1>1, <1>3, <1>4, RecordChanges, Zenon DEF TasksInv

\* A task's own steps leave a true record.
LEMMA TaskWorks == ASSUME JobsInv, NEW j \in TaskIds, Works(j) \/ panicked(j) PROVE TasksInv'
<1> DEFINE t == tasks[j]
<1>t. TasksInv /\ t \in TaskType /\ TaskTrue(t) /\ Stands(t) /\ stamp \in Nat /\ joined \in SUBSET LocalMembers
  BY Zenon DEF JobsInv, TasksInv, CallersInv, TaskTrue
<1>1. CASE set_active(j)
  <2> DEFINE new == [t EXCEPT !.status = "active", !.at = FirstStep(t.action)]
  <2>1. tasks' = [tasks EXCEPT ![j] = new] /\ stamp' = stamp /\ t.at = "start"
    BY <1>1, <1>t, Zenon DEF set_active, TasksInv
  <2>2. FirstStep(t.action) \in {"lock", "engine", "purging"}
        /\ (FirstStep(t.action) = "lock" => t.action \in {"delete", "shutdown"})
        /\ (FirstStep(t.action) = "engine" => t.action = "backup")
        /\ (FirstStep(t.action) = "purging" => t.action = "purge" /\ Cancels(t.action) = "abort")
    BY <2>1, <1>t, Zenon DEF FirstStep, Stands, Cancels
  <2>3. new \in TaskType
    BY <1>t, <2>2, ZenonT(30) DEF TaskType
  <2>4. /\ new.action = t.action /\ new.todo = t.todo /\ new.did = t.did /\ new.cancel = t.cancel
        /\ new.at = FirstStep(t.action) /\ new.status = "active"
    BY <1>t DEF TaskType
  <2>5. TaskTrue(new)
    <3> HIDE DEF new
    <3> QED
      BY <1>t, <2>1, <2>2, <2>4, Zenon DEF TaskTrue, Stands
  <2> QED
    BY <2>1, <2>3, <2>5, <1>t, RecordChanges, Zenon
<1>2. CASE Aborted(j)
  <2>1. finish(j, t, FALSE) /\ t.cancel = "abort"
    BY <1>2, ZenonT(30) DEF Aborted
  <2>2. MayCancel(t)
    BY <2>1, Zenon DEF MayCancel
  <2> QED
    BY <1>t, <2>1, <2>2, TaskFinishes, ZenonT(30)
<1>3. CASE PurgesHistory(j)
  <2> DEFINE new == [t EXCEPT !.did = {"purged"}]
  <2>1. PICK ok \in BOOLEAN : finish(j, new, ok)
    BY <1>3, Zenon DEF PurgesHistory
  <2>2. new \in TaskType /\ new.todo = t.todo /\ new.action = t.action /\ new.cancel = t.cancel
    BY <1>t, Zenon DEF TaskType
  <2>3. MayComplete(new) /\ MayCancel(new)
    <3> HIDE DEF new
    <3> QED
      BY <1>3, <1>t, <2>2, Zenon DEF PurgesHistory, Stands, MayComplete, MayCancel
  <2> QED
    BY <1>t, <2>1, <2>2, <2>3, TaskFinishes, Zenon
<1>4. CASE AwaitsLock(j)
  <2>1. CASE tasks' = [tasks EXCEPT ![j].at = "evict", ![j].todo = joined] /\ UNCHANGED stamp
    <3> DEFINE new == [t EXCEPT !.at = "evict", !.todo = joined]
    <3>1. tasks' = [tasks EXCEPT ![j] = new] /\ t.at = "lock"
      BY <1>4, <2>1, <1>t, Zenon DEF AwaitsLock, TasksInv
    <3>2. new \in TaskType /\ new.action = t.action /\ new.did = t.did /\ new.at = "evict" /\ new.status = t.status
      BY <1>t, Zenon DEF TaskType
    <3>3. TaskTrue(new)
      <4> HIDE DEF new
      <4> QED
        BY <1>t, <3>1, <3>2, Zenon DEF TaskTrue, Stands
    <3> QED
      BY <1>t, <2>1, <3>1, <3>2, <3>3, RecordChanges, Zenon
  <2>2. CASE finish(j, t, FALSE)
    <3>1. MayCancel(t)
      BY <1>4, <1>t, Zenon DEF AwaitsLock, Stands, MayCancel
    <3> QED
      BY <1>t, <2>2, <3>1, TaskFinishes, Zenon
  <2> QED
    BY <1>4, <2>1, <2>2, Zenon DEF AwaitsLock
<1>5. CASE evict(j)
  <2>1. CASE finish(j, t, FALSE)
    <3>1. MayCancel(t)
      BY <1>5, <1>t, Zenon DEF evict, Stands, MayCancel
    <3> QED
      BY <1>t, <2>1, <3>1, TaskFinishes, Zenon
  <2>2. ASSUME NEW u \in t.todo, tasks' = [tasks EXCEPT ![j].todo = @ \ {u}], UNCHANGED stamp PROVE TasksInv'
    <3> DEFINE new == [t EXCEPT !.todo = @ \ {u}]
    <3>1. tasks' = [tasks EXCEPT ![j] = new] /\ t.at = "evict"
      BY <1>5, <2>2, <1>t, Zenon DEF evict, TasksInv
    <3>2. new \in TaskType /\ new.action = t.action /\ new.did = t.did /\ new.at = "evict" /\ new.status = t.status
      BY <1>t, <3>1, Zenon DEF TaskType
    <3>3. TaskTrue(new)
      <4> HIDE DEF new
      <4> QED
        BY <1>t, <3>1, <3>2, Zenon DEF TaskTrue, Stands
    <3> QED
      BY <1>t, <2>2, <3>1, <3>2, <3>3, RecordChanges, ZenonT(30)
  <2> QED
    BY <1>5, <2>1, <2>2, Zenon DEF evict
<1>6. CASE shutdown_room_until(j)
  <2> DEFINE freed == [t EXCEPT !.did = @ \cup {"freed"}]
  <2>1. t.at = "evict" /\ t.todo = {} /\ t.action \in {"delete", "shutdown"} /\ t.did = {}
        /\ t.status \in {"scheduled", "active"}
    BY <1>6, <1>t, Zenon DEF shutdown_room_until, Stands
  <2>2. freed \in TaskType /\ freed.todo = {} /\ freed.action = t.action /\ freed.did = {"freed"}
        /\ freed.status = t.status
    BY <1>t, <2>1, Zenon DEF TaskType
  <2>3. CASE t.action = "shutdown"
    <3>1. finish(j, freed, TRUE)
      BY <1>6, <2>3, Zenon DEF shutdown_room_until
    <3>2. MayComplete(freed)
      <4> HIDE DEF freed
      <4> QED
        BY <2>2, <2>3, Zenon DEF MayComplete
    <3> QED
      BY <1>t, <2>2, <3>1, <3>2, TaskFinishes, Zenon
  <2>4. CASE t.action # "shutdown"
    <3> DEFINE new == [freed EXCEPT !.at = "check"]
    <3>1. tasks' = [tasks EXCEPT ![j] = new] /\ UNCHANGED stamp
      BY <1>6, <2>4, Zenon DEF shutdown_room_until
    <3>2. new \in TaskType /\ new.todo = {} /\ new.action = "delete" /\ new.did = {"freed"} /\ new.at = "check"
          /\ new.status = t.status
      BY <2>1, <2>2, <2>4, Zenon DEF TaskType
    <3>3. TaskTrue(new)
      <4> HIDE DEF new
      <4> QED
        BY <2>1, <3>2, Zenon DEF TaskTrue, Stands
    <3> QED
      BY <1>t, <3>1, <3>2, <3>3, RecordChanges, Zenon
  <2> QED
    BY <2>3, <2>4, Zenon
<1>7. CASE delete_room_cancellable(j)
  <2>1. CASE t.token
    <3>1. finish(j, t, FALSE) /\ MayCancel(t)
      BY <1>7, <2>1, <1>t, Zenon DEF delete_room_cancellable, Stands, MayCancel
    <3> QED
      BY <1>t, <3>1, TaskFinishes, Zenon
  <2>2. CASE ~t.token
    <3> DEFINE new == [t EXCEPT !.at = "purge"]
    <3>1. tasks' = [tasks EXCEPT ![j] = new] /\ UNCHANGED stamp /\ t.at = "check"
      BY <1>7, <2>2, <1>t, Zenon DEF delete_room_cancellable, TasksInv
    <3>2. new \in TaskType /\ new.todo = t.todo /\ new.action = t.action /\ new.did = t.did /\ new.at = "purge"
          /\ new.status = t.status
      BY <1>t DEF TaskType
    <3>3. TaskTrue(new)
      <4> HIDE DEF new
      <4> QED
        BY <1>t, <3>1, <3>2, Zenon DEF TaskTrue, Stands
    <3> QED
      BY <1>t, <3>1, <3>2, <3>3, RecordChanges, Zenon
  <2> QED
    BY <2>1, <2>2, Zenon
<1>8. CASE purge_room(j)
  <2> DEFINE new == [t EXCEPT !.did = @ \cup {"purged"}]
  <2>1. t.at = "purge" /\ t.todo = {} /\ t.action = "delete" /\ "freed" \in t.did
        /\ t.status \in {"scheduled", "active"}
    BY <1>8, <1>t, Zenon DEF purge_room, Stands
  <2>2. new \in TaskType /\ new.todo = {} /\ new.action = "delete" /\ new.at = "purge" /\ new.status = t.status
        /\ {"freed", "purged"} \subseteq new.did
    BY <1>t, <2>1 DEF TaskType
  <2>3. CASE purged < Tables
    <3>1. tasks' = [tasks EXCEPT ![j] = new] /\ UNCHANGED stamp
      BY <1>8, <2>3, <1>t, Zenon DEF purge_room, TasksInv
    <3>2. TaskTrue(new)
      <4> HIDE DEF new
      <4> QED
        BY <2>1, <2>2, Zenon DEF TaskTrue, Stands
    <3> QED
      BY <1>t, <2>2, <3>1, <3>2, RecordChanges, Zenon
  <2>4. CASE ~(purged < Tables)
    <3>1. finish(j, new, TRUE)
      BY <1>8, <2>4, Zenon DEF purge_room
    <3>2. MayComplete(new)
      <4> HIDE DEF new
      <4> QED
        BY <2>2, Zenon DEF MayComplete
    <3> QED
      BY <1>t, <2>2, <3>1, <3>2, TaskFinishes, Zenon
  <2> QED
    BY <2>3, <2>4, Zenon
<1>9. CASE EngineStarts(j)
  <2>1. CASE TriesLock(j)
    <3> DEFINE new == [t EXCEPT !.at = "thread"]
    <3>1. tasks' = [tasks EXCEPT ![j] = new] /\ UNCHANGED stamp /\ t.at = "engine"
      BY <1>9, <2>1, <1>t, Zenon DEF EngineStarts, TasksInv
    <3>2. new \in TaskType /\ new.todo = t.todo /\ new.action = t.action /\ new.did = t.did /\ new.at = "thread"
          /\ new.status = t.status
      BY <1>t DEF TaskType
    <3>3. TaskTrue(new)
      <4> HIDE DEF new
      <4> QED
        BY <1>t, <3>1, <3>2, Zenon DEF TaskTrue, Stands
    <3> QED
      BY <1>t, <3>1, <3>2, <3>3, RecordChanges, Zenon
  <2>2. CASE ~TriesLock(j)
    <3>1. finish(j, t, FALSE) /\ MayCancel(t)
      BY <1>9, <2>2, <1>t, Zenon DEF EngineStarts, Stands, MayCancel
    <3> QED
      BY <1>t, <3>1, TaskFinishes, Zenon
  <2> QED
    BY <2>1, <2>2, Zenon
<1>10. CASE EngineEnds(j)
  <2>1. CASE t.at = "thread"
    <3>1. PICK ok \in BOOLEAN : finish(j, [t EXCEPT !.did = IF ok THEN {"saved"} ELSE {}], ok)
      BY <1>10, <2>1, Zenon DEF EngineEnds
    <3> DEFINE new == [t EXCEPT !.did = IF ok THEN {"saved"} ELSE {}]
    <3>2. new \in TaskType /\ new.todo = t.todo /\ new.action = t.action /\ new.cancel = t.cancel
          /\ new.did = IF ok THEN {"saved"} ELSE {}
      BY <1>t, Zenon DEF TaskType
    <3> HIDE DEF new
    <3>3. t.action = "backup" /\ t.todo = {}
      BY <1>t, <2>1, ZenonT(30) DEF Stands
    <3>4. ok => MayComplete(new)
      BY <3>2, <3>3, ZenonT(30) DEF MayComplete
    <3>5. MayCancel(new)
      BY <3>2, <3>3 DEF MayCancel
    <3>6. finish(j, new, ok)
      BY <3>1, Zenon DEF new
    <3> QED
      BY <1>t, <3>2, <3>4, <3>5, <3>6, TaskFinishes, Zenon
  <2>2. CASE t.at # "thread"
    BY <1>10, <2>2, <1>t, Zenon DEF EngineEnds, TasksInv
  <2> QED
    BY <2>1, <2>2, Zenon
<1>11. CASE panicked(j)
  <2> DEFINE new == [t EXCEPT !.broke = TRUE]
  <2>1. finish(j, new, FALSE)
    BY <1>11, Zenon DEF panicked
  <2>2. new \in TaskType /\ new.broke = TRUE
    BY <1>t, Zenon DEF TaskType
  <2>3. MayCancel(new)
    BY <2>2, Zenon DEF MayCancel
  <2> QED
    BY <1>t, <2>1, <2>2, <2>3, TaskFinishes, Zenon
<1> QED
  BY <1>1, <1>2, <1>3, <1>4, <1>5, <1>6, <1>7, <1>8, <1>9, <1>10, <1>11 DEF Works

LEMMA TasksKept == ASSUME JobsInv, [JobsNext]_jobVars PROVE TasksInv'
<1>t. TasksInv
  BY Zenon DEF JobsInv
<1>1. ASSUME NEW c \in Callers, purge_history(c) \/ backup(c) PROVE TasksInv'
  BY <1>1, <1>t, Zenon DEF purge_history, backup, Checked, TasksInv
<1>2. CASE tick \/ Passes \/ abort_all
  BY <1>2, <1>t, Zenon DEF tick, Passes, abort_all, TasksInv
<1>3. ASSUME NEW c \in Callers \cup {Scheduler}, Spawns(c) PROVE TasksInv'
  <2>1. caller[c] \in {"purge", "backup"}
    BY <1>3, Zenon DEF Spawns, JobsInv, CallersInv
  <2> QED
    BY <1>3, <1>t, <2>1, TaskSpawned, Zenon DEF Spawns
<1>4. CASE shutdown \/ delete_room
  BY <1>4, <1>t, TaskSpawned, Zenon DEF shutdown, delete_room, spawn_cancellable
<1>5. ASSUME NEW j \in TaskIds, cancel(j) \/ Dropped(j) PROVE TasksInv'
  <2> DEFINE t == tasks[j]
             called == [t EXCEPT !.token = TRUE]
             ended == [t EXCEPT !.at = "end"]
  <2>1. t \in TaskType /\ TaskTrue(t) /\ stamp \in Nat
    BY <1>t, Zenon DEF TasksInv
  <2>2. CASE cancel(j)
    <3>1. tasks' = [tasks EXCEPT ![j] = called] /\ UNCHANGED stamp
      BY <2>2, <1>t, Zenon DEF cancel, TasksInv
    <3>2. /\ called \in TaskType /\ called.todo = t.todo /\ called.action = t.action /\ called.did = t.did
          /\ called.at = t.at /\ called.status = t.status /\ called.cancel = t.cancel /\ called.broke = t.broke
      BY <2>1, Zenon DEF TaskType
    <3>3. TaskTrue(called)
      <4> HIDE DEF called
      <4> QED
        BY <2>1, <3>2, Zenon DEF TaskTrue, Stands, MayComplete, MayCancel
    <3> QED
      BY <1>t, <2>1, <3>1, <3>2, <3>3, RecordChanges, Zenon
  <2>3. CASE Dropped(j)
    <3>1. tasks' = [tasks EXCEPT ![j] = ended] /\ UNCHANGED stamp /\ t.status \in {"scheduled", "active"}
      BY <2>3, <1>t, Zenon DEF Dropped, Nonterminal, TasksInv
    <3>2. ended \in TaskType /\ ended.at = "end" /\ ended.status = t.status
      BY <2>1 DEF TaskType
    <3>3. TaskTrue(ended)
      <4> HIDE DEF ended
      <4> QED
        BY <3>1, <3>2, Zenon DEF TaskTrue, Stands
    <3> QED
      BY <1>t, <2>1, <3>1, <3>2, <3>3, RecordChanges, Zenon
  <2> QED
    BY <1>5, <2>2, <2>3, Zenon
<1>6. CASE prune
  <2>1. PICK before \in 1..stamp : prune_tasks(before)
    BY <1>6, Zenon DEF prune
  <2>2. ASSUME NEW j \in TaskIds PROVE tasks'[j] \in TaskType /\ TaskTrue(tasks'[j])
    <3>1. tasks[j] \in TaskType /\ TaskTrue(tasks[j])
      BY <1>t, Zenon DEF TasksInv
    <3> DEFINE gone == [NoTask EXCEPT !.action = "pruned", !.at = tasks[j].at]
    <3>2. CASE tasks'[j] = gone /\ tasks[j].status \in Terminal
      <4>1. tasks[j].at = "end"
        BY <3>1, <3>2, Zenon DEF TaskTrue, Stands, Terminal, TaskType
      <4>2. gone \in TaskType /\ gone.at = "end" /\ gone.status = "none"
        BY <4>1, ZenonT(30) DEF NoTask, TaskType
      <4>3. TaskTrue(gone)
        <5> HIDE DEF gone
        <5> QED
          BY <4>2, Zenon DEF TaskTrue, Stands
      <4> QED
        BY <3>2, <4>2, <4>3, Zenon
    <3>3. CASE tasks'[j] = tasks[j]
      BY <3>1, <3>3, Zenon
    <3> QED
      BY <2>1, <3>2, <3>3, Zenon DEF prune_tasks
  <2>3. tasks' \in [TaskIds -> TaskType] /\ stamp' = stamp
    BY <1>6, <2>1, <2>2, ZenonT(30) DEF prune_tasks, prune
  <2> QED
    BY <1>t, <2>2, <2>3, Zenon DEF TasksInv
<1>7. CASE UNCHANGED jobVars
  BY <1>7, <1>t, Zenon DEF jobVars, TasksInv
<1> QED
  BY <1>1, <1>2, <1>3, <1>4, <1>5, <1>6, <1>7, TaskWorks, Zenon DEF JobsNext

LEMMA CallersKept == ASSUME JobsInv, [JobsNext]_jobVars PROVE CallersInv'
<1>c. CallersInv
  BY Zenon DEF JobsInv
<1>1. ASSUME NEW c \in Callers, purge_history(c) \/ backup(c) PROVE CallersInv'
  BY <1>1, <1>c, Zenon DEF purge_history, backup, Checked, CallersInv, roomVars
<1>2. CASE tick \/ Passes \/ abort_all \/ prune
  BY <1>2, <1>c, Zenon DEF tick, Passes, abort_all, prune, CallersInv, roomVars
<1>3. ASSUME NEW c \in Callers \cup {Scheduler}, Spawns(c) PROVE CallersInv'
  BY <1>3, <1>c, Zenon DEF Spawns, CallersInv, roomVars
<1>4. CASE shutdown \/ delete_room
  BY <1>4, <1>c, Zenon DEF shutdown, delete_room, spawn_cancellable, CallersInv, roomVars
<1>5. ASSUME NEW j \in TaskIds, Works(j) \/ panicked(j) \/ cancel(j) \/ Dropped(j) PROVE CallersInv'
  <2>1. UNCHANGED caller
    BY <1>5, Zenon DEF Works, set_active, Aborted, PurgesHistory, AwaitsLock, evict, shutdown_room_until,
                delete_room_cancellable, purge_room, EngineStarts, EngineEnds, panicked, cancel, Dropped
  <2>2. joined' \subseteq joined
    BY <1>5, ZenonT(30) DEF Works, set_active, Aborted, PurgesHistory, AwaitsLock, evict, shutdown_room_until,
                delete_room_cancellable, purge_room, EngineStarts, EngineEnds, panicked, cancel, Dropped, roomVars
  <2> QED
    BY <1>c, <2>1, <2>2, Zenon DEF CallersInv
<1>6. CASE UNCHANGED jobVars
  BY <1>6, <1>c, Zenon DEF jobVars, CallersInv
<1> QED
  BY <1>1, <1>2, <1>3, <1>4, <1>5, <1>6, Zenon DEF JobsNext

LEMMA BackupsKept == ASSUME JobsInv, [JobsNext]_jobVars PROVE BackupInv'
<1>b. BackupInv
  BY Zenon DEF JobsInv
<1>0. ASSUME UNCHANGED backupVars PROVE BackupInv'
  BY <1>0, <1>b, Zenon DEF backupVars, BackupInv
<1>1. ASSUME NEW c \in Callers, purge_history(c) \/ backup(c) PROVE BackupInv'
  BY <1>1, <1>0, Zenon DEF purge_history, backup, Checked
<1>2. ASSUME NEW c \in Callers \cup {Scheduler}, Spawns(c) PROVE BackupInv'
  BY <1>2, <1>0, Zenon DEF Spawns
<1>3. CASE shutdown \/ delete_room \/ prune \/ abort_all
  BY <1>3, <1>0, Zenon DEF shutdown, delete_room, spawn_cancellable, prune, abort_all
<1>4. ASSUME NEW j \in TaskIds,
             \/ set_active(j) \/ Aborted(j) \/ PurgesHistory(j) \/ AwaitsLock(j) \/ evict(j)
             \/ shutdown_room_until(j) \/ delete_room_cancellable(j) \/ purge_room(j)
             \/ panicked(j) \/ cancel(j) \/ Dropped(j)
      PROVE  BackupInv'
  BY <1>4, <1>0, Zenon DEF set_active, Aborted, PurgesHistory, AwaitsLock, evict, shutdown_room_until,
                    delete_room_cancellable, purge_room, panicked, cancel, Dropped
<1>5. ASSUME NEW j \in TaskIds, EngineStarts(j) PROVE BackupInv'
  <2>1. UNCHANGED <<clock, last_backup, last_attempt, closest>>
    BY <1>5, Zenon DEF EngineStarts
  <2>2. CASE held = Nobody
    <3>1. running = {}
      BY <2>2, <1>b, JobsAssumption, Zenon DEF BackupInv
    <3>2. running' = {j} /\ held' = j
      BY <1>5, <2>2, <3>1, Zenon DEF EngineStarts, TriesLock
    <3> QED
      BY <1>b, <2>1, <3>2, Zenon DEF BackupInv
  <2>3. CASE held # Nobody
    BY <1>5, <1>b, <2>1, <2>3, Zenon DEF EngineStarts, TriesLock, BackupInv
  <2> QED
    BY <2>2, <2>3, Zenon
<1>6. ASSUME NEW j \in TaskIds, EngineEnds(j) PROVE BackupInv'
  <2>1. running' = {}
    BY <1>6, <1>b, Zenon DEF EngineEnds, BackupInv
  <2>2. last_backup' \in {last_backup, clock} /\ UNCHANGED <<clock, last_attempt, closest>>
    BY <1>6, Zenon DEF EngineEnds
  <2> QED
    BY <1>b, <2>1, <2>2, Zenon DEF BackupInv
<1>7. CASE tick
  <2>1. UNCHANGED <<running, held, last_backup, clock>> /\ last_attempt' = clock
    BY <1>7, Zenon DEF tick
  <2>2. clock \in Nat /\ last_attempt \in Nat /\ last_backup \in Nat /\ closest \in Nat /\ Interval \in Nat
        /\ Interval <= closest
    BY <1>b, JobsAssumption, Zenon DEF BackupInv
  <2>3. CASE last_attempt = 0
    BY <1>7, <1>b, <2>1, <2>2, <2>3, Zenon DEF tick, BackupInv
  <2>4. CASE last_attempt # 0
    <3>1. Later(last_backup, last_attempt) \in Nat /\ Later(last_backup, last_attempt) >= last_attempt
      BY <2>2 DEF Later
    <3>2. Later(last_backup, last_attempt) + Interval <= clock
      BY <1>7, <2>2, <2>4, <3>1 DEF tick, next_due_ms
    <3>3. clock - last_attempt \in Nat /\ Interval <= clock - last_attempt
      BY <2>2, <3>1, <3>2
    <3>4. closest' \in Nat /\ Interval <= closest'
      BY <1>7, <2>2, <2>4, <3>3, Zenon DEF tick, Earlier
    <3> QED
      BY <1>b, <2>1, <2>2, <3>4, Zenon DEF BackupInv
  <2> QED
    BY <2>3, <2>4, Zenon
<1>8. CASE Passes
  BY <1>8, <1>b DEF Passes, BackupInv
<1>9. CASE UNCHANGED jobVars
  BY <1>9, <1>b, Zenon DEF jobVars, BackupInv
<1> QED
  BY <1>1, <1>2, <1>3, <1>4, <1>5, <1>6, <1>7, <1>8, <1>9 DEF JobsNext, Works

LEMMA JobsStep == JobsInv /\ [JobsNext]_jobVars => JobsInv'
  BY TasksKept, CallersKept, BackupsKept, Zenon DEF JobsInv

(* For any number of tasks, callers, members and tables: what is still at  *)
(* work is listed, complete and cancelled are said only of tasks that did  *)
(* what that promises, one backup at most writes the directory, and the    *)
(* scheduler's attempts are an interval apart (outcome_status, prune_tasks,*)
(* RUNNING, next_due_ms).                                                  *)
THEOREM JobsAreSound == JobsSpec => []JobsSound
<1>1. JobsInv => JobsSound
  <2> SUFFICES ASSUME JobsInv PROVE JobsSound
    BY Zenon
  <2>1. OutcomeIsTrue
    BY ZenonT(30) DEF JobsInv, TasksInv, TaskTrue, MayComplete, MayCancel, OutcomeIsTrue
  <2>2. RunningIsListed
    BY Zenon DEF JobsInv, TasksInv, TaskTrue, Stands, RunningIsListed, Nonterminal
  <2>3. OneBackup
    BY Zenon DEF JobsInv, BackupInv, OneBackup
  <2>4. AttemptsSpaced
    BY JobsAssumption, Zenon DEF JobsInv, BackupInv, AttemptsSpaced
  <2> QED
    BY <2>1, <2>2, <2>3, <2>4, Zenon DEF JobsSound
<1> QED
  BY <1>1, JobsStart, JobsStep, PTL DEF JobsSpec

-----------------------------------------------------------------------------
(* Unread counts.                                                          *)

EventRow == [count : Nat, notify : SUBSET Users]

AppendType == [at : {"idle", "draw", "store", "count"}, by : Users \cup {NobodyU},
               count : Nat, todo : SUBSET Users]

UnreadTypes ==
  /\ ucount \in Nat /\ events \in SUBSET EventRow /\ IsFiniteSet(events)
  /\ appending \in AppendType
  /\ notificationcount \in [Users -> Nat] /\ lastnotificationread \in [Users -> Nat]
  /\ raising \in [Users -> Nat] /\ count_mutex \in [Users -> {"free", "raise"}]

\* Every number is drawn once: an event's and a stamp are never the same.
NumbersOnce ==
  /\ \A e \in events : e.count <= ucount
  /\ \A u \in Users : lastnotificationread[u] <= ucount
  /\ \A e, f \in events : e.count = f.count => e = f
  /\ appending.at \in {"store", "count"} =>
       /\ appending.count <= ucount
       /\ \A u \in Users : lastnotificationread[u] # appending.count
  /\ appending.at = "store" => \A e \in events : e.count # appending.count
  /\ appending.at = "count" => \E e \in events : e.count = appending.count /\ appending.todo \subseteq e.notify

\* A raise under way is for the event being counted, and nobody read past it.
RaisesCurrent ==
  \A u \in Users : count_mutex[u] = "raise" =>
    /\ appending.at = "count" /\ u \in appending.todo
    /\ lastnotificationread[u] < appending.count
    /\ raising[u] = notificationcount[u]

Counted(u) == Unread(u) \ Pending(u)

UnreadInv ==
  /\ UnreadTypes /\ NumbersOnce /\ RaisesCurrent
  /\ \A u \in Users : notificationcount[u] = Cardinality(Counted(u))

LEMMA UnreadStart == UnreadInit => UnreadInv
<1> SUFFICES ASSUME UnreadInit PROVE UnreadInv
  BY Zenon
<1>1. IsFiniteSet({}) /\ Cardinality({}) = 0
  BY FS_EmptySet, Zenon
<1>2. \A u \in Users : Counted(u) = {}
  BY Zenon DEF UnreadInit, Counted, Unread
<1>3. UnreadTypes
  BY <1>1, Zenon DEF UnreadInit, UnreadTypes, Idle_, AppendType
<1>4. NumbersOnce /\ RaisesCurrent
  BY DEF UnreadInit, NumbersOnce, RaisesCurrent, Idle_
<1>5. \A u \in Users : notificationcount[u] = 0
  BY Zenon DEF UnreadInit
<1> QED
  BY <1>1, <1>2, <1>3, <1>4, <1>5, Zenon DEF UnreadInv

\* A reset of u's counts at a stamp nobody has drawn before.
LEMMA ResetKeeps ==
  ASSUME UnreadInv, NEW u, NEW at \in Nat, reset_notification_counts(u, at),
         at > ucount, ucount' \in Nat, ucount' >= at, UNCHANGED <<events, count_mutex, raising>>,
         appending' = appending \/ (appending.at = "idle" /\ appending'.at = "draw"),
         appending' \in AppendType
  PROVE  UnreadInv'
<1>t. UnreadTypes /\ NumbersOnce /\ RaisesCurrent
  BY Zenon DEF UnreadInv
<1>1. /\ notificationcount' = [notificationcount EXCEPT ![u] = 0]
      /\ lastnotificationread' = [lastnotificationread EXCEPT ![u] = at]
      /\ count_mutex[u] = "free"
  BY Zenon DEF reset_notification_counts
<1>2. UnreadTypes'
  BY <1>t, <1>1, Zenon DEF UnreadTypes
<1>3. \A v \in Users : v # u => /\ notificationcount'[v] = notificationcount[v]
                                /\ lastnotificationread'[v] = lastnotificationread[v]
  BY <1>t, <1>1, Zenon DEF UnreadTypes
<1>4. u \in Users => notificationcount'[u] = 0 /\ lastnotificationread'[u] = at
  BY <1>t, <1>1, Zenon DEF UnreadTypes
<1>5. \A e \in events : e.count \in Nat /\ e.count <= ucount
  BY <1>t, Zenon DEF UnreadTypes, NumbersOnce, EventRow
<1>6. /\ appending.count \in Nat
      /\ appending'.at \in {"store", "count"} => appending' = appending
      /\ appending.at = "count" => appending' = appending
  BY <1>t, Zenon DEF UnreadTypes, AppendType
<1>7. NumbersOnce'
  <2>1. \A e \in events : e.count <= ucount'
    BY <1>t, <1>5 DEF UnreadTypes
  <2>2. \A v \in Users : lastnotificationread'[v] <= ucount'
    BY <1>t, <1>3, <1>4 DEF UnreadTypes, NumbersOnce
  <2>3. appending'.at \in {"store", "count"} =>
          appending'.count <= ucount' /\ \A v \in Users : lastnotificationread'[v] # appending'.count
    BY <1>t, <1>3, <1>4, <1>6 DEF UnreadTypes, NumbersOnce
  <2> QED
    BY <1>t, <1>6, <2>1, <2>2, <2>3, Zenon DEF NumbersOnce
<1>8. RaisesCurrent'
  BY <1>t, <1>1, <1>3, <1>6, Zenon DEF RaisesCurrent
<1>9. ASSUME NEW v \in Users PROVE notificationcount'[v] = Cardinality(Counted(v)')
  <2>1. CASE v = u
    <3>1. Unread(v)' = {}
      BY <1>4, <1>5, <2>1, <1>t DEF Unread, UnreadTypes
    <3>2. Counted(v)' = {}
      BY <3>1, Zenon DEF Counted
    <3> QED
      BY <1>4, <2>1, <3>2, FS_EmptySet, Zenon
  <2>2. CASE v # u
    <3>1. Unread(v)' = Unread(v)
      BY <1>3, <2>2, Zenon DEF Unread
    <3>2. Pending(v)' = Pending(v)
      BY <3>1, <1>6, Zenon DEF Pending
    <3> QED
      BY <1>3, <2>2, <3>1, <3>2, Zenon DEF Counted, UnreadInv
  <2> QED
    BY <2>1, <2>2, Zenon
<1> QED
  BY <1>2, <1>7, <1>8, <1>9, Zenon DEF UnreadInv

\* A step that draws numbers and counts nothing.
LEMMA DrawKeeps ==
  ASSUME UnreadInv, ucount' \in Nat, ucount' >= ucount,
         UNCHANGED <<events, appending, notificationcount, lastnotificationread, count_mutex, raising>>
  PROVE  UnreadInv'
<1>t. UnreadTypes /\ NumbersOnce /\ RaisesCurrent
  BY Zenon DEF UnreadInv
<1>1. \A e \in events : e.count \in Nat
  BY <1>t, Zenon DEF UnreadTypes, EventRow
<1>2. UnreadTypes'
  BY <1>t, Zenon DEF UnreadTypes
<1>3. NumbersOnce'
  BY <1>t, <1>1 DEF UnreadTypes, AppendType, NumbersOnce
<1>4. RaisesCurrent'
  BY <1>t, Zenon DEF RaisesCurrent
<1>5. \A u \in Users : Counted(u)' = Counted(u)
  BY Zenon DEF Counted, Unread, Pending
<1> QED
  BY <1>2, <1>3, <1>4, <1>5, Zenon DEF UnreadInv

LEMMA AppendDrawKeeps == ASSUME UnreadInv, AppendDraw PROVE UnreadInv'
<1>t. UnreadTypes /\ NumbersOnce /\ RaisesCurrent
  BY Zenon DEF UnreadInv
<1> DEFINE new == [appending EXCEPT !.at = "store", !.count = ucount + 1]
<1>1. /\ appending.at = "draw" /\ ucount' = ucount + 1 /\ appending' = new
      /\ UNCHANGED <<events, notificationcount, lastnotificationread, count_mutex, raising>>
  BY Zenon DEF AppendDraw
<1>2. /\ new \in AppendType
      /\ new.at = "store" /\ new.count = ucount + 1
  <2>1. appending \in AppendType /\ ucount + 1 \in Nat
    BY <1>t DEF UnreadTypes
  <2> QED
    BY <2>1, Zenon DEF AppendType
<1> HIDE DEF new
<1>3. UnreadTypes'
  BY <1>t, <1>1, <1>2 DEF UnreadTypes
<1>4. \A e \in events : e.count \in Nat /\ e.count <= ucount
  BY <1>t, Zenon DEF UnreadTypes, NumbersOnce, EventRow
<1>5. NumbersOnce'
  BY <1>t, <1>1, <1>2, <1>4 DEF UnreadTypes, NumbersOnce
<1>6. RaisesCurrent'
  BY <1>t, <1>1, Zenon DEF RaisesCurrent
<1>7. \A u \in Users : Counted(u)' = Counted(u)
  BY <1>1, <1>2, Zenon DEF Counted, Unread, Pending
<1> QED
  BY <1>1, <1>3, <1>5, <1>6, <1>7, Zenon DEF UnreadInv

\* A new event is stored: nobody's count has it yet, and it is to be counted.
LEMMA AppendStoreKeeps == ASSUME UnreadInv, NEW notify \in SUBSET Users, AppendStore(notify) PROVE UnreadInv'
<1>t. UnreadTypes /\ NumbersOnce /\ RaisesCurrent
  BY Zenon DEF UnreadInv
<1> DEFINE c == appending.count  e == [count |-> c, notify |-> notify]
           new == [appending EXCEPT !.at = "count", !.todo = notify]
<1>1. /\ appending.at = "store" /\ events' = events \cup {e} /\ appending' = new
      /\ UNCHANGED <<ucount, notificationcount, lastnotificationread, count_mutex, raising>>
  BY Zenon DEF AppendStore
<1>2. /\ new \in AppendType
      /\ new.at = "count" /\ new.count = c /\ new.todo = notify
  BY <1>t, Zenon DEF UnreadTypes, AppendType
<1>3. c \in Nat /\ c <= ucount /\ e \in EventRow /\ e.count = c /\ e.notify = notify
  BY <1>t, <1>1, Zenon DEF UnreadTypes, AppendType, NumbersOnce, EventRow
<1>4. \A f \in events : f.count # c
  BY <1>t, <1>1, Zenon DEF NumbersOnce
<1> HIDE DEF new, e, c
<1>5. UnreadTypes'
  <2>1. IsFiniteSet(events')
    BY <1>t, <1>1, FS_AddElement, Zenon DEF UnreadTypes
  <2> QED
    BY <1>t, <1>1, <1>2, <1>3, <2>1, Zenon DEF UnreadTypes
<1>6. NumbersOnce'
  <2>1. \A u \in Users : lastnotificationread[u] # c
    BY <1>t, <1>1, Zenon DEF NumbersOnce, c
  <2> QED
    BY <1>t, <1>1, <1>2, <1>3, <1>4, <2>1 DEF NumbersOnce
<1>7. RaisesCurrent'
  BY <1>t, <1>1, Zenon DEF RaisesCurrent
<1>8. ASSUME NEW u \in Users PROVE Counted(u)' = Counted(u)
  <2>1. Pending(u) = {}
    BY <1>1, Zenon DEF Pending
  <2>2. Unread(u)' = Unread(u) \cup (IF u \in notify /\ c > lastnotificationread[u] THEN {e} ELSE {})
    BY <1>1, <1>3, Zenon DEF Unread
  <2>3. Pending(u)' = (IF u \in notify /\ c > lastnotificationread[u] THEN {e} ELSE {})
    BY <1>1, <1>2, <1>3, <1>4, <2>2, ZenonT(30) DEF Pending, Unread
  <2>4. e \notin Unread(u)
    BY <1>3, <1>4, Zenon DEF Unread
  <2> QED
    BY <2>1, <2>2, <2>3, <2>4, Zenon DEF Counted
<1> QED
  BY <1>1, <1>5, <1>6, <1>7, <1>8, Zenon DEF UnreadInv

\* A user's turn: passed over when they have read past the event.
LEMMA CountStartKeeps == ASSUME UnreadInv, NEW u \in Users, CountStart(u) PROVE UnreadInv'
<1>t. UnreadTypes /\ NumbersOnce /\ RaisesCurrent
  BY Zenon DEF UnreadInv
<1> DEFINE c == appending.count
<1>1. /\ appending.at = "count" /\ u \in appending.todo /\ \A v \in Users : count_mutex[v] # "raise"
      /\ UNCHANGED <<ucount, events, notificationcount, lastnotificationread>>
  BY Zenon DEF CountStart
<1>2. PICK e \in events : e.count = c /\ appending.todo \subseteq e.notify
  BY <1>t, <1>1, Zenon DEF NumbersOnce
<1>3. CASE lastnotificationread[u] > c
  <2> DEFINE new == [appending EXCEPT !.todo = @ \ {u}]
  <2>1. UNCHANGED <<count_mutex, raising>> /\ appending' = new
    <3>1. UNCHANGED <<count_mutex, raising>>
      BY <1>3, Zenon DEF CountStart, increment_start
    <3>2. count_mutex'[u] # "raise"
      BY <1>1, <3>1, Zenon
    <3> QED
      BY <3>1, <3>2, Zenon DEF CountStart
  <2>2. /\ new \in AppendType
        /\ new.at = "count" /\ new.count = c /\ new.todo = appending.todo \ {u}
    BY <1>t, <1>1, Zenon DEF UnreadTypes, AppendType
  <2> HIDE DEF new
  <2>3. UnreadTypes'
    BY <1>t, <1>1, <2>1, <2>2, Zenon DEF UnreadTypes
  <2>4. NumbersOnce'
    BY <1>t, <1>1, <1>2, <2>1, <2>2, Zenon DEF NumbersOnce
  <2>5. RaisesCurrent'
    BY <1>1, <2>1, Zenon DEF RaisesCurrent
  <2>6. ASSUME NEW v \in Users PROVE Counted(v)' = Counted(v)
    <3>1. Unread(v)' = Unread(v)
      BY <1>1, Zenon DEF Unread
    <3>2. CASE v = u
      <4>1. \A f \in Unread(v) : f.count > c
        BY <1>3, <1>t, <3>2 DEF Unread, UnreadTypes, AppendType, EventRow
      <4>2. Pending(v) = {} /\ Pending(v)' = {}
        BY <4>1, <3>1, <1>t, <2>1, <2>2 DEF Pending, UnreadTypes, AppendType
      <4> QED
        BY <3>1, <4>2, Zenon DEF Counted
    <3>3. CASE v # u
      BY <3>1, <3>3, <1>1, <2>1, <2>2, Zenon DEF Counted, Pending
    <3> QED
      BY <3>2, <3>3, Zenon
  <2> QED
    BY <1>1, <2>3, <2>4, <2>5, <2>6, Zenon DEF UnreadInv
<1>4. CASE ~(lastnotificationread[u] > c)
  <2>1. count_mutex' = [count_mutex EXCEPT ![u] = "raise"] /\ raising' = [raising EXCEPT ![u] = notificationcount[u]]
    BY <1>4, Zenon DEF CountStart, increment_start
  <2>2. appending' = appending
    BY <2>1, <1>t, Zenon DEF CountStart, UnreadTypes
  <2>3. lastnotificationread[u] < c
    BY <1>t, <1>1, <1>4 DEF NumbersOnce, UnreadTypes, AppendType
  <2>4. UnreadTypes'
    BY <1>t, <1>1, <2>1, <2>2, Zenon DEF UnreadTypes
  <2>5. NumbersOnce'
    BY <1>t, <1>1, <2>2, Zenon DEF NumbersOnce
  <2>6. /\ count_mutex'[u] = "raise" /\ raising'[u] = notificationcount[u]
        /\ \A v \in Users : v # u => count_mutex'[v] = count_mutex[v]
    BY <1>t, <2>1, Zenon DEF UnreadTypes
  <2>7. RaisesCurrent'
    BY <1>1, <2>2, <2>3, <2>6, Zenon DEF RaisesCurrent
  <2>8. \A v \in Users : Counted(v)' = Counted(v)
    BY <1>1, <2>2, Zenon DEF Counted, Unread, Pending
  <2> QED
    BY <1>1, <2>4, <2>5, <2>7, <2>8, Zenon DEF UnreadInv
<1> QED
  BY <1>3, <1>4, Zenon

\* The sum is written: the event leaves what is pending for the user.
LEMMA CountEndKeeps ==
  ASSUME UnreadInv, NEW u \in Users, NEW h \in BOOLEAN, CountEnd(u, h)
  PROVE  UnreadInv'
<1>t. UnreadTypes /\ NumbersOnce /\ RaisesCurrent
  BY Zenon DEF UnreadInv
<1> DEFINE c == appending.count  new == [appending EXCEPT !.todo = @ \ {u}]
<1>1. /\ count_mutex[u] = "raise" /\ notificationcount' = [notificationcount EXCEPT ![u] = raising[u] + 1]
      /\ count_mutex' = [count_mutex EXCEPT ![u] = "free"] /\ appending' = new
      /\ UNCHANGED <<ucount, events, lastnotificationread, raising>>
  BY Zenon DEF CountEnd, increment
<1>2. /\ appending.at = "count" /\ u \in appending.todo /\ lastnotificationread[u] < c
      /\ raising[u] = notificationcount[u]
  BY <1>t, <1>1, Zenon DEF RaisesCurrent
<1>3. /\ new \in AppendType
      /\ new.at = "count" /\ new.count = c /\ new.todo = appending.todo \ {u}
  BY <1>t, <1>2, Zenon DEF UnreadTypes, AppendType
<1> HIDE DEF new
<1>4. PICK e \in events : e.count = c /\ appending.todo \subseteq e.notify
  BY <1>t, <1>2, Zenon DEF NumbersOnce
<1>5. UnreadTypes'
  BY <1>t, <1>1, <1>3 DEF UnreadTypes
<1>6. NumbersOnce'
  BY <1>t, <1>1, <1>2, <1>3, <1>4, Zenon DEF NumbersOnce
<1>7. /\ notificationcount'[u] = notificationcount[u] + 1 /\ count_mutex'[u] = "free"
      /\ \A v \in Users : v # u => /\ notificationcount'[v] = notificationcount[v]
                                   /\ count_mutex'[v] = count_mutex[v]
  BY <1>t, <1>1, <1>2, Zenon DEF UnreadTypes
<1>8. RaisesCurrent'
  BY <1>t, <1>1, <1>3, <1>7 DEF RaisesCurrent
<1>9. \A v \in Users : Unread(v)' = Unread(v)
  BY <1>1, Zenon DEF Unread
<1>10. \A v \in Users : v # u => Counted(v)' = Counted(v)
  BY <1>1, <1>2, <1>3, <1>9, Zenon DEF Counted, Pending
<1>11. e \in Unread(u)
  BY <1>2, <1>4, Zenon DEF Unread
<1>12. Pending(u) = {e}
  BY <1>t, <1>2, <1>4, <1>11, Zenon DEF Pending, NumbersOnce, Unread
<1>13. Pending(u)' = {}
  BY <1>1, <1>3, Zenon DEF Pending
<1>14. Counted(u)' = Counted(u) \cup {e} /\ e \notin Counted(u)
  BY <1>9, <1>11, <1>12, <1>13, Zenon DEF Counted
<1>15. IsFiniteSet(Counted(u))
  <2>1. Counted(u) \in SUBSET events
    BY Zenon DEF Counted, Unread
  <2> QED
    BY <1>t, <2>1, FS_Subset, Zenon DEF UnreadTypes
<1>16. Cardinality(Counted(u)') = Cardinality(Counted(u)) + 1
  BY <1>14, <1>15, FS_AddElement, Zenon
<1>17. \A v \in Users : notificationcount'[v] = Cardinality(Counted(v)')
  BY <1>7, <1>10, <1>16, Zenon DEF UnreadInv
<1> QED
  BY <1>5, <1>6, <1>8, <1>17, Zenon DEF UnreadInv

LEMMA AppendEndKeeps == ASSUME UnreadInv, AppendEnd PROVE UnreadInv'
<1>t. UnreadTypes /\ NumbersOnce /\ RaisesCurrent
  BY Zenon DEF UnreadInv
<1>1. /\ appending.at = "count" /\ appending.todo = {} /\ appending' = Idle_
      /\ UNCHANGED <<ucount, events, notificationcount, lastnotificationread, count_mutex, raising>>
  BY Zenon DEF AppendEnd
<1>2. /\ Idle_ \in AppendType
      /\ Idle_.at = "idle"
  BY Zenon DEF Idle_, AppendType
<1>3. UnreadTypes'
  BY <1>t, <1>1, <1>2, Zenon DEF UnreadTypes
<1>4. NumbersOnce' /\ RaisesCurrent'
  BY <1>t, <1>1, <1>2, ZenonT(30) DEF NumbersOnce, RaisesCurrent
<1>5. \A u \in Users : Counted(u)' = Counted(u)
  BY <1>1, <1>2, Zenon DEF Counted, Unread, Pending
<1> QED
  BY <1>1, <1>3, <1>4, <1>5, Zenon DEF UnreadInv

LEMMA UnreadKeeps == UnreadInv /\ [UnreadNext]_unreadVars => UnreadInv'
<1> SUFFICES ASSUME UnreadInv, [UnreadNext]_unreadVars PROVE UnreadInv'
  BY Zenon
<1>t. ucount \in Nat
  BY Zenon DEF UnreadInv, UnreadTypes
<1>1. ASSUME NEW u \in Users, AppendStart(u) PROVE UnreadInv'
  <2> DEFINE new == [Idle_ EXCEPT !.at = "draw", !.by = u]
  <2>1. /\ appending.at = "idle" /\ reset_notification_counts(u, ucount + 3) /\ ucount' = ucount + 3
        /\ appending' = new /\ UNCHANGED <<events, count_mutex, raising>>
    BY <1>1, Zenon DEF AppendStart
  <2>2. /\ new \in AppendType
        /\ new.at = "draw"
    BY Zenon DEF Idle_, AppendType
  <2> HIDE DEF new
  <2>3. ucount + 3 \in Nat /\ ucount + 3 > ucount
    BY <1>t
  <2> QED
    BY <2>1, <2>2, <2>3, ResetKeeps
<1>2. ASSUME NEW t \in Readers, NEW u \in Users, NEW e \in events,
             readreceipt_update(t, u, e.count) \/ private_read_get_count(t, u, e.count)
      PROVE  UnreadInv'
  <2>1. ucount' \in {ucount, ucount + 1}
        /\ UNCHANGED <<events, appending, notificationcount, lastnotificationread, count_mutex, raising>>
    BY <1>2, Zenon DEF readreceipt_update, private_read_get_count
  <2> QED
    BY <1>t, <2>1, DrawKeeps
<1>3. ASSUME NEW t \in Readers, private_read_set(t) PROVE UnreadInv'
  <2>1. ucount' \in {ucount, ucount + 1}
        /\ UNCHANGED <<events, appending, notificationcount, lastnotificationread, count_mutex, raising>>
    BY <1>3, Zenon DEF private_read_set
  <2> QED
    BY <1>t, <2>1, DrawKeeps
<1>4. ASSUME NEW t \in Readers, ReceiptReset(t) PROVE UnreadInv'
  <2>1. /\ reset_notification_counts(receipts[t].user, ucount + 1) /\ ucount' = ucount + 1
        /\ UNCHANGED <<events, appending, count_mutex, raising>>
    BY <1>4, Zenon DEF ReceiptReset
  <2>2. ucount + 1 \in Nat /\ ucount + 1 > ucount
    BY <1>t
  <2>3. appending' \in AppendType
    BY <2>1, Zenon DEF UnreadInv, UnreadTypes
  <2> QED
    BY <2>1, <2>2, <2>3, ResetKeeps
<1>5. CASE UNCHANGED unreadVars
  BY <1>t, <1>5, DrawKeeps DEF unreadVars
<1> QED
  BY <1>1, <1>2, <1>3, <1>4, <1>5, AppendDrawKeeps, AppendEndKeeps, AppendStoreKeeps,
     CountStartKeeps, CountEndKeeps DEF UnreadNext

(* For any number of users, events and receipts, in any order: the stored
   unread count is the number of notifying events above the last reset's
   stamp, less the one being counted (rooms/user.rs, reset and increment
   under count_mutex). *)
THEOREM UnreadCountsAgree == UnreadSpec => []CountsAgree
<1>1. ASSUME UnreadInv PROVE CountsAgree
  <2> SUFFICES ASSUME NEW u \in Users
               PROVE  /\ notificationcount[u] = Cardinality(Unread(u)) - Cardinality(Pending(u))
                      /\ count_mutex[u] = "raise" => raising[u] = notificationcount[u]
    BY Zenon DEF CountsAgree
  <2>1. Unread(u) \in SUBSET events /\ Unread(u) \cap Pending(u) = Pending(u)
    BY Zenon DEF Unread, Pending
  <2>2. IsFiniteSet(Unread(u))
    BY <1>1, <2>1, FS_Subset, Zenon DEF UnreadInv, UnreadTypes
  <2>3. Cardinality(Counted(u)) = Cardinality(Unread(u)) - Cardinality(Pending(u))
    BY <2>1, <2>2, FS_Difference, ZenonT(30) DEF Counted
  <2> QED
    BY <1>1, <2>3, Zenon DEF UnreadInv, RaisesCurrent
<1> QED
  BY <1>1, UnreadStart, UnreadKeeps, PTL DEF UnreadSpec

=============================================================================
