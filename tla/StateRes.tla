------------------------------ MODULE StateRes ------------------------------
(***************************************************************************)
(* The rules of a room: which events are authorized against a state, and   *)
(* which state a room whose history forked resolves to.                    *)
(* (crates/phantom-core/src/matrix/state_res)                              *)
(*                                                                         *)
(* An event is a record; ev maps event ids, which are positive integers    *)
(* ordered as the code orders event ids, to events.  A state map is a      *)
(* function from some state keys <<kind, key>> to event ids.               *)
(*                                                                         *)
(*   kind    "create", "member", "power_levels", "join_rules", "topic",    *)
(*           "message" (the only kind without a state key)                 *)
(*   sender, key    the sender, and the user a member event is about ("")  *)
(*   member, via    a member event's membership and authorizing user ("")  *)
(*   rule, levels   what a join rule or a power levels event sets; the     *)
(*                  rule of a create event is "12" in rooms of version 12  *)
(*                  and "" in those of versions 8 to 11                    *)
(*   prev, auth     the events it follows and those that authorize it      *)
(*   ts             origin_server_ts                                       *)
(*                                                                         *)
(* Left out: third-party invites and the signatures on them, m.federate,   *)
(* additional creators, aliases and redaction rules of the first room      *)
(* versions, and the power an `events` entry asks of one event type.       *)
(***************************************************************************)
EXTENDS Integers, FiniteSets, Sequences, SequencesExt

CreateKey == <<"create", "">>
LevelsKey == <<"power_levels", "">>
RulesKey  == <<"join_rules", "">>
MemberKey(u) == <<"member", u>>

Key(x) == <<x.kind, x.key>>

IsState(x) == x.kind # "message"

CreateOf(ev) == CHOOSE e \in DOMAIN ev : ev[e].kind = "create"

(* Creators above all levels, the create event left unnamed by auth events *)
(* and resolution from an empty map.                                       *)
V12(ev) == ev[CreateOf(ev)].rule = "12"

Infinite == 1000000      \* UserPower::Infinite, above every level
NoPower  == -1           \* no level at all: levels are naturals here

DefaultLevels ==
  [users |-> <<>>, users_default |-> 0, events_default |-> 0,
   state_default |-> 50, ban |-> 50, kick |-> 50, invite |-> 0]

UserPower(levels, u, default) ==
  IF u \in DOMAIN levels.users THEN levels.users[u] ELSE default

-----------------------------------------------------------------------------
(* Authorization of x against the state map A.                             *)

(* auth_types_for_event: the state an event is judged by. *)
AuthTypes(ev, x) ==
  IF x.kind = "create" THEN {}
  ELSE {LevelsKey, MemberKey(x.sender)}
       \cup (IF V12(ev) THEN {} ELSE {CreateKey})
       \cup (IF x.kind # "member" THEN {} ELSE {MemberKey(x.key)})
       \cup (IF x.kind = "member" /\ x.member \in {"join", "invite", "knock"}
             THEN {RulesKey} \cup {MemberKey(u) : u \in {x.via} \ {""}} ELSE {})

(* get_auth_events: what the sender's server names as authorizing x. *)
SelectAuth(ev, x, state) == {state[k] : k \in AuthTypes(ev, x) \cap DOMAIN state}

Membership(ev, A, u) ==
  IF MemberKey(u) \in DOMAIN A THEN ev[A[MemberKey(u)]].member ELSE "leave"

JoinRule(ev, A) ==
  IF RulesKey \in DOMAIN A THEN ev[A[RulesKey]].rule ELSE "invite"

Levels(ev, A) ==
  IF LevelsKey \in DOMAIN A THEN ev[A[LevelsKey]].levels ELSE DefaultLevels

Creators(ev, A) == IF V12(ev) THEN {ev[A[CreateKey]].sender} ELSE {}

(* A member event's power: a user who is not listed has the default only   *)
(* while entitled to it, and otherwise none.                               *)
MemberPower(ev, A, u, entitled) ==
  IF u \in Creators(ev, A) THEN Infinite
  ELSE UserPower(Levels(ev, A), u,
                 IF entitled THEN Levels(ev, A).users_default ELSE NoPower)

SenderPower(ev, A, u) ==
  IF u \in Creators(ev, A) THEN Infinite
  ELSE IF LevelsKey \in DOMAIN A
       THEN UserPower(Levels(ev, A), u, Levels(ev, A).users_default)
       ELSE IF ev[A[CreateKey]].sender = u THEN 100 ELSE 0

(* user_for_join_auth_is_valid: the member a restricted join names may     *)
(* invite.                                                                 *)
VouchedFor(ev, x, A) ==
  /\ x.via # ""
  /\ Membership(ev, A, x.via) = "join"
  /\ LET power == IF x.via \in Creators(ev, A) THEN Infinite
                  ELSE UserPower(Levels(ev, A), x.via,
                                 Levels(ev, A).users_default)
     IN power >= Levels(ev, A).invite

JoinAllowed(ev, x, A) ==
  LET creator == ev[A[CreateKey]].sender
      current == Membership(ev, A, x.key)
      rule    == JoinRule(ev, A)
  IN \/ x.prev = {A[CreateKey]} /\ creator = x.sender /\ creator = x.key
     \/ /\ x.sender = x.key
        /\ current # "ban"
        /\ \/ rule \in {"invite", "knock", "restricted"}
              /\ current \in {"join", "invite"}
           \/ rule = "restricted" /\ VouchedFor(ev, x, A)
           \/ rule = "public"

LeaveAllowed(ev, x, A) ==
  LET levels  == Levels(ev, A)
      current == Membership(ev, A, x.key)
      joined  == Membership(ev, A, x.sender) = "join"
      power   == MemberPower(ev, A, x.sender, joined)
  IN IF x.sender = x.key THEN current \in {"join", "invite", "knock"}
     ELSE /\ joined
          /\ ~(current = "ban" /\ power < levels.ban)
          /\ power >= levels.kick
          /\ MemberPower(ev, A, x.key, FALSE) < power

InviteAllowed(ev, x, A) ==
  /\ Membership(ev, A, x.sender) = "join"
  /\ Membership(ev, A, x.key) \notin {"join", "ban"}
  /\ MemberPower(ev, A, x.sender, TRUE) >= Levels(ev, A).invite

BanAllowed(ev, x, A) ==
  LET power == MemberPower(ev, A, x.sender, TRUE)
  IN /\ Membership(ev, A, x.sender) = "join"
     /\ power >= Levels(ev, A).ban
     /\ MemberPower(ev, A, x.key, FALSE) < power

KnockAllowed(ev, x, A) ==
  /\ x.sender = x.key
  /\ JoinRule(ev, A) = "knock"
  /\ Membership(ev, A, x.key) \notin {"ban", "invite", "join"}

ValidMembershipChange(ev, x, A) ==
  \/ x.member = "join" /\ JoinAllowed(ev, x, A)
  \/ x.member = "invite" /\ InviteAllowed(ev, x, A)
  \/ x.member = "leave" /\ LeaveAllowed(ev, x, A)
  \/ x.member = "ban" /\ BanAllowed(ev, x, A)
  \/ x.member = "knock" /\ KnockAllowed(ev, x, A)

SendLevel(ev, x, A) ==
  IF IsState(x) THEN Levels(ev, A).state_default ELSE Levels(ev, A).events_default

(* check_power_levels: nobody grants or takes what they do not have. *)
CheckPowerLevels(ev, x, A, mine) ==
  LET new == x.levels
      old == Levels(ev, A)
      listed(l) == DOMAIN l.users
      keeps(u) == /\ u \in listed(old) \cap listed(new)
                  /\ old.users[u] = new.users[u]
      reach(n, m) == n <= mine /\ m <= mine
  IN /\ Creators(ev, A) \cap listed(new) = {}
     /\ \/ LevelsKey \notin DOMAIN A
        \/ /\ \A u \in listed(old) \cup listed(new) :
                \/ keeps(u)
                \/ /\ u # x.sender => UserPower(old, u, NoPower) # mine
                   /\ reach(UserPower(old, u, NoPower), UserPower(new, u, NoPower))
           /\ \A f \in DOMAIN DefaultLevels \ {"users"} :
                old[f] = new[f] \/ reach(old[f], new[f])

(* What is asked of an event that is no member event. *)
SendAllowed(ev, x, A) ==
  LET mine == SenderPower(ev, A, x.sender)
  IN /\ Membership(ev, A, x.sender) = "join"
     /\ mine >= SendLevel(ev, x, A)
     /\ x.kind = "power_levels" => CheckPowerLevels(ev, x, A, mine)

AuthCheck(ev, x, A) ==
  IF x.kind = "create" THEN x.prev = {}
  ELSE /\ CreateKey \in DOMAIN A
       /\ V12(ev) <=> A[CreateKey] \notin x.auth
       /\ IF x.kind = "member" THEN ValidMembershipChange(ev, x, A)
          ELSE SendAllowed(ev, x, A)

-----------------------------------------------------------------------------
(* The orders resolution applies events in.                                *)

PowerLevelsOf(ev, e) ==
  IF \E a \in ev[e].auth : ev[a].kind = "power_levels"
  THEN CHOOSE a \in ev[e].auth : ev[a].kind = "power_levels" ELSE 0

(* get_power_level_for_sender: the sender's power by the event's own auth  *)
(* events.                                                                 *)
PowerLevelForSender(ev, e) ==
  LET pl == PowerLevelsOf(ev, e)
      by == ev[e].sender
  IN IF V12(ev) /\ ev[CreateOf(ev)].sender = by THEN Infinite
     ELSE IF pl # 0 THEN UserPower(ev[pl].levels, by, ev[pl].levels.users_default)
     ELSE IF \E a \in ev[e].auth : ev[a].kind = "create" /\ ev[a].sender = by
          THEN 100 ELSE 0

(* lexicographical_topological_sort: of the events whose edges have all    *)
(* been placed, the least by the order comes next.                         *)
TopologicalSort(nodes, edges, before) ==
  LET place[done \in SUBSET nodes] ==
        LET ready == {n \in nodes \ done : edges[n] \subseteq done}
            least == CHOOSE n \in ready : \A m \in ready \ {n} : before[n, m]
        IN IF ready = {} THEN <<>> ELSE <<least>> \o place[done \cup {least}]
  IN place[{}]

(* Everything reachable from S over auth events inside the set within. *)
AuthReach(ev, S, within) ==
  LET up[n \in 0 .. Cardinality(within)] ==
        IF n = 0 THEN S
        ELSE UNION {{e} \cup (ev[e].auth \cap within) : e \in up[n - 1]}
  IN up[Cardinality(within)]

AuthChain(ev, S) == AuthReach(ev, S, DOMAIN ev)

(* The stronger sender first, then the older event, then the lesser id. *)
PowerBefore(ev, a, b) ==
  LET pa == PowerLevelForSender(ev, a)
      pb == PowerLevelForSender(ev, b)
  IN \/ pa > pb
     \/ pa = pb /\ ev[a].ts < ev[b].ts
     \/ pa = pb /\ ev[a].ts = ev[b].ts /\ a < b

(* Mutant: the clocks decide, not the auth events. *)
ReverseTopologicalPowerSort_NoEdges(ev, evs, diff) ==
  LET nodes == AuthReach(ev, evs, diff)
  IN TopologicalSort(nodes, [n \in nodes |-> {}],
                     [a, b \in nodes |-> PowerBefore(ev, a, b)])

ReverseTopologicalPowerSort(ev, evs, diff) ==
  LET nodes == AuthReach(ev, evs, diff)
  IN TopologicalSort(nodes, [n \in nodes |-> ev[n].auth \cap diff],
                     [a, b \in nodes |-> PowerBefore(ev, a, b)])

(* get_mainline_depth: how many power levels lie under the first one of    *)
(* the mainline that e rests on.                                           *)
MainlineDepth(ev, mainline, e) ==
  LET under[p \in DOMAIN ev] ==
        LET q == PowerLevelsOf(ev, p) IN IF q = 0 THEN 0 ELSE 1 + under[q]
      depth[p \in DOMAIN ev \cup {0}] ==
        IF p = 0 THEN 0
        ELSE IF p \in mainline THEN under[p] ELSE depth[PowerLevelsOf(ev, p)]
  IN depth[e]

MainlineSort(ev, evs, pl) ==
  LET down[p \in DOMAIN ev \cup {0}] ==
        IF p = 0 THEN {} ELSE {p} \cup down[PowerLevelsOf(ev, p)]
      mainline == down[pl]
      at == [e \in evs |-> MainlineDepth(ev, mainline, e)]
      before == [a, b \in evs |->
        \/ at[a] < at[b]
        \/ at[a] = at[b] /\ ev[a].ts < ev[b].ts
        \/ at[a] = at[b] /\ ev[a].ts = ev[b].ts /\ a < b]
  IN TopologicalSort(evs, [e \in evs |-> {}], before)

-----------------------------------------------------------------------------
(* State resolution.                                                       *)

Put(state, x, e) == [k \in DOMAIN state \cup {Key(x)} |->
                       IF k = Key(x) THEN e ELSE state[k]]

(* The state after e, given the state before it. *)
StateAfter(ev, e, state) == IF IsState(ev[e]) THEN Put(state, ev[e], e) ELSE state

(* What e is judged by during resolution: its own auth events, each        *)
(* replaced by what has been resolved so far.                              *)
AuthState(ev, e, resolved) ==
  LET x     == ev[e]
      now   == AuthTypes(ev, x) \cap DOMAIN resolved
      named == {Key(ev[a]) : a \in x.auth}
      lacks == V12(ev) /\ x.kind # "create" /\ CreateKey \notin now \cup named
  IN [k \in now \cup named \cup (IF lacks THEN {CreateKey} ELSE {}) |->
        IF k \in now THEN resolved[k]
        ELSE IF k \in named THEN CHOOSE a \in x.auth : Key(ev[a]) = k
        ELSE CreateOf(ev)]

IterativeAuthCheck(ev, evs, state) ==
  FoldLeft(LAMBDA resolved, e :
             IF AuthCheck(ev, ev[e], AuthState(ev, e, resolved))
             THEN Put(resolved, ev[e], e) ELSE resolved,
           state, evs)

(* Mutant: a ban waits its turn among the ordinary events. *)
IsPowerEvent_NoBan(x) ==
  \/ x.kind \in {"power_levels", "join_rules", "create"}
  \/ x.kind = "member" /\ x.member = "leave" /\ x.sender # x.key

IsPowerEvent(x) ==
  \/ x.kind \in {"power_levels", "join_rules", "create"}
  \/ x.kind = "member" /\ x.member \in {"leave", "ban"} /\ x.sender # x.key

(* separate: the entries every state agrees on. *)
Unconflicted(states) ==
  LET some == CHOOSE s \in states : TRUE
      keys == {k \in DOMAIN some :
                 \A s \in states : k \in DOMAIN s /\ s[k] = some[k]}
  IN [k \in keys |-> some[k]]

ConflictedEvents(states) ==
  LET clean == Unconflicted(states)
  IN UNION {{s[k] : k \in DOMAIN s \ DOMAIN clean} : s \in states}

Values(state) == {state[k] : k \in DOMAIN state}

(* get_auth_chain_diff: in some state's auth chain, not in all. *)
AuthChainDiff(ev, states) ==
  LET chains == {AuthChain(ev, Values(s)) : s \in states}
  IN {e \in UNION chains : \E c \in chains : e \notin c}

(* conflicted_state_subgraph: on an auth path between conflicted events. *)
ConflictedSubgraph(ev, conflicted) ==
  {e \in AuthChain(ev, conflicted) : AuthChain(ev, {e}) \cap conflicted # {}}

(* The ordinary events, by the power levels resolved before them. *)
ResolveRest(ev, evs, powers) ==
  IterativeAuthCheck(ev,
    MainlineSort(ev, evs,
      IF LevelsKey \in DOMAIN powers THEN powers[LevelsKey] ELSE 0),
    powers)

(* resolve, with the events of held at hand. *)
Resolve(ev, held, states) ==
  LET clean      == Unconflicted(states)
      conflicted == ConflictedEvents(states)
      full       == held \cap (conflicted \cup AuthChainDiff(ev, states)
                     \cup (IF V12(ev) THEN ConflictedSubgraph(ev, conflicted) ELSE {}))
      control    == ReverseTopologicalPowerSort(
                      ev, {e \in full : IsPowerEvent(ev[e])}, full)
      powers     == IterativeAuthCheck(ev, control, IF V12(ev) THEN <<>> ELSE clean)
      resolved   == ResolveRest(ev, full \ ToSet(control), powers)
  IN IF conflicted = {} THEN clean
     ELSE [k \in DOMAIN resolved \cup DOMAIN clean |->
             IF k \in DOMAIN clean THEN clean[k] ELSE resolved[k]]
=============================================================================
