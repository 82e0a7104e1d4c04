------------------------------ MODULE MCRules ------------------------------
(***************************************************************************)
(* Who is in a room: the state a room's forked history resolves to, how    *)
(* that state is stored, and the membership requests that race to change   *)
(* it.  A behaviour exercises one of the three, chosen at the start.       *)
(***************************************************************************)
EXTENDS StateRes, Membership, StateDiffs, TLC

-----------------------------------------------------------------------------
(***************************************************************************)
(* The graph of a room's events as the servers in it grow it: each event   *)
(* follows one or two earlier ones, carries the auth events its sender's   *)
(* server selects from the state there, and is placed only if the room's   *)
(* rules allow it at that state.  The state at an event is computed as     *)
(* event_handler computes it: the state after the only event it follows,   *)
(* or the resolution of the states after the several it follows.           *)
(* (crates/phantom-service/src/rooms/event_handler/{state,upgrade}.rs)     *)
(***************************************************************************)

CONSTANTS
  Menus,        \* for each sequence of events a room may be created with,
                \* what may be sent next: events without prev, auth and ts
  Founded,      \* the length of these sequences
  MaxEvents     \* bound on the events of the graph

VARIABLES
  ev,           \* the events, by id
  before        \* the state at each of them (shorteventid_shortstatehash)

graphVars == <<ev, before>>

Menu == Menus[SubSeq(ev, 1, Founded)]

After(e) == StateAfter(ev, e, before[e])

(* state_at_event over the states after the followed events. *)
StateAt(prev) ==
  IF Cardinality(prev) = 1 THEN After(CHOOSE p \in prev : TRUE)
  ELSE Resolve(ev, DOMAIN ev, {After(p) : p \in prev})

GraphInit ==
  /\ ev \in DOMAIN Menus
  /\ before = [e \in DOMAIN ev |->
       [k \in {Key(ev[i]) : i \in 1 .. e - 1} |->
          CHOOSE i \in 1 .. e - 1 :
            /\ Key(ev[i]) = k
            /\ \A j \in i + 1 .. e - 1 : Key(ev[j]) # k]]

(* The clock of the sender's server is right or far behind. *)
Clocks == {0, Len(ev)}

(* An event follows the last founding event or later ones. *)
Followed == {P \in SUBSET (Founded .. Len(ev)) :
               /\ Cardinality(P) \in 1 .. 2
               /\ \A p, q \in P : p \notin ev[q].prev}

(* upgrade_outlier_to_timeline_pdu, as far as the state at the event goes: *)
(* an event that is not authorized there never happened.                   *)
Place(x, prev, ts, state) ==
  LET y == [kind |-> x.kind, sender |-> x.sender, key |-> x.key,
            member |-> x.member, via |-> x.via, rule |-> x.rule,
            levels |-> x.levels, prev |-> prev,
            auth |-> SelectAuth(ev, x, state), ts |-> ts]
  IN /\ Len(ev) < MaxEvents
     /\ AuthCheck(ev, y, state)
     /\ ev' = Append(ev, y)
     /\ before' = Append(before, state)

GraphNext ==
  \E prev \in Followed :
    LET state == StateAt(prev)
    IN \E x \in Menu, ts \in Clocks : Place(x, prev, ts, state)

-----------------------------------------------------------------------------
(* Ancestors over prev. *)
Past(e) ==
  LET up[n \in 0 .. Len(ev)] ==
        IF n = 0 THEN {e}
        ELSE LET r == up[n - 1] IN r \cup UNION {ev[i].prev : i \in r}
  IN up[Len(ev)]

(* When branches merge, a ban that stands overrules what the banned user   *)
(* set on another branch: a topic the branches disagreed on is never one   *)
(* the user set outside the ban's own past.  (resolve: power events are    *)
(* applied first, and the rest are judged by what those resolved to.  The  *)
(* banned user's own power events may still be placed before the ban.)     *)
BanOverrules ==
  LET last  == Len(ev)
      topic == <<"topic", "">>
  IN \A e \in Founded .. last - 1 :
       LET states == {After(e), After(last)}
           merged == Resolve(ev, DOMAIN ev, states)
       IN topic \in DOMAIN merged \ DOMAIN Unconflicted(states) =>
            LET of == MemberKey(ev[merged[topic]].sender)
            IN of \in DOMAIN merged /\ ev[merged[of]].member = "ban"
                 => merged[topic] \in Past(merged[of])

(* Resolving the state before a kick, a ban or a change of power levels    *)
(* with the state after it gives the state after it, whatever the clocks   *)
(* of the senders say.  (resolve_state does this for every state event     *)
(* received; reverse_topological_power_sort keeps auth events first)       *)
PowerEventStands ==
  \A e \in Founded + 1 .. Len(ev) :
    ev[e].kind \in {"power_levels", "member"} /\ IsPowerEvent(ev[e])
      => Resolve(ev, DOMAIN ev, {before[e], After(e)}) = After(e)

(* Merging favours what governs the room: bans over what the banned user   *)
(* did meanwhile, and power events over the state before them.             *)
ResolutionSound == BanOverrules /\ PowerEventStands

-----------------------------------------------------------------------------
VARIABLE part

-----------------------------------------------------------------------------
(* A room of an admin a (100), a moderator b (50) and a member c (0).      *)

Blank == [kind |-> "", sender |-> "", key |-> "", member |-> "", via |-> "",
            rule |-> "", levels |-> DefaultLevels, prev |-> {}, auth |-> {},
            ts |-> 0]

Member(s, u, m) ==
  [Blank EXCEPT !.kind = "member", !.sender = s, !.key = u, !.member = m]

Rules(s, r) == [Blank EXCEPT !.kind = "join_rules", !.sender = s, !.rule = r]

PowerLevels(s, users) ==
  [Blank EXCEPT !.kind = "power_levels", !.sender = s,
                  !.levels = [DefaultLevels EXCEPT !.users = users]]

Topic(s) == [Blank EXCEPT !.kind = "topic", !.sender = s]

(* The power levels of a version 12 room do not list its creator. *)
Admins(v) == IF v = "12" THEN ("b" :> 50) ELSE ("a" :> 100) @@ ("b" :> 50)

Bare(v) ==
  <<[Blank EXCEPT !.kind = "create", !.sender = "a", !.rule = v],
    Member("a", "a", "join"), PowerLevels("a", Admins(v)), Rules("a", "public"),
    Member("b", "b", "join"), Member("c", "c", "join")>>

(* The auth events each names, as SelectAuth gives them over the prefix. *)
AuthOf == <<{}, {1}, {1, 2}, {1, 2, 3}, {1, 3, 4}, {1, 3, 4}>>

Opening(v) ==
  [i \in 1 .. 6 |->
     [Bare(v)[i] EXCEPT !.prev = {i - 1} \ {0}, !.ts = i,
                        !.auth = AuthOf[i] \ (IF v = "12" THEN {1} ELSE {})]]

Demoted(v) == PowerLevels("a", [u \in DOMAIN Admins(v) |-> IF u = "b" THEN 0 ELSE 100])

Quarrel ==
  {Topic("b"), Member("a", "b", "ban"), Member("a", "b", "leave"),
   Member("b", "b", "join"), Member("b", "c", "ban"), Rules("b", "invite"),
   Member("c", "c", "leave"), Demoted(""),
   PowerLevels("b", ("c" :> 50) @@ Admins(""))}

(* The ways back into a room that is not public. *)
Welcome ==
  {Topic("b"), Member("a", "b", "ban"), Member("b", "b", "join"),
   Rules("a", "restricted"), Rules("a", "knock"), Member("b", "c", "leave"),
   [Member("c", "c", "join") EXCEPT !.via = "b"], Member("b", "c", "invite"),
   Member("c", "c", "knock"), Demoted("12")}

MCMenus == (Opening("") :> Quarrel) @@ (Opening("12") :> Welcome)

-----------------------------------------------------------------------------
(* Two users of this server and one of another, in a room of either.       *)

MCLocals == {"a", "b"}
MCRemotes == {"r"}
MCMods == {"a", "r"}
MCIgnores == {<<"a", "b">>}
MCGuests == {}

Conf(rule, auto, delete, forced) == [rule |-> rule, auto |-> auto, delete |-> delete, forced |-> forced]

MCConfs == {Conf("public", FALSE, FALSE, FALSE), Conf("knock", FALSE, FALSE, TRUE),
            Conf("restricted", FALSE, TRUE, FALSE), Conf("invite", TRUE, FALSE, FALSE)}

Own(op, us) == {[op |-> op, by |-> u, u |-> u] : u \in us}

MCRequests ==
  Own("join", MCLocals) \cup Own("leave", MCLocals) \cup Own("knock", {"b"})
  \cup Own("forget", {"b"}) \cup Own("make_join", {"r"}) \cup Own("make_leave", {"r"})
  \cup Own("make_knock", {"r"}) \cup Own("third_party", {"a"})
  \cup {[op |-> o, by |-> "a", u |-> "b"] : o \in {"invite", "kick", "ban", "unban", "exchange"}}
  \cup {[op |-> o, by |-> "a", u |-> "r"] : o \in {"invite", "exchange"}}

\* Knocks are for the room that takes them, third-party invites for the
\* public one: what they lead to is the same in the others.
OtherRooms ==
  [public |-> {"knock", "make_knock"}, knock |-> {"third_party", "exchange"},
   restricted |-> {"knock", "make_knock", "third_party", "exchange"},
   invite |-> {"knock", "make_knock", "third_party", "exchange"}]

\* Three requests in two of the rooms, two in the others.
Asked == [public |-> 2, knock |-> 3, restricted |-> 3, invite |-> 2]

-----------------------------------------------------------------------------
(* Two state keys with two events each; the state of another server has    *)
(* only one key, and the room's own events come and go around it until the *)
(* stack of differences is at its limit.                                   *)

MCGiven == {{<<1, 2>>}}

-----------------------------------------------------------------------------
RulesInit ==
  /\ part \in {"graph", "requests", "diffs"}
  /\ IF part = "graph" THEN ev \in DOMAIN Menus ELSE ev = Opening("")
  /\ GraphInit /\ MembershipInit /\ Init
  /\ part # "requests" => db.known /\ conf = Conf("public", FALSE, FALSE, FALSE)

RulesNext ==
  /\ UNCHANGED part
  /\ \/ part = "graph" /\ GraphNext /\ UNCHANGED <<mvars, vars>>
     \/ /\ part = "requests" /\ MembershipNext /\ UNCHANGED <<graphVars, vars>>
        /\ \A p \in Slots : slot'[p].op \notin OtherRooms[conf.rule]
        /\ count'.asked <= Asked[conf.rule]
     \/ part = "diffs" /\ Next /\ UNCHANGED <<graphVars, mvars>>

RulesSpec == RulesInit /\ [][RulesNext]_<<part, graphVars, mvars, vars>>
=============================================================================
