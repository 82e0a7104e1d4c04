------------------------------- MODULE MCRoom -------------------------------
(***************************************************************************)
(* A room of an admin a (100) and a moderator b (50) of other servers and  *)
(* a local moderator c (75).                                               *)
(***************************************************************************)
EXTENDS Room, TLC

NoEvent == [kind |-> "message", sender |-> "", key |-> "", member |-> "",
            via |-> "", rule |-> "", levels |-> DefaultLevels, prev |-> {},
            auth |-> {}, ts |-> 0]

Says(s) == [NoEvent EXCEPT !.sender = s]

Member(s, u, m) ==
  [NoEvent EXCEPT !.kind = "member", !.sender = s, !.key = u, !.member = m]

Rules(s, r) == [NoEvent EXCEPT !.kind = "join_rules", !.sender = s, !.rule = r]

Topic(s) == [NoEvent EXCEPT !.kind = "topic", !.sender = s]

At(x, prev, auth, ts) == [x EXCEPT !.prev = prev, !.auth = auth, !.ts = ts]

Now(x) == [x EXCEPT !.ts = 10]

Founders ==
  <<At([NoEvent EXCEPT !.kind = "create", !.sender = "a"], {}, {}, 1),
    At(Member("a", "a", "join"), {1}, {1}, 2),
    At([NoEvent EXCEPT !.kind = "power_levels", !.sender = "a", !.levels =
          [DefaultLevels EXCEPT !.users = ("a" :> 100) @@ ("b" :> 50) @@ ("c" :> 75)]],
       {2}, {1, 2}, 3),
    At(Rules("a", "public"), {3}, {1, 2, 3}, 4),
    At(Member("b", "b", "join"), {4}, {1, 3, 4}, 5),
    At(Member("c", "c", "join"), {5}, {1, 3, 4}, 6)>>

Base == (<<"create", "">> :> 1) @@ (<<"member", "a">> :> 2)
        @@ (<<"power_levels", "">> :> 3) @@ (<<"join_rules", "">> :> 4)
        @@ (<<"member", "b">> :> 5) @@ (<<"member", "c">> :> 6)

Over(k, e) == (k :> e) @@ Base

NoTxn(S) == [l \in S |-> ""]

(* a bans c on one branch, b speaks on another, a merges them; meanwhile c *)
(* speaks, tries again, and bans b.  Or b speaks and then closes the room, *)
(* and c changes the topic.                                                *)
MCEvent == Founders \o
  <<At(Says("b"), {6}, {1, 3, 5}, 7),
    At(Member("a", "c", "ban"), {6}, {1, 2, 3, 6}, 8),
    At(Says("a"), {7, 8}, {1, 2, 3}, 9),
    Now(Says("c")), Now(Says("c")), Now(Member("c", "b", "ban")),
    Now(Member("c", "c", "leave")), Now(Topic("c")),
    At(Rules("b", "invite"), {7}, {1, 3, 5}, 8)>>

MCRemote == {7, 8, 9, 15}
MCLocal == 10 .. 14
MCStateIds == (7 :> Base) @@ (8 :> Base) @@ (9 :> Over(<<"member", "c">>, 8)) @@ (15 :> Base)
MCTxn == [NoTxn(MCLocal) EXCEPT ![10] = "t", ![11] = "t"]
MCLeaves == ("c" :> 13)

-----------------------------------------------------------------------------
(* Three stories: a merge while c bans b, the same with c speaking twice,  *)
(* each with a deletion of the room; and one with a purge, a failed send   *)
(* and a crash, where two events are received.                             *)
VARIABLE story

Cast == [merge |-> {7, 8, 9, 12, 13}, retry |-> {7, 8, 9, 10, 11, 13}, faults |-> {7, 13, 14, 15}]

Told(n) ==
  IF story = "faults" THEN n.deletes = 0 /\ n.receives <= 2
  ELSE n.purges + n.errors + n.crashes = 0

RoomInit == story \in DOMAIN Cast /\ Init

RoomNext ==
  /\ UNCHANGED story
  /\ Next
  /\ fed'.e \in {0} \cup Cast[story]
  /\ DOMAIN built' \subseteq Cast[story]
  /\ Told(count')

RoomSpec == RoomInit /\ [][RoomNext]_<<story, vars>>
=============================================================================
