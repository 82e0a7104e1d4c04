------------------------------ MODULE MCRooms ------------------------------
(***************************************************************************)
(* What clients and other servers do with rooms, each on its own: a        *)
(* behaviour is a room's birth and end, a walk through its history, its    *)
(* unread counts, a list of rooms, or what another server sends or asks.   *)
(***************************************************************************)
EXTENDS RoomBirth, Paging, Listings, Unread, Inbound

VARIABLE part

roomsvars == <<birthVars, pageVars, spaceVars, unreadVars, missingVars, txnVars, dirVars, part>>

-----------------------------------------------------------------------------
\* Requests to create a room.
Initial(j, e, n) ==
  [t \in {"join_rules", "encryption", "name"} |->
     CASE t = "join_rules" -> j [] t = "encryption" -> e [] t = "name" -> n]
Want(a, public, preset, initial, name) ==
  [alias |-> a, public |-> public, preset |-> preset, initial |-> initial, name |-> name]
MCWants == {Want(a, TRUE, "public", Initial("absent", "set", "set"), TRUE) : a \in Aliases} \cup
           {Want(NoAlias, FALSE, "private", Initial("set", "odd", "empty"), FALSE),
            Want(NoAlias, TRUE, "private", Initial("set", "absent", "set"), FALSE)}

\* Events a reader sees as a member, sees as an invitee, and does not see.
Ev(vis, was, by, root, hit) ==
  [vis |-> vis, was |-> was, by |-> by, root |-> root, relates |-> root, hit |-> hit]
MCTypes == {Ev("shared", "join", "a", TRUE, TRUE), Ev("joined", "leave", "b", TRUE, TRUE),
            Ev("invited", "invite", "c", FALSE, TRUE)}
MCWalks == {"back", "forward", "threads", "relations", "search", "listen", "context-back",
            "context-forward"}

\* Spaces of a root and three rooms, one to three levels deep, with circles.
Room(kids, suggested, rule, here) ==
  [kids |-> kids, suggested |-> suggested, rule |-> rule, allow |-> {"r"}, in |-> rule = "in",
   world_readable |-> FALSE, held |-> here, shared |-> TRUE]
KidLists == {<<>>, <<"b">>, <<"a", "b">>, <<"c", "b">>, <<"b", "c", "r">>}
MCShapes ==
  {[x \in {"r", "a", "b", "c"} |->
      CASE x = "r" -> Room(k1, {"a", "b"}, "in", TRUE)
        [] x = "a" -> Room(k2, {"b"}, ra, ha)
        [] x = "b" -> Room(k3, {"c", "a"}, "restricted", hb)
        [] x = "c" -> Room(k4, {}, rc, TRUE)] :
     k1 \in KidLists, k2 \in {<<>>, <<"b">>, <<"b", "c", "r">>},
     k3 \in {<<>>, <<"c", "a">>}, k4 \in {<<>>, <<"a", "b">>},
     ra \in {"public", "invite"}, rc \in {"knock", "invite"}, ha \in BOOLEAN, hb \in BOOLEAN}

\* Gaps in a graph of five events, with forks and events not held.
Graph(p, q, r, s) ==
  [x \in {"a", "b", "c", "d", "e"} |->
     CASE x = "a" -> p [] x = "b" -> q [] x = "c" -> r [] x = "d" -> s [] OTHER -> <<>>]
MCAsks ==
  {[prev |-> Graph(p, q, r, <<"e">>), held |-> h, latest |-> l, earliest |-> x,
    acl |-> TRUE, in_room |-> i, world_readable |-> ~i, knocked |-> FALSE,
    vis |-> [y \in {"a", "b", "c", "d", "e"} |-> IF y \in v THEN "shared" ELSE "joined"],
    were |-> [y \in {"a", "b", "c", "d", "e"} |-> FALSE],
    timeline |-> <<"e", "d", "c", "b", "a">>,
    count |-> [a |-> 5, b |-> 4, c |-> 3, d |-> 2, e |-> 1]] :
     p \in {<<"b">>, <<"b", "c">>}, q \in {<<"c">>, <<"d", "c">>, <<"e">>}, r \in {<<"d">>, <<"e">>},
     h \in {{"a", "b", "c", "d", "e"}, {"a", "b", "d", "e"}},
     l \in {<<"a">>, <<"a", "c">>, <<"b", "a">>}, x \in {<<>>, <<"d">>, <<"e", "c">>},
     i \in BOOLEAN, v \in {{"a", "b", "c", "d", "e"}, {"a", "c", "e"}}}

\* Transactions out of order, with a PDU that does not parse, and too large.
Typing(on) == [kind |-> "typing", own |-> TRUE, user |-> "u", on |-> on, id |-> 0, devices |-> {}]
ToDevice(id, own) ==
  [Typing(TRUE) EXCEPT !.kind = "to_device", !.own = own, !.id = id, !.devices = {"d1", "d2"}]
Txn(p, b, e) ==
  [pdus |-> p, bad |-> b, edus |-> e,
   prev |-> [a |-> {}, b |-> {"a"}, c |-> {"b"}, d |-> {}],
   room |-> [a |-> "r1", b |-> "r1", c |-> "r1", d |-> "r2"]]
MCTxns == {Txn(<<"c", "a", "b", "d">>, {}, {ToDevice(1, TRUE)}),
           Txn(<<"b", "a">>, {"a"}, {ToDevice(1, TRUE), Typing(TRUE), Typing(FALSE)}),
           Txn(<<"d", "b", "c">>, {}, {ToDevice(2, TRUE), ToDevice(3, FALSE)}),
           Txn(<<"a", "b", "c", "d", "a">>, {}, {})}
MCOrigins == {"o1", "o2"}

\* Everything, one kind of room, and searches by name and by room ID.
Searching(kinds, term) == [kinds |-> kinds, term |-> term]
MCDirFilters == {Searching({}, "none"), Searching({"room"}, "none"), Searching({}, "text"),
                 Searching({"space"}, "id")}

-----------------------------------------------------------------------------
\* The parts that are not the behaviour's start in one state.
RoomsInit ==
  /\ part \in {"birth", "page", "space", "unread", "missing", "txn", "directory"}
  /\ IF part = "space" THEN TRUE ELSE shape = CHOOSE s \in Shapes : TRUE
  /\ IF part = "missing" THEN TRUE ELSE ask = CHOOSE a \in Asks : TRUE
  /\ IF part = "txn" THEN TRUE ELSE txn = [o \in Origins |-> CHOOSE t \in Txns : TRUE]
  /\ PageInit /\ SpaceInit /\ UnreadInit /\ MissingInit /\ TxnInit
  /\ IF part = "directory" THEN TRUE
     ELSE directory = DirRooms /\ reader = Reader("remote", 1, Searching({}, "none"), NoToken)
  /\ DirInit
  /\ part # "directory" => \A r \in DirRooms : facts[r].joined = 1
  /\ IF part = "birth" THEN TRUE ELSE admin_room = NoRoom
  /\ BirthInit
  /\ part # "birth" => place[Old].state["member"] = "none" /\ place[Old].state["space"] = "none"

RoomsNext ==
  /\ UNCHANGED part
  /\ \/ part = "birth" /\ BirthNext
        /\ UNCHANGED <<pageVars, spaceVars, unreadVars, missingVars, txnVars, dirVars>>
     \/ part = "page" /\ PageNext
        /\ UNCHANGED <<birthVars, spaceVars, unreadVars, missingVars, txnVars, dirVars>>
     \/ part = "space" /\ SpaceNext
        /\ UNCHANGED <<birthVars, pageVars, unreadVars, missingVars, txnVars, dirVars>>
     \/ part = "unread" /\ UnreadNext
        /\ UNCHANGED <<birthVars, pageVars, spaceVars, missingVars, txnVars, dirVars>>
     \/ part = "missing" /\ MissingNext
        /\ UNCHANGED <<birthVars, pageVars, spaceVars, unreadVars, txnVars, dirVars>>
     \/ part = "txn" /\ TxnNext
        /\ UNCHANGED <<birthVars, pageVars, spaceVars, unreadVars, missingVars, dirVars>>
     \/ part = "directory" /\ DirNext
        /\ UNCHANGED <<birthVars, pageVars, spaceVars, unreadVars, missingVars, txnVars>>

RoomsSpec == RoomsInit /\ [][RoomsNext]_roomsvars

(* Whoever turns pages to the end has seen everything once: the timeline   *)
(* with its senders, the gap another server asks for, the hierarchy of a   *)
(* space and the directory.                                                *)
ListingsWhole == PagesComplete /\ SendersKnown /\ GapFilled /\ HierarchyWhole /\ DirectoryWhole
=============================================================================
