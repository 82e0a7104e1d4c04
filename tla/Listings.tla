------------------------------ MODULE Listings ------------------------------
(***************************************************************************)
(* Lists of rooms read a page at a time: the tree of a space, and the      *)
(* public directory.                                                       *)
(***************************************************************************)
EXTENDS Naturals, Sequences, FiniteSets, SequencesExt

-----------------------------------------------------------------------------
(***************************************************************************)
(* The space hierarchy.  A client walks a space depth first, a page at a   *)
(* time; the server keeps nothing between two pages but the token, which   *)
(* names the path of the first room not yet sent, and walks the tree again *)
(* up to there.  Rooms this server does not hold are summarised by another *)
(* server, whose answers are cached, and which may be out of reach.        *)
(*                                                                         *)
(* A shape gives each room its children in order with the suggested ones,  *)
(* what makes it accessible, and whether this server holds it.             *)
(***************************************************************************)

CONSTANTS Shapes, Root, Limit, Depths, MaxChanges, MaxLostAnswers

VARIABLES shape, cache, reach, hwalk, changes, lostAnswers

spaceVars == <<shape, cache, reach, hwalk, changes, lostAnswers>>

RoomsOf == DOMAIN shape
Remote == {r \in RoomsOf : ~shape[r].held}

-----------------------------------------------------------------------------
(* Summaries.                                                              *)

is_in_room(r) == shape[r].in

accessible_to(r) ==
  \/ is_in_room(r)
  \/ shape[r].world_readable
  \/ shape[r].rule \in {"public", "knock", "knock_restricted"}
  \/ shape[r].rule = "restricted" /\ \E a \in shape[r].allow : is_in_room(a)

(* The other server's side: it answers for rooms this server may know of,  *)
(* with their children, and never asks a third one.                        *)
federation_hierarchy(r) == r \in reach /\ shape[r].shared

(* children_state, sorted; a walk of suggested rooms leaves out the rest.  *)
children_of(r, suggested_only) ==
  SelectSeq(shape[r].kids, LAMBDA k: suggested_only => k \in shape[r].suggested)

(* remote_summary: the cache first, then the servers that may know.        *)
remote_summary(r, cached) == r \in cached \/ federation_hierarchy(r)

Summarised(r, cached) == shape[r].held \/ remote_summary(r, cached)
summary(r, cached) == Summarised(r, cached) /\ accessible_to(r)

-----------------------------------------------------------------------------
(* The walk: a stack of rooms with the children still to visit, the rooms  *)
(* visited, the page so far, and the path of the room the page stopped at. *)

Fresh(target, cached) ==
  [stack |-> <<>>, visited |-> {Root}, emitting |-> target = <<>>, rooms |-> <<>>,
   next |-> <<>>, cached |-> cached]

PathTo(stack) == [i \in DOMAIN stack |-> stack[i].room]

(* The token of a full page: the path of the room it had no place for.     *)
resume_path_parent(w, r) == PathTo(w.stack)
resume_path(w, r) == Append(PathTo(w.stack), r)

(* The room the walk has come to: sent, unless the page is full, and its   *)
(* children put on the stack, unless it is too deep.                       *)
enter(w, r, target, max_depth, suggested_only) ==
  LET path == Append(PathTo(w.stack), r)
      emitting == w.emitting \/ target = path
      full == emitting /\ Len(w.rooms) >= Limit
  IN  IF full THEN [w EXCEPT !.next = resume_path(w, r), !.stack = <<>>]
      ELSE [w EXCEPT !.emitting = emitting,
                     !.rooms = IF emitting THEN Append(@, r) ELSE @,
                     !.stack = IF Len(@) < max_depth
                               THEN Append(@, [room |-> r,
                                               children |-> children_of(r, suggested_only)])
                               ELSE @]

RECURSIVE next_child(_, _, _, _)
next_child(w, target, max_depth, suggested_only) ==
  IF w.stack = <<>> THEN w
  ELSE LET visit == Last(w.stack) IN
       IF visit.children = <<>>
       THEN next_child([w EXCEPT !.stack = Front(@)], target, max_depth, suggested_only)
       ELSE LET r == Head(visit.children)
                popped == [w EXCEPT !.stack[Len(w.stack)].children = Tail(@),
                                    !.visited = @ \cup {r},
                                    !.cached = IF r \notin w.visited /\ Summarised(r, @)
                                               THEN @ \cup ({r} \cap Remote) ELSE @]
            IN  next_child(IF r \notin w.visited /\ summary(r, w.cached)
                           THEN enter(popped, r, target, max_depth, suggested_only)
                           ELSE popped,
                           target, max_depth, suggested_only)

client_hierarchy(target, max_depth, suggested_only, cached) ==
  next_child(enter(Fresh(target, cached), Root, target, max_depth, suggested_only),
             target, max_depth, suggested_only)

-----------------------------------------------------------------------------
(* The client's walk: what it was sent, the token, and (a ghost) which     *)
(* rooms could be summarised when it began, while that has stayed so.      *)

NoHWalk == [on |-> FALSE, got |-> <<>>, target |-> <<>>, depth |-> 0, suggested |-> FALSE,
            known |-> {}, steady |-> TRUE, done |-> FALSE]

Known == {r \in RoomsOf : Summarised(r, cache)}

StartHierarchy ==
  /\ ~hwalk.on /\ shape[Root].held /\ accessible_to(Root)
  /\ \E d \in Depths, s \in BOOLEAN :
       hwalk' = [NoHWalk EXCEPT !.on = TRUE, !.depth = d, !.suggested = s, !.known = Known]
  /\ UNCHANGED <<shape, cache, reach, changes, lostAnswers>>

get_hierarchy_route(lost) ==
  /\ hwalk.on /\ ~hwalk.done /\ (lost => lostAnswers < MaxLostAnswers)
  /\ LET page == client_hierarchy(hwalk.target, hwalk.depth, hwalk.suggested, cache) IN
     /\ cache' = page.cached
     /\ hwalk' = IF lost THEN [hwalk EXCEPT !.steady = @ /\ Known = hwalk.known]
                 ELSE [hwalk EXCEPT !.got = @ \o page.rooms, !.target = page.next,
                                    !.steady = @ /\ Known = hwalk.known,
                                    !.done = page.next = <<>>]
  /\ lostAnswers' = IF lost THEN lostAnswers + 1 ELSE lostAnswers
  /\ UNCHANGED <<shape, reach, changes>>

(* A server goes out of reach or comes back; the cache drops an entry, by  *)
(* age or because a room was changed through this server (forget).         *)
ReachChanges ==
  /\ changes < MaxChanges
  /\ \E r \in Remote : reach' = IF r \in reach THEN reach \ {r} ELSE reach \cup {r}
  /\ changes' = changes + 1
  /\ UNCHANGED <<shape, cache, hwalk, lostAnswers>>

forget(r) ==
  /\ changes < MaxChanges /\ r \in cache
  /\ cache' = cache \ {r} /\ changes' = changes + 1
  /\ UNCHANGED <<shape, reach, hwalk, lostAnswers>>

SpaceInit ==
  /\ shape \in Shapes /\ reach = Remote /\ cache = {}
  /\ hwalk = NoHWalk /\ changes = 0 /\ lostAnswers = 0

SpaceNext ==
  \/ StartHierarchy
  \/ \E lost \in BOOLEAN : get_hierarchy_route(lost)
  \/ ReachChanges
  \/ \E r \in cache : forget(r)

-----------------------------------------------------------------------------
(* The rooms a walk should give: reached from the root through rooms that  *)
(* can be summarised and are accessible.                                   *)
Shown(r) == r \in hwalk.known /\ accessible_to(r)

Step(S) == S \cup {k \in RoomsOf : Shown(k) /\ \E r \in S :
                     k \in ToSet(children_of(r, hwalk.suggested))}

Within == LET grow[n \in 0..Cardinality(RoomsOf)] == IF n = 0 THEN {Root} ELSE Step(grow[n - 1])
          IN  grow[Cardinality(RoomsOf)]

(* While the rooms that can be summarised stay the same (a server that     *)
(* goes out of reach after it answered does not matter: its answer is      *)
(* cached), the pages put together are the space: no room twice, none the  *)
(* asker may not see, and in the end, when no depth was asked for, every   *)
(* room reached through accessible ones, although each page walks the tree *)
(* anew (spaces/hierarchy.rs:106).                                         *)
HierarchyWhole ==
  hwalk.steady =>
    /\ IsInjective(hwalk.got)
    /\ ToSet(hwalk.got) \subseteq Within
    /\ hwalk.done /\ hwalk.depth >= Cardinality(RoomsOf) => ToSet(hwalk.got) = Within

-----------------------------------------------------------------------------
(***************************************************************************)
(* The public room directory, read a page at a time: by clients            *)
(* (client/rooms/directory.rs), by other servers through the service       *)
(* (rooms/directory.rs, server/directory/publicrooms.rs), and by clients   *)
(* of this server at another one.                                          *)
(*                                                                         *)
(* Rooms are numbered in the order of their rows.  A page reads the rows,  *)
(* then what it says of each room; rooms are published, joined and renamed *)
(* meanwhile.  Tokens are an offset and a direction.                       *)
(***************************************************************************)

CONSTANTS
    DirRooms,       \* rooms, as numbers
    DirLimits,      \* page sizes asked for
    DirFilters,     \* [kinds, term]: room types, and "none", "text" or "id"
    SearchById,     \* allow_public_room_search_by_id
    OverFederation, \* allow_public_room_directory_over_federation
    MaxDirChanges   \* bound on changes to the directory

VARIABLES
    directory,      \* publicroomids: rooms published
    facts,          \* room -> [joined, kind, text, id, alias]
    reader,         \* see Reader
    dirchanges

dirVars == <<directory, facts, reader, dirchanges>>

NoToken == [way |-> "none", n |-> 0]

\* A reader at "ask", then "read" once the rows are, and at "done" or "failed".
\* shown is what came going forwards, last its final page, back what came
\* going back; steady says nothing has changed since the reader began.
Reader(where, limit, filter, since) ==
    [where |-> where, limit |-> limit, filter |-> filter, since |-> since, at |-> "ask", rows |-> {},
     shown |-> <<>>, last |-> <<>>, back |-> <<>>, turned |-> FALSE, steady |-> TRUE]

----------------------------------------------------------------------------
(* A page *)

public_rooms == directory

(* Mutant: a page before another starts where that one does. *)
parse_since_inclusive(since, limit) == since.n

parse_since(since, limit) ==
    IF since.way # "p" THEN since.n ELSE IF since.n > limit THEN since.n - limit ELSE 0

matches_room_types(c, f) == f.kinds = {} \/ c.kind \in f.kinds
matches_search_term(c) == c.text

\* What the service keeps of a room, and what the client route does,
\* which looks for room IDs as well.
Matches(c, f) == matches_room_types(c, f) /\ (f.term # "none" => matches_search_term(c))
ClientMatches(c, f) ==
    /\ matches_room_types(c, f)
    /\ f.term # "none" => matches_search_term(c) \/ (f.term = "id" /\ SearchById /\ c.id)

\* The client route gives an alias only while it leads to the room.
directory_alias(r) == facts[r].alias = "live"
ClientChunk(r) == [room |-> r, joined |-> facts[r].joined, alias |-> directory_alias(r)]
public_rooms_chunk(r) == [room |-> r, joined |-> facts[r].joined, alias |-> facts[r].alias # "none"]

Fuller(r, s) == facts[r].joined > facts[s].joined
Sorted(rooms) == SetToSortSeq(rooms, LAMBDA r, s : Fuller(r, s) \/ (~Fuller(s, r) /\ r < s))

\* Summaries gathered by whichever is done first: rooms as full as each other
\* come in any order.
AnyOrder(rooms) ==
    {o \in [1 .. Cardinality(rooms) -> rooms] :
        \A i, j \in DOMAIN o : i < j => o[i] # o[j] /\ ~Fuller(o[j], o[i])}

\* skip(offset).take(limit), and the tokens on either side.
PageOf(order, offset, limit) ==
    LET stop == IF offset + limit < Len(order) THEN offset + limit ELSE Len(order)
        chunk == SubSeq(order, offset + 1, stop)
    IN [chunk |-> chunk,
        prev |-> IF offset # 0 THEN [way |-> "p", n |-> offset] ELSE NoToken,
        next |-> IF Len(chunk) >= limit THEN [way |-> "n", n |-> offset + limit] ELSE NoToken]

\* Forwards to the end, and then back to the start.
Turned(w, page) ==
    IF ~w.turned
    THEN [w EXCEPT !.shown = IF w.limit = 0 THEN @ ELSE @ \o page.chunk,
                   !.last = page.chunk,
                   !.turned = page.next = NoToken,
                   !.since = IF page.next = NoToken THEN page.prev ELSE page.next,
                   !.at = IF page.next = NoToken /\ page.prev = NoToken THEN "done" ELSE "ask"]
    ELSE [w EXCEPT !.back = page.chunk \o @,
                   !.since = page.prev,
                   !.at = IF page.prev = NoToken THEN "done" ELSE "ask"]

----------------------------------------------------------------------------
(* The routes *)

\* A token that does not parse is refused by either.
get_public_rooms(w) ==
    /\ reader.at = "ask" /\ reader.where = w
    /\ reader' = IF reader.since.way = "bad" THEN [reader EXCEPT !.at = "failed"]
               ELSE [reader EXCEPT !.at = "read", !.rows = public_rooms]
    /\ UNCHANGED <<directory, facts, dirchanges>>

\* The rooms are taken in the order of their rows, whichever is summed up first.
get_public_rooms_filtered_helper ==
    /\ reader.at = "read" /\ reader.where = "client"
    /\ LET order == Sorted({r \in reader.rows : ClientMatches(facts[r], reader.filter)})
           page == PageOf(order, parse_since(reader.since, reader.limit), reader.limit)
       IN reader' = Turned(reader, [page EXCEPT !.chunk = [i \in DOMAIN @ |-> ClientChunk(@[i])]])
    /\ UNCHANGED <<directory, facts, dirchanges>>

\* At least one room is asked for.
public_rooms_page ==
    /\ reader.at = "read" /\ reader.where = "server"
    /\ LET limit == IF reader.limit = 0 THEN 1 ELSE reader.limit
       IN \E order \in AnyOrder({r \in reader.rows : Matches(facts[r], reader.filter)}) :
            LET page == PageOf(order, parse_since(reader.since, limit), limit)
            IN reader' = Turned([reader EXCEPT !.limit = limit],
                              [page EXCEPT !.chunk = [i \in DOMAIN @ |-> public_rooms_chunk(@[i])]])
    /\ UNCHANGED <<directory, facts, dirchanges>>

remote_server(w) == w = "remote"

\* Another server's directory: refused if it is banned here, and whatever it
\* fails with is told as one error.
check_server_banned == reader' = [reader EXCEPT !.at = "failed"]
mask_remote_failure == reader' = [reader EXCEPT !.at = "failed"]

QueryRemote ==
    /\ reader.at = "ask" /\ remote_server(reader.where)
    /\ \/ check_server_banned
       \/ mask_remote_failure
       \/ reader' = [reader EXCEPT !.at = "done"]
    /\ UNCHANGED <<directory, facts, dirchanges>>

----------------------------------------------------------------------------
(* What changes meanwhile *)

Changed ==
    /\ dirchanges < MaxDirChanges
    /\ dirchanges' = dirchanges + 1
    /\ reader' = [reader EXCEPT !.steady = FALSE]

Publish(r) ==
    /\ Changed /\ directory' = directory \cup {r} /\ UNCHANGED facts
Unpublish(r) ==
    /\ Changed /\ directory' = directory \ {r} /\ UNCHANGED facts

\* Someone joins, or an alias is moved to another room.
RoomChanges(r) ==
    /\ Changed
    /\ facts' = [facts EXCEPT ![r].joined = @ + 1] \/ facts' = [facts EXCEPT ![r].alias = "moved"]
    /\ UNCHANGED directory

----------------------------------------------------------------------------
DirInit ==
    /\ directory \in {DirRooms, DirRooms \ {1}}
    /\ \E size \in [DirRooms -> 1 .. 2] :
         facts = [r \in DirRooms |->
                    [joined |-> size[r], kind |-> IF r = 1 THEN "space" ELSE "room",
                     text |-> size[r] = 1, id |-> r # 2, alias |-> "live"]]
    /\ \E w \in {"client", "remote"} \cup {x \in {"server"} : OverFederation}, l \in DirLimits,
          f \in DirFilters, t \in {NoToken, [way |-> "bad", n |-> 0]} :
         reader = Reader(w, l, f, t)
    /\ dirchanges = 0

DirNext ==
    \/ \E w \in {"client", "server"} : get_public_rooms(w)
    \/ get_public_rooms_filtered_helper \/ public_rooms_page \/ QueryRemote
    \/ \E r \in DirRooms : Publish(r) \/ Unpublish(r) \/ RoomChanges(r)

----------------------------------------------------------------------------
(* Properties *)

(* While nothing changes, a client that asks for at least one room a page  *)
(* and follows next_batch to the end has been shown every room it asked    *)
(* for, once, the fullest first; and following prev_batch back from there  *)
(* it is shown the pages before the last again and nothing else.  Another  *)
(* server gets as many rooms, in the same order of size, whatever order    *)
(* rooms of one size come in.                                              *)
DirectoryWhole ==
    reader.steady =>
      LET wanted == {r \in directory : IF reader.where = "client"
                                       THEN ClientMatches(facts[r], reader.filter)
                                       ELSE Matches(facts[r], reader.filter)}
          rooms(s) == [i \in DOMAIN s |-> s[i].room]
      IN /\ reader.where = "client" /\ reader.limit > 0 =>
              /\ IsPrefix(rooms(reader.shown), Sorted(wanted))
              /\ reader.turned => rooms(reader.shown) = Sorted(wanted)
              /\ reader.turned => IsSuffix(reader.back \o reader.last, reader.shown)
              /\ reader.turned /\ reader.at = "done" => reader.back \o reader.last = reader.shown
         /\ reader.where = "server" /\ reader.turned =>
              /\ Len(reader.shown) = Cardinality(wanted)
              /\ \A i, j \in DOMAIN reader.shown : i < j => reader.shown[i].joined >= reader.shown[j].joined
=============================================================================
