------------------------------- MODULE Paging -------------------------------
(***************************************************************************)
(* Reading a room's history a page at a time while the room goes on: the   *)
(* timeline grows at its new end (append) and at its old end (backfill),   *)
(* answers are lost and asked for again, and the reader walks with the     *)
(* token of the page before.  /messages in both directions, /context,      *)
(* /threads, /relations, /search of one room and the deprecated /events    *)
(* are all walks over the same rows, with different page ends.             *)
(*                                                                         *)
(* A count (PduCount) is an integer: positive when the event was appended, *)
(* negative when it was backfilled.  An event is what a page tells apart:  *)
(* the history visibility in force at it, the reader's membership at it,   *)
(* its sender, and whether it roots a thread, relates to the target event  *)
(* or matches the search.                                                  *)
(***************************************************************************)
EXTENDS Integers, Sequences, FiniteSets, SequencesExt

CONSTANTS Types,        \* the events that may be sent, see EventType
          Senders, Ignored,
          IsJoined,     \* whether the reader is in the room now
          PageLimit, ContextLimit, BatchMax,
          MaxAppends, MaxBackfills, MaxLosses, Walks

VARIABLES pduid_pdu,    \* the timeline: count -> event
          current_count, drawn, lazyloadedids, walk, known, losses

pageVars == <<pduid_pdu, current_count, drawn, lazyloadedids, walk, known, losses>>

EventType ==
  [vis: {"world_readable", "shared", "invited", "joined"},
   was: {"leave", "invite", "join"},
   by: Senders, root: BOOLEAN, relates: BOOLEAN, hit: BOOLEAN]

ASSUME PagingAssumption == Types \subseteq EventType

(* The events of one room are at least Stride counts apart: an append also *)
(* draws a count for the sender's read marker and one for their reset.     *)
Stride == 3
Top == Stride * (MaxAppends + 2)
Bottom == -(MaxBackfills + 1)
Counts == DOMAIN pduid_pdu

-----------------------------------------------------------------------------
(* What the reader may see.                                                *)

user_can_see_event(e) ==
  CASE e.vis = "world_readable" -> TRUE
    [] e.vis = "shared"         -> IsJoined
    [] e.vis = "invited"        -> e.was \in {"invite", "join"}
    [] e.vis = "joined"         -> e.was = "join"

is_ignored_pdu(e) == e.by \in Ignored

event_filters(e) == ~is_ignored_pdu(e) /\ user_can_see_event(e)

(* A peek shows only what was world-readable.                              *)
is_world_readable_at(e) == e.vis = "world_readable"

listen_filter(e) ==
  IF IsJoined THEN user_can_see_event(e) ELSE is_world_readable_at(e)

-----------------------------------------------------------------------------
(* The rows, from an exclusive token on, in the direction of the walk.     *)

pdus_rev(from) == SetToSortSeq({c \in Counts : c < from}, LAMBDA a, b: a > b)
pdus(from) == SetToSortSeq({c \in Counts : c > from}, LAMBDA a, b: a < b)

Take(s, n) == IF Len(s) <= n THEN s ELSE SubSeq(s, 1, n)
Skip(s, n) == IF Len(s) <= n THEN <<>> ELSE SubSeq(s, n + 1, Len(s))

(* A page: its events, and the token of the next page, if there is one.    *)
Page(chunk, more, end) == [chunk |-> chunk, more |-> more, end |-> end]
EndAt(chunk, rows, from) ==
  Page(chunk, rows # <<>>, IF rows = <<>> THEN from ELSE Last(rows))

(* The page that filters only after it has taken its rows.                 *)
collect_timeline_half_early(rows, n) ==
  SelectSeq(Take(rows, n), LAMBDA c: event_filters(pduid_pdu[c]))

collect_timeline_half(rows, n) ==
  Take(SelectSeq(rows, LAMBDA c: event_filters(pduid_pdu[c])), n)

(* /messages: a backward page that ran out of rows ends at the last row it *)
(* looked at, hidden or not; every other page ends at its last event, and  *)
(* an empty one is the last.  A walk may stop at a `to` token.             *)
get_messages(dir, from, to) ==
  LET reached(c) == IF dir = "back" THEN c <= to ELSE c >= to
      all == IF dir = "back" THEN pdus_rev(from) ELSE pdus(from)
      it == SelectSeq(all, LAMBDA c: ~reached(c))
      events == collect_timeline_half(it, PageLimit)
      stopped_at_to == Len(it) < Len(all)
      exhausted == dir = "back" /\ Len(events) < PageLimit /\ ~stopped_at_to
  IN  EndAt(events, IF exhausted THEN it ELSE events, from)

(* /threads: one extra row says whether the list goes on.                  *)
get_threads(from) ==
  LET threads_until == SelectSeq(pdus_rev(from), LAMBDA c: pduid_pdu[c].root)
      seen == Take(SelectSeq(threads_until, LAMBDA c: event_filters(pduid_pdu[c])),
                   PageLimit + 1)
      threads == Take(seen, PageLimit)
      more == Len(seen) > PageLimit
  IN  EndAt(threads, IF more THEN threads ELSE <<>>, from)

(* The relations of the target, backwards.  Unlike every other page this   *)
(* one takes its rows first and filters them afterwards.                   *)
get_relations(from) ==
  Take(SelectSeq(pdus_rev(from), LAMBDA c: pduid_pdu[c].relates), PageLimit)

paginate_relations(from) ==
  LET events == SelectSeq(get_relations(from),
                          LAMBDA c: c > 0 /\ user_can_see_event(pduid_pdu[c]))
  IN  EndAt(events, events, from)

(* /search of one room, newest first: the token is how many results to     *)
(* skip, so it never exceeds BatchMax pages.                               *)
search_pdus(skip) ==
  Take(Skip(SelectSeq(pdus_rev(Top),
                      LAMBDA c: pduid_pdu[c].hit /\ user_can_see_event(pduid_pdu[c])),
            skip), PageLimit)

category_room_events(next_batch) ==
  LET skip == IF next_batch > PageLimit * BatchMax THEN PageLimit * BatchMax ELSE next_batch
      results == search_pdus(skip)
  IN  Page(results, Len(results) >= PageLimit, skip + Len(results))

(* /events: a full page ends at its last event, any other at the count     *)
(* sampled before the rows were read, the timeout's answer included.       *)
visible_page(from, next_batch) ==
  LET window == SelectSeq(pdus(from), LAMBDA c: c <= next_batch)
      chunk == Take(SelectSeq(window, LAMBDA c: listen_filter(pduid_pdu[c])), PageLimit)
  IN  Page(chunk, TRUE, IF Len(chunk) = PageLimit THEN Last(chunk) ELSE next_batch)

(* /context: the events around the base, and a token for each direction.   *)
event_context(base) ==
  LET before == collect_timeline_half(pdus_rev(base), ContextLimit \div 2)
      after == collect_timeline_half(pdus(base), (ContextLimit + 1) \div 2)
  IN  [before |-> before, after |-> after,
       start |-> IF before = <<>> THEN base ELSE Last(before),
       end |-> IF after = <<>> THEN base + 1 ELSE Last(after)]

-----------------------------------------------------------------------------
(* Lazy loading.  lazyloadedids remembers, per sender, that their member   *)
(* event was sent: 0 after the first time, then the token of the request   *)
(* that was answered with it the second time.  It is sent again to a       *)
(* request with that same token, which is a retry.                         *)

witness(senders, token) ==
  [s \in DOMAIN lazyloadedids \cup senders |->
     IF s \notin senders THEN lazyloadedids[s]
     ELSE IF s \notin DOMAIN lazyloadedids THEN 0
     ELSE IF lazyloadedids[s] = 0 THEN token ELSE lazyloadedids[s]]

(* Remembering the token at once, so that a retry is told nothing.         *)
witness_retain_once(senders, token) ==
  {s \in senders : s \notin DOMAIN lazyloadedids \/ lazyloadedids[s] = 0}

witness_retain(senders, token) ==
  {s \in senders : s \in DOMAIN lazyloadedids => lazyloadedids[s] \in {0, token}}

SendersOf(chunk) == {pduid_pdu[chunk[i]].by : i \in DOMAIN chunk}

-----------------------------------------------------------------------------
(* The room.                                                               *)

(* append_pdu: the count is drawn and the row stored under the room's      *)
(* insert lock, so a room's rows are stored in the order of their counts;  *)
(* the server's count has passed it before the row is there.               *)
DrawCount ==
  /\ drawn = 0 /\ Cardinality({c \in Counts : c > 0}) < MaxAppends
  /\ current_count' = current_count + Stride
  /\ drawn' = current_count'
  /\ UNCHANGED <<pduid_pdu, lazyloadedids, walk, known, losses>>

append_pdu(e) ==
  /\ drawn # 0
  /\ pduid_pdu' = [c \in Counts \cup {drawn} |-> IF c = drawn THEN e ELSE pduid_pdu[c]]
  /\ drawn' = 0
  /\ UNCHANGED <<current_count, lazyloadedids, walk, known, losses>>

prepend_backfill_pdu(e) ==
  LET oldest == Cardinality({c \in Counts : c < 0}) IN
  /\ oldest < MaxBackfills
  /\ pduid_pdu' = [c \in Counts \cup {-(oldest + 1)} |->
                     IF c = -(oldest + 1) THEN e ELSE pduid_pdu[c]]
  /\ UNCHANGED <<current_count, drawn, lazyloadedids, walk, known, losses>>

-----------------------------------------------------------------------------
(* The reader.  A walk remembers where it began, the token of its next     *)
(* request and what its answers brought; `lazy` walks load members lazily. *)

NoWalk == [kind |-> "none", start |-> 0, from |-> 0, to |-> 0, got |-> <<>>, held |-> {},
           raced |-> {}, blank |-> FALSE, fixed |-> FALSE, done |-> TRUE]

(* A walk from an end of the room begins beyond the last row there is.     *)
Oldest == CHOOSE m \in Counts \cup {0} : \A c \in Counts : m <= c
Newest == CHOOSE m \in Counts \cup {0} : \A c \in Counts : c <= m

NewWalk(kind, from, to) ==
  [NoWalk EXCEPT !.kind = kind, !.from = from, !.to = to,
                 !.start = CASE from = Top -> Newest + 1
                             [] from = Bottom -> Oldest - 1
                             [] OTHER -> from,
                 !.fixed = from \notin {Top, Bottom},
                 !.held = {c \in Counts : pduid_pdu[c].hit}, !.done = FALSE]

user_can_see_room == IsJoined \/ \E c \in Counts : pduid_pdu[c].vis = "world_readable"
                              \/ pduid_pdu[c].was # "leave"

StartWalk(kind) ==
  /\ walk.done /\ walk.kind = "none" /\ user_can_see_room
  /\ \/ /\ kind = "back"
        /\ \E from \in {Top, Newest + 1}, to \in {Bottom, 0} : walk' = NewWalk(kind, from, to)
     \/ /\ kind = "forward"
        /\ \E from \in {Bottom, 0}, to \in {Top, 2 * Stride} : walk' = NewWalk(kind, from, to)
     \/ kind \in {"threads", "relations"} /\ walk' = NewWalk(kind, Top, Bottom)
     \/ kind = "search" /\ walk' = NewWalk(kind, 0, Top)
     \/ kind = "listen" /\ walk' = NewWalk(kind, current_count, Top)
     \/ /\ kind \in {"context-back", "context-forward"}
        /\ \E base \in Counts : event_filters(pduid_pdu[base])
                             /\ walk' = NewWalk(kind, base, IF kind = "context-back" THEN Bottom ELSE Top)
  /\ UNCHANGED <<pduid_pdu, current_count, drawn, lazyloadedids, known, losses>>

(* The answer to the walk's next request.                                  *)
Answer ==
  CASE walk.kind \in {"back", "forward"} -> get_messages(walk.kind, walk.from, walk.to)
    [] walk.kind = "threads"   -> get_threads(walk.from)
    [] walk.kind = "relations" -> paginate_relations(walk.from)
    [] walk.kind = "search"    -> category_room_events(walk.from)
    [] walk.kind = "listen"    -> visible_page(walk.from, current_count)

(* When an answer carries no token the reader has all there is.            *)
Edge == CASE walk.kind \in {"back", "threads", "relations"} ->
               (CHOOSE m \in Counts \cup {walk.from} :
                  \A c \in Counts \cup {walk.from} : m <= c)
          [] walk.kind = "forward" ->
               (CHOOSE m \in Counts \cup {walk.from} :
                  \A c \in Counts \cup {walk.from} : m >= c)
          [] OTHER -> walk.from

(* The members an answer brings, and what the server remembers of them.    *)
Load(chunk, token, lost) ==
  LET senders == SendersOf(chunk) IN
  /\ lazyloadedids' = witness(senders, token)
  /\ known' = IF lost THEN known ELSE known \cup witness_retain(senders, token)

Lost(lost) == lost => losses < MaxLosses

NextPage(lost) ==
  /\ ~walk.done /\ walk.kind \notin {"context-back", "context-forward"} /\ Lost(lost)
  /\ LET a == Answer IN
     /\ IF walk.kind \in {"back", "forward"}
        THEN Load(a.chunk, walk.from, lost)
        ELSE UNCHANGED <<lazyloadedids, known>>
     /\ walk' = IF lost THEN walk
                ELSE [walk EXCEPT !.got = @ \o a.chunk,
                                  !.from = IF a.more THEN a.end ELSE Edge,
                                  !.done = ~a.more,
                                  !.raced = IF walk.kind = "listen" /\ drawn \in 1..a.end
                                            THEN @ \cup {drawn} ELSE @,
                                  !.blank = @ \/ (walk.kind = "relations" /\ ~a.more
                                                  /\ get_relations(walk.from) # <<>>)]
  /\ losses' = IF lost THEN losses + 1 ELSE losses
  /\ UNCHANGED <<pduid_pdu, current_count, drawn>>

(* A walk that begins at an event: /context, then /messages either way.    *)
OpenContext(lost) ==
  /\ walk.kind \in {"context-back", "context-forward"} /\ Lost(lost)
  /\ LET a == event_context(walk.from) IN
     /\ Load(<<walk.from>> \o a.before \o a.after, walk.from, lost)
     /\ walk' = IF lost THEN walk
                ELSE IF walk.kind = "context-back"
                THEN [walk EXCEPT !.kind = "back", !.got = a.before, !.from = a.start]
                ELSE [walk EXCEPT !.kind = "forward", !.got = a.after, !.from = a.end]
  /\ losses' = IF lost THEN losses + 1 ELSE losses
  /\ UNCHANGED <<pduid_pdu, current_count, drawn>>

-----------------------------------------------------------------------------
PageInit ==
  /\ pduid_pdu = [c \in {} |-> 0] /\ current_count = 0 /\ drawn = 0
  /\ lazyloadedids = [s \in {} |-> 0] /\ walk = NoWalk /\ known = {} /\ losses = 0

PageNext ==
  \/ DrawCount
  \/ \E e \in Types : append_pdu(e) \/ prepend_backfill_pdu(e)
  \/ \E kind \in Walks : StartWalk(kind)
  \/ \E lost \in BOOLEAN : NextPage(lost) \/ OpenContext(lost)

-----------------------------------------------------------------------------
(* What a walk is for, between where it began and where it has got to.     *)
Passed(c) ==
  CASE walk.kind \in {"back", "threads", "relations"} ->
         walk.from <= c /\ c < walk.start /\ c > walk.to
    [] walk.kind = "forward" -> walk.start < c /\ c <= walk.from /\ c < walk.to
    [] walk.kind = "listen"  -> walk.start < c /\ c <= walk.from
    [] walk.kind = "search"  -> walk.done /\ c \in walk.held
    [] OTHER -> FALSE

Asked(c) ==
  LET e == pduid_pdu[c] IN
  CASE walk.kind \in {"back", "forward"} -> event_filters(e)
    [] walk.kind = "threads"   -> e.root /\ event_filters(e)
    [] walk.kind = "relations" -> e.relates /\ c > 0 /\ user_can_see_event(e)
    [] walk.kind = "listen"    -> listen_filter(e)
    [] walk.kind = "search"    -> e.hit /\ user_can_see_event(e)

(* Page by page the reader gets every event they may see between where the *)
(* walk began and where it has got to, and (search apart, whose offsets    *)
(* shift as messages arrive) none of them twice: appends, backfills, lost  *)
(* answers and pages full of hidden events (message.rs:217 tells a short   *)
(* page from the end of the rows) leave no hole.  Two known holes are set  *)
(* apart: an event whose count /events had passed before its row was       *)
(* stored, and relations behind a page whose rows were all hidden.         *)
PagesComplete ==
  /\ walk.kind # "none" =>
       \A c \in Counts : Passed(c) /\ Asked(c) =>
         ToSet(walk.got) \cap {c} # {} \/ c \in walk.raced \/ walk.blank
  /\ walk.kind # "search" => IsInjective(walk.got)

(* A client that reads on from a token it holds, and asks again with the   *)
(* same token when an answer is lost, has the member event of the sender   *)
(* of every event it was given, although the server sends one only once or *)
(* twice (lazy_loading.rs:91).  It is not so of a first page without a     *)
(* token: its events may change between two lost answers.                  *)
SendersKnown ==
  walk.kind \in {"back", "forward"} /\ walk.fixed =>
    SendersOf(walk.got) \subseteq known
=============================================================================
