-------------------------------- MODULE Media --------------------------------
(***************************************************************************)
(* The media store: one media id, its original and a thumbnail of it, each *)
(* a file on disk and a record of it, written by uploads to a reserved id, *)
(* by fetches from the server it belongs to and by thumbnailing, and taken *)
(* away by deletion and quarantine.  Downloads may wait for an upload that *)
(* is still to come.                                                       *)
(*                                                                         *)
(* A request is dropped when its client goes away, at whichever await it   *)
(* stands; a crash ends them all and keeps what is on disk.                *)
(***************************************************************************)
EXTENDS Naturals

CONSTANTS Tasks, FrameSlots, MaxRequests, MaxStops

VARIABLES
  ours,                 \* whether the id names this server
  files, mediaid_file,  \* the keys with a file, the keys with a record
  mediaid_pending,      \* the reservation: "none", "live" or "expired"
  mediaid_quarantine, deletions,
  notifiers,            \* the Notify the map holds, 0 when it holds none
  notifyId, mtask, requests, stops,
  staged, video_failed,
  frame_slots           \* the thumbnailer's slots taken, with who took them

mediaVars == <<ours, files, mediaid_file, mediaid_pending, mediaid_quarantine, deletions,
               notifiers, notifyId, mtask, requests, stops, staged, frame_slots, video_failed>>

Keys == {"original", "thumbnail"}

\* `after` is where a store returns to, `under` that the request began, and
\* has run since, under quarantine.
Resting == [op |-> "none", at |-> "idle", key |-> "original", after |-> "idle",
            notify |-> 0, woken |-> FALSE, todo |-> {}, under |-> FALSE, got |-> FALSE]

storeVars == <<files, mediaid_file>>
waitVars == <<notifiers, notifyId>>
videoVars == <<staged, frame_slots, video_failed>>

TaskAt(p, op, at) == mtask[p].op \in op /\ mtask[p].at = at
Goes(p, at) == mtask' = [mtask EXCEPT ![p].at = at]
TaskEnds(p) == mtask' = [mtask EXCEPT ![p] = Resting]

Request(p, what, at) ==
  /\ mtask[p].at = "idle" /\ requests < MaxRequests
  /\ requests' = requests + 1
  /\ mtask' = [mtask EXCEPT ![p] = [Resting EXCEPT !.op = what, !.at = at,
                                                 !.under = mediaid_quarantine]]

-----------------------------------------------------------------------------
(* create_at: the file, then its record.  The record and what follows it   *)
(* run without an await.                                                   *)

Stores(p, key, after) == mtask' = [mtask EXCEPT ![p].at = "write", ![p].key = key, ![p].after = after]

create_at_recorded_first(p) ==
  /\ mtask[p].at = "write"
  /\ IF mtask[p].key \in mediaid_file
     THEN files' = files \cup {mtask[p].key} /\ mediaid_file' = mediaid_file /\ Goes(p, "record")
     ELSE mediaid_file' = mediaid_file \cup {mtask[p].key} /\ UNCHANGED <<files, mtask>>
  /\ UNCHANGED <<ours, mediaid_pending, mediaid_quarantine, deletions, waitVars, requests,
                 stops, videoVars>>

create_at(p) ==
  /\ mtask[p].at = "write"
  /\ files' = files \cup {mtask[p].key}
  /\ Goes(p, "record")
  /\ UNCHANGED <<ours, mediaid_file, mediaid_pending, mediaid_quarantine, deletions, waitVars,
                 requests, stops, videoVars>>

create(p) ==
  /\ mtask[p].at = "record"
  /\ mediaid_file' = mediaid_file \cup {mtask[p].key}
  /\ Goes(p, mtask[p].after)
  /\ UNCHANGED <<ours, files, mediaid_pending, mediaid_quarantine, deletions, waitVars, requests,
                 stops, videoVars>>

\* Refused under quarantine; a record whose file is missing is an error too.
refuse_quarantined == mediaid_quarantine
get_file(key) == ~refuse_quarantined /\ key \in mediaid_file /\ key \in files
exists == "original" \in mediaid_file

\* An upload under a fresh id, which nobody else can know yet.
create_content_route(p) ==
  /\ ours /\ requests = 0 /\ requests' = 1
  /\ mtask' = [mtask EXCEPT ![p] = [Resting EXCEPT !.op = "upload", !.at = "write", !.after = "answered"]]
  /\ UNCHANGED <<ours, storeVars, mediaid_pending, mediaid_quarantine, deletions, waitVars, stops,
                 videoVars>>

-----------------------------------------------------------------------------
(* Reserved ids.                                                           *)

\* The id is drawn fresh: nothing was ever stored under it.
create_pending(p) ==
  /\ ours /\ mediaid_pending = "none" /\ files = {} /\ ~exists /\ deletions = 0
  /\ \A q \in Tasks : mtask[q].op # "upload"
  /\ requests < MaxRequests /\ requests' = requests + 1 /\ mtask[p].at = "idle"
  /\ mediaid_pending' = "live"
  /\ UNCHANGED <<ours, storeVars, mediaid_quarantine, deletions, waitVars, mtask, stops, videoVars>>

Expire ==
  /\ mediaid_pending = "live" /\ mediaid_pending' = "expired"
  /\ UNCHANGED <<ours, storeVars, mediaid_quarantine, deletions, waitVars, mtask, requests, stops,
                 videoVars>>

\* Another user's count_pending_for sweeps the reservations that ran out.
count_pending_for ==
  /\ mediaid_pending = "expired" /\ mediaid_pending' = "none"
  /\ UNCHANGED <<ours, storeVars, mediaid_quarantine, deletions, waitVars, mtask, requests, stops,
                 videoVars>>

\* The reservation is looked up, the file stored, the reservation removed and
\* the waiters told.  Two uploads may hold the same reservation.
upload_pending(p) ==
  /\ mediaid_pending = "live"
  /\ mtask[p].at = "idle" /\ requests < MaxRequests /\ requests' = requests + 1
  /\ mtask' = [mtask EXCEPT ![p] = [Resting EXCEPT !.op = "upload", !.at = "write", !.after = "forget"]]
  /\ UNCHANGED <<ours, storeVars, mediaid_pending, mediaid_quarantine, deletions, waitVars, stops,
                 videoVars>>

remove_pending(p) ==
  /\ TaskAt(p, {"upload"}, "forget")
  /\ mediaid_pending' = "none" /\ Goes(p, "notify")
  /\ UNCHANGED <<ours, storeVars, mediaid_quarantine, deletions, waitVars, requests, stops, videoVars>>

notify_waiters(p) ==
  /\ TaskAt(p, {"upload"}, "notify")
  /\ notifiers' = 0
  /\ mtask' = [q \in Tasks |->
                IF q = p THEN Resting
                ELSE IF notifiers # 0 /\ mtask[q].notify = notifiers
                THEN [mtask[q] EXCEPT !.woken = TRUE] ELSE mtask[q]]
  /\ UNCHANGED <<ours, storeVars, mediaid_pending, mediaid_quarantine, deletions, notifyId,
                 requests, stops, videoVars>>

await_pending(p) ==
  /\ mtask[p].at = "await"
  /\ IF mediaid_pending = "live" THEN Goes(p, "register") ELSE TaskEnds(p)
  /\ UNCHANGED <<ours, storeVars, mediaid_pending, mediaid_quarantine, deletions, waitVars,
                 requests, stops, videoVars>>

\* The Notify of the map, or a new one, and the wait enabled on it.
Register(p) ==
  /\ mtask[p].at = "register"
  /\ notifyId' = IF notifiers = 0 THEN notifyId + 1 ELSE notifyId
  /\ notifiers' = IF notifiers = 0 THEN notifyId' ELSE notifiers
  /\ mtask' = [mtask EXCEPT ![p].at = "check", ![p].notify = notifiers']
  /\ UNCHANGED <<ours, storeVars, mediaid_pending, mediaid_quarantine, deletions, requests,
                 stops, videoVars>>

AwaitChecks_none(p) ==
  /\ mtask[p].at = "check"
  /\ Goes(p, "wait")
  /\ UNCHANGED <<ours, storeVars, mediaid_pending, mediaid_quarantine, deletions, waitVars,
                 requests, stops, videoVars>>

\* The upload may have come between the lookup and the wait.
AwaitChecks(p) ==
  /\ mtask[p].at = "check"
  /\ mtask' = IF exists THEN [mtask EXCEPT ![p].at = "reget", ![p].notify = 0]
             ELSE [mtask EXCEPT ![p].at = "wait"]
  /\ UNCHANGED <<ours, storeVars, mediaid_pending, mediaid_quarantine, deletions, waitVars,
                 requests, stops, videoVars>>

\* Who holds the Notify of the map, the map not counted: the last of them to
\* leave takes it out.
Holders == {q \in Tasks : mtask[q].notify = notifiers}

AwaitEnds(p) ==
  /\ mtask[p].at = "wait"
  /\ notifiers' = IF \A q, s \in Holders : q = s THEN 0 ELSE notifiers
  /\ IF mtask[p].woken THEN mtask' = [mtask EXCEPT ![p].at = "reget", ![p].notify = 0, ![p].woken = FALSE]
                      ELSE TaskEnds(p)
  /\ UNCHANGED <<ours, storeVars, mediaid_pending, mediaid_quarantine, deletions, notifyId,
                 requests, stops, videoVars>>

-----------------------------------------------------------------------------
(* Downloads.                                                              *)

ServesIt(p) == mtask' = [mtask EXCEPT ![p].at = "answered", ![p].after = "idle", ![p].got = TRUE]
ReadOnly == UNCHANGED <<ours, storeVars, mediaid_pending, mediaid_quarantine, deletions, waitVars,
                        stops, videoVars>>

fetch_file(p) == Request(p, "file", "get") /\ ReadOnly
fetch_thumbnail(p) == Request(p, "thumbnail", "get") /\ ReadOnly

get_or_fetch(p) ==
  /\ TaskAt(p, {"file"}, "get")
  /\ IF get_file("original") THEN ServesIt(p)
     ELSE Goes(p, IF ours \/ refuse_quarantined THEN "await" ELSE "fetch")
  /\ UNCHANGED requests /\ ReadOnly

\* The server the media belongs to is asked; its answer is stored.
fetch(p) ==
  /\ TaskAt(p, {"file"}, "fetch")
  /\ IF refuse_quarantined THEN Goes(p, "await")
     ELSE Goes(p, "await") \/ Stores(p, "original", "serve")
  /\ UNCHANGED requests /\ ReadOnly

get_or_fetch_thumbnail(p) ==
  /\ TaskAt(p, {"thumbnail"}, "get")
  /\ IF get_file("thumbnail") THEN ServesIt(p)
     ELSE IF get_file("original") THEN Goes(p, "generate")
     ELSE Goes(p, IF ours THEN "await" ELSE "fetch")
  /\ UNCHANGED requests /\ ReadOnly

fetch_remote_thumbnail_unasked(p) ==
  /\ TaskAt(p, {"thumbnail"}, "fetch")
  /\ Goes(p, "await") \/ Stores(p, "thumbnail", "release")
  /\ UNCHANGED requests /\ ReadOnly

\* Under federation_mutex, looked up once more, then asked of the server.
fetch_remote_thumbnail(p) ==
  /\ TaskAt(p, {"thumbnail"}, "fetch")
  /\ \A q \in Tasks \ {p} : mtask[q].after # "release"
  /\ IF get_file("thumbnail") THEN ServesIt(p)
     ELSE IF refuse_quarantined THEN Goes(p, "await")
     ELSE Goes(p, "await") \/ Stores(p, "thumbnail", "release")
  /\ UNCHANGED requests /\ ReadOnly

\* After a wait the store is asked again.
Reget(p) ==
  /\ mtask[p].at = "reget"
  /\ IF mtask[p].op = "thumbnail" /\ ~get_file("thumbnail") /\ get_file("original") THEN Goes(p, "generate")
     ELSE IF get_file("original") \/ (mtask[p].op = "thumbnail" /\ get_file("thumbnail")) THEN ServesIt(p)
     ELSE TaskEnds(p)
  /\ UNCHANGED requests /\ ReadOnly

Serve(p) == mtask[p].at \in {"serve", "release"} /\ ServesIt(p) /\ UNCHANGED requests /\ ReadOnly
Answered(p) == mtask[p].at = "answered" /\ TaskEnds(p) /\ UNCHANGED requests /\ ReadOnly

-----------------------------------------------------------------------------
(* Thumbnails: of a picture at once, of a video through a program that     *)
(* reads a staged copy, a few at a time and against a deadline.  Whatever  *)
(* goes wrong the original is served instead.                              *)

generate(p) ==
  /\ mtask[p].at = "generate"
  /\ \/ Stores(p, "thumbnail", "serve") \/ ServesIt(p)
     \/ ~video_failed /\ Goes(p, "slot")
  /\ UNCHANGED requests /\ ReadOnly

video_frame(p) ==
  /\ mtask[p].at = "slot"
  /\ \/ /\ \E s \in FrameSlots : /\ \A q \in Tasks : <<s, q>> \notin frame_slots
                                   /\ frame_slots' = frame_slots \cup {<<s, p>>}
        /\ Goes(p, "stage")
     \/ frame_slots' = frame_slots /\ ServesIt(p)
  /\ UNCHANGED <<ours, storeVars, mediaid_pending, mediaid_quarantine, deletions, waitVars,
                 requests, stops, staged, video_failed>>

\* The permit of a frame is dropped with what holds it.
GivesBack(p) == frame_slots' = {h \in frame_slots : h[2] # p}

stage(p) ==
  /\ mtask[p].at = "stage"
  /\ staged' = staged \cup {p} /\ Goes(p, "run")
  /\ UNCHANGED <<ours, storeVars, mediaid_pending, mediaid_quarantine, deletions, waitVars,
                 requests, stops, frame_slots, video_failed>>

\* The program ends well, or fails, which is remembered; or the deadline was
\* too near to start it, which is not.
extract_frame(p) ==
  /\ mtask[p].at = "run"
  /\ \/ video_failed' = video_failed /\ Stores(p, "thumbnail", "serve")
     \/ video_failed' = TRUE /\ ServesIt(p)
     \/ video_failed' = video_failed /\ ServesIt(p)
  /\ staged' = staged \ {p} /\ GivesBack(p)
  /\ UNCHANGED <<ours, storeVars, mediaid_pending, mediaid_quarantine, deletions, waitVars,
                 requests, stops>>

-----------------------------------------------------------------------------
(* Deletion and quarantine.                                                *)

delete(p) ==
  /\ mediaid_file # {}
  /\ mtask[p].at = "idle" /\ requests < MaxRequests /\ requests' = requests + 1
  /\ mtask' = [mtask EXCEPT ![p] = [Resting EXCEPT !.op = "delete", !.at = "unlink", !.todo = mediaid_file]]
  /\ deletions' = deletions + 1
  /\ UNCHANGED <<ours, storeVars, mediaid_pending, mediaid_quarantine, waitVars, stops, videoVars>>

\* A purge by age lists the originals first and deletes them one by one.
list(p) == "original" \in mediaid_file /\ Request(p, "delete", "listed") /\ ReadOnly

purge_older_than(p) ==
  /\ TaskAt(p, {"delete"}, "listed")
  /\ IF mediaid_file = {} THEN TaskEnds(p) /\ UNCHANGED deletions
     ELSE /\ mtask' = [mtask EXCEPT ![p].at = "unlink", ![p].todo = mediaid_file]
          /\ deletions' = deletions + 1
  /\ UNCHANGED <<ours, storeVars, mediaid_pending, mediaid_quarantine, waitVars, requests, stops,
                 videoVars>>

remove_file(p, key) ==
  /\ TaskAt(p, {"delete"}, "unlink") /\ key \in mtask[p].todo
  /\ files' = files \ {key}
  /\ mtask' = [mtask EXCEPT ![p].at = "unrecord", ![p].key = key, ![p].todo = @ \ {key}]
  /\ UNCHANGED <<ours, mediaid_file, mediaid_pending, mediaid_quarantine, deletions, waitVars,
                 requests, stops, videoVars>>

remove_record(p) ==
  /\ TaskAt(p, {"delete"}, "unrecord")
  /\ mediaid_file' = mediaid_file \ {mtask[p].key}
  /\ IF mtask[p].todo = {} THEN TaskEnds(p) ELSE Goes(p, "unlink")
  /\ UNCHANGED <<ours, files, mediaid_pending, mediaid_quarantine, deletions, waitVars, requests,
                 stops, videoVars>>

quarantine ==
  /\ ~mediaid_quarantine /\ requests < MaxRequests /\ requests' = requests + 1
  /\ mediaid_quarantine' = TRUE
  /\ UNCHANGED <<ours, storeVars, mediaid_pending, deletions, waitVars, mtask, stops, videoVars>>

unquarantine ==
  /\ mediaid_quarantine /\ requests < MaxRequests /\ requests' = requests + 1
  /\ mediaid_quarantine' = FALSE
  /\ mtask' = [q \in Tasks |-> [mtask[q] EXCEPT !.under = FALSE]]
  /\ UNCHANGED <<ours, storeVars, mediaid_pending, deletions, waitVars, stops, videoVars>>

-----------------------------------------------------------------------------
(* The client goes away: the handler is dropped, its staged file removed   *)
(* and its slot given back.                                                *)
Dropped_(p) ==
  /\ mtask[p].at \notin {"idle", "forget", "notify"} /\ stops < MaxStops /\ stops' = stops + 1
  /\ TaskEnds(p)
  /\ staged' = staged \ {p} /\ GivesBack(p)
  /\ UNCHANGED <<ours, storeVars, mediaid_pending, mediaid_quarantine, deletions, waitVars,
                 requests, video_failed>>

sweep_none == staged
sweep_staging_dir == {}

\* The process dies and starts again, and sweeps the staging directory.
Crash ==
  /\ stops < MaxStops /\ stops' = stops + 1
  /\ mtask' = [p \in Tasks |-> Resting]
  /\ notifiers' = 0 /\ staged' = sweep_staging_dir /\ frame_slots' = {} /\ video_failed' = FALSE
  /\ UNCHANGED <<ours, storeVars, mediaid_pending, mediaid_quarantine, deletions, notifyId, requests>>

MediaInit ==
  /\ ours \in BOOLEAN
  /\ files = {} /\ mediaid_file = {} /\ mediaid_pending = "none" /\ mediaid_quarantine = FALSE
  /\ deletions = 0 /\ notifiers = 0 /\ notifyId = 0 /\ mtask = [p \in Tasks |-> Resting]
  /\ requests = 0 /\ stops = 0 /\ staged = {} /\ frame_slots = {} /\ video_failed = FALSE

MediaStep(p) ==
  \/ create_at(p) \/ create(p) \/ create_pending(p) \/ upload_pending(p) \/ remove_pending(p)
  \/ notify_waiters(p) \/ await_pending(p) \/ Register(p) \/ AwaitChecks(p) \/ AwaitEnds(p)
  \/ fetch_file(p) \/ fetch_thumbnail(p) \/ get_or_fetch(p) \/ fetch(p)
  \/ get_or_fetch_thumbnail(p) \/ fetch_remote_thumbnail(p) \/ Reget(p) \/ Serve(p) \/ Answered(p)
  \/ generate(p) \/ video_frame(p) \/ stage(p) \/ extract_frame(p)
  \/ create_content_route(p) \/ list(p) \/ purge_older_than(p)
  \/ delete(p) \/ (\E key \in Keys : remove_file(p, key)) \/ remove_record(p) \/ Dropped_(p)

MediaNext ==
  \/ \E p \in Tasks : MediaStep(p)
  \/ Expire \/ count_pending_for \/ quarantine \/ unquarantine \/ Crash

MediaSpec == MediaInit /\ [][MediaNext]_mediaVars

-----------------------------------------------------------------------------
(* A download that waits for an upload is told of it: once the original is *)
(* recorded, whoever waits has been woken or is about to be, by an upload  *)
(* that has not yet told its waiters (media/mod.rs:331 looks again after   *)
(* enabling the wait).  Deletions apart, and a crash has no waiters.       *)
WaitersAreTold ==
  deletions = 0 =>
    \A p \in Tasks :
      mtask[p].at = "wait" /\ ~mtask[p].woken /\ exists =>
        \E u \in Tasks : mtask[u].at \in {"forget", "notify"} /\ mtask[p].notify = notifiers

(* A record promises its file: wherever a store is dropped or the server   *)
(* dies, a record without a file is one somebody asked to delete           *)
(* (media/mod.rs:211 writes the file first).                               *)
RecordedIsStored == deletions = 0 => mediaid_file \subseteq files

(* A request that began under quarantine and ran under it is never         *)
(* answered with the media, whichever way it is looked for: the store, a   *)
(* thumbnail of it, the server it is from, or a wait (quarantine.rs:3).    *)
QuarantineHolds ==
  \A p \in Tasks : mtask[p].under => ~mtask[p].got

(* The staging directory holds only the videos being looked at now, and    *)
(* whoever looks at one has a slot to itself, whatever ended the requests  *)
(* that staged the others (video.rs:181).                                  *)
StagingIsClean ==
  /\ \A p \in staged : mtask[p].at = "run"
  /\ \A p \in Tasks :
       mtask[p].at \in {"stage", "run"} <=> \E s \in FrameSlots : <<s, p>> \in frame_slots
  /\ \A s \in FrameSlots, p, q \in Tasks : {<<s, p>>, <<s, q>>} \subseteq frame_slots => p = q

-----------------------------------------------------------------------------
(***************************************************************************)
(* URL previews: a page is fetched once and its preview kept for a while,  *)
(* with the picture it shows as lazy media, which becomes an ordinary file *)
(* of the media store when somebody first asks for it.                     *)
(*                                                                         *)
(* A page is what the decisions of a preview tell apart: what the lists of *)
(* the configuration say of its host and of the domain above it, the type  *)
(* it answers with, and whether it, its picture and the embedding service  *)
(* can be fetched at all.                                                  *)
(***************************************************************************)

CONSTANTS Pages, Clients, CheckRoot, MediaAgent, MaxFetches, MaxPreviewStops

VARIABLES site, url_previews, mediaid_lazy, mediaid_lazycontent, promoted, pfile,
          previewer, pfetches, pstops, forgotten, previewed

previewVars == <<site, url_previews, mediaid_lazy, mediaid_lazycontent, promoted, pfile,
                 previewer, pfetches, pstops, forgotten, previewed>>

NoPreview == [at |-> "idle", mxc |-> 0]
lazyVars == <<mediaid_lazy, mediaid_lazycontent>>

-----------------------------------------------------------------------------
(* Which pages may be previewed.  A list entry is "deny", "allow" or none. *)

url_preview_allowed ==
  /\ site.scheme
  /\ \/ site.star
     \/ site.host = "allow"
     \/ site.host = "none" /\ (site.contains \/ (CheckRoot /\ site.root = "allow"))

check_url_host == site.address

(* request_url_preview: the page with the page's agent; one that refuses   *)
(* it is asked again with the media agent, which may not bring a page.     *)
media_response == MediaAgent /\ site.forMedia
request_url_preview ==
  IF site.ok THEN site.type
  ELSE IF media_response /\ site.type # "html" THEN site.type ELSE "error"

(* What the preview shows: a picture kept with its bytes, a recording kept *)
(* by its address only, or nothing.  A page without a title or a picture   *)
(* is looked up at its embedding service.                                  *)
preview_image == IF site.picture THEN "bytes" ELSE "none"
oembed_recover == IF site.titled \/ site.picture THEN preview_image
                  ELSE IF site.embeds THEN "bytes" ELSE "none"
Shows ==
  CASE request_url_preview = "html"  -> oembed_recover
    [] request_url_preview = "image" -> IF MediaAgent => site.forMedia THEN "bytes" ELSE "error"
    [] request_url_preview = "video" -> IF MediaAgent => site.forMedia THEN "address" ELSE "error"
    [] OTHER -> "error"

-----------------------------------------------------------------------------
Rests(p) == previewer' = [previewer EXCEPT ![p] = NoPreview]
Moves(p, at) == previewer' = [previewer EXCEPT ![p].at = at]
Locked == \E q \in Clients : previewer[q].at \in {"recheck", "fetch", "cache"}

url_preview(p) ==
  /\ previewer[p].at = "idle" /\ url_preview_allowed /\ pfetches < MaxFetches
  /\ url_previews.valid = FALSE
  /\ Moves(p, "lock")
  /\ UNCHANGED <<site, url_previews, lazyVars, promoted, pfile, pfetches, pstops, forgotten, previewed>>

get_url_preview(p) ==
  /\ previewer[p].at = "lock" /\ ~Locked
  /\ Moves(p, "recheck")
  /\ UNCHANGED <<site, url_previews, lazyVars, promoted, pfile, pfetches, pstops, forgotten, previewed>>

Recheck_none(p) ==
  /\ previewer[p].at = "recheck"
  /\ Moves(p, "fetch")
  /\ UNCHANGED <<site, url_previews, lazyVars, promoted, pfile, pfetches, pstops, forgotten, previewed>>

\* Whoever waited for the lock may find the preview made.
Recheck(p) ==
  /\ previewer[p].at = "recheck"
  /\ IF url_previews.valid THEN Rests(p) ELSE Moves(p, "fetch")
  /\ UNCHANGED <<site, url_previews, lazyVars, promoted, pfile, pfetches, pstops, forgotten, previewed>>

\* download_image stores the address and the bytes in one transaction;
\* download_video and lazy_media only the address.
Fetch(p) ==
  /\ previewer[p].at = "fetch"
  /\ pfetches' = pfetches + 1
  /\ IF ~check_url_host \/ Shows = "error"
     THEN Rests(p) /\ UNCHANGED <<lazyVars, previewed>>
     ELSE IF Shows = "none"
     THEN previewer' = [previewer EXCEPT ![p] = [at |-> "cache", mxc |-> 0]] /\ UNCHANGED <<lazyVars, previewed>>
     ELSE /\ previewed' = previewed + 1
          /\ mediaid_lazy' = mediaid_lazy \cup {previewed'}
          /\ mediaid_lazycontent' = IF Shows = "bytes" THEN mediaid_lazycontent \cup {previewed'}
                                    ELSE mediaid_lazycontent
          /\ previewer' = [previewer EXCEPT ![p] = [at |-> "cache", mxc |-> previewed']]
  /\ UNCHANGED <<site, url_previews, promoted, pfile, pstops, forgotten>>

set_url_preview(p) ==
  /\ previewer[p].at = "cache"
  /\ url_previews' = [valid |-> TRUE, mxc |-> previewer[p].mxc]
  /\ Rests(p)
  /\ UNCHANGED <<site, lazyVars, promoted, pfile, pfetches, pstops, forgotten, previewed>>

is_expired ==
  /\ url_previews.valid /\ pfetches < MaxFetches
  /\ url_previews' = [url_previews EXCEPT !.valid = FALSE]
  /\ UNCHANGED <<site, lazyVars, promoted, pfile, previewer, pfetches, pstops, forgotten, previewed>>

-----------------------------------------------------------------------------
(* fetch_lazy_media: under the id's lock, the kept bytes or the address    *)
(* again, a file of the store, and only then the lazy rows removed.        *)

Promoting(m) == \E q \in Clients : previewer[q].mxc = m
                                 /\ previewer[q].at \in {"look", "file", "record", "unlazy"}

get_lazy_content(p, m) ==
  /\ previewer[p].at = "idle" /\ m # 0 /\ ~Promoting(m)
  /\ m \notin promoted
  /\ \/ m \in mediaid_lazycontent
     \/ m \in mediaid_lazy /\ site.forMedia /\ check_url_host
  /\ previewer' = [previewer EXCEPT ![p] = [at |-> "file", mxc |-> m]]
  /\ UNCHANGED <<site, url_previews, lazyVars, promoted, pfile, pfetches, pstops, forgotten, previewed>>

Promote_removing_first(p) ==
  /\ \/ /\ previewer[p].at = "file"
        /\ mediaid_lazy' = mediaid_lazy \ {previewer[p].mxc}
        /\ mediaid_lazycontent' = mediaid_lazycontent \ {previewer[p].mxc}
        /\ pfile' = pfile \cup {previewer[p].mxc} /\ promoted' = promoted
        /\ Moves(p, "record")
     \/ /\ previewer[p].at = "record"
        /\ promoted' = promoted \cup {previewer[p].mxc}
        /\ Rests(p) /\ UNCHANGED <<lazyVars, pfile>>
  /\ UNCHANGED <<site, url_previews, pfetches, pstops, forgotten, previewed>>

Promote(p) ==
  /\ \/ /\ previewer[p].at = "file"
        /\ pfile' = pfile \cup {previewer[p].mxc}
        /\ Moves(p, "record") /\ UNCHANGED <<lazyVars, promoted>>
     \/ /\ previewer[p].at = "record"
        /\ promoted' = promoted \cup {previewer[p].mxc}
        /\ Moves(p, "unlazy") /\ UNCHANGED <<lazyVars, pfile>>
     \/ /\ previewer[p].at = "unlazy"
        /\ mediaid_lazy' = mediaid_lazy \ {previewer[p].mxc}
        /\ mediaid_lazycontent' = mediaid_lazycontent \ {previewer[p].mxc}
        /\ Rests(p) /\ UNCHANGED <<pfile, promoted>>
  /\ UNCHANGED <<site, url_previews, pfetches, pstops, forgotten, previewed>>

forget_lazy_media(m) ==
  /\ m \in mediaid_lazy
  /\ mediaid_lazy' = mediaid_lazy \ {m} /\ mediaid_lazycontent' = mediaid_lazycontent \ {m}
  /\ forgotten' = forgotten \cup {m}
  /\ UNCHANGED <<site, url_previews, promoted, pfile, previewer, pfetches, pstops, previewed>>

\* A request is dropped at an await, or the server dies anywhere.
Stop(p) ==
  /\ previewer[p].at # "idle" /\ pstops < MaxPreviewStops /\ pstops' = pstops + 1
  /\ Rests(p)
  /\ UNCHANGED <<site, url_previews, lazyVars, promoted, pfile, pfetches, forgotten, previewed>>

PreviewInit ==
  /\ site \in Pages /\ url_previews = [valid |-> FALSE, mxc |-> 0]
  /\ mediaid_lazy = {} /\ mediaid_lazycontent = {} /\ promoted = {} /\ pfile = {}
  /\ previewer = [p \in Clients |-> NoPreview] /\ pfetches = 0 /\ pstops = 0 /\ forgotten = {} /\ previewed = 0

PreviewNext ==
  \/ \E p \in Clients :
       \/ url_preview(p) \/ get_url_preview(p) \/ Recheck(p) \/ Fetch(p) \/ set_url_preview(p)
       \/ get_lazy_content(p, url_previews.mxc) \/ Promote(p) \/ Stop(p)
  \/ is_expired
  \/ \E m \in mediaid_lazy : forget_lazy_media(m)

PreviewSpec == PreviewInit /\ [][PreviewNext]_previewVars

-----------------------------------------------------------------------------
(* However many clients ask for a page at once it is fetched once: nobody  *)
(* fetches while a preview that has not expired is kept                    *)
(* (preview/mod.rs:28 looks again under the url's lock).                   *)
FetchedOnce == \A p \in Clients : previewer[p].at = "fetch" => ~url_previews.valid

(* The picture a preview names can be had as long as the preview is kept:  *)
(* it is in the store, or still among the lazy media with its bytes or its *)
(* address, wherever its promotion was cut off (remote.rs:60), unless an   *)
(* admin deleted it.                                                       *)
PictureIsThere ==
  LET m == url_previews.mxc IN
  m # 0 /\ m \notin forgotten => m \in mediaid_lazy \/ (m \in promoted /\ m \in pfile)

(* Nobody waits for media that is there, quarantined media is not served,  *)
(* a thumbnailer leaves nothing behind, a page is fetched once and its     *)
(* picture stays with the preview.                                         *)
MediaSound == WaitersAreTold /\ QuarantineHolds /\ StagingIsClean /\ FetchedOnce /\ PictureIsThere
=============================================================================
