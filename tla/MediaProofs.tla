----------------------------- MODULE MediaProofs -----------------------------
(***************************************************************************)
(* The media store and its previews, for any number of requests, clients,  *)
(* thumbnailer slots and crashes: no record lacks its file, who waits for  *)
(* an upload is told, quarantine holds, and the thumbnailer gives back     *)
(* what it takes.                                                          *)
(***************************************************************************)
EXTENDS Media, TLAPS

\* How long the two provers may take over a leaf.
USE SMTT(30), ZenonT(30)

-----------------------------------------------------------------------------
(* URL previews.                                                           *)

PreviewerType == [at : {"idle", "lock", "recheck", "fetch", "cache", "file", "record", "unlazy"}, mxc : Nat]

PreviewTypes ==
  /\ previewed \in Nat
  /\ url_previews \in [valid : BOOLEAN, mxc : Nat]
  /\ previewer \in [Clients -> PreviewerType]

UnderLock(p) == previewer[p].at \in {"recheck", "fetch", "cache"}

\* The picture m is to be had.
HasPicture(m) == m \in forgotten \cup mediaid_lazy \cup (promoted \cap pfile)

(* One client at a time is past the url's lock, and fetches only while no
   valid preview is kept; every picture numbered so far is to be had, and a
   promotion has done what its stage says. *)
PreviewInv ==
  /\ PreviewTypes
  /\ \A p, q \in Clients : UnderLock(p) /\ UnderLock(q) => p = q
  /\ \A p \in Clients : previewer[p].at \in {"fetch", "cache"} => ~url_previews.valid
  /\ \A m \in 1 .. previewed : HasPicture(m)
  /\ url_previews.mxc <= previewed
  /\ \A p \in Clients : /\ previewer[p].mxc <= previewed
                        /\ previewer[p].at = "record" => previewer[p].mxc \in pfile
                        /\ previewer[p].at = "unlazy" => previewer[p].mxc \in promoted \cap pfile

LEMMA PreviewStart == PreviewInit => PreviewInv
<1> SUFFICES ASSUME PreviewInit PROVE PreviewInv
  BY Zenon
<1>1. NoPreview \in PreviewerType /\ NoPreview.at = "idle" /\ NoPreview.mxc = 0
  BY Zenon DEF NoPreview, PreviewerType
<1>2. PreviewTypes
  BY <1>1, Zenon DEF PreviewInit, PreviewTypes
<1> QED
  BY <1>1, <1>2 DEF PreviewInit, PreviewInv, UnderLock

\* What replacing one client's state does.
LEMMA ClientReplaced ==
  ASSUME PreviewTypes, NEW p \in Clients, NEW r \in PreviewerType, previewer' = [previewer EXCEPT ![p] = r]
  PROVE  /\ previewer' \in [Clients -> PreviewerType] /\ previewer'[p] = r
         /\ \A q \in Clients : q # p => previewer'[q] = previewer[q]
BY Zenon DEF PreviewTypes

\* A client moves on, and nothing else changes.
LEMMA ClientMoves ==
  ASSUME PreviewInv, NEW p \in Clients, NEW r \in PreviewerType, previewer' = [previewer EXCEPT ![p] = r],
         r.mxc <= previewed, r.at \notin {"record", "unlazy", "cache"},
         r.at = "fetch" => ~url_previews.valid,
         r.at \in {"recheck", "fetch"} => UnderLock(p) \/ ~Locked,
         UNCHANGED <<url_previews, lazyVars, promoted, pfile, forgotten, previewed>>
  PROVE  PreviewInv'
<1>1. /\ previewer' \in [Clients -> PreviewerType] /\ previewer'[p] = r
      /\ \A q \in Clients : q # p => previewer'[q] = previewer[q]
  BY ClientReplaced, Zenon DEF PreviewInv
<1>2. PreviewTypes'
  BY <1>1, Zenon DEF PreviewInv, PreviewTypes
<1>3. \A q, s \in Clients : UnderLock(q)' /\ UnderLock(s)' => q = s
  BY <1>1 DEF PreviewInv, UnderLock, Locked
<1>4. \A q \in Clients : previewer'[q].at \in {"fetch", "cache"} => ~url_previews'.valid
  BY <1>1, Zenon DEF PreviewInv
<1>5. \A m \in 1 .. previewed' : HasPicture(m)'
  BY Zenon DEF PreviewInv, HasPicture, lazyVars
<1>6. \A q \in Clients : /\ previewer'[q].mxc <= previewed'
                         /\ previewer'[q].at = "record" => previewer'[q].mxc \in pfile'
                         /\ previewer'[q].at = "unlazy" => previewer'[q].mxc \in promoted' \cap pfile'
  BY <1>1, Zenon DEF PreviewInv
<1> QED
  BY <1>2, <1>3, <1>4, <1>5, <1>6, Zenon DEF PreviewInv

\* The two ways a client's state is written.
LEMMA MovesIs ==
  ASSUME PreviewInv, NEW p \in Clients, NEW at \in {"lock", "recheck", "fetch", "record", "unlazy"}, Moves(p, at)
  PROVE  \E r \in PreviewerType : previewer' = [previewer EXCEPT ![p] = r] /\ r.at = at /\ r.mxc = previewer[p].mxc
<1> DEFINE r == [previewer[p] EXCEPT !.at = at]
<1>1. r \in PreviewerType /\ r.at = at /\ r.mxc = previewer[p].mxc
  BY Zenon DEF PreviewInv, PreviewTypes, PreviewerType
<1> QED
  BY <1>1, Zenon DEF Moves

LEMMA NoPreviewIs == NoPreview \in PreviewerType /\ NoPreview.at = "idle" /\ NoPreview.mxc = 0
BY Zenon DEF NoPreview, PreviewerType

LEMMA RestsKeeps ==
  ASSUME PreviewInv, NEW p \in Clients, Rests(p),
         UNCHANGED <<url_previews, lazyVars, promoted, pfile, forgotten, previewed>>
  PROVE  PreviewInv'
<1>1. 0 <= previewed
  BY DEF PreviewInv, PreviewTypes
<1> QED
  BY <1>1, NoPreviewIs, ClientMoves, Zenon DEF Rests

LEMMA GoingKeeps ==
  ASSUME PreviewInv, NEW p \in Clients,
         url_preview(p) \/ get_url_preview(p) \/ Recheck(p) \/ Stop(p)
  PROVE  PreviewInv'
<1>1. \A at \in {"lock", "recheck", "fetch"} : previewer[p].mxc <= previewed
  BY Zenon DEF PreviewInv
<1>2. CASE url_preview(p)
  BY <1>1, <1>2, MovesIs, ClientMoves DEF url_preview
<1>3. CASE get_url_preview(p)
  BY <1>1, <1>3, MovesIs, ClientMoves DEF get_url_preview
<1>4. CASE Recheck(p)
  BY <1>1, <1>4, MovesIs, ClientMoves, RestsKeeps DEF Recheck, UnderLock
<1>5. CASE Stop(p)
  BY <1>5, RestsKeeps, Zenon DEF Stop
<1> QED
  BY <1>2, <1>3, <1>4, <1>5, Zenon

LEMMA FetchKeeps == ASSUME PreviewInv, NEW p \in Clients, Fetch(p) PROVE PreviewInv'
<1>1. CASE Rests(p) /\ UNCHANGED <<lazyVars, previewed>>
  BY <1>1, RestsKeeps, Zenon DEF Fetch
<1>2. CASE ~(Rests(p) /\ UNCHANGED <<lazyVars, previewed>>)
  <2>1. PICK m \in Nat : /\ previewer' = [previewer EXCEPT ![p] = [at |-> "cache", mxc |-> m]]
                         /\ \/ m = 0 /\ UNCHANGED <<lazyVars, previewed>>
                            \/ /\ m = previewed + 1 /\ previewed' = m
                               /\ mediaid_lazy' = mediaid_lazy \cup {m}
    <3>1. previewed + 1 \in Nat
      BY DEF PreviewInv, PreviewTypes
    <3> QED
      BY <1>2, <3>1, Zenon DEF Fetch
  <2> DEFINE r == [at |-> "cache", mxc |-> m]
  <2>2. r \in PreviewerType /\ r.at = "cache" /\ r.mxc = m /\ previewer' = [previewer EXCEPT ![p] = r]
    BY <2>1, Zenon DEF PreviewerType
  <2> HIDE DEF r
  <2>3. /\ previewer' \in [Clients -> PreviewerType] /\ previewer'[p] = r
        /\ \A q \in Clients : q # p => previewer'[q] = previewer[q]
    BY <2>2, ClientReplaced, Zenon DEF PreviewInv
  <2>4. /\ previewer[p].at = "fetch" /\ UNCHANGED <<url_previews, promoted, pfile, forgotten>>
        /\ previewed' \in Nat /\ previewed \in Nat /\ previewed <= previewed' /\ m <= previewed'
        /\ mediaid_lazy \subseteq mediaid_lazy' /\ \A n \in 1 .. previewed' : n \in 1 .. previewed \/ n \in mediaid_lazy'
    BY <2>1 DEF Fetch, PreviewInv, PreviewTypes, lazyVars
  <2>5. PreviewTypes'
    BY <2>3, <2>4, Zenon DEF PreviewInv, PreviewTypes
  <2>6. \A q, s \in Clients : UnderLock(q)' /\ UnderLock(s)' => q = s
    BY <2>3, <2>4, Zenon DEF PreviewInv, UnderLock
  <2>7. \A q \in Clients : previewer'[q].at \in {"fetch", "cache"} => ~url_previews'.valid
    BY <2>3, <2>4, Zenon DEF PreviewInv
  <2>8. \A n \in 1 .. previewed' : HasPicture(n)'
    BY <2>4, Zenon DEF PreviewInv, HasPicture
  <2>9. \A q \in Clients : previewer[q].mxc \in Nat
    BY Zenon DEF PreviewInv, PreviewTypes, PreviewerType
  <2>10. \A q \in Clients : /\ previewer'[q].mxc <= previewed'
                            /\ previewer'[q].at = "record" => previewer'[q].mxc \in pfile'
                            /\ previewer'[q].at = "unlazy" => previewer'[q].mxc \in promoted' \cap pfile'
    BY <2>2, <2>3, <2>4, <2>9 DEF PreviewInv
  <2>11. url_previews'.mxc <= previewed'
    BY <2>4 DEF PreviewInv, PreviewTypes
  <2> QED
    BY <2>5, <2>6, <2>7, <2>8, <2>10, <2>11, Zenon DEF PreviewInv
<1> QED
  BY <1>1, <1>2, Zenon

LEMMA SetPreviewKeeps == ASSUME PreviewInv, NEW p \in Clients, set_url_preview(p) PROVE PreviewInv'
<1>1. /\ previewer[p].at = "cache" /\ url_previews' = [valid |-> TRUE, mxc |-> previewer[p].mxc]
      /\ previewer' = [previewer EXCEPT ![p] = NoPreview]
      /\ UNCHANGED <<lazyVars, promoted, pfile, forgotten, previewed>>
  BY Zenon DEF set_url_preview, Rests
<1>2. /\ previewer' \in [Clients -> PreviewerType] /\ previewer'[p] = NoPreview
      /\ \A q \in Clients : q # p => previewer'[q] = previewer[q]
  BY <1>1, NoPreviewIs, ClientReplaced, Zenon DEF PreviewInv
<1>3. previewer[p].mxc \in Nat /\ previewed \in Nat
  BY Zenon DEF PreviewInv, PreviewTypes, PreviewerType
<1>4. PreviewTypes'
  BY <1>1, <1>2, <1>3, Zenon DEF PreviewInv, PreviewTypes
<1>5. \A q \in Clients : ~UnderLock(q)'
  BY <1>1, <1>2, NoPreviewIs, Zenon DEF PreviewInv, UnderLock
<1>6. \A m \in 1 .. previewed' : HasPicture(m)'
  BY <1>1, Zenon DEF PreviewInv, HasPicture, lazyVars
<1>7. \A q \in Clients : /\ previewer'[q].mxc <= previewed'
                         /\ previewer'[q].at = "record" => previewer'[q].mxc \in pfile'
                         /\ previewer'[q].at = "unlazy" => previewer'[q].mxc \in promoted' \cap pfile'
  BY <1>1, <1>2, <1>3, NoPreviewIs DEF PreviewInv
<1>8. url_previews'.mxc <= previewed'
  BY <1>1, Zenon DEF PreviewInv
<1> QED
  BY <1>4, <1>5, <1>6, <1>7, <1>8, Zenon DEF PreviewInv, UnderLock

LEMMA ExpiredKeeps == ASSUME PreviewInv, is_expired PROVE PreviewInv'
<1> DEFINE new == [url_previews EXCEPT !.valid = FALSE]
<1>1. new \in [valid : BOOLEAN, mxc : Nat] /\ new.valid = FALSE /\ new.mxc = url_previews.mxc
  BY Zenon DEF PreviewInv, PreviewTypes
<1>2. url_previews' = new /\ UNCHANGED <<lazyVars, promoted, pfile, previewer, forgotten, previewed>>
  BY Zenon DEF is_expired
<1> HIDE DEF new
<1> QED
  BY <1>1, <1>2, Zenon DEF PreviewInv, PreviewTypes, UnderLock, HasPicture, lazyVars

LEMMA LazyContentKeeps ==
  ASSUME PreviewInv, NEW p \in Clients, get_lazy_content(p, url_previews.mxc)
  PROVE  PreviewInv'
<1> DEFINE r == [at |-> "file", mxc |-> url_previews.mxc]
<1>1. r \in PreviewerType /\ r.at = "file" /\ r.mxc <= previewed
  BY Zenon DEF PreviewerType, PreviewInv, PreviewTypes
<1>2. previewer' = [previewer EXCEPT ![p] = r] /\ UNCHANGED <<url_previews, lazyVars, promoted, pfile, forgotten, previewed>>
  BY Zenon DEF get_lazy_content
<1> HIDE DEF r
<1> QED
  BY <1>1, <1>2, ClientMoves, Zenon

LEMMA PromoteKeeps == ASSUME PreviewInv, NEW p \in Clients, Promote(p) PROVE PreviewInv'
<1>1. PICK r \in PreviewerType :
        /\ previewer' = [previewer EXCEPT ![p] = r] /\ r.mxc \in {0, previewer[p].mxc}
        /\ r.at \in {"idle", "record", "unlazy"}
        /\ r.at = "record" => r.mxc \in pfile'
        /\ r.at = "unlazy" => r.mxc \in promoted' \cap pfile'
  <2>1. CASE previewer[p].at = "file"
    BY <2>1, MovesIs, Zenon DEF Promote
  <2>2. CASE previewer[p].at = "record"
    BY <2>2, MovesIs DEF Promote, PreviewInv
  <2>3. CASE previewer[p].at = "unlazy"
    BY <2>3, NoPreviewIs, Zenon DEF Promote, Rests
  <2> QED
    BY <2>1, <2>2, <2>3, Zenon DEF Promote
<1>2. /\ pfile \subseteq pfile' /\ promoted \subseteq promoted'
      /\ \A m \in mediaid_lazy : m \in mediaid_lazy' \/ m \in promoted \cap pfile
  <2>1. CASE previewer[p].at = "file"
    BY <2>1, Zenon DEF Promote, lazyVars
  <2>2. CASE previewer[p].at = "record"
    BY <2>2, Zenon DEF Promote, lazyVars
  <2>3. CASE previewer[p].at = "unlazy"
    BY <2>3, Zenon DEF Promote, PreviewInv
  <2> QED
    BY <2>1, <2>2, <2>3, Zenon DEF Promote
<1>3. UNCHANGED <<url_previews, forgotten, previewed>>
  BY Zenon DEF Promote
<1>4. /\ previewer' \in [Clients -> PreviewerType] /\ previewer'[p] = r
      /\ \A q \in Clients : q # p => previewer'[q] = previewer[q]
  BY <1>1, ClientReplaced, Zenon DEF PreviewInv
<1>5. PreviewTypes'
  BY <1>3, <1>4, Zenon DEF PreviewInv, PreviewTypes
<1>6. \A q \in Clients : UnderLock(q)' => UnderLock(q)
  BY <1>1, <1>4, Zenon DEF UnderLock
<1>7. \A q \in Clients : previewer'[q].at \in {"fetch", "cache"} => ~url_previews'.valid
  BY <1>1, <1>3, <1>4, Zenon DEF PreviewInv
<1>8. \A m \in 1 .. previewed' : HasPicture(m)'
  BY <1>2, <1>3, Zenon DEF PreviewInv, HasPicture
<1>9. previewed \in Nat
  BY Zenon DEF PreviewInv, PreviewTypes
<1>10. \A q \in Clients : /\ previewer'[q].mxc <= previewed'
                          /\ previewer'[q].at = "record" => previewer'[q].mxc \in pfile'
                          /\ previewer'[q].at = "unlazy" => previewer'[q].mxc \in promoted' \cap pfile'
  BY <1>1, <1>2, <1>3, <1>4, <1>9 DEF PreviewInv
<1> QED
  BY <1>3, <1>5, <1>6, <1>7, <1>8, <1>10, Zenon DEF PreviewInv

LEMMA ForgetKeeps == ASSUME PreviewInv, NEW m \in mediaid_lazy, forget_lazy_media(m) PROVE PreviewInv'
<1>1. /\ mediaid_lazy' = mediaid_lazy \ {m} /\ forgotten' = forgotten \cup {m}
      /\ UNCHANGED <<url_previews, promoted, pfile, previewer, previewed>>
  BY Zenon DEF forget_lazy_media
<1>2. \A n \in 1 .. previewed' : HasPicture(n)'
  BY <1>1, Zenon DEF PreviewInv, HasPicture
<1> QED
  BY <1>1, <1>2, Zenon DEF PreviewInv, PreviewTypes, UnderLock

LEMMA PreviewKeeps == PreviewInv /\ [PreviewNext]_previewVars => PreviewInv'
<1> SUFFICES ASSUME PreviewInv, [PreviewNext]_previewVars PROVE PreviewInv'
  BY Zenon
<1>1. CASE UNCHANGED previewVars
  BY <1>1, Zenon DEF previewVars, PreviewInv, PreviewTypes, UnderLock, HasPicture
<1> QED
  BY <1>1, GoingKeeps, FetchKeeps, SetPreviewKeeps, ExpiredKeeps, LazyContentKeeps, PromoteKeeps, ForgetKeeps, Zenon
     DEF PreviewNext

LEMMA PreviewIsSound == PreviewInv => FetchedOnce /\ PictureIsThere
<1> SUFFICES ASSUME PreviewInv PROVE FetchedOnce /\ PictureIsThere
  BY Zenon
<1>1. FetchedOnce
  BY Zenon DEF PreviewInv, FetchedOnce
<1>2. url_previews.mxc # 0 => url_previews.mxc \in 1 .. previewed
  BY DEF PreviewInv, PreviewTypes
<1> QED
  BY <1>1, <1>2, Zenon DEF PreviewInv, HasPicture, PictureIsThere

-----------------------------------------------------------------------------
(* The media store.                                                        *)

Stages == {"idle", "write", "record", "answered", "forget", "notify", "await", "register", "check", "wait", "reget",
           "get", "fetch", "serve", "release", "generate", "slot", "stage", "run", "listed", "unlink", "unrecord"}

MediaTask == [op : {"none", "upload", "file", "thumbnail", "delete"}, at : Stages, key : Keys,
              after : {"idle", "answered", "forget", "serve", "release"}, notify : Nat, woken : BOOLEAN,
              todo : SUBSET Keys, under : BOOLEAN, got : BOOLEAN]

MediaTypes ==
  /\ mtask \in [Tasks -> MediaTask]
  /\ files \in SUBSET Keys /\ mediaid_file \in SUBSET Keys
  /\ mediaid_pending \in {"none", "live", "expired"} /\ mediaid_quarantine \in BOOLEAN /\ ours \in BOOLEAN
  /\ deletions \in Nat /\ requests \in Nat /\ notifiers \in Nat /\ notifyId \in Nat

\* The stages at which a request has the media in hand.
Giving == {"write", "record", "answered", "forget", "notify", "serve", "release", "generate", "slot", "stage", "run"}
Storing == {"write", "record"}
Waiting == {"register", "check", "wait"}

\* What holds of a request by itself.
TaskOK(r) ==
  /\ r.under => mediaid_quarantine /\ ~r.got /\ r.at \notin Giving
  /\ r.at \in Storing /\ r.key = "original" => ~ours \/ (r.op = "upload" /\ r.after \in {"forget", "answered"})
  /\ r.at \in Storing /\ r.after = "forget" => r.key = "original"
  /\ r.at = "fetch" => ~ours

TaskRules == \A p \in Tasks : TaskOK(mtask[p])

\* An upload under a fresh id, which nobody can be waiting for.
First(r) == r.op = "upload" /\ r.after = "answered" /\ r.at \in Storing
NobodyWaits == mediaid_pending = "none" /\ \A q \in Tasks : mtask[q].at \notin Waiting

FreshIds ==
  /\ ~ours => NobodyWaits
  /\ (\E u \in Tasks : First(mtask[u])) => NobodyWaits
  /\ requests = 0 => mediaid_pending = "none" /\ \A q \in Tasks : mtask[q] = Resting

\* Nothing deleted: what a request has done so far is in the store.
KeptOK(r) ==
  /\ r.at \notin {"unlink", "unrecord"}
  /\ r.at = "record" => r.key \in files
  /\ r.at \in {"forget", "notify"} => exists
  /\ r.woken => exists

KeptInv == deletions = 0 => mediaid_file \subseteq files /\ \A p \in Tasks : KeptOK(mtask[p])

(* Who waits without having been woken holds the Notify of the map.  A woken
   waiter may take a newer one out of it; but then nobody waits unwoken. *)
ToldInv ==
  deletions = 0 =>
    /\ \A p \in Tasks : /\ mtask[p].at \in {"check", "wait"} /\ ~mtask[p].woken
                        /\ mtask[p].at = "check" => ~exists
                        => mtask[p].notify = notifiers /\ notifiers # 0
    /\ \A p, q \in Tasks : mtask[q].woken /\ mtask[p].at = "wait" => mtask[p].woken
    /\ \A p \in Tasks : mtask[p].at = "wait" /\ ~mtask[p].woken /\ exists =>
         \E u \in Tasks : mtask[u].at \in {"forget", "notify"}

InFrame == {p \in Tasks : mtask[p].at \in {"stage", "run"}}
StagingInv ==
  /\ staged = {p \in Tasks : mtask[p].at = "run"}
  /\ InFrame = {p \in Tasks : \E s \in FrameSlots : <<s, p>> \in frame_slots}
  /\ \A s \in FrameSlots, p, q \in Tasks : <<s, p>> \in frame_slots /\ <<s, q>> \in frame_slots => p = q

MediaInv == MediaTypes /\ TaskRules /\ FreshIds /\ KeptInv /\ ToldInv /\ StagingInv

LEMMA RestingIs ==
  /\ Resting \in MediaTask /\ Resting.op = "none" /\ Resting.at = "idle" /\ Resting.after = "idle"
  /\ Resting.key = "original" /\ Resting.notify = 0 /\ ~Resting.woken /\ ~Resting.under /\ ~Resting.got
BY Zenon DEF Resting, MediaTask, Stages, Keys

LEMMA MediaStart == MediaInit => MediaInv
<1> SUFFICES ASSUME MediaInit PROVE MediaInv
  BY Zenon
<1>1. \A p \in Tasks : mtask[p] = Resting
  BY Zenon DEF MediaInit
<1>2. MediaTypes
  BY RestingIs, Zenon DEF MediaInit, MediaTypes
<1>3. TaskRules /\ FreshIds /\ KeptInv /\ ToldInv
  BY <1>1, RestingIs, Zenon DEF MediaInit, TaskRules, TaskOK, FreshIds, First, NobodyWaits, KeptInv, KeptOK, ToldInv,
                         Storing, Waiting
<1>4. StagingInv
  <2>1. InFrame = {} /\ staged = {p \in Tasks : mtask[p].at = "run"}
    BY <1>1, RestingIs, Zenon DEF MediaInit, InFrame
  <2> QED
    BY <2>1, Zenon DEF MediaInit, StagingInv
<1> QED
  BY <1>2, <1>3, <1>4, Zenon DEF MediaInv

\* One request's state is replaced.
Replaced(p, r) ==
  /\ mtask' \in [Tasks -> MediaTask] /\ mtask'[p] = r
  /\ \A q \in Tasks : q # p => mtask'[q] = mtask[q]

LEMMA ReplacedIs ==
  ASSUME MediaInv, NEW p \in Tasks, NEW r \in MediaTask, mtask' = [mtask EXCEPT ![p] = r]
  PROVE  Replaced(p, r)
BY Zenon DEF MediaInv, MediaTypes, Replaced

\* The ways a request's state is written.
LEMMA GoesIs ==
  ASSUME MediaInv, NEW p \in Tasks, NEW at \in Stages, Goes(p, at)
  PROVE  \E r \in MediaTask : /\ Replaced(p, r) /\ r.at = at
                              /\ r.op = mtask[p].op /\ r.key = mtask[p].key /\ r.after = mtask[p].after
                              /\ r.notify = mtask[p].notify /\ r.woken = mtask[p].woken
                              /\ r.under = mtask[p].under /\ r.got = mtask[p].got
<1> DEFINE r == [mtask[p] EXCEPT !.at = at]
<1>1. mtask[p] \in MediaTask
  BY Zenon DEF MediaInv, MediaTypes
<1>2. /\ r \in MediaTask /\ r.at = at
      /\ r.op = mtask[p].op /\ r.key = mtask[p].key /\ r.after = mtask[p].after
      /\ r.notify = mtask[p].notify /\ r.woken = mtask[p].woken
      /\ r.under = mtask[p].under /\ r.got = mtask[p].got
  BY <1>1, Zenon DEF MediaTask
<1>3. mtask' = [mtask EXCEPT ![p] = r]
  BY Zenon DEF Goes
<1> HIDE DEF r
<1> QED
  BY <1>2, <1>3, ReplacedIs, Zenon

LEMMA StoresIs ==
  ASSUME MediaInv, NEW p \in Tasks, NEW key \in Keys, NEW after \in {"serve", "release"}, Stores(p, key, after)
  PROVE  \E r \in MediaTask : /\ Replaced(p, r) /\ r.at = "write" /\ r.key = key /\ r.after = after
                              /\ r.op = mtask[p].op /\ r.notify = mtask[p].notify /\ r.woken = mtask[p].woken
                              /\ r.under = mtask[p].under /\ r.got = mtask[p].got
<1> DEFINE r == [mtask[p] EXCEPT !.at = "write", !.key = key, !.after = after]
<1>1. mtask[p] \in MediaTask
  BY Zenon DEF MediaInv, MediaTypes
<1>2. /\ r \in MediaTask /\ r.at = "write" /\ r.key = key /\ r.after = after
      /\ r.op = mtask[p].op /\ r.notify = mtask[p].notify /\ r.woken = mtask[p].woken
      /\ r.under = mtask[p].under /\ r.got = mtask[p].got
  BY <1>1, Zenon DEF MediaTask, Stages
<1>3. mtask' = [mtask EXCEPT ![p] = r]
  BY Zenon DEF Stores
<1> HIDE DEF r
<1> QED
  BY <1>2, <1>3, ReplacedIs, Zenon

LEMMA ServesIs ==
  ASSUME MediaInv, NEW p \in Tasks, ServesIt(p)
  PROVE  \E r \in MediaTask : /\ Replaced(p, r) /\ r.at = "answered" /\ r.after = "idle"
                              /\ r.woken = mtask[p].woken /\ r.under = mtask[p].under
<1> DEFINE r == [mtask[p] EXCEPT !.at = "answered", !.after = "idle", !.got = TRUE]
<1>1. mtask[p] \in MediaTask
  BY Zenon DEF MediaInv, MediaTypes
<1>2. /\ r \in MediaTask /\ r.at = "answered" /\ r.after = "idle"
      /\ r.woken = mtask[p].woken /\ r.under = mtask[p].under
  BY <1>1, Zenon DEF MediaTask, Stages
<1>3. mtask' = [mtask EXCEPT ![p] = r]
  BY Zenon DEF ServesIt
<1> HIDE DEF r
<1> QED
  BY <1>2, <1>3, ReplacedIs, Zenon

LEMMA EndsIs == ASSUME MediaInv, NEW p \in Tasks, TaskEnds(p) PROVE Replaced(p, Resting)
BY RestingIs, ReplacedIs, Zenon DEF TaskEnds

LEMMA RequestIs ==
  ASSUME MediaInv, NEW p \in Tasks, NEW what \in {"file", "thumbnail", "delete"}, NEW at \in {"get", "listed"},
         Request(p, what, at)
  PROVE  /\ requests' = requests + 1
         /\ \E r \in MediaTask : /\ Replaced(p, r) /\ r.at = at /\ r.after = "idle" /\ ~r.woken /\ ~r.got
                                 /\ r.under = mediaid_quarantine
<1> DEFINE r == [Resting EXCEPT !.op = what, !.at = at, !.under = mediaid_quarantine]
<1>1. r \in MediaTask /\ r.at = at /\ r.after = "idle" /\ ~r.woken /\ ~r.got /\ r.under = mediaid_quarantine
  BY Zenon DEF MediaInv, MediaTypes, MediaTask, Stages, Resting, Keys
<1>2. requests' = requests + 1 /\ mtask' = [mtask EXCEPT ![p] = r]
  BY Zenon DEF Request
<1> HIDE DEF r
<1> QED
  BY <1>1, <1>2, ReplacedIs, Zenon

LEMMA Busy == ASSUME MediaInv, NEW p \in Tasks, mtask[p].at # "idle" PROVE requests # 0
BY RestingIs, Zenon DEF MediaInv, FreshIds

-----------------------------------------------------------------------------
\* What a step of one request does to each part of the invariant.

LEMMA RulesStep ==
  ASSUME MediaInv, NEW p \in Tasks, NEW r, Replaced(p, r), TaskOK(r), UNCHANGED <<ours, mediaid_quarantine>>
  PROVE  TaskRules'
BY DEF MediaInv, TaskRules, TaskOK, Replaced

LEMMA FreshStep ==
  ASSUME MediaInv, NEW p \in Tasks, NEW r, Replaced(p, r), UNCHANGED ours,
         mediaid_pending' \in {mediaid_pending, "none"}, requests' # 0,
         r.at \in Waiting => mtask[p].at \in Waiting \/ mediaid_pending = "live",
         First(r) => First(mtask[p]) \/ requests = 0
  PROVE  FreshIds'
<1>1. NobodyWaits => NobodyWaits'
  BY Zenon DEF NobodyWaits, Replaced
<1>2. requests = 0 => NobodyWaits
  BY RestingIs, Zenon DEF MediaInv, FreshIds, NobodyWaits, Waiting
<1>3. (\E u \in Tasks : First(mtask'[u])) => (\E u \in Tasks : First(mtask[u])) \/ requests = 0
  BY Zenon DEF Replaced
<1>4. (\E u \in Tasks : First(mtask'[u])) => NobodyWaits'
  BY <1>1, <1>2, <1>3, Zenon DEF MediaInv, FreshIds
<1>5. ~ours' => NobodyWaits'
  BY <1>1, Zenon DEF MediaInv, FreshIds
<1> QED
  BY <1>4, <1>5, Zenon DEF FreshIds, First

LEMMA KeptStep ==
  ASSUME MediaInv, NEW p \in Tasks, NEW r, Replaced(p, r),
         deletions' = 0 => /\ deletions = 0 /\ files \subseteq files' /\ mediaid_file \subseteq mediaid_file'
                           /\ mediaid_file' \subseteq files'
                           /\ r.at \notin {"unlink", "unrecord"}
                           /\ r.at = "record" => r.key \in files'
                           /\ r.at \in {"forget", "notify"} => exists'
                           /\ r.woken => exists'
  PROVE  KeptInv'
BY Zenon DEF MediaInv, KeptInv, KeptOK, Replaced, exists

LEMMA ToldStep ==
  ASSUME MediaInv, NEW p \in Tasks, NEW r, Replaced(p, r),
         deletions' = 0 => /\ deletions = 0 /\ exists' = exists /\ notifiers' = notifiers
                           /\ r.at \notin {"check", "wait"}
                           /\ r.woken => mtask[p].woken
                           /\ mtask[p].at \in {"forget", "notify"} => r.at \in {"forget", "notify"}
  PROVE  ToldInv'
<1> SUFFICES ASSUME deletions' = 0 PROVE ToldInv'
  BY Zenon DEF ToldInv
<1>1. /\ deletions = 0 /\ exists' = exists /\ notifiers' = notifiers /\ r.at \notin {"check", "wait"}
      /\ r.woken => mtask[p].woken
      /\ mtask[p].at \in {"forget", "notify"} => r.at \in {"forget", "notify"}
  BY Zenon
<1>2. mtask'[p] = r /\ \A q \in Tasks : q # p => mtask'[q] = mtask[q]
  BY Zenon DEF Replaced
<1>3. \A q \in Tasks : /\ mtask'[q].at \in {"check", "wait"} /\ ~mtask'[q].woken
                       /\ mtask'[q].at = "check" => ~exists'
                       => mtask'[q].notify = notifiers' /\ notifiers' # 0
  BY <1>1, <1>2, Zenon DEF MediaInv, ToldInv
<1>4. \A s, q \in Tasks : mtask'[q].woken /\ mtask'[s].at = "wait" => mtask'[s].woken
  BY <1>1, <1>2, Zenon DEF MediaInv, ToldInv
<1>5. \A q \in Tasks : mtask'[q].at = "wait" /\ ~mtask'[q].woken /\ exists' =>
         \E u \in Tasks : mtask'[u].at \in {"forget", "notify"}
  BY <1>1, <1>2, Zenon DEF MediaInv, ToldInv
<1> QED
  BY <1>3, <1>4, <1>5, Zenon DEF ToldInv

LEMMA StagingStep ==
  ASSUME MediaInv, NEW p \in Tasks, NEW r, Replaced(p, r), UNCHANGED staged,
         \A f \in FrameSlots, q \in Tasks : <<f, q>> \in frame_slots' <=> <<f, q>> \in frame_slots,
         r.at \notin {"stage", "run"}, mtask[p].at \notin {"stage", "run"}
  PROVE  StagingInv'
<1>1. InFrame' = InFrame
  BY Zenon DEF InFrame, Replaced
<1>2. {q \in Tasks : mtask'[q].at = "run"} = {q \in Tasks : mtask[q].at = "run"}
  BY Zenon DEF Replaced
<1> QED
  BY <1>1, <1>2, Zenon DEF MediaInv, StagingInv

\* A request moves on and leaves the store, the reservation and the Notify
\* alone.
LEMMA StepAside ==
  ASSUME MediaInv, NEW p \in Tasks, NEW r \in MediaTask, Replaced(p, r), requests' \in Nat, requests' # 0,
         UNCHANGED <<ours, storeVars, mediaid_pending, mediaid_quarantine, deletions, waitVars>>, StagingInv',
         TaskOK(r), First(r) => requests = 0, r.woken => mtask[p].woken,
         r.at \notin {"record", "forget", "notify", "check", "wait", "unlink", "unrecord"},
         mtask[p].at \notin {"forget", "notify"},
         r.at = "register" => mediaid_pending = "live"
  PROVE  MediaInv'
<1>1. UNCHANGED <<ours, files, mediaid_file, mediaid_pending, mediaid_quarantine, deletions, notifiers, notifyId>>
  BY Zenon DEF storeVars, waitVars
<1>2. MediaTypes'
  BY <1>1, Zenon DEF MediaInv, MediaTypes, Replaced
<1>3. TaskRules'
  BY <1>1, RulesStep, Zenon
<1>4. FreshIds'
  BY <1>1, FreshStep, Zenon DEF Waiting
<1>5. exists' = exists
  BY <1>1, Zenon DEF exists
<1>6. KeptInv'
  BY <1>1, <1>5, KeptStep, Zenon DEF MediaInv, KeptInv, KeptOK
<1>7. ToldInv'
  BY <1>1, <1>5, ToldStep, Zenon
<1> QED
  BY <1>2, <1>3, <1>4, <1>6, <1>7, Zenon DEF MediaInv

\* The same, and the thumbnailer's slots alone.
LEMMA Step ==
  ASSUME MediaInv, NEW p \in Tasks, NEW r \in MediaTask, Replaced(p, r), requests' \in Nat, requests' # 0, ReadOnly,
         TaskOK(r), First(r) => requests = 0, r.woken => mtask[p].woken,
         r.at \notin {"record", "forget", "notify", "check", "wait", "unlink", "unrecord", "stage", "run"},
         mtask[p].at \notin {"forget", "notify", "stage", "run"},
         r.at = "register" => mediaid_pending = "live"
  PROVE  MediaInv'
<1>1. /\ UNCHANGED <<ours, storeVars, mediaid_pending, mediaid_quarantine, deletions, waitVars>>
      /\ UNCHANGED <<staged, frame_slots>>
  BY Zenon DEF ReadOnly, videoVars
<1>2. StagingInv'
  BY <1>1, StagingStep, Zenon
<1> QED
  BY <1>1, <1>2, StepAside, Zenon

-----------------------------------------------------------------------------
\* The moves the handlers are made of.

Elsewhere == {"forget", "notify", "stage", "run", "idle"}

LEMMA ServingKeeps ==
  ASSUME MediaInv, NEW p \in Tasks, ServesIt(p), mtask[p].at \notin Elsewhere, ~mtask[p].under,
         UNCHANGED requests, ReadOnly
  PROVE  MediaInv'
<1>1. PICK r \in MediaTask : /\ Replaced(p, r) /\ r.at = "answered" /\ r.after = "idle"
                             /\ r.woken = mtask[p].woken /\ r.under = mtask[p].under
  BY ServesIs, Zenon
<1>2. TaskOK(r) /\ ~First(r)
  BY <1>1, Zenon DEF TaskOK, First, Storing
<1>3. requests' \in Nat /\ requests' # 0
  BY Busy, Zenon DEF Elsewhere, MediaInv, MediaTypes
<1> QED
  BY <1>1, <1>2, <1>3, Step, Zenon DEF Elsewhere

LEMMA EndingKeeps ==
  ASSUME MediaInv, NEW p \in Tasks, TaskEnds(p), mtask[p].at \notin Elsewhere, UNCHANGED requests, ReadOnly
  PROVE  MediaInv'
<1>1. Replaced(p, Resting)
  BY EndsIs, Zenon
<1>2. TaskOK(Resting) /\ ~First(Resting)
  BY RestingIs, Zenon DEF TaskOK, First, Storing
<1>3. requests' \in Nat /\ requests' # 0
  BY Busy, Zenon DEF Elsewhere, MediaInv, MediaTypes
<1> QED
  BY <1>1, <1>2, <1>3, RestingIs, Step, Zenon DEF Elsewhere

LEMMA GoingOnKeeps ==
  ASSUME MediaInv, NEW p \in Tasks, NEW at \in {"await", "fetch", "generate", "slot", "register"}, Goes(p, at),
         mtask[p].at \notin Elsewhere, UNCHANGED requests, ReadOnly,
         at = "fetch" => ~ours, at \in {"generate", "slot"} => ~mtask[p].under,
         at = "register" => mediaid_pending = "live"
  PROVE  MediaInv'
<1>1. at \in Stages
  BY Zenon DEF Stages
<1>2. PICK r \in MediaTask : /\ Replaced(p, r) /\ r.at = at /\ r.woken = mtask[p].woken
                             /\ r.under = mtask[p].under /\ r.got = mtask[p].got
  BY <1>1, GoesIs, Zenon
<1>3. TaskOK(mtask[p])
  BY Zenon DEF MediaInv, TaskRules
<1>4. TaskOK(r) /\ ~First(r)
  BY <1>2, <1>3, Zenon DEF TaskOK, First, Storing, Giving
<1>5. requests' \in Nat /\ requests' # 0
  BY Busy, Zenon DEF Elsewhere, MediaInv, MediaTypes
<1> QED
  BY <1>2, <1>4, <1>5, Step, Zenon DEF Elsewhere

LEMMA StoringKeeps ==
  ASSUME MediaInv, NEW p \in Tasks, NEW key \in Keys, NEW after \in {"serve", "release"}, Stores(p, key, after),
         mtask[p].at \notin Elsewhere, ~mtask[p].under, key = "original" => ~ours, UNCHANGED requests, ReadOnly
  PROVE  MediaInv'
<1>1. PICK r \in MediaTask : /\ Replaced(p, r) /\ r.at = "write" /\ r.key = key /\ r.after = after
                             /\ r.woken = mtask[p].woken /\ r.under = mtask[p].under
  BY StoresIs
<1>2. TaskOK(r) /\ ~First(r)
  BY <1>1, Zenon DEF TaskOK, First
<1>3. requests' \in Nat /\ requests' # 0
  BY Busy, Zenon DEF Elsewhere, MediaInv, MediaTypes
<1> QED
  BY <1>1, <1>2, <1>3, Step, Zenon DEF Elsewhere

\* No request that runs under quarantine finds the media.
LEMMA FoundIsFree ==
  ASSUME MediaInv, NEW p \in Tasks, NEW key, get_file(key)
  PROVE  ~mtask[p].under
BY Zenon DEF MediaInv, TaskRules, TaskOK, get_file, refuse_quarantined

LEMMA HandIsFree ==
  ASSUME MediaInv, NEW p \in Tasks, mtask[p].at \in Giving
  PROVE  ~mtask[p].under
BY Zenon DEF MediaInv, TaskRules, TaskOK

LEMMA NewRequestKeeps ==
  ASSUME MediaInv, NEW p \in Tasks, fetch_file(p) \/ fetch_thumbnail(p) \/ list(p)
  PROVE  MediaInv'
<1>1. \E what \in {"file", "thumbnail", "delete"}, at \in {"get", "listed"} : Request(p, what, at) /\ ReadOnly
  BY Zenon DEF fetch_file, fetch_thumbnail, list
<1>2. mtask[p].at = "idle" /\ requests' = requests + 1 /\ ReadOnly
  BY <1>1, Zenon DEF Request
<1>3. PICK r \in MediaTask : /\ Replaced(p, r) /\ r.at \in {"get", "listed"} /\ ~r.woken /\ ~r.got
                             /\ r.under = mediaid_quarantine
  BY <1>1, RequestIs
<1>4. TaskOK(r) /\ ~First(r)
  BY <1>3, Zenon DEF TaskOK, First, Storing, Giving
<1>5. requests' \in Nat /\ requests' # 0
  BY <1>2 DEF MediaInv, MediaTypes
<1> QED
  BY <1>2, <1>3, <1>4, <1>5, Step, Zenon

LEMMA UploadKeeps ==
  ASSUME MediaInv, NEW p \in Tasks, upload_pending(p) \/ create_content_route(p)
  PROVE  MediaInv'
<1>1. PICK after \in {"forget", "answered"} :
        /\ mtask' = [mtask EXCEPT ![p] = [Resting EXCEPT !.op = "upload", !.at = "write", !.after = after]]
        /\ mtask[p].at = "idle" /\ requests' = requests + 1 /\ ReadOnly
        /\ after = "answered" => requests = 0
  <2>1. CASE upload_pending(p)
    BY <2>1, Zenon DEF upload_pending, ReadOnly
  <2>2. CASE create_content_route(p)
    <3>1. requests = 0 /\ requests' = requests + 1
      BY <2>2 DEF create_content_route
    <3>2. mtask[p].at = "idle"
      BY <3>1, RestingIs, Zenon DEF MediaInv, FreshIds
    <3> QED
      BY <2>2, <3>1, <3>2, Zenon DEF create_content_route, ReadOnly
  <2> QED
    BY <2>1, <2>2, Zenon
<1> DEFINE r == [Resting EXCEPT !.op = "upload", !.at = "write", !.after = after]
<1>2. /\ r \in MediaTask /\ r.op = "upload" /\ r.at = "write" /\ r.after = after /\ r.key = "original"
      /\ ~r.woken /\ ~r.under
  BY Zenon DEF MediaTask, Stages, Resting, Keys
<1> HIDE DEF r
<1>3. Replaced(p, r)
  BY <1>1, <1>2, ReplacedIs, Zenon DEF r
<1>4. TaskOK(r) /\ (First(r) => requests = 0)
  BY <1>1, <1>2, Zenon DEF TaskOK, First
<1>5. requests' \in Nat /\ requests' # 0
  BY <1>1 DEF MediaInv, MediaTypes
<1> QED
  BY <1>1, <1>2, <1>3, <1>4, <1>5, Step, Zenon

LEMMA LookupKeeps ==
  ASSUME MediaInv, NEW p \in Tasks, get_or_fetch(p) \/ get_or_fetch_thumbnail(p) \/ fetch_remote_thumbnail(p)
  PROVE  MediaInv'
<1>1. mtask[p].at \in {"get", "fetch"} /\ UNCHANGED requests /\ ReadOnly
  BY Zenon DEF get_or_fetch, get_or_fetch_thumbnail, fetch_remote_thumbnail, TaskAt
<1>2. mtask[p].at \notin Elsewhere
  BY <1>1, Zenon DEF Elsewhere
<1>3. CASE get_or_fetch(p)
  <2>1. CASE get_file("original") /\ ServesIt(p)
    BY <1>1, <1>2, <2>1, FoundIsFree, ServingKeeps, Zenon
  <2>2. CASE \E at \in {"await", "fetch"} : Goes(p, at) /\ (at = "fetch" => ~ours)
    BY <1>1, <1>2, <2>2, GoingOnKeeps, Zenon
  <2> QED
    BY <1>3, <2>1, <2>2, Zenon DEF get_or_fetch
<1>4. CASE get_or_fetch_thumbnail(p)
  <2>1. CASE get_file("thumbnail") /\ ServesIt(p)
    BY <1>1, <1>2, <2>1, FoundIsFree, ServingKeeps, Zenon
  <2>2. CASE get_file("original") /\ Goes(p, "generate")
    BY <1>1, <1>2, <2>2, FoundIsFree, GoingOnKeeps, Zenon
  <2>3. CASE \E at \in {"await", "fetch"} : Goes(p, at) /\ (at = "fetch" => ~ours)
    BY <1>1, <1>2, <2>3, GoingOnKeeps, Zenon
  <2> QED
    BY <1>4, <2>1, <2>2, <2>3, Zenon DEF get_or_fetch_thumbnail
<1>5. CASE fetch_remote_thumbnail(p)
  <2>1. CASE get_file("thumbnail") /\ ServesIt(p)
    BY <1>1, <1>2, <2>1, FoundIsFree, ServingKeeps, Zenon
  <2>2. CASE Goes(p, "await")
    BY <1>1, <1>2, <2>2, GoingOnKeeps, Zenon
  <2>3. CASE ~refuse_quarantined /\ Stores(p, "thumbnail", "release")
    <3>1. ~mtask[p].under
      BY <2>3, Zenon DEF refuse_quarantined, MediaInv, TaskRules, TaskOK
    <3> QED
      BY <1>1, <1>2, <2>3, <3>1, StoringKeeps, Zenon DEF Keys
  <2> QED
    BY <1>5, <2>1, <2>2, <2>3, Zenon DEF fetch_remote_thumbnail
<1> QED
  BY <1>3, <1>4, <1>5, Zenon

LEMMA RemoteFileKeeps == ASSUME MediaInv, NEW p \in Tasks, fetch(p) PROVE MediaInv'
<1>1. mtask[p].at = "fetch" /\ UNCHANGED requests /\ ReadOnly
  BY Zenon DEF fetch, TaskAt
<1>2. mtask[p].at \notin Elsewhere /\ ~ours
  BY <1>1, Zenon DEF Elsewhere, MediaInv, TaskRules, TaskOK
<1>3. CASE Goes(p, "await")
  BY <1>1, <1>2, <1>3, GoingOnKeeps, Zenon
<1>4. CASE ~refuse_quarantined /\ Stores(p, "original", "serve")
  <2>1. ~mtask[p].under
    BY <1>4, Zenon DEF refuse_quarantined, MediaInv, TaskRules, TaskOK
  <2> QED
    BY <1>1, <1>2, <1>4, <2>1, StoringKeeps, Zenon DEF Keys
<1> QED
  BY <1>3, <1>4, Zenon DEF fetch

LEMMA AwaitKeeps == ASSUME MediaInv, NEW p \in Tasks, await_pending(p) PROVE MediaInv'
<1>1. mtask[p].at = "await" /\ UNCHANGED requests /\ ReadOnly
  BY Zenon DEF await_pending, ReadOnly
<1>2. mtask[p].at \notin Elsewhere
  BY <1>1, Zenon DEF Elsewhere
<1>3. CASE mediaid_pending = "live" /\ Goes(p, "register")
  BY <1>1, <1>2, <1>3, GoingOnKeeps, Zenon
<1>4. CASE TaskEnds(p)
  BY <1>1, <1>2, <1>4, EndingKeeps, Zenon
<1> QED
  BY <1>3, <1>4, Zenon DEF await_pending

LEMMA RegetKeeps == ASSUME MediaInv, NEW p \in Tasks, Reget(p) PROVE MediaInv'
<1>1. mtask[p].at = "reget" /\ UNCHANGED requests /\ ReadOnly
  BY Zenon DEF Reget
<1>2. mtask[p].at \notin Elsewhere
  BY <1>1, Zenon DEF Elsewhere
<1>3. CASE get_file("original") /\ Goes(p, "generate")
  BY <1>1, <1>2, <1>3, FoundIsFree, GoingOnKeeps, Zenon
<1>4. CASE (\E key \in Keys : get_file(key)) /\ ServesIt(p)
  BY <1>1, <1>2, <1>4, FoundIsFree, ServingKeeps, Zenon
<1>5. CASE TaskEnds(p)
  BY <1>1, <1>2, <1>5, EndingKeeps, Zenon
<1> QED
  BY <1>3, <1>4, <1>5, Zenon DEF Reget, Keys

LEMMA ServeKeeps ==
  ASSUME MediaInv, NEW p \in Tasks, Serve(p) \/ Answered(p) \/ generate(p)
  PROVE  MediaInv'
<1>1. mtask[p].at \in {"serve", "release", "answered", "generate"} /\ UNCHANGED requests /\ ReadOnly
  BY Zenon DEF Serve, Answered, generate
<1>2. mtask[p].at \notin Elsewhere /\ ~mtask[p].under
  BY <1>1, HandIsFree, Zenon DEF Elsewhere, Giving
<1>3. CASE ServesIt(p)
  BY <1>1, <1>2, <1>3, ServingKeeps, Zenon
<1>4. CASE TaskEnds(p)
  BY <1>1, <1>2, <1>4, EndingKeeps, Zenon
<1>5. CASE Stores(p, "thumbnail", "serve")
  BY <1>1, <1>2, <1>5, StoringKeeps, Zenon DEF Keys
<1>6. CASE Goes(p, "slot")
  BY <1>1, <1>2, <1>6, GoingOnKeeps, Zenon
<1> QED
  BY <1>3, <1>4, <1>5, <1>6, Zenon DEF Serve, Answered, generate

-----------------------------------------------------------------------------
\* The store, the reservation and the waiters.

LEMMA FileKeeps == ASSUME MediaInv, NEW p \in Tasks, create_at(p) PROVE MediaInv'
<1>1. /\ mtask[p].at = "write" /\ files' = files \cup {mtask[p].key} /\ Goes(p, "record")
      /\ UNCHANGED <<ours, mediaid_file, mediaid_pending, mediaid_quarantine, deletions, notifiers, notifyId, requests>>
      /\ UNCHANGED <<staged, frame_slots>>
  BY Zenon DEF create_at, waitVars, videoVars
<1>2. PICK r \in MediaTask : /\ Replaced(p, r) /\ r.at = "record"
                             /\ r.op = mtask[p].op /\ r.key = mtask[p].key /\ r.after = mtask[p].after
                             /\ r.woken = mtask[p].woken /\ r.under = mtask[p].under /\ r.got = mtask[p].got
  BY <1>1, GoesIs DEF Stages
<1>3. mtask[p].key \in Keys /\ requests # 0 /\ exists' = exists
  BY <1>1, Busy, Zenon DEF MediaInv, MediaTypes, MediaTask, exists
<1>4. MediaTypes'
  BY <1>1, <1>2, <1>3, Zenon DEF MediaInv, MediaTypes, Replaced
<1>5. TaskOK(mtask[p])
  BY Zenon DEF MediaInv, TaskRules
<1>6. TaskOK(r) /\ (First(r) => First(mtask[p]))
  BY <1>1, <1>2, <1>5, Zenon DEF TaskOK, First, Storing, Giving
<1>7. TaskRules' /\ FreshIds'
  BY <1>1, <1>2, <1>3, <1>6, RulesStep, FreshStep, ZenonT(30) DEF Waiting
<1>8. KeptInv'
  BY <1>1, <1>2, <1>3, KeptStep, ZenonT(30) DEF MediaInv, KeptInv, KeptOK
<1>9. ToldInv' /\ StagingInv'
  BY <1>1, <1>2, <1>3, ToldStep, StagingStep, Zenon
<1> QED
  BY <1>4, <1>7, <1>8, <1>9, Zenon DEF MediaInv

LEMMA RecordKeeps == ASSUME MediaInv, NEW p \in Tasks, create(p) PROVE MediaInv'
<1>1. /\ mtask[p].at = "record" /\ mediaid_file' = mediaid_file \cup {mtask[p].key} /\ Goes(p, mtask[p].after)
      /\ UNCHANGED <<ours, files, mediaid_pending, mediaid_quarantine, deletions, notifiers, notifyId, requests>>
      /\ UNCHANGED <<staged, frame_slots>>
  BY Zenon DEF create, waitVars, videoVars
<1>2. mtask[p].after \in {"idle", "answered", "forget", "serve", "release"} /\ mtask[p].key \in Keys /\ requests # 0
  BY <1>1, Busy, Zenon DEF MediaInv, MediaTypes, MediaTask
<1>3. PICK r \in MediaTask : /\ Replaced(p, r) /\ r.at = mtask[p].after
                             /\ r.woken = mtask[p].woken /\ r.under = mtask[p].under
  BY <1>1, <1>2, GoesIs DEF Stages
<1>4. MediaTypes'
  BY <1>1, <1>2, <1>3, Zenon DEF MediaInv, MediaTypes, Replaced
<1>5. TaskOK(mtask[p])
  BY Zenon DEF MediaInv, TaskRules
<1>6. TaskOK(r) /\ ~First(r)
  BY <1>1, <1>2, <1>3, <1>5, Zenon DEF TaskOK, First, Storing, Giving
<1>7. TaskRules' /\ FreshIds'
  BY <1>1, <1>2, <1>3, <1>6, RulesStep, FreshStep, Zenon DEF Waiting
<1>8. exists => exists'
  BY <1>1, Zenon DEF exists
<1>9. mtask[p].after = "forget" => exists'
  BY <1>1, <1>5, Zenon DEF TaskOK, Storing, exists
<1>10. KeptInv'
  BY <1>1, <1>2, <1>3, <1>8, <1>9, KeptStep, Zenon DEF MediaInv, KeptInv, KeptOK
<1>11. StagingInv'
  BY <1>1, <1>2, <1>3, StagingStep, Zenon
<1>12. ToldInv'
  <2>1. CASE exists' = exists
    BY <1>1, <1>2, <1>3, <2>1, ToldStep, Zenon
  <2>2. CASE exists' # exists /\ NobodyWaits
    <3>1. \A q \in Tasks : mtask'[q].at \notin {"check", "wait"}
      BY <1>2, <1>3, <2>2, Zenon DEF NobodyWaits, Waiting, Replaced
    <3> QED
      BY <3>1, Zenon DEF ToldInv
  <2>3. CASE exists' # exists /\ mtask[p].after = "forget"
    <3>1. mtask'[p].at = "forget" /\ \A q \in Tasks : q # p => mtask'[q] = mtask[q]
      BY <1>3, <2>3, Zenon DEF Replaced
    <3>2. exists'
      BY <1>9, <2>3, Zenon
    <3>3. deletions = 0 => \A q \in Tasks : mtask'[q].at = "wait" /\ ~mtask'[q].woken
                             => mtask'[q].notify = notifiers' /\ notifiers' # 0
      BY <1>1, <3>1, Zenon DEF MediaInv, ToldInv
    <3>4. deletions = 0 => \A s, q \in Tasks : mtask'[q].woken /\ mtask'[s].at = "wait" => mtask'[s].woken
      BY <1>3, <3>1, Zenon DEF MediaInv, ToldInv, Replaced
    <3> QED
      BY <1>1, <3>1, <3>2, <3>3, <3>4, Zenon DEF ToldInv
  <2>4. exists' # exists => mtask[p].key = "original"
    BY <1>1 DEF exists
  <2>5. mtask[p].key = "original" => NobodyWaits \/ mtask[p].after = "forget"
    BY <1>1, <1>5, Zenon DEF TaskOK, Storing, MediaInv, FreshIds, First
  <2> QED
    BY <2>1, <2>2, <2>3, <2>4, <2>5, Zenon
<1> QED
  BY <1>4, <1>7, <1>10, <1>11, <1>12, Zenon DEF MediaInv

LEMMA ForgetPendingKeeps == ASSUME MediaInv, NEW p \in Tasks, remove_pending(p) PROVE MediaInv'
<1>1. /\ mtask[p].at = "forget" /\ mediaid_pending' = "none" /\ Goes(p, "notify")
      /\ UNCHANGED <<ours, files, mediaid_file, mediaid_quarantine, deletions, notifiers, notifyId, requests>>
      /\ UNCHANGED <<staged, frame_slots>>
  BY ZenonT(30) DEF remove_pending, TaskAt, storeVars, waitVars, videoVars
<1>2. PICK r \in MediaTask : Replaced(p, r) /\ r.at = "notify" /\ r.woken = mtask[p].woken /\ r.under = mtask[p].under
  <2>1. "notify" \in Stages
    BY Zenon DEF Stages
  <2> QED
    BY <1>1, <2>1, GoesIs, ZenonT(90)
<1>3. requests # 0 /\ exists' = exists
  BY <1>1, Busy, Zenon DEF exists
<1>4. MediaTypes'
  BY <1>1, <1>2, Zenon DEF MediaInv, MediaTypes, Replaced
<1>5. ~mtask[p].under
  BY <1>1, HandIsFree, Zenon DEF Giving
<1>6. TaskOK(r) /\ ~First(r)
  BY <1>2, <1>5, Zenon DEF TaskOK, First, Storing
<1>7. TaskRules' /\ FreshIds'
  BY <1>1, <1>2, <1>3, <1>6, RulesStep, FreshStep, Zenon DEF Waiting
<1>8. KeptInv'
  BY <1>1, <1>2, <1>3, KeptStep, Zenon DEF MediaInv, KeptInv, KeptOK
<1>9. ToldInv' /\ StagingInv'
  BY <1>1, <1>2, <1>3, ToldStep, StagingStep, Zenon
<1> QED
  BY <1>4, <1>7, <1>8, <1>9, Zenon DEF MediaInv

LEMMA NotifyKeeps == ASSUME MediaInv, NEW p \in Tasks, notify_waiters(p) PROVE MediaInv'
<1> DEFINE hit(q) == notifiers # 0 /\ mtask[q].notify = notifiers
           woke(q) == [mtask[q] EXCEPT !.woken = TRUE]
<1>1. /\ mtask[p].at = "notify" /\ notifiers' = 0
      /\ mtask' = [q \in Tasks |-> IF q = p THEN Resting ELSE IF hit(q) THEN woke(q) ELSE mtask[q]]
      /\ UNCHANGED <<ours, files, mediaid_file, mediaid_pending, mediaid_quarantine, deletions, notifyId, requests>>
      /\ UNCHANGED <<staged, frame_slots>>
  BY Zenon DEF notify_waiters, TaskAt, storeVars, videoVars
<1>2. \A q \in Tasks : /\ woke(q) \in MediaTask /\ woke(q).woken /\ woke(q).at = mtask[q].at
                       /\ woke(q).op = mtask[q].op /\ woke(q).key = mtask[q].key /\ woke(q).after = mtask[q].after
                       /\ woke(q).under = mtask[q].under /\ woke(q).got = mtask[q].got /\ mtask[q] \in MediaTask
  BY ZenonT(30) DEF MediaInv, MediaTypes, MediaTask
<1>3. mtask' \in [Tasks -> MediaTask] /\ mtask'[p] = Resting
  BY <1>1, <1>2, RestingIs, Zenon
<1>4. \A q \in Tasks : q # p => /\ mtask'[q].at = mtask[q].at /\ mtask'[q].op = mtask[q].op
                                /\ mtask'[q].key = mtask[q].key /\ mtask'[q].after = mtask[q].after
                                /\ mtask'[q].under = mtask[q].under /\ mtask'[q].got = mtask[q].got
                                /\ (mtask'[q].woken \/ (mtask'[q] = mtask[q] /\ ~hit(q)))
  BY <1>1, <1>2, Zenon
<1> HIDE DEF woke
<1>5. requests # 0 /\ exists' = exists
  BY <1>1, Busy, Zenon DEF exists
<1>6. MediaTypes'
  BY <1>1, <1>3, Zenon DEF MediaInv, MediaTypes
<1>7. TaskRules'
  <2> SUFFICES ASSUME NEW q \in Tasks PROVE TaskOK(mtask[q])'
    BY Zenon DEF TaskRules
  <2>1. CASE q = p
    BY <1>3, <2>1, RestingIs, Zenon DEF TaskOK, Storing
  <2>2. CASE q # p
    BY <1>1, <1>4, <2>2 DEF MediaInv, TaskRules, TaskOK, Storing
  <2> QED
    BY <2>1, <2>2, Zenon
<1>8. FreshIds'
  <2>1. NobodyWaits => NobodyWaits'
    BY <1>1, <1>3, <1>4, RestingIs, Zenon DEF NobodyWaits, Waiting
  <2>2. (\E u \in Tasks : First(mtask'[u])) => (\E u \in Tasks : First(mtask[u]))
    BY <1>3, <1>4, RestingIs DEF First
  <2>3. (\E u \in Tasks : First(mtask'[u])) => NobodyWaits'
    BY <2>1, <2>2, Zenon DEF MediaInv, FreshIds
  <2>4. ~ours' => NobodyWaits'
    BY <1>1, <2>1, ZenonT(30) DEF MediaInv, FreshIds
  <2> QED
    BY <1>1, <1>5, <2>3, <2>4, Zenon DEF FreshIds, First
<1>9. deletions = 0 => exists
  BY <1>1, Zenon DEF MediaInv, KeptInv, KeptOK
<1>10. KeptInv'
  BY <1>1, <1>3, <1>4, <1>5, <1>9, RestingIs DEF MediaInv, KeptInv, KeptOK
<1>11. deletions = 0 => \A q \in Tasks : mtask'[q].at = "wait" => mtask'[q].woken
  <2> SUFFICES ASSUME deletions = 0, NEW q \in Tasks, mtask'[q].at = "wait", ~mtask'[q].woken PROVE FALSE
    BY Zenon
  <2>1. q # p /\ mtask'[q] = mtask[q] /\ ~hit(q)
    BY <1>3, <1>4, RestingIs, Zenon
  <2> QED
    BY <2>1, Zenon DEF MediaInv, ToldInv
<1>12. ToldInv'
  BY <1>1, <1>5, <1>9, <1>11, Zenon DEF ToldInv
<1>13. StagingInv'
  <2>1. InFrame' = InFrame /\ {q \in Tasks : mtask'[q].at = "run"} = {q \in Tasks : mtask[q].at = "run"}
    BY <1>1, <1>3, <1>4, RestingIs, ZenonT(30) DEF InFrame
  <2> QED
    BY <1>1, <2>1, Zenon DEF MediaInv, StagingInv
<1> QED
  BY <1>6, <1>7, <1>8, <1>10, <1>12, <1>13, Zenon DEF MediaInv

LEMMA RegisterKeeps == ASSUME MediaInv, NEW p \in Tasks, Register(p) PROVE MediaInv'
<1> DEFINE r == [mtask[p] EXCEPT !.at = "check", !.notify = notifiers']
<1>1. /\ mtask[p].at = "register" /\ mtask' = [mtask EXCEPT ![p] = r]
      /\ UNCHANGED <<ours, files, mediaid_file, mediaid_pending, mediaid_quarantine, deletions, requests>>
      /\ UNCHANGED <<staged, frame_slots>>
  BY Zenon DEF Register, storeVars, videoVars
<1>2. /\ notifiers' \in Nat /\ notifyId' \in Nat /\ notifiers' # 0
      /\ notifiers # 0 => notifiers' = notifiers
  BY DEF Register, MediaInv, MediaTypes
<1>3. /\ r \in MediaTask /\ r.at = "check" /\ r.notify = notifiers' /\ r.woken = mtask[p].woken
      /\ r.under = mtask[p].under /\ r.got = mtask[p].got
  BY <1>2, ZenonT(90) DEF MediaInv, MediaTypes, MediaTask, Stages
<1> HIDE DEF r
<1>4. Replaced(p, r)
  BY <1>1, <1>3, ReplacedIs, Zenon
<1>5. requests # 0 /\ exists' = exists
  BY <1>1, Busy, Zenon DEF exists
<1>6. MediaTypes'
  BY <1>1, <1>2, <1>4, Zenon DEF MediaInv, MediaTypes, Replaced
<1>7. TaskOK(mtask[p])
  BY Zenon DEF MediaInv, TaskRules
<1>8. TaskOK(r) /\ ~First(r)
  BY <1>3, <1>7, Zenon DEF TaskOK, First, Storing, Giving
<1>9. TaskRules' /\ FreshIds'
  BY <1>1, <1>3, <1>4, <1>5, <1>8, RulesStep, FreshStep, Zenon DEF Waiting
<1>10. KeptInv'
  BY <1>1, <1>3, <1>4, <1>5, KeptStep, Zenon DEF MediaInv, KeptInv, KeptOK
<1>11. StagingInv'
  BY <1>1, <1>3, <1>4, StagingStep, Zenon
<1>12. ToldInv'
  BY <1>1, <1>2, <1>3, <1>4, <1>5, Zenon DEF MediaInv, ToldInv, Replaced
<1> QED
  BY <1>6, <1>9, <1>10, <1>11, <1>12, Zenon DEF MediaInv

LEMMA ChecksKeeps == ASSUME MediaInv, NEW p \in Tasks, AwaitChecks(p) PROVE MediaInv'
<1>1. /\ mtask[p].at = "check" /\ ReadOnly /\ UNCHANGED requests
      /\ mtask' = IF exists THEN [mtask EXCEPT ![p].at = "reget", ![p].notify = 0] ELSE [mtask EXCEPT ![p].at = "wait"]
  BY Zenon DEF AwaitChecks, ReadOnly
<1>2. requests # 0 /\ requests \in Nat /\ TaskOK(mtask[p]) /\ mtask[p] \in MediaTask
  BY <1>1, Busy, Zenon DEF MediaInv, MediaTypes, TaskRules
<1>3. CASE exists
  <2> DEFINE r == [mtask[p] EXCEPT !.at = "reget", !.notify = 0]
  <2>1. /\ r \in MediaTask /\ r.at = "reget" /\ r.woken = mtask[p].woken
        /\ r.under = mtask[p].under /\ r.got = mtask[p].got
    BY <1>2, Zenon DEF MediaTask, Stages
  <2>2. mtask' = [mtask EXCEPT ![p] = r]
    BY <1>1, <1>3, Zenon
  <2> HIDE DEF r
  <2>3. Replaced(p, r)
    BY <2>1, <2>2, ReplacedIs, Zenon
  <2>4. TaskOK(r) /\ ~First(r)
    BY <1>2, <2>1, Zenon DEF TaskOK, First, Storing, Giving
  <2> QED
    BY <1>1, <1>2, <2>1, <2>3, <2>4, Step, Zenon
<1>4. CASE ~exists
  <2> DEFINE r == [mtask[p] EXCEPT !.at = "wait"]
  <2>1. /\ r \in MediaTask /\ r.at = "wait" /\ r.woken = mtask[p].woken /\ r.notify = mtask[p].notify
        /\ r.under = mtask[p].under /\ r.got = mtask[p].got
    BY <1>2, Zenon DEF MediaTask, Stages
  <2>2. mtask' = [mtask EXCEPT ![p] = r]
    BY <1>1, <1>4, Zenon
  <2> HIDE DEF r
  <2>3. Replaced(p, r)
    BY <2>1, <2>2, ReplacedIs, Zenon
  <2>4. TaskOK(r) /\ ~First(r)
    BY <1>2, <2>1, Zenon DEF TaskOK, First, Storing, Giving
  <2>5. /\ UNCHANGED <<ours, files, mediaid_file, mediaid_pending, mediaid_quarantine, deletions, notifiers, notifyId>>
        /\ UNCHANGED <<staged, frame_slots>> /\ exists' = exists
    BY <1>1, Zenon DEF ReadOnly, storeVars, waitVars, videoVars, exists
  <2>6. MediaTypes'
    BY <1>1, <2>3, <2>5, Zenon DEF MediaInv, MediaTypes, Replaced
  <2>7. TaskRules' /\ FreshIds'
    BY <1>1, <1>2, <2>1, <2>3, <2>4, <2>5, RulesStep, FreshStep, Zenon DEF Waiting
  <2>8. KeptInv'
    BY <1>1, <2>1, <2>3, <2>5, KeptStep, Zenon DEF MediaInv, KeptInv, KeptOK
  <2>9. StagingInv'
    BY <1>1, <2>1, <2>3, <2>5, StagingStep, Zenon
  <2>10. deletions = 0 => \A q \in Tasks : ~mtask[q].woken
    BY <1>4, Zenon DEF MediaInv, KeptInv, KeptOK
  <2>11. ToldInv'
    BY <1>1, <1>4, <2>1, <2>3, <2>5, <2>10, Zenon DEF MediaInv, ToldInv, Replaced
  <2> QED
    BY <2>6, <2>7, <2>8, <2>9, <2>11, Zenon DEF MediaInv
<1> QED
  BY <1>3, <1>4, Zenon

LEMMA WaitEndsKeeps == ASSUME MediaInv, NEW p \in Tasks, AwaitEnds(p) PROVE MediaInv'
<1>1. /\ mtask[p].at = "wait" /\ notifiers' = IF \A q, s \in Holders : q = s THEN 0 ELSE notifiers
      /\ UNCHANGED <<ours, files, mediaid_file, mediaid_pending, mediaid_quarantine, deletions, notifyId, requests>>
      /\ UNCHANGED <<staged, frame_slots>>
  BY Zenon DEF AwaitEnds, storeVars, videoVars
<1>2. PICK r \in MediaTask : /\ Replaced(p, r) /\ r.at \in {"reget", "idle"} /\ ~r.woken
                             /\ r.under => mtask[p].under /\ ~mtask[p].got /\ ~r.got
  <2>1. CASE mtask[p].woken
    <3> DEFINE r == [mtask[p] EXCEPT !.at = "reget", !.notify = 0, !.woken = FALSE]
    <3>0. mtask[p] \in MediaTask
      BY Zenon DEF MediaInv, MediaTypes
    <3>1. r \in MediaTask /\ r.at = "reget" /\ ~r.woken /\ r.under = mtask[p].under /\ r.got = mtask[p].got
      BY <3>0, Zenon DEF MediaTask, Stages
    <3>2. mtask' = [mtask EXCEPT ![p] = r]
      BY <2>1, Zenon DEF AwaitEnds
    <3> HIDE DEF r
    <3>3. Replaced(p, r)
      BY <3>1, <3>2, ReplacedIs, ZenonT(30)
    <3>4. TaskOK(mtask[p])
      BY Zenon DEF MediaInv, TaskRules
    <3> QED
      BY <3>1, <3>3, <3>4, Zenon DEF TaskOK
  <2>2. CASE ~mtask[p].woken
    BY <2>2, EndsIs, RestingIs, Zenon DEF AwaitEnds
  <2> QED
    BY <2>1, <2>2, Zenon
<1>3. requests # 0 /\ exists' = exists /\ TaskOK(mtask[p])
  BY <1>1, Busy, Zenon DEF exists, MediaInv, TaskRules
<1>4. MediaTypes'
  BY <1>1, <1>2, Zenon DEF MediaInv, MediaTypes, Replaced
<1>5. TaskOK(r) /\ ~First(r)
  BY <1>2, <1>3, Zenon DEF TaskOK, First, Storing, Giving
<1>6. TaskRules' /\ FreshIds'
  BY <1>1, <1>2, <1>3, <1>5, RulesStep, FreshStep, Zenon DEF Waiting
<1>7. KeptInv'
  BY <1>1, <1>2, <1>3, KeptStep, Zenon DEF MediaInv, KeptInv, KeptOK
<1>8. StagingInv'
  BY <1>1, <1>2, StagingStep, Zenon
<1>9. mtask'[p] = r /\ \A q \in Tasks : q # p => mtask'[q] = mtask[q]
  BY <1>2, Zenon DEF Replaced
<1>10. ASSUME deletions = 0, NEW q \in Tasks, mtask'[q].at \in {"check", "wait"}, ~mtask'[q].woken,
              mtask'[q].at = "check" => ~exists
       PROVE  mtask'[q].notify = notifiers' /\ notifiers' # 0
  <2>1. q # p /\ mtask'[q] = mtask[q] /\ mtask[q].notify = notifiers /\ notifiers # 0
    BY <1>2, <1>9, <1>10, Zenon DEF MediaInv, ToldInv
  <2>2. ~mtask[p].woken
    <3> SUFFICES ASSUME mtask[p].woken PROVE FALSE
      BY Zenon
    <3>1. exists
      BY <1>10, Zenon DEF MediaInv, KeptInv, KeptOK
    <3> QED
      BY <1>10, <2>1, <3>1, Zenon DEF MediaInv, ToldInv
  <2>3. mtask[p].notify = notifiers
    BY <1>1, <1>10, <2>2, Zenon DEF MediaInv, ToldInv
  <2>4. p \in Holders /\ q \in Holders /\ p # q
    BY <2>1, <2>3, Zenon DEF Holders
  <2> QED
    BY <1>1, <2>1, <2>4, Zenon
<1>11. deletions = 0 =>
         /\ \A s, q \in Tasks : mtask'[q].woken /\ mtask'[s].at = "wait" => mtask'[s].woken
         /\ \A q \in Tasks : mtask'[q].at = "wait" /\ ~mtask'[q].woken /\ exists =>
              \E u \in Tasks : mtask'[u].at \in {"forget", "notify"}
  BY <1>1, <1>2, <1>9, ZenonT(30) DEF MediaInv, ToldInv
<1>12. ToldInv'
  BY <1>1, <1>3, <1>10, <1>11, Zenon DEF ToldInv
<1> QED
  BY <1>4, <1>6, <1>7, <1>8, <1>12, Zenon DEF MediaInv

-----------------------------------------------------------------------------
\* The thumbnailer.

\* A request comes to the thumbnailer, or leaves it.
LEMMA FrameEnters ==
  ASSUME MediaInv, NEW p \in Tasks, NEW r, Replaced(p, r), mtask[p].at \notin {"stage", "run"}, r.at = "stage",
         NEW f \in FrameSlots, \A q \in Tasks : <<f, q>> \notin frame_slots,
         frame_slots' = frame_slots \cup {<<f, p>>}, UNCHANGED staged
  PROVE  StagingInv'
<1>1. InFrame' = InFrame \cup {p} /\ p \notin InFrame
  BY Zenon DEF InFrame, Replaced
<1>2. {q \in Tasks : mtask'[q].at = "run"} = {q \in Tasks : mtask[q].at = "run"}
  BY Zenon DEF Replaced
<1> QED
  BY <1>1, <1>2, Zenon DEF MediaInv, StagingInv

LEMMA FrameLeaves ==
  ASSUME MediaInv, NEW p \in Tasks, NEW r, Replaced(p, r), mtask[p].at \in {"stage", "run"},
         r.at \notin {"stage", "run"}, GivesBack(p), staged' = staged \ {p}
  PROVE  StagingInv'
<1>1. InFrame' = InFrame \ {p} /\ p \in InFrame
  BY Zenon DEF InFrame, Replaced
<1>2. {q \in Tasks : mtask'[q].at = "run"} = {q \in Tasks : mtask[q].at = "run"} \ {p}
  BY Zenon DEF Replaced
<1>3. \A f \in FrameSlots, q \in Tasks : <<f, q>> \in frame_slots' <=> <<f, q>> \in frame_slots /\ q # p
  BY Zenon DEF GivesBack
<1> QED
  BY <1>1, <1>2, <1>3, Zenon DEF MediaInv, StagingInv

LEMMA SlotKeeps == ASSUME MediaInv, NEW p \in Tasks, video_frame(p) PROVE MediaInv'
<1>1. mtask[p].at = "slot" /\ UNCHANGED requests
  BY Zenon DEF video_frame
<1>2. ~mtask[p].under /\ requests \in Nat /\ requests # 0 /\ mtask[p].at \notin Elsewhere
  BY <1>1, HandIsFree, Busy, Zenon DEF Giving, MediaInv, MediaTypes, Elsewhere
<1>3. CASE frame_slots' = frame_slots /\ ServesIt(p)
  <2>1. ReadOnly
    BY <1>3, Zenon DEF video_frame, ReadOnly, videoVars
  <2> QED
    BY <1>1, <1>2, <1>3, <2>1, ServingKeeps, Zenon
<1>4. ASSUME NEW f \in FrameSlots, \A q \in Tasks : <<f, q>> \notin frame_slots,
             frame_slots' = frame_slots \cup {<<f, p>>}, Goes(p, "stage")
      PROVE  MediaInv'
  <2>1. PICK r \in MediaTask : Replaced(p, r) /\ r.at = "stage" /\ r.woken = mtask[p].woken /\ r.under = mtask[p].under
    BY <1>4, GoesIs DEF Stages
  <2>2. StagingInv'
    BY <1>1, <1>4, <2>1, FrameEnters, ZenonT(30) DEF video_frame
  <2>3. TaskOK(r) /\ ~First(r)
    BY <1>2, <2>1, Zenon DEF TaskOK, First, Storing
  <2>4. UNCHANGED <<ours, storeVars, mediaid_pending, mediaid_quarantine, deletions, waitVars>>
    BY Zenon DEF video_frame
  <2> QED
    BY <1>1, <1>2, <2>1, <2>2, <2>3, <2>4, StepAside, Zenon
<1> QED
  BY <1>3, <1>4, Zenon DEF video_frame

LEMMA StageKeeps == ASSUME MediaInv, NEW p \in Tasks, stage(p) PROVE MediaInv'
<1>1. /\ mtask[p].at = "stage" /\ staged' = staged \cup {p} /\ Goes(p, "run")
      /\ UNCHANGED <<ours, storeVars, mediaid_pending, mediaid_quarantine, deletions, waitVars>>
      /\ UNCHANGED <<requests, frame_slots>>
  BY ZenonT(30) DEF stage
<1>2. ~mtask[p].under /\ requests \in Nat /\ requests # 0
  BY <1>1, HandIsFree, Busy, Zenon DEF Giving, MediaInv, MediaTypes
<1>3. PICK r \in MediaTask : Replaced(p, r) /\ r.at = "run" /\ r.woken = mtask[p].woken /\ r.under = mtask[p].under
  BY <1>1, GoesIs DEF Stages
<1>4. InFrame' = InFrame
  BY <1>1, <1>3, Zenon DEF InFrame, Replaced
<1>5. {q \in Tasks : mtask'[q].at = "run"} = {q \in Tasks : mtask[q].at = "run"} \cup {p}
  BY <1>3, Zenon DEF Replaced
<1>6. StagingInv'
  BY <1>1, <1>4, <1>5, Zenon DEF MediaInv, StagingInv
<1>7. TaskOK(r) /\ ~First(r)
  BY <1>2, <1>3, Zenon DEF TaskOK, First, Storing
<1> QED
  BY <1>1, <1>2, <1>3, <1>6, <1>7, StepAside, Zenon

LEMMA FrameKeeps == ASSUME MediaInv, NEW p \in Tasks, extract_frame(p) PROVE MediaInv'
<1>1. /\ mtask[p].at = "run" /\ staged' = staged \ {p} /\ GivesBack(p)
      /\ Stores(p, "thumbnail", "serve") \/ ServesIt(p)
      /\ UNCHANGED <<ours, storeVars, mediaid_pending, mediaid_quarantine, deletions, waitVars>>
      /\ UNCHANGED requests
  BY Zenon DEF extract_frame
<1>2. ~mtask[p].under /\ requests \in Nat /\ requests # 0
  BY <1>1, HandIsFree, Busy, Zenon DEF Giving, MediaInv, MediaTypes
<1>3. PICK r \in MediaTask : /\ Replaced(p, r) /\ r.woken = mtask[p].woken /\ r.under = mtask[p].under
                             /\ \/ r.at = "write" /\ r.key = "thumbnail" /\ r.after = "serve"
                                \/ r.at = "answered"
  <2>1. CASE Stores(p, "thumbnail", "serve")
    <3>1. "thumbnail" \in Keys
      BY Zenon DEF Keys
    <3> QED
      BY <2>1, <3>1, StoresIs
  <2>2. CASE ServesIt(p)
    BY <2>2, ServesIs, Zenon
  <2> QED
    BY <1>1, <2>1, <2>2, Zenon
<1>4. StagingInv'
  BY <1>1, <1>3, FrameLeaves, ZenonT(30)
<1>5. TaskOK(r) /\ ~First(r)
  BY <1>2, <1>3, Zenon DEF TaskOK, First, Storing
<1> QED
  BY <1>1, <1>2, <1>3, <1>4, <1>5, StepAside, ZenonT(30)

LEMMA DroppedKeeps == ASSUME MediaInv, NEW p \in Tasks, Dropped_(p) PROVE MediaInv'
<1>1. /\ mtask[p].at \notin {"idle", "forget", "notify"} /\ TaskEnds(p) /\ staged' = staged \ {p}
      /\ GivesBack(p)
      /\ UNCHANGED <<ours, storeVars, mediaid_pending, mediaid_quarantine, deletions, waitVars>>
      /\ UNCHANGED requests
  BY ZenonT(30) DEF Dropped_
<1>2. Replaced(p, Resting) /\ requests \in Nat /\ requests # 0
  BY <1>1, EndsIs, Busy, Zenon DEF MediaInv, MediaTypes
<1>3. StagingInv'
  <2>1. CASE mtask[p].at \in {"stage", "run"}
    BY <1>1, <1>2, <2>1, RestingIs, FrameLeaves, Zenon
  <2>2. CASE mtask[p].at \notin {"stage", "run"}
    <3>1. staged' = staged
      BY <1>1, <2>2, Zenon DEF MediaInv, StagingInv
    <3>2. \A f \in FrameSlots, q \in Tasks : <<f, q>> \in frame_slots' <=> <<f, q>> \in frame_slots
      BY <1>1, <2>2, Zenon DEF GivesBack, MediaInv, StagingInv, InFrame
    <3> QED
      BY <1>2, <2>2, <3>1, <3>2, RestingIs, StagingStep, Zenon
  <2> QED
    BY <2>1, <2>2, Zenon
<1>4. TaskOK(Resting) /\ ~First(Resting)
  BY RestingIs, Zenon DEF TaskOK, First, Storing
<1> QED
  BY <1>1, <1>2, <1>3, <1>4, RestingIs, StepAside, Zenon

-----------------------------------------------------------------------------
\* Deletion, quarantine, reservations and crashes.

\* A request that deletes: nothing is claimed of the store from then on.
LEMMA DeletingStep ==
  ASSUME MediaInv, NEW p \in Tasks, NEW r \in MediaTask, Replaced(p, r), requests' \in Nat, requests' # 0,
         UNCHANGED <<ours, mediaid_pending, mediaid_quarantine, notifiers, notifyId, staged, frame_slots>>,
         files' \in SUBSET Keys, mediaid_file' \in SUBSET Keys, deletions' \in Nat, deletions' # 0,
         r.at \in {"idle", "unlink", "unrecord"}, r.under => mtask[p].under /\ ~r.got,
         mtask[p].at \notin {"stage", "run"}
  PROVE  MediaInv'
<1>1. MediaTypes'
  BY Zenon DEF MediaInv, MediaTypes, Replaced
<1>2. TaskOK(mtask[p])
  BY Zenon DEF MediaInv, TaskRules
<1>3. TaskOK(r) /\ ~First(r)
  BY <1>2, Zenon DEF TaskOK, First, Storing, Giving
<1>4. TaskRules' /\ FreshIds'
  BY <1>3, RulesStep, FreshStep, Zenon DEF Waiting
<1>5. StagingInv'
  BY StagingStep, Zenon
<1>6. KeptInv' /\ ToldInv'
  BY Zenon DEF KeptInv, ToldInv
<1> QED
  BY <1>1, <1>4, <1>5, <1>6, Zenon DEF MediaInv

LEMMA DeleteKeeps == ASSUME MediaInv, NEW p \in Tasks, delete(p) PROVE MediaInv'
<1> DEFINE r == [Resting EXCEPT !.op = "delete", !.at = "unlink", !.todo = mediaid_file]
<1>1. r \in MediaTask /\ r.at = "unlink" /\ ~r.under
  BY Zenon DEF MediaInv, MediaTypes, MediaTask, Stages, Resting, Keys
<1>2. /\ mtask' = [mtask EXCEPT ![p] = r] /\ mtask[p].at = "idle" /\ requests' = requests + 1
      /\ deletions' = deletions + 1
      /\ UNCHANGED <<ours, files, mediaid_file, mediaid_pending, mediaid_quarantine, notifiers, notifyId>>
      /\ UNCHANGED <<staged, frame_slots>>
  BY Zenon DEF delete, storeVars, waitVars, videoVars
<1> HIDE DEF r
<1>3. Replaced(p, r)
  BY <1>1, <1>2, ReplacedIs, Zenon
<1>4. /\ requests' \in Nat /\ requests' # 0 /\ deletions' \in Nat /\ deletions' # 0
      /\ files' \in SUBSET Keys /\ mediaid_file' \in SUBSET Keys
  BY <1>2 DEF MediaInv, MediaTypes
<1> QED
  BY <1>1, <1>2, <1>3, <1>4, DeletingStep, Zenon

LEMMA PurgeKeeps == ASSUME MediaInv, NEW p \in Tasks, purge_older_than(p) PROVE MediaInv'
<1>1. mtask[p].at = "listed" /\ UNCHANGED requests /\ mtask[p] \in MediaTask
  BY Zenon DEF purge_older_than, TaskAt, MediaInv, MediaTypes
<1>2. mtask[p].at \notin Elsewhere /\ requests \in Nat /\ requests # 0 /\ TaskOK(mtask[p])
  BY <1>1, Busy, Zenon DEF Elsewhere, MediaInv, MediaTypes, TaskRules
<1>3. CASE TaskEnds(p) /\ UNCHANGED deletions
  <2>1. ReadOnly
    BY <1>3, Zenon DEF purge_older_than, ReadOnly
  <2> QED
    BY <1>1, <1>2, <1>3, <2>1, EndingKeeps, Zenon
<1>4. CASE /\ mtask' = [mtask EXCEPT ![p].at = "unlink", ![p].todo = mediaid_file]
           /\ deletions' = deletions + 1
  <2> DEFINE r == [mtask[p] EXCEPT !.at = "unlink", !.todo = mediaid_file]
  <2>1. mediaid_file \in SUBSET Keys /\ deletions \in Nat
    BY Zenon DEF MediaInv, MediaTypes
  <2>2. r \in MediaTask /\ r.at = "unlink" /\ r.under = mtask[p].under /\ r.got = mtask[p].got
    BY <1>1, <2>1, Zenon DEF MediaTask, Stages
  <2>3. mtask' = [mtask EXCEPT ![p] = r]
    BY <1>4, Zenon
  <2> HIDE DEF r
  <2>4. Replaced(p, r)
    BY <2>2, <2>3, ReplacedIs, Zenon
  <2>5. UNCHANGED <<ours, files, mediaid_file, mediaid_pending, mediaid_quarantine, notifiers, notifyId, staged, frame_slots>>
    BY Zenon DEF purge_older_than, storeVars, waitVars, videoVars
  <2>6. r.under => mtask[p].under /\ ~r.got
    BY <1>2, <2>2, Zenon DEF TaskOK
  <2>7. /\ deletions' \in Nat /\ deletions' # 0 /\ files' \in SUBSET Keys /\ mediaid_file' \in SUBSET Keys
    BY <1>4, <2>1, <2>5 DEF MediaInv, MediaTypes
  <2> QED
    BY <1>1, <1>2, <2>2, <2>4, <2>5, <2>6, <2>7, DeletingStep, Zenon
<1> QED
  BY <1>3, <1>4, Zenon DEF purge_older_than

LEMMA UnlinkKeeps == ASSUME MediaInv, NEW p \in Tasks, NEW key \in Keys, remove_file(p, key) PROVE MediaInv'
<1> DEFINE r == [mtask[p] EXCEPT !.at = "unrecord", !.key = key, !.todo = @ \ {key}]
<1>1. /\ mtask[p].at = "unlink" /\ mtask' = [mtask EXCEPT ![p] = r] /\ files' = files \ {key}
      /\ UNCHANGED <<ours, mediaid_file, mediaid_pending, mediaid_quarantine, deletions, notifiers, notifyId, requests>>
      /\ UNCHANGED <<staged, frame_slots>>
  BY Zenon DEF remove_file, TaskAt, waitVars, videoVars
<1>2. mtask[p] \in MediaTask /\ TaskOK(mtask[p]) /\ requests \in Nat /\ requests # 0
  BY <1>1, Busy, Zenon DEF MediaInv, MediaTypes, TaskRules
<1>3. r \in MediaTask /\ r.at = "unrecord" /\ r.under = mtask[p].under /\ r.got = mtask[p].got
  BY <1>2, Zenon DEF MediaTask, Stages
<1> HIDE DEF r
<1>4. Replaced(p, r) /\ (r.under => mtask[p].under /\ ~r.got)
  BY <1>1, <1>2, <1>3, ReplacedIs, ZenonT(30) DEF TaskOK
<1>5. /\ deletions' \in Nat /\ deletions' # 0 /\ files' \in SUBSET Keys /\ mediaid_file' \in SUBSET Keys
  BY <1>1, Zenon DEF MediaInv, MediaTypes, KeptInv, KeptOK
<1> QED
  BY <1>1, <1>2, <1>3, <1>4, <1>5, DeletingStep, Zenon

LEMMA UnrecordKeeps == ASSUME MediaInv, NEW p \in Tasks, remove_record(p) PROVE MediaInv'
<1>1. /\ mtask[p].at = "unrecord" /\ mediaid_file' = mediaid_file \ {mtask[p].key}
      /\ TaskEnds(p) \/ Goes(p, "unlink")
      /\ UNCHANGED <<ours, files, mediaid_pending, mediaid_quarantine, deletions, notifiers, notifyId, requests>>
      /\ UNCHANGED <<staged, frame_slots>>
  BY Zenon DEF remove_record, TaskAt, waitVars, videoVars
<1>2. TaskOK(mtask[p]) /\ requests \in Nat /\ requests # 0
  BY <1>1, Busy, Zenon DEF MediaInv, MediaTypes, TaskRules
<1>3. PICK r \in MediaTask : /\ Replaced(p, r) /\ r.at \in {"idle", "unlink"}
                             /\ r.under => mtask[p].under /\ ~r.got
  <2>1. CASE TaskEnds(p)
    BY <2>1, EndsIs, RestingIs, Zenon
  <2>2. CASE Goes(p, "unlink")
    <3>1. "unlink" \in Stages
      BY Zenon DEF Stages
    <3>2. PICK r \in MediaTask : /\ Replaced(p, r) /\ r.at = "unlink"
                                 /\ r.under = mtask[p].under /\ r.got = mtask[p].got
      BY <2>2, <3>1, GoesIs
    <3>3. r.under => mtask[p].under /\ ~r.got
      BY <1>2, <3>2, Zenon DEF TaskOK
    <3> QED
      BY <3>2, <3>3, Zenon
  <2> QED
    BY <1>1, <2>1, <2>2, Zenon
<1>4. /\ deletions' \in Nat /\ deletions' # 0 /\ files' \in SUBSET Keys /\ mediaid_file' \in SUBSET Keys
  BY <1>1, Zenon DEF MediaInv, MediaTypes, KeptInv, KeptOK
<1> QED
  BY <1>1, <1>2, <1>3, <1>4, DeletingStep, Zenon

\* Only the reservation, the quarantine or the count of requests changes.
LEMMA AsideOfTasks ==
  ASSUME MediaInv, UNCHANGED <<ours, files, mediaid_file, deletions, notifiers, notifyId, mtask, staged, frame_slots>>,
         mediaid_pending' \in {"none", "live", "expired"}, mediaid_quarantine' \in BOOLEAN,
         mediaid_quarantine => mediaid_quarantine', requests' \in Nat, FreshIds'
  PROVE  MediaInv'
<1>1. MediaTypes' /\ TaskRules'
  BY Zenon DEF MediaInv, MediaTypes, TaskRules, TaskOK
<1>2. KeptInv' /\ ToldInv'
  BY Zenon DEF MediaInv, KeptInv, KeptOK, ToldInv, exists
<1>3. StagingInv'
  BY Zenon DEF MediaInv, StagingInv, InFrame
<1> QED
  BY <1>1, <1>2, <1>3, Zenon DEF MediaInv

LEMMA ReserveKeeps == ASSUME MediaInv, NEW p \in Tasks, create_pending(p) PROVE MediaInv'
<1>1. /\ ours /\ (\A q \in Tasks : mtask[q].op # "upload") /\ requests' = requests + 1 /\ mediaid_pending' = "live"
      /\ UNCHANGED <<ours, files, mediaid_file, deletions, notifiers, notifyId, mtask, staged, frame_slots>>
      /\ UNCHANGED mediaid_quarantine
  BY Zenon DEF create_pending, storeVars, waitVars, videoVars
<1>2. requests' \in Nat /\ requests' # 0 /\ mediaid_quarantine' \in BOOLEAN
  BY <1>1 DEF MediaInv, MediaTypes
<1>3. FreshIds'
  BY <1>1, <1>2, Zenon DEF FreshIds, First
<1> QED
  BY <1>1, <1>2, <1>3, AsideOfTasks, Zenon

LEMMA RunOutKeeps == ASSUME MediaInv, Expire \/ count_pending_for PROVE MediaInv'
<1>1. /\ mediaid_pending # "none" /\ mediaid_pending' \in {"none", "live", "expired"}
      /\ UNCHANGED <<ours, files, mediaid_file, deletions, notifiers, notifyId, mtask, staged, frame_slots>>
      /\ UNCHANGED <<mediaid_quarantine, requests>>
  BY Zenon DEF Expire, count_pending_for, storeVars, waitVars, videoVars
<1>2. FreshIds'
  BY <1>1, ZenonT(30) DEF MediaInv, FreshIds, NobodyWaits, First
<1> QED
  BY <1>1, <1>2, AsideOfTasks, Zenon DEF MediaInv, MediaTypes

LEMMA QuarantineKeeps == ASSUME MediaInv, quarantine PROVE MediaInv'
<1>1. /\ mediaid_quarantine' = TRUE /\ requests' = requests + 1
      /\ UNCHANGED <<ours, files, mediaid_file, deletions, notifiers, notifyId, mtask, staged, frame_slots>>
      /\ UNCHANGED mediaid_pending
  BY Zenon DEF quarantine, storeVars, waitVars, videoVars
<1>2. requests' \in Nat /\ requests' # 0 /\ mediaid_pending' \in {"none", "live", "expired"}
  BY <1>1 DEF MediaInv, MediaTypes
<1>3. FreshIds'
  BY <1>1, <1>2, Zenon DEF MediaInv, FreshIds, NobodyWaits, First
<1> QED
  BY <1>1, <1>2, <1>3, AsideOfTasks, Zenon

LEMMA UnquarantineKeeps == ASSUME MediaInv, unquarantine PROVE MediaInv'
<1> DEFINE free(q) == [mtask[q] EXCEPT !.under = FALSE]
<1>1. /\ mediaid_quarantine' = FALSE /\ requests' = requests + 1 /\ mtask' = [q \in Tasks |-> free(q)]
      /\ UNCHANGED <<ours, files, mediaid_file, mediaid_pending, deletions, notifiers, notifyId, staged, frame_slots>>
  BY Zenon DEF unquarantine, storeVars, waitVars, videoVars
<1>2. \A q \in Tasks : /\ free(q) \in MediaTask /\ ~free(q).under /\ free(q).at = mtask[q].at
                       /\ free(q).op = mtask[q].op /\ free(q).key = mtask[q].key /\ free(q).after = mtask[q].after
                       /\ free(q).notify = mtask[q].notify /\ free(q).woken = mtask[q].woken
  BY ZenonT(30) DEF MediaInv, MediaTypes, MediaTask
<1> HIDE DEF free
<1>3. \A q \in Tasks : /\ mtask'[q] \in MediaTask /\ ~mtask'[q].under /\ mtask'[q].at = mtask[q].at
                       /\ mtask'[q].op = mtask[q].op /\ mtask'[q].key = mtask[q].key /\ mtask'[q].after = mtask[q].after
                       /\ mtask'[q].notify = mtask[q].notify /\ mtask'[q].woken = mtask[q].woken
  BY <1>1, <1>2, Zenon
<1>4. exists' = exists /\ requests' \in Nat /\ requests' # 0
  BY <1>1 DEF exists, MediaInv, MediaTypes
<1>5. MediaTypes'
  BY <1>1, <1>2, <1>4, Zenon DEF MediaInv, MediaTypes
<1>6. TaskRules'
  BY <1>1, <1>3, ZenonT(90) DEF MediaInv, TaskRules, TaskOK
<1>7. FreshIds'
  BY <1>1, <1>3, <1>4 DEF MediaInv, FreshIds, NobodyWaits, First
<1>8. KeptInv'
  BY <1>1, <1>3, <1>4, Zenon DEF MediaInv, KeptInv, KeptOK
<1>9. ToldInv'
  BY <1>1, <1>3, <1>4, ZenonT(90) DEF MediaInv, ToldInv
<1>10. StagingInv'
  <2>1. InFrame' = InFrame /\ {q \in Tasks : mtask'[q].at = "run"} = {q \in Tasks : mtask[q].at = "run"}
    BY <1>3, Zenon DEF InFrame
  <2> QED
    BY <1>1, <2>1, Zenon DEF MediaInv, StagingInv
<1> QED
  BY <1>5, <1>6, <1>7, <1>8, <1>9, <1>10, Zenon DEF MediaInv

LEMMA MediaCrashKeeps == ASSUME MediaInv, Crash PROVE MediaInv'
<1>1. /\ mtask' = [p \in Tasks |-> Resting] /\ notifiers' = 0 /\ staged' = {} /\ frame_slots' = {}
      /\ UNCHANGED <<ours, files, mediaid_file, mediaid_pending, mediaid_quarantine, deletions, notifyId, requests>>
  BY Zenon DEF Crash, sweep_staging_dir, storeVars
<1>2. \A q \in Tasks : mtask'[q] = Resting
  BY <1>1, Zenon
<1>3. MediaTypes'
  BY <1>1, RestingIs, Zenon DEF MediaInv, MediaTypes
<1>4. TaskRules' /\ ToldInv'
  BY <1>2, RestingIs, Zenon DEF TaskRules, TaskOK, ToldInv, Storing
<1>5. FreshIds'
  BY <1>1, <1>2, RestingIs, Zenon DEF MediaInv, FreshIds, NobodyWaits, First, Waiting, Storing
<1>6. KeptInv'
  BY <1>1, <1>2, RestingIs, Zenon DEF MediaInv, KeptInv, KeptOK
<1>7. StagingInv'
  <2>1. InFrame' = {} /\ {q \in Tasks : mtask'[q].at = "run"} = {}
    BY <1>2, RestingIs, Zenon DEF InFrame
  <2> QED
    BY <1>1, <2>1, Zenon DEF StagingInv
<1> QED
  BY <1>3, <1>4, <1>5, <1>6, <1>7, Zenon DEF MediaInv

LEMMA MediaKeeps == MediaInv /\ [MediaNext]_mediaVars => MediaInv'
<1> SUFFICES ASSUME MediaInv, [MediaNext]_mediaVars PROVE MediaInv'
  BY Zenon
<1>1. CASE UNCHANGED mediaVars
  <2>1. FreshIds'
    BY <1>1, ZenonT(30) DEF mediaVars, MediaInv, FreshIds, NobodyWaits, First
  <2> QED
    BY <1>1, <2>1, AsideOfTasks, Zenon DEF mediaVars, MediaInv, MediaTypes
<1>2. CASE \E p \in Tasks : MediaStep(p)
  BY Zenon, <1>2, FileKeeps, RecordKeeps, ReserveKeeps, UploadKeeps, ForgetPendingKeeps, NotifyKeeps, AwaitKeeps,
     RegisterKeeps, ChecksKeeps, WaitEndsKeeps, NewRequestKeeps, LookupKeeps, RemoteFileKeeps, RegetKeeps, ServeKeeps,
     SlotKeeps, StageKeeps, FrameKeeps, PurgeKeeps, DeleteKeeps, UnlinkKeeps, UnrecordKeeps, DroppedKeeps
     DEF MediaStep
<1> QED
  BY <1>1, <1>2, RunOutKeeps, QuarantineKeeps, UnquarantineKeeps, MediaCrashKeeps, Zenon DEF MediaNext

(* Without a deletion no record lacks its file, wherever a store is dropped
   or the server dies (media/mod.rs, create_at). *)
THEOREM RecordsHaveFiles == MediaSpec => []RecordedIsStored
<1>1. MediaInv => RecordedIsStored
  BY Zenon DEF MediaInv, KeptInv, RecordedIsStored
<1> QED
  BY <1>1, MediaStart, MediaKeeps, PTL DEF MediaSpec

LEMMA MediaIsSound == MediaInv => WaitersAreTold /\ QuarantineHolds /\ StagingIsClean
<1> SUFFICES ASSUME MediaInv PROVE WaitersAreTold /\ QuarantineHolds /\ StagingIsClean
  BY Zenon
<1>1. WaitersAreTold
  BY Zenon DEF MediaInv, ToldInv, WaitersAreTold
<1>2. QuarantineHolds
  BY Zenon DEF MediaInv, TaskRules, TaskOK, QuarantineHolds
<1>3. StagingIsClean
  BY Zenon DEF MediaInv, StagingInv, InFrame, StagingIsClean
<1> QED
  BY <1>1, <1>2, <1>3, Zenon

(* A download that waits is told of the upload, media under quarantine is not
   served, the staging directory and the thumbnailer's slots are given back,
   a page is fetched once while its preview is kept, and the picture of a
   preview is to be had (media/mod.rs, quarantine.rs, video.rs,
   preview/mod.rs, remote.rs). *)
THEOREM MediaStoreIsSound == MediaSpec /\ PreviewSpec => []MediaSound
<1>1. MediaInv /\ PreviewInv => MediaSound
  BY MediaIsSound, PreviewIsSound, Zenon DEF MediaSound
<1> QED
  BY <1>1, MediaStart, MediaKeeps, PreviewStart, PreviewKeeps, PTL DEF MediaSpec, PreviewSpec

=============================================================================
