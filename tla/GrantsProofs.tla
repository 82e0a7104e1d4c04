---------------------------- MODULE GrantsProofs ----------------------------
(***************************************************************************)
(* What is granted once, for any number of requests, tabs, grants, boxes   *)
(* and devices: a request or a device grant signs in one session at most,  *)
(* and a rendezvous box is not written over. And how the process ends, for *)
(* any number of workers, faults and signals.                              *)
(***************************************************************************)
EXTENDS OAuth, Lifecycle, TLAPS

\* How long the two provers may take over a leaf.
USE SMTT(30), ZenonT(30)

-----------------------------------------------------------------------------
(* Rendezvous sessions.                                                    *)

BoxType == [data : Payloads, modified : Nat, created : Nat, stale : BOOLEAN]
ReadType == Boxes \X (Payloads \X Nat)

RdvTypes ==
    /\ boxes \in [Boxes -> BoxType \cup {NoBox}] /\ opened \subseteq Boxes /\ clock \in Nat
    /\ read \in [BoxWriters -> ReadType \cup {NoBox}]
    /\ version \in [Boxes -> Nat] /\ readAt \in [BoxWriters -> Nat]

\* A validator is of the box's past: it is the current one only when the
\* version it was read with is.
ValidatorOK(w) ==
    LET b == read[w][1]
        modified == read[w][2][2]
    IN  read[w] # NoBox =>
            /\ b \in opened
            /\ boxes[b] # NoBox =>
                   /\ modified <= boxes[b].modified
                   /\ modified = boxes[b].modified => readAt[w] = version[b]

RdvInv ==
    /\ RdvTypes /\ overwrote = FALSE
    /\ \A b \in Boxes : boxes[b] # NoBox => b \in opened
    /\ \A w \in BoxWriters : ValidatorOK(w)

LEMMA RdvStart == RdvInit => RdvInv
  BY DEF RdvInit, RdvInv, RdvTypes, ValidatorOK

\* What only removes boxes, marks them stale or moves the clock.
LEMMA BoxesGo ==
  ASSUME RdvInv, RdvTypes', UNCHANGED <<opened, read, version, readAt, overwrote>>,
         \A b \in Boxes : boxes'[b] # NoBox =>
             boxes[b] # NoBox /\ boxes'[b].modified = boxes[b].modified
  PROVE  RdvInv'
<1>1. ASSUME NEW w \in BoxWriters, read[w] # NoBox PROVE read[w][1] \in Boxes
  BY <1>1, Zenon DEF RdvInv, RdvTypes, ReadType
<1>2. ASSUME NEW w \in BoxWriters PROVE ValidatorOK(w)'
  BY <1>1, ZenonT(30) DEF RdvInv, ValidatorOK
<1> QED
  BY <1>2, Zenon DEF RdvInv

LEMMA Reaps ==
  ASSUME RdvInv, NEW b \in Boxes
  PROVE  /\ Reap(b) \in [Boxes -> BoxType \cup {NoBox}]
         /\ \A c \in Boxes : Reap(b)[c] # NoBox => Reap(b)[c] = boxes[c]
         /\ boxes[b] # NoBox /\ ~boxes[b].stale => Reap(b) = boxes
  BY ZenonT(30) DEF RdvInv, RdvTypes, Reap

LEMMA ReadKeeps ==
  ASSUME RdvInv, NEW w \in BoxWriters, NEW b \in Boxes, get_at(w, b)
  PROVE  RdvInv'
<1>1. UNCHANGED <<opened, clock, version, overwrote>> /\ boxes' = Reap(b) /\ b \in opened
  BY Zenon DEF get_at
<1>2. CASE ~Here(b)
  <2>1. read' = read /\ readAt' = readAt
    BY <1>2, Zenon DEF get_at, RdvInv, RdvTypes
  <2>2. RdvTypes'
    BY <1>1, <2>1, Reaps, ZenonT(30) DEF RdvInv, RdvTypes
  <2> QED
    BY <1>1, <2>1, <2>2, Reaps, BoxesGo, Zenon
<1>3. CASE Here(b)
  <2>1. boxes[b] # NoBox /\ boxes' = boxes
    BY <1>1, <1>3, Reaps, Zenon DEF Here
  <2>2. boxes[b] \in BoxType
    BY <2>1, Zenon DEF RdvInv, RdvTypes
  <2>3. etag(b) \in Payloads \X Nat /\ etag(b)[2] = boxes[b].modified
    BY <2>2, Zenon DEF etag, BoxType
  <2>4. read' = [read EXCEPT ![w] = <<b, etag(b)>>] /\ readAt' = [readAt EXCEPT ![w] = version[b]]
    BY <1>3, Zenon DEF get_at
  <2>5. RdvTypes'
    BY <1>1, <2>1, <2>3, <2>4, ZenonT(30) DEF RdvInv, RdvTypes, ReadType
  <2>6. ASSUME NEW v \in BoxWriters PROVE ValidatorOK(v)'
    <3>1. CASE v = w
      <4>1. read'[v] = <<b, etag(b)>> /\ readAt'[v] = version[b]
        BY <2>4, <3>1, Zenon DEF RdvInv, RdvTypes
      <4>2. read'[v][1] = b /\ read'[v][2][2] = boxes[b].modified
        BY <4>1, <2>3
      <4> QED
        BY <4>1, <4>2, <1>1, <2>1, <2>2 DEF ValidatorOK, BoxType
    <3>2. CASE v # w
      BY <3>2, <1>1, <2>1, <2>4, Zenon DEF RdvInv, RdvTypes, ValidatorOK
    <3> QED
      BY <3>1, <3>2, Zenon
  <2> QED
    BY <1>1, <2>1, <2>5, <2>6, Zenon DEF RdvInv
<1> QED
  BY <1>2, <1>3, Zenon

LEMMA WriteKeeps ==
  ASSUME RdvInv, NEW w \in BoxWriters, NEW b \in Boxes, NEW d \in Payloads,
         NEW any \in BOOLEAN, put_with_at(w, b, d, any)
  PROVE  RdvInv'
<1> DEFINE match == any \/ read[w] = <<b, etag(b)>>
           next == [boxes[b] EXCEPT !.data = d, !.modified = next_last_modified(clock, @)]
<1>1. UNCHANGED <<opened, clock>> /\ b \in opened /\ read[w] # NoBox /\ read[w][1] = b
  BY Zenon DEF put_with_at
<1>2. CASE Here(b) /\ match
  <2>1. /\ boxes' = [boxes EXCEPT ![b] = next] /\ version' = [version EXCEPT ![b] = @ + 1]
        /\ read' = [read EXCEPT ![w] = <<b, <<d, next.modified>>>>]
        /\ readAt' = [readAt EXCEPT ![w] = version[b] + 1]
        /\ overwrote' = (overwrote \/ (~any /\ readAt[w] # version[b]))
    BY <1>2, Zenon DEF put_with_at
  <2>2. boxes[b] # NoBox /\ boxes[b] \in BoxType /\ boxes[b].modified \in Nat
    BY <1>2, ZenonT(30) DEF Here, RdvInv, RdvTypes, BoxType
  <2>3. next \in BoxType /\ next.modified > boxes[b].modified /\ next.modified \in Nat
    <3> DEFINE m == next_last_modified(clock, boxes[b].modified)
    <3>1. m \in Nat /\ m > boxes[b].modified
      BY <2>2 DEF RdvInv, RdvTypes, next_last_modified
    <3>2. next = [boxes[b] EXCEPT !.data = d, !.modified = m]
      BY Zenon
    <3> HIDE DEF m, next
    <3> QED
      BY <2>2, <3>1, <3>2, Zenon DEF BoxType
  <2>4. ~any => readAt[w] = version[b]
    <3>1. ASSUME ~any PROVE read[w][2][2] = boxes[b].modified
      BY <1>2, <3>1 DEF etag
    <3> QED
      BY <3>1, <1>1, <2>2, Zenon DEF RdvInv, ValidatorOK
  <2>5. overwrote' = FALSE
    BY <2>1, <2>4, Zenon DEF RdvInv
  <2> HIDE DEF next
  <2>6. boxes'[b] = next /\ version'[b] = version[b] + 1
    BY <2>1, Zenon DEF RdvInv, RdvTypes
  <2>7. ASSUME NEW c \in Boxes \ {b} PROVE boxes'[c] = boxes[c] /\ version'[c] = version[c]
    BY <2>1, Zenon DEF RdvInv, RdvTypes
  <2>8. RdvTypes'
    BY <1>1, <2>1, <2>3 DEF RdvInv, RdvTypes, ReadType
  <2>9. ASSUME NEW v \in BoxWriters PROVE ValidatorOK(v)'
    <3>1. CASE v = w
      <4>1. read'[v] = <<b, <<d, next.modified>>>> /\ readAt'[v] = version[b] + 1
        BY <2>1, <3>1, Zenon DEF RdvInv, RdvTypes
      <4>2. read'[v][1] = b /\ read'[v][2][2] = next.modified
        BY <4>1
      <4> QED
        BY <4>1, <4>2, <1>1, <2>3, <2>6 DEF ValidatorOK
    <3>2. CASE v # w
      <4>1. read'[v] = read[v] /\ readAt'[v] = readAt[v]
        BY <2>1, <3>2, Zenon DEF RdvInv, RdvTypes
      <4>2. ASSUME read[v] # NoBox
            PROVE  read[v][1] \in Boxes /\ read[v][2][2] \in Nat
        BY <4>2, Zenon DEF RdvInv, RdvTypes, ReadType
      <4>3. CASE read[v][1] = b
        BY <4>1, <4>2, <4>3, <1>1, <2>2, <2>3, <2>6 DEF RdvInv, ValidatorOK
      <4>4. CASE read[v][1] # b
        BY <4>1, <4>2, <4>4, <1>1, <2>7, ZenonT(90) DEF RdvInv, ValidatorOK
      <4> QED
        BY <4>3, <4>4, Zenon
    <3> QED
      BY <3>1, <3>2, Zenon
  <2> QED
    BY <1>1, <2>5, <2>6, <2>7, <2>8, <2>9, ZenonT(30) DEF RdvInv
<1>3. CASE ~(Here(b) /\ match)
  <2>1. boxes' = Reap(b) /\ UNCHANGED <<version, overwrote>>
    BY <1>3, Zenon DEF put_with_at
  <2>2. CASE Here(b) /\ d = boxes[b].data
    <3>1. get_at(w, b)
      BY <1>1, <1>3, <2>1, <2>2, Zenon DEF put_with_at, get_at
    <3> QED
      BY <3>1, ReadKeeps, Zenon
  <2>3. CASE ~(Here(b) /\ d = boxes[b].data)
    <3>1. read' = read /\ readAt' = readAt
      BY <1>3, <2>3, Zenon DEF put_with_at, RdvInv, RdvTypes
    <3>2. RdvTypes'
      BY <1>1, <2>1, <3>1, Reaps, ZenonT(30) DEF RdvInv, RdvTypes
    <3> QED
      BY <1>1, <2>1, <3>1, <3>2, Reaps, BoxesGo, Zenon
  <2> QED
    BY <2>2, <2>3, Zenon
<1> QED
  BY <1>2, <1>3, Zenon

LEMMA OpenKeeps ==
  ASSUME RdvInv, NEW b \in Boxes, NEW d \in Payloads, create_box_at(b, d)
  PROVE  RdvInv'
<1> DEFINE new == [data |-> d, modified |-> clock, created |-> clock, stale |-> FALSE]
<1>1. /\ b \notin opened /\ opened' = opened \cup {b}
      /\ UNCHANGED <<clock, read, version, readAt, overwrote>>
  BY ZenonT(30) DEF create_box_at
<1>2. PICK kept \in SUBSET Boxes : boxes' =
          [x \in Boxes |-> IF x = b THEN new ELSE IF x \in kept THEN boxes[x] ELSE NoBox]
  <2> DEFINE live == {x \in Boxes : boxes[x] # NoBox /\ ~boxes[x].stale}
  <2>1. \E victim : boxes' = [x \in Boxes |->
            IF x = b THEN new ELSE IF x \in live \ {victim} THEN boxes[x] ELSE NoBox]
    BY ZenonT(30) DEF create_box_at
  <2>2. \A victim : live \ {victim} \in SUBSET Boxes
    BY Zenon
  <2> HIDE DEF live
  <2> QED
    BY <2>1, <2>2, ZenonT(30)
<1>3. new \in BoxType
  BY ZenonT(30) DEF RdvInv, RdvTypes, BoxType
<1> HIDE DEF new
<1>4. RdvTypes'
  BY <1>1, <1>2, <1>3, Zenon DEF RdvInv, RdvTypes
<1>5. ASSUME NEW c \in Boxes \ {b} PROVE boxes'[c] # NoBox => boxes'[c] = boxes[c]
  BY <1>2, Zenon
<1>6. ASSUME NEW w \in BoxWriters PROVE ValidatorOK(w)'
  <2>1. ASSUME read[w] # NoBox PROVE read[w][1] \in Boxes \ {b}
    BY <2>1, <1>1, Zenon DEF RdvInv, RdvTypes, ReadType, ValidatorOK
  <2> QED
    BY <2>1, <1>1, <1>5, ZenonT(30) DEF RdvInv, ValidatorOK
<1> QED
  BY <1>1, <1>4, <1>5, <1>6, ZenonT(30) DEF RdvInv

LEMMA RdvStep == RdvInv /\ [RdvNext]_rdvVars => RdvInv'
<1> SUFFICES ASSUME RdvInv, [RdvNext]_rdvVars PROVE RdvInv'
  BY Zenon
<1>1. ASSUME NEW b \in Boxes, delete_box(b) PROVE RdvInv'
  <2>1. boxes' = [boxes EXCEPT ![b] = NoBox] /\ UNCHANGED <<opened, clock, read, version, readAt, overwrote>>
    BY <1>1, Zenon DEF delete_box
  <2>2. RdvTypes'
    BY <2>1, Zenon DEF RdvInv, RdvTypes
  <2>3. \A c \in Boxes : boxes'[c] # NoBox => boxes'[c] = boxes[c]
    BY <2>1, Zenon DEF RdvInv, RdvTypes
  <2> QED
    BY <2>1, <2>2, <2>3, BoxesGo, Zenon
<1>2. ASSUME RdvTime PROVE RdvInv'
  <2>1. CASE (\E c \in 0 .. MaxClock : clock' = c) /\ UNCHANGED boxes
    <3>1. clock' \in Nat /\ UNCHANGED <<boxes, opened, read, version, readAt, overwrote>>
      BY <1>2, <2>1, RdvAssumption DEF RdvTime
    <3>2. RdvTypes'
      BY <3>1, Zenon DEF RdvInv, RdvTypes
    <3> QED
      BY <3>1, <3>2, BoxesGo, Zenon
  <2>2. ASSUME NEW b \in Boxes, Here(b), boxes' = [boxes EXCEPT ![b].stale = TRUE], UNCHANGED clock
        PROVE  RdvInv'
    <3> DEFINE new == [boxes[b] EXCEPT !.stale = TRUE]
    <3>1. UNCHANGED <<opened, read, version, readAt, overwrote>> /\ boxes' = [boxes EXCEPT ![b] = new]
      BY <1>2, <2>2, Zenon DEF RdvTime
    <3>2. boxes[b] # NoBox /\ boxes[b] \in BoxType
      BY <2>2, Zenon DEF Here, RdvInv, RdvTypes
    <3>3. new \in BoxType /\ new.modified = boxes[b].modified
      BY <3>2, Zenon DEF BoxType
    <3> HIDE DEF new
    <3>4. RdvTypes'
      BY <2>2, <3>1, <3>3, ZenonT(30) DEF RdvInv, RdvTypes
    <3>5. \A c \in Boxes : boxes'[c] # NoBox =>
              boxes[c] # NoBox /\ boxes'[c].modified = boxes[c].modified
      BY <3>1, <3>2, <3>3, Zenon DEF RdvInv, RdvTypes
    <3> QED
      BY <3>1, <3>4, <3>5, BoxesGo, Zenon
  <2> QED
    BY <1>2, <2>1, <2>2, Zenon DEF RdvTime
<1>3. ASSUME UNCHANGED rdvVars PROVE RdvInv'
  <2>1. UNCHANGED <<boxes, opened, clock, read, version, readAt, overwrote>>
    BY <1>3, Zenon DEF rdvVars
  <2>2. RdvTypes'
    BY <2>1, Zenon DEF RdvInv, RdvTypes
  <2> QED
    BY <2>1, <2>2, BoxesGo, Zenon
<1> QED
  BY <1>1, <1>2, <1>3, OpenKeeps, ReadKeeps, WriteKeeps, Zenon DEF RdvNext

(* Rendezvous mailboxes (rendezvous.rs, put_with_at): an accepted
   conditional write replaces the version its device read, for any number of
   boxes and devices, whatever the clock does. *)
THEOREM WritesAreConditional == RdvSpec => []NoLostWrite
<1>1. RdvInv => NoLostWrite
  BY Zenon DEF RdvInv, NoLostWrite
<1> QED
  BY <1>1, RdvStart, RdvStep, PTL DEF RdvSpec

-----------------------------------------------------------------------------
(* Authorization requests and device grants.                               *)

GrantType == [status : {"pending", "approved", "denied"}, user : OUsers \cup {Nought},
              scope : Scopes, attempts : Nat, expired : BOOLEAN]

TabTypes ==
    /\ DOMAIN tabs = Tabs
    /\ \A b \in Tabs : /\ "at" \in DOMAIN tabs[b]
                       /\ tabs[b].at # "idle" => "req" \in DOMAIN tabs[b] /\ tabs[b].req \in ReqIds

OAuthTypes ==
    /\ DOMAIN reqs = ReqIds /\ DOMAIN codes = ReqIds
    /\ grants \in [Grants -> GrantType \cup {Nought}]
    /\ DOMAIN logins = LoginTokens /\ issued \in [Sources -> Nat]
    /\ TabTypes

\* A tab that has taken a request and is to make its code.
Minting(b, r) == tabs[b].at = "mint" /\ tabs[b].req = r

\* Nothing came of the request, and nothing is about to.
NothingYet(r) ==
    /\ codes[r] = Nought /\ issued[r] = 0 /\ r \notin refused
    /\ \A b \in Tabs : ~Minting(b, r)

\* A request is its row, then one tab's, then its code, then its session.
RequestOK(r) ==
    /\ r \notin drawn => reqs[r] = Nought
    /\ r \notin drawn \/ reqs[r] # Nought => NothingYet(r)
    /\ \A b \in Tabs : Minting(b, r) =>
           /\ codes[r] = Nought /\ issued[r] = 0 /\ r \notin refused
           /\ \A c \in Tabs : Minting(c, r) => c = b
    /\ codes[r] # Nought => issued[r] = 0 /\ r \notin refused
    /\ issued[r] <= (IF r \in refused THEN 0 ELSE 1)

\* A grant with a row has signed nobody in, and a refused one stays denied.
GrantOK(g) ==
    /\ g \notin drawn => grants[g] = Nought /\ issued[g] = 0 /\ g \notin refused
    /\ grants[g] # Nought => issued[g] = 0 /\ (g \in refused => grants[g].status = "denied")
    /\ issued[g] <= (IF g \in refused THEN 0 ELSE 1)

OAuthInv ==
    /\ OAuthTypes
    /\ \A r \in ReqIds : RequestOK(r)
    /\ \A g \in Grants : GrantOK(g)

LEMMA OAuthStart == OAuthInit => OAuthInv
<1> SUFFICES ASSUME OAuthInit PROVE OAuthInv
  BY Zenon
<1>1. \A b \in Tabs : tabs[b] = NoTab
  BY Zenon DEF OAuthInit
<1>2. NoTab.at = "idle" /\ "at" \in DOMAIN NoTab
  BY Zenon DEF NoTab
<1>3. OAuthTypes
  BY <1>1, <1>2, Zenon DEF OAuthInit, OAuthTypes, TabTypes
<1>4. ASSUME NEW r \in ReqIds PROVE RequestOK(r)
  BY <1>1, <1>2 DEF OAuthInit, RequestOK, NothingYet, Minting, Sources
<1>5. ASSUME NEW g \in Grants PROVE GrantOK(g)
  BY DEF OAuthInit, GrantOK, Sources
<1> QED
  BY <1>3, <1>4, <1>5, Zenon DEF OAuthInv

\* No tab takes a request.
CalmTabs == \A b \in Tabs, r \in ReqIds : Minting(b, r)' => Minting(b, r)

\* What begins no request, takes none and makes no code.
CalmRequests ==
    /\ UNCHANGED <<drawn, issued, refused>>
    /\ \A r \in ReqIds : /\ reqs'[r] # Nought => reqs[r] # Nought
                         /\ codes'[r] # Nought => codes[r] # Nought
    /\ CalmTabs

LEMMA RequestsStay ==
  ASSUME OAuthInv, CalmRequests PROVE \A r \in ReqIds : RequestOK(r)'
<1> TAKE r \in ReqIds
<1>1. RequestOK(r)
  BY Zenon DEF OAuthInv
<1>2. NothingYet(r) => NothingYet(r)'
  BY Zenon DEF CalmRequests, CalmTabs, NothingYet
<1> QED
  BY <1>1, <1>2, ZenonT(30) DEF CalmRequests, CalmTabs, RequestOK

\* What leaves the grants, their numbers and their refusals alone.
CalmGrants ==
    \A g \in Grants :
        /\ issued'[g] = issued[g] /\ (g \in drawn' <=> g \in drawn)
        /\ g \in refused' <=> g \in refused
        /\ grants'[g] # Nought => grants[g] # Nought /\ grants'[g].status = grants[g].status

LEMMA GrantsStay ==
  ASSUME OAuthInv, CalmGrants PROVE \A g \in Grants : GrantOK(g)'
  BY Zenon DEF OAuthInv, CalmGrants, GrantOK

LEMMA TheGrantsStay ==
  ASSUME OAuthInv, UNCHANGED <<grants, drawn, issued, refused>> PROVE CalmGrants
  BY Zenon DEF CalmGrants

LEMMA TheTabsStay ==
  ASSUME OAuthInv, tabs' = tabs PROVE TabTypes' /\ CalmTabs
  BY Zenon DEF OAuthInv, OAuthTypes, TabTypes, CalmTabs, Minting

\* A tab that is given something to do, and does not take a request.
LEMMA TabMoves ==
  ASSUME OAuthInv, NEW b \in Tabs, NEW x, tabs' = [tabs EXCEPT ![b] = x],
         "at" \in DOMAIN x, x.at # "mint",
         x.at # "idle" => "req" \in DOMAIN x /\ x.req \in ReqIds
  PROVE  TabTypes' /\ CalmTabs
  BY Zenon DEF OAuthInv, OAuthTypes, TabTypes, CalmTabs, Minting

LEMMA TabRests ==
  ASSUME OAuthInv, NEW b \in Tabs, tabs' = [tabs EXCEPT ![b] = NoTab] PROVE TabTypes' /\ CalmTabs
<1>1. "at" \in DOMAIN NoTab /\ NoTab.at = "idle"
  BY Zenon DEF NoTab
<1> QED
  BY <1>1, TabMoves, ZenonT(30)

LEMMA ReapedRows ==
  ASSUME OAuthInv, NEW r \in ReqIds
  PROVE  DOMAIN Reaped(r) = ReqIds /\ \A q \in ReqIds : Reaped(r)[q] # Nought => reqs[q] # Nought
  BY Zenon DEF OAuthInv, OAuthTypes, Reaped

\* A live row is changed, or an expired one reaped.
LEMMA RowChanges ==
  ASSUME OAuthInv, NEW r \in ReqIds, NEW row,
         (LiveReq(r) /\ reqs' = [reqs EXCEPT ![r] = row]) \/ reqs' = Reaped(r)
  PROVE  DOMAIN reqs' = ReqIds /\ \A q \in ReqIds : reqs'[q] # Nought => reqs[q] # Nought
  BY ReapedRows, Zenon DEF OAuthInv, OAuthTypes, LiveReq

\* The steps that only change rows of requests, tabs, logins and accounts.
LEMMA CalmKeeps ==
  ASSUME OAuthInv, UNCHANGED <<codes, grants, drawn, issued, refused>>,
         DOMAIN reqs' = ReqIds, \A q \in ReqIds : reqs'[q] # Nought => reqs[q] # Nought,
         DOMAIN logins' = LoginTokens, TabTypes', CalmTabs
  PROVE  OAuthInv'
<1>1. OAuthTypes'
  BY Zenon DEF OAuthInv, OAuthTypes
<1>2. CalmRequests
  BY ZenonT(30) DEF CalmRequests
<1> QED
  BY <1>1, <1>2, RequestsStay, TheGrantsStay, GrantsStay, Zenon DEF OAuthInv

LEMMA SpendKeepsDomain ==
  ASSUME OAuthInv, NEW t, consume_login_token(t) PROVE DOMAIN logins' = LoginTokens
  BY ZenonT(30) DEF OAuthInv, OAuthTypes, consume_login_token

LEMMA AuthorizeKeeps ==
  ASSUME OAuthInv, NEW r \in ReqIds, NEW c, NEW u, NEW sc, NEW p, authorize_route(r, c, u, sc, p)
  PROVE  OAuthInv'
<1>1. /\ r \notin drawn /\ drawn' = drawn \cup {r} /\ \E row : reqs' = [reqs EXCEPT ![r] = row]
      /\ UNCHANGED <<codes, grants, logins, tabs, issued, refused>>
  BY ZenonT(30) DEF authorize_route
<1>2. DOMAIN reqs' = ReqIds /\ \A q \in ReqIds \ {r} : reqs'[q] = reqs[q] /\ (q \in drawn' <=> q \in drawn)
  BY <1>1, Zenon DEF OAuthInv, OAuthTypes
<1>3. OAuthTypes'
  BY <1>1, <1>2, TheTabsStay, Zenon DEF OAuthInv, OAuthTypes
<1>4. ASSUME NEW q \in ReqIds PROVE RequestOK(q)'
  <2>1. NothingYet(q) => NothingYet(q)'
    BY <1>1, ZenonT(30) DEF NothingYet, Minting
  <2>2. \A b \in Tabs : Minting(b, q)' <=> Minting(b, q)
    BY <1>1, ZenonT(30) DEF Minting
  <2>4. CASE q = r
    <3>1. NothingYet(q)
      BY <1>1, <2>4, ZenonT(30) DEF OAuthInv, RequestOK
    <3> QED
      BY <1>1, <2>1, <2>2, <2>4, <3>1 DEF RequestOK, NothingYet
  <2>5. CASE q # r
    BY <1>1, <1>2, <2>1, <2>2, <2>5, ZenonT(30) DEF OAuthInv, RequestOK
  <2> QED
    BY <2>4, <2>5, Zenon
<1>5. CalmGrants
  BY <1>1, OAuthAssumption, ZenonT(30) DEF CalmGrants
<1> QED
  BY <1>3, <1>4, <1>5, GrantsStay, Zenon DEF OAuthInv

LEMMA TakeKeeps ==
  ASSUME OAuthInv, NEW b \in Tabs, take_auth_request(b)
  PROVE  OAuthInv'
<1>r. tabs[b].req \in ReqIds /\ "at" \in DOMAIN tabs[b] /\ "req" \in DOMAIN tabs[b]
  BY Zenon DEF take_auth_request, OAuthInv, OAuthTypes, TabTypes
<1> PICK r \in ReqIds : r = tabs[b].req
  BY <1>r, Zenon
<1> DEFINE same == LiveReq(r) /\ reqs[r] = tabs[b].seen
           x == IF same THEN [tabs[b] EXCEPT !.at = "mint"] ELSE NoTab
<1>1. /\ tabs[b].at = "take"
      /\ reqs' = (IF same THEN [reqs EXCEPT ![r] = Nought] ELSE Reaped(r))
      /\ tabs' = [tabs EXCEPT ![b] = x]
      /\ UNCHANGED <<codes, grants, drawn, logins, issued, refused>>
  BY Zenon DEF take_auth_request
<1>3. CASE ~same
  <2>1. x = NoTab /\ reqs' = Reaped(r)
    BY <1>1, <1>3, Zenon
  <2> HIDE DEF same, x
  <2>3. DOMAIN logins' = LoginTokens
    BY <1>1, ZenonT(30) DEF OAuthInv, OAuthTypes
  <2>4. DOMAIN reqs' = ReqIds /\ \A q \in ReqIds : reqs'[q] # Nought => reqs[q] # Nought
    BY <2>1, ReapedRows, Zenon
  <2>5. TabTypes' /\ CalmTabs
    BY <1>1, <2>1, TabRests, ZenonT(30)
  <2> QED
    BY <1>1, <2>3, <2>4, <2>5, CalmKeeps, Zenon
<1>4. CASE same
  <2>1. x = [tabs[b] EXCEPT !.at = "mint"] /\ reqs' = [reqs EXCEPT ![r] = Nought] /\ reqs[r] # Nought
    BY <1>1, <1>4, Zenon DEF LiveReq
  <2>2. x.at = "mint" /\ x.req = r /\ "at" \in DOMAIN x /\ "req" \in DOMAIN x
    BY <1>r, <2>1, Zenon
  <2> HIDE DEF same, x
  <2>3. tabs'[b] = x /\ \A c \in Tabs \ {b} : tabs'[c] = tabs[c]
    BY <1>1, Zenon DEF OAuthInv, OAuthTypes, TabTypes
  <2>4. DOMAIN tabs' = Tabs /\ DOMAIN reqs' = ReqIds
    BY <1>1, <2>1, Zenon DEF OAuthInv, OAuthTypes, TabTypes
  <2>5. OAuthTypes'
    BY <1>1, <2>2, <2>3, <2>4, Zenon DEF OAuthInv, OAuthTypes, TabTypes
  <2>6. reqs'[r] = Nought /\ \A q \in ReqIds \ {r} : reqs'[q] = reqs[q]
    BY <2>1, Zenon DEF OAuthInv, OAuthTypes
  <2>7. NothingYet(r) /\ r \in drawn
    BY <2>1, Zenon DEF OAuthInv, RequestOK
  <2>8. ASSUME NEW q \in ReqIds PROVE RequestOK(q)'
    <3>1. CASE q = r
      <4>1. \A c \in Tabs : Minting(c, r)' => c = b
        BY <2>3, <2>7, ZenonT(30) DEF Minting, NothingYet
      <4>2. codes'[r] = Nought /\ issued'[r] = 0 /\ r \notin refused' /\ r \in drawn'
        BY <1>1, <2>7, ZenonT(30) DEF NothingYet
      <4> QED
        BY <3>1, <4>1, <4>2, <2>6 DEF RequestOK
    <3>2. CASE q # r
      <4>1. \A c \in Tabs : Minting(c, q)' => Minting(c, q)
        BY <2>2, <2>3, <3>2, ZenonT(30) DEF Minting
      <4>2. NothingYet(q) => NothingYet(q)'
        BY <1>1, <4>1, Zenon DEF NothingYet
      <4>3. RequestOK(q) /\ reqs'[q] = reqs[q]
        BY <3>2, <2>6, Zenon DEF OAuthInv
      <4> QED
        BY <1>1, <4>1, <4>2, <4>3, ZenonT(30) DEF RequestOK
    <3> QED
      BY <3>1, <3>2, Zenon
  <2>9. CalmGrants
    BY <1>1, TheGrantsStay, Zenon
  <2> QED
    BY <2>5, <2>8, <2>9, GrantsStay, Zenon DEF OAuthInv
<1> QED
  BY <1>3, <1>4, Zenon

LEMMA ReleaseKeeps ==
  ASSUME OAuthInv, NEW b \in Tabs, release_code(b)
  PROVE  OAuthInv'
<1>r. tabs[b].req \in ReqIds
  BY ZenonT(30) DEF release_code, OAuthInv, OAuthTypes, TabTypes
<1> PICK r \in ReqIds : r = tabs[b].req
  BY <1>r, Zenon
<1>1. /\ tabs[b].at = "mint" /\ tabs' = [tabs EXCEPT ![b] = NoTab]
      /\ codes' = codes \/ \E row : codes' = [codes EXCEPT ![r] = row]
      /\ UNCHANGED <<reqs, grants, drawn, issued, refused>>
      /\ DOMAIN logins' = LoginTokens
  BY SpendKeepsDomain, ZenonT(30) DEF release_code, create_auth_code
<1>2. Minting(b, r)
  BY <1>1, ZenonT(30) DEF Minting
<1>3. NoTab.at = "idle"
  BY Zenon DEF NoTab
<1>4. DOMAIN codes' = ReqIds /\ \A q \in ReqIds \ {r} : codes'[q] = codes[q]
  BY <1>1, ZenonT(30) DEF OAuthInv, OAuthTypes
<1>5. TabTypes' /\ CalmTabs
  BY <1>1, TabRests, ZenonT(30)
<1>6. OAuthTypes'
  BY <1>1, <1>4, <1>5, ZenonT(30) DEF OAuthInv, OAuthTypes
<1>7. ~Minting(b, r)'
  BY <1>1, <1>3, ZenonT(30) DEF Minting, OAuthInv, OAuthTypes, TabTypes
<1>8. ASSUME NEW q \in ReqIds PROVE RequestOK(q)'
  <2>1. RequestOK(q)
    BY Zenon DEF OAuthInv
  <2>2. CASE q = r
    <3>1. /\ issued'[q] = 0 /\ q \notin refused' /\ reqs'[q] = Nought /\ q \in drawn'
          /\ \A c \in Tabs : Minting(c, q) => c = b
      BY <1>1, <1>2, <2>1, <2>2, ZenonT(30) DEF RequestOK, NothingYet
    <3>2. \A c \in Tabs : ~Minting(c, q)'
      BY <1>5, <1>7, <2>2, <3>1, ZenonT(30) DEF CalmTabs
    <3> QED
      BY <3>1, <3>2 DEF RequestOK
  <2>3. CASE q # r
    <3>1. NothingYet(q) => NothingYet(q)'
      BY <1>1, <1>4, <1>5, <2>3, ZenonT(30) DEF NothingYet, CalmTabs
    <3> QED
      BY <1>1, <1>4, <1>5, <2>1, <2>3, <3>1, ZenonT(30) DEF RequestOK, CalmTabs
  <2> QED
    BY <2>2, <2>3, Zenon
<1>9. CalmGrants
  BY <1>1, TheGrantsStay, Zenon
<1> QED
  BY <1>6, <1>8, <1>9, GrantsStay, Zenon DEF OAuthInv

LEMMA RefuseKeeps ==
  ASSUME OAuthInv, NEW r \in ReqIds, NEW t, refuse_code(r, t)
  PROVE  OAuthInv'
<1>1. /\ r \in drawn /\ refused' = (IF reqs[r] # Nought THEN refused \cup {r} ELSE refused)
      /\ reqs' = [reqs EXCEPT ![r] = Nought] /\ DOMAIN logins' = LoginTokens
      /\ UNCHANGED <<codes, grants, drawn, tabs, issued>>
  BY SpendKeepsDomain, Zenon DEF refuse_code, retire_auth_request
<1>2. DOMAIN reqs' = ReqIds /\ reqs'[r] = Nought /\ \A q \in ReqIds \ {r} : reqs'[q] = reqs[q]
  BY <1>1, ZenonT(30) DEF OAuthInv, OAuthTypes
<1>3. TabTypes' /\ \A b \in Tabs, q \in ReqIds : Minting(b, q)' <=> Minting(b, q)
  BY <1>1, TheTabsStay, Zenon DEF Minting
<1>4. OAuthTypes'
  BY <1>1, <1>2, <1>3, ZenonT(30) DEF OAuthInv, OAuthTypes
<1>5. ASSUME NEW q \in ReqIds PROVE RequestOK(q)'
  <2>1. RequestOK(q)
    BY Zenon DEF OAuthInv
  <2>2. CASE q = r /\ reqs[r] # Nought
    <3>1. NothingYet(r)
      BY <2>1, <2>2, Zenon DEF RequestOK
    <3>2. codes'[r] = Nought /\ issued'[r] = 0 /\ \A b \in Tabs : ~Minting(b, r)'
      BY <1>1, <1>3, <3>1, Zenon DEF NothingYet
    <3> QED
      BY <1>1, <1>2, <2>2, <3>2 DEF RequestOK
  <2>3. CASE q # r \/ reqs[r] = Nought
    <3>1. reqs'[q] = reqs[q] /\ (q \in refused' <=> q \in refused)
      BY <1>1, <1>2, <2>3, Zenon
    <3>2. NothingYet(q) => NothingYet(q)'
      BY <1>1, <1>3, <3>1, ZenonT(30) DEF NothingYet
    <3> QED
      BY <1>1, <1>3, <2>1, <3>1, <3>2, Zenon DEF RequestOK
  <2> QED
    BY <2>2, <2>3, Zenon
<1>6. CalmGrants
  BY <1>1, OAuthAssumption, Zenon DEF CalmGrants
<1> QED
  BY <1>4, <1>5, <1>6, GrantsStay, Zenon DEF OAuthInv

LEMMA IssueEffect ==
  ASSUME OAuthInv, NEW src \in Sources, NEW u, NEW sc, issue_tokens(src, u, sc)
  PROVE  issued' = issued \/ issued' = [issued EXCEPT ![src] = @ + 1]
  BY Zenon DEF issue_tokens

LEMMA ExchangeKeeps ==
  ASSUME OAuthInv, NEW r \in ReqIds, NEW u, NEW v, token_authorization_code(r, u, v)
  PROVE  OAuthInv'
<1>1. /\ codes[r] # Nought /\ codes' = [codes EXCEPT ![r] = Nought]
      /\ issued' = issued \/ issued' = [issued EXCEPT ![r] = @ + 1]
      /\ UNCHANGED <<reqs, grants, drawn, logins, tabs, refused>>
  BY IssueEffect, Zenon DEF token_authorization_code, Sources
<1>2. issued[r] = 0 /\ r \notin refused /\ reqs[r] = Nought /\ r \in drawn /\ \A b \in Tabs : ~Minting(b, r)
  BY <1>1, Zenon DEF OAuthInv, RequestOK, NothingYet
<1>3. DOMAIN codes' = ReqIds /\ codes'[r] = Nought /\ \A q \in ReqIds \ {r} : codes'[q] = codes[q]
  BY <1>1, Zenon DEF OAuthInv, OAuthTypes
<1>4. issued' \in [Sources -> Nat] /\ issued'[r] <= 1 /\ \A x \in Sources \ {r} : issued'[x] = issued[x]
  BY <1>1, <1>2 DEF OAuthInv, OAuthTypes, Sources
<1>5. TabTypes' /\ \A b \in Tabs, q \in ReqIds : Minting(b, q)' <=> Minting(b, q)
  BY <1>1, TheTabsStay, Zenon DEF Minting
<1>6. OAuthTypes'
  BY <1>1, <1>3, <1>4, <1>5, Zenon DEF OAuthInv, OAuthTypes
<1>7. ASSUME NEW q \in ReqIds PROVE RequestOK(q)'
  <2>1. CASE q = r
    BY <1>1, <1>2, <1>3, <1>4, <1>5, <2>1, Zenon DEF RequestOK
  <2>2. CASE q # r
    <3>1. RequestOK(q) /\ codes'[q] = codes[q] /\ issued'[q] = issued[q]
      BY <1>3, <1>4, <2>2, ZenonT(30) DEF OAuthInv, Sources
    <3>2. NothingYet(q) => NothingYet(q)'
      BY <1>1, <1>5, <3>1, Zenon DEF NothingYet
    <3> QED
      BY <1>1, <1>5, <3>1, <3>2, ZenonT(30) DEF RequestOK
  <2> QED
    BY <2>1, <2>2, Zenon
<1>8. CalmGrants
  BY <1>1, <1>4, OAuthAssumption, Zenon DEF CalmGrants, Sources
<1> QED
  BY <1>6, <1>7, <1>8, GrantsStay, Zenon DEF OAuthInv

\* Steps about grants leave the requests as they are.
LEMMA GrantChanges ==
  ASSUME OAuthInv, NEW g \in Grants, UNCHANGED <<reqs, codes, tabs>>, DOMAIN logins' = LoginTokens,
         grants' \in [Grants -> GrantType \cup {Nought}], issued' \in [Sources -> Nat],
         \A h \in Grants \ {g} : grants'[h] = grants[h],
         \A x \in Sources \ {g} : /\ issued'[x] = issued[x]
                                  /\ x \in drawn' <=> x \in drawn
                                  /\ x \in refused' <=> x \in refused,
         GrantOK(g)'
  PROVE  OAuthInv'
<1>1. TabTypes' /\ \A b \in Tabs, q \in ReqIds : Minting(b, q)' <=> Minting(b, q)
  BY TheTabsStay, ZenonT(30) DEF Minting
<1>2. OAuthTypes'
  BY <1>1, ZenonT(30) DEF OAuthInv, OAuthTypes
<1>3. ASSUME NEW q \in ReqIds PROVE RequestOK(q)'
  <2>1. q \in Sources \ {g} /\ RequestOK(q)
    BY OAuthAssumption, ZenonT(30) DEF Sources, OAuthInv
  <2>2. NothingYet(q) => NothingYet(q)'
    BY <1>1, <2>1, ZenonT(30) DEF NothingYet
  <2> QED
    BY <1>1, <2>1, <2>2, ZenonT(30) DEF RequestOK
<1>4. ASSUME NEW h \in Grants \ {g} PROVE GrantOK(h)'
  <2>1. h \in Sources \ {g} /\ GrantOK(h)
    BY ZenonT(30) DEF Sources, OAuthInv
  <2> QED
    BY <2>1, ZenonT(30) DEF GrantOK
<1> QED
  BY <1>2, <1>3, <1>4, Zenon DEF OAuthInv

\* A grant's row changes, keeping its answer, or goes.
LEMMA GrantRowChanges ==
  ASSUME OAuthInv, NEW g \in Grants, UNCHANGED <<reqs, codes, tabs, drawn, issued, refused>>,
         DOMAIN logins' = LoginTokens, NEW row \in GrantType \cup {Nought},
         grants' = [grants EXCEPT ![g] = row],
         row # Nought => grants[g] # Nought /\ row.status = grants[g].status
  PROVE  OAuthInv'
<1>1. /\ grants' \in [Grants -> GrantType \cup {Nought}] /\ grants'[g] = row
      /\ \A h \in Grants \ {g} : grants'[h] = grants[h]
  BY ZenonT(30) DEF OAuthInv, OAuthTypes
<1>2. GrantOK(g)'
  BY <1>1, Zenon DEF OAuthInv, GrantOK
<1>3. issued' \in [Sources -> Nat]
  BY Zenon DEF OAuthInv, OAuthTypes
<1> QED
  BY <1>1, <1>2, <1>3, GrantChanges, Zenon

LEMMA SameGrantRow ==
  ASSUME OAuthInv, NEW g \in Grants, grants' = grants,
         UNCHANGED <<reqs, codes, tabs, drawn, issued, refused>>, DOMAIN logins' = LoginTokens
  PROVE  OAuthInv'
<1>1. grants[g] \in GrantType \cup {Nought} /\ grants' = [grants EXCEPT ![g] = grants[g]]
  BY Zenon DEF OAuthInv, OAuthTypes
<1> QED
  BY <1>1, GrantRowChanges, ZenonT(30)

LEMMA ReapedGrant ==
  ASSUME OAuthInv, NEW g \in Grants, grants' = GrantReaped(g),
         UNCHANGED <<reqs, codes, tabs, drawn, issued, refused>>, DOMAIN logins' = LoginTokens
  PROVE  OAuthInv'
<1>1. grants' = grants \/ grants' = [grants EXCEPT ![g] = Nought]
  BY Zenon DEF GrantReaped
<1> QED
  BY <1>1, GrantRowChanges, SameGrantRow, Zenon

LEMMA DeviceAuthorizationKeeps ==
  ASSUME OAuthInv, NEW g \in Grants, NEW sc \in Scopes, device_authorization(g, sc)
  PROVE  OAuthInv'
<1> DEFINE row == [status |-> "pending", user |-> Nought, scope |-> sc, attempts |-> 0, expired |-> FALSE]
<1>1. /\ g \notin drawn /\ drawn' = drawn \cup {g} /\ grants' = [grants EXCEPT ![g] = row]
      /\ UNCHANGED <<reqs, codes, logins, tabs, issued, refused>>
  BY Zenon DEF device_authorization, create_device_grant
<1>2. row \in GrantType
  BY Zenon DEF GrantType
<1> HIDE DEF row
<1>3. /\ grants' \in [Grants -> GrantType \cup {Nought}]
      /\ \A h \in Grants \ {g} : grants'[h] = grants[h]
  BY <1>1, <1>2, Zenon DEF OAuthInv, OAuthTypes
<1>4. issued[g] = 0 /\ g \notin refused
  BY <1>1, ZenonT(30) DEF OAuthInv, GrantOK
<1>5. GrantOK(g)'
  BY <1>1, <1>4 DEF GrantOK
<1>6. DOMAIN logins' = LoginTokens /\ issued' \in [Sources -> Nat]
  BY <1>1, Zenon DEF OAuthInv, OAuthTypes
<1> QED
  BY <1>1, <1>3, <1>5, <1>6, GrantChanges, Zenon

LEMMA ShowingKeeps ==
  ASSUME OAuthInv, NEW g \in Grants, NEW t, handle_device_callback_get(g, t)
  PROVE  OAuthInv'
<1> DEFINE row == [grants[g] EXCEPT !.attempts = @ + 1]
<1>1. grants' = verify_device_grant(g) /\ UNCHANGED <<reqs, codes, tabs, drawn, issued, refused>>
  BY Zenon DEF handle_device_callback_get
<1>2. DOMAIN logins' = LoginTokens
  BY SpendKeepsDomain, ZenonT(30) DEF handle_device_callback_get, OAuthInv, OAuthTypes
<1>3. CASE ~Pending(g)
  BY <1>1, <1>2, <1>3, ReapedGrant, Zenon DEF verify_device_grant
<1>4. CASE Pending(g)
  <2>1. grants[g] # Nought /\ grants[g] \in GrantType
    BY <1>4, ZenonT(30) DEF Pending, OAuthInv, OAuthTypes
  <2>2. row \in GrantType /\ row.status = grants[g].status
    BY <2>1 DEF GrantType
  <2>3. grants' = [grants EXCEPT ![g] = Nought] \/ grants' = [grants EXCEPT ![g] = row]
    BY <1>1, <1>4, Zenon DEF verify_device_grant
  <2> HIDE DEF row
  <2> QED
    BY <1>1, <1>2, <2>1, <2>2, <2>3, GrantRowChanges, Zenon
<1> QED
  BY <1>3, <1>4, Zenon

LEMMA AnswerKeeps ==
  ASSUME OAuthInv, NEW g \in Grants, NEW t, NEW action, handle_device_callback_post(g, t, action)
  PROVE  OAuthInv'
<1>1. /\ Holds(t) /\ grants' = Resolve(g, action, logins[t])
      /\ refused' = (IF action = "deny" /\ Pending(g) THEN refused \cup {g} ELSE refused)
      /\ UNCHANGED <<reqs, codes, tabs, drawn, issued>> /\ DOMAIN logins' = LoginTokens
  BY SpendKeepsDomain, Zenon DEF handle_device_callback_post
<1>2. CASE ~Pending(g)
  <2>1. refused' = refused /\ (grants' = GrantReaped(g) \/ grants' = grants)
    BY <1>1, <1>2, Zenon DEF Resolve, set_device_grant_status
  <2> QED
    BY <1>1, <2>1, ReapedGrant, SameGrantRow, Zenon
<1>3. CASE action \notin {"approve", "deny"}
  <2>1. refused' = refused /\ grants' = grants
    BY <1>1, <1>3, Zenon DEF Resolve
  <2> QED
    BY <1>1, <2>1, SameGrantRow, Zenon
<1>4. CASE Pending(g) /\ action \in {"approve", "deny"}
  <2> DEFINE status == IF action = "deny" THEN "denied" ELSE "approved"
             user == IF action = "deny" THEN Nought ELSE logins[t]
             row == [grants[g] EXCEPT !.status = status, !.user = user]
  <2>1. grants' = [grants EXCEPT ![g] = row]
    BY <1>1, <1>4, Zenon DEF Resolve, set_device_grant_status
  <2>2. grants[g] # Nought /\ grants[g] \in GrantType /\ grants[g].status = "pending"
    BY <1>4, Zenon DEF Pending, OAuthInv, OAuthTypes
  <2>3. user \in OUsers \cup {Nought}
    BY <1>1, Zenon DEF Holds
  <2>4. row \in GrantType /\ row.status = status
    BY <2>2, <2>3, ZenonT(30) DEF GrantType
  <2> HIDE DEF row, user
  <2>5. issued[g] = 0 /\ g \notin refused /\ g \in drawn
    BY <2>2, Zenon DEF OAuthInv, GrantOK
  <2>6. /\ grants' \in [Grants -> GrantType \cup {Nought}] /\ grants'[g] = row
        /\ \A h \in Grants \ {g} : grants'[h] = grants[h]
    BY <2>1, <2>4, Zenon DEF OAuthInv, OAuthTypes
  <2>7. g \in refused' => action = "deny"
    BY <1>1, <2>5, Zenon
  <2>8. GrantOK(g)'
    BY <1>1, <2>4, <2>5, <2>6, <2>7 DEF GrantOK
  <2>9. issued' \in [Sources -> Nat]
    BY <1>1, ZenonT(30) DEF OAuthInv, OAuthTypes
  <2>10. \A x \in Sources \ {g} : x \in refused' <=> x \in refused
    BY <1>1, Zenon
  <2> QED
    BY <1>1, <2>6, <2>8, <2>9, <2>10, GrantChanges, Zenon
<1> QED
  BY <1>2, <1>3, <1>4, Zenon

LEMMA PollKeeps ==
  ASSUME OAuthInv, NEW g \in Grants, token_device_code(g)
  PROVE  OAuthInv'
<1>1. grants[g] # Nought /\ grants' = poll_device_grant(g) /\ UNCHANGED <<reqs, codes, tabs, drawn, logins, refused>>
  BY Zenon DEF token_device_code
<1>2. DOMAIN logins' = LoginTokens
  BY <1>1, ZenonT(30) DEF OAuthInv, OAuthTypes
<1>3. CASE ~(grants[g].status = "approved" /\ ~grants[g].expired)
  <2>1. issued' = issued
    BY <1>3, ZenonT(30) DEF token_device_code
  <2>2. grants' = grants \/ grants' = [grants EXCEPT ![g] = Nought]
    BY <1>1, Zenon DEF poll_device_grant
  <2> QED
    BY <1>1, <1>2, <2>1, <2>2, GrantRowChanges, SameGrantRow, Zenon
<1>4. CASE grants[g].status = "approved" /\ ~grants[g].expired
  <2>1. grants' = [grants EXCEPT ![g] = Nought]
    BY <1>1, <1>4, ZenonT(30) DEF poll_device_grant, Pending
  <2>2. issued' = issued \/ issued' = [issued EXCEPT ![g] = @ + 1]
    BY <1>4, IssueEffect, ZenonT(30) DEF token_device_code, Sources
  <2>3. issued[g] = 0 /\ g \notin refused /\ g \in drawn
    BY <1>1, <1>4, ZenonT(30) DEF OAuthInv, GrantOK
  <2>4. issued' \in [Sources -> Nat] /\ issued'[g] <= 1 /\ \A x \in Sources \ {g} : issued'[x] = issued[x]
    BY <2>2, <2>3 DEF OAuthInv, OAuthTypes, Sources
  <2>5. /\ grants' \in [Grants -> GrantType \cup {Nought}] /\ grants'[g] = Nought
        /\ \A h \in Grants \ {g} : grants'[h] = grants[h]
    BY <2>1, Zenon DEF OAuthInv, OAuthTypes
  <2>6. GrantOK(g)'
    BY <1>1, <2>3, <2>4, <2>5, Zenon DEF GrantOK
  <2> QED
    BY <1>1, <1>2, <2>4, <2>5, <2>6, GrantChanges, ZenonT(30)
<1> QED
  BY <1>3, <1>4, ZenonT(30)

\* The rows of requests are as they were, or one is changed or reaped.
LEMMA BindKeepsRows ==
  ASSUME OAuthInv, NEW r \in ReqIds, bind_auth_request_to_local(r)
  PROVE  DOMAIN reqs' = ReqIds /\ \A q \in ReqIds : reqs'[q] # Nought => reqs[q] # Nought
<1>1. (LiveReq(r) /\ reqs' = [reqs EXCEPT ![r] = [reqs[r] EXCEPT !.local = TRUE]]) \/ reqs' = Reaped(r)
  BY Zenon DEF bind_auth_request_to_local
<1> QED
  BY <1>1, RowChanges, Zenon

LEMMA MintKeepsDomain ==
  ASSUME OAuthInv, NEW b, MintLogin(b) PROVE DOMAIN logins' = LoginTokens
  BY ZenonT(30) DEF OAuthInv, OAuthTypes, MintLogin

LEMMA RequestStepKeeps == ASSUME OAuthInv, RequestStep PROVE OAuthInv'
<1>d. DOMAIN logins = LoginTokens /\ DOMAIN reqs = ReqIds
  BY Zenon DEF OAuthInv, OAuthTypes
<1>1. ASSUME NEW r \in ReqIds, NEW p \in Idps, provider_redirect(r, p) PROVE OAuthInv'
  <2>1. (LiveReq(r) /\ reqs' = [reqs EXCEPT ![r] = [reqs[r] EXCEPT !.idp = p]]) \/ reqs' = Reaped(r)
    BY <1>1, Zenon DEF provider_redirect
  <2>2. UNCHANGED <<codes, grants, drawn, logins, tabs, issued, refused>>
    BY <1>1, Zenon DEF provider_redirect
  <2>3. DOMAIN reqs' = ReqIds /\ \A q \in ReqIds : reqs'[q] # Nought => reqs[q] # Nought
    BY <2>1, RowChanges, Zenon
  <2> QED
    BY <1>d, <2>2, <2>3, TheTabsStay, CalmKeeps, Zenon
<1>2. ASSUME NEW b \in Tabs, NEW r \in ReqIds, NEW t \in LoginTokens, NEW u \in OUsers,
             NEW m \in {"login", "register"}, check_local_auth_request(b, r, t, u, m)
      PROVE  OAuthInv'
  <2> DEFINE x == [at |-> m, req |-> r, token |-> t, user |-> u]
  <2>1. /\ tabs' = tabs \/ tabs' = [tabs EXCEPT ![b] = x]
        /\ reqs' = Reaped(r) /\ UNCHANGED <<codes, grants, drawn, logins, issued, refused>>
    BY <1>2, Zenon DEF check_local_auth_request
  <2>2. "at" \in DOMAIN x /\ "req" \in DOMAIN x /\ x.at # "mint" /\ x.req = r
    BY ZenonT(30)
  <2> HIDE DEF x
  <2>3. TabTypes' /\ CalmTabs
    BY <2>1, <2>2, TheTabsStay, TabMoves, Zenon
  <2> QED
    BY <1>d, <2>1, <2>3, ReapedRows, CalmKeeps, Zenon
<1>3. ASSUME NEW b \in Tabs, authenticate_local(b) PROVE OAuthInv'
  <2>1. /\ tabs[b].at = "login" /\ bind_auth_request_to_local(tabs[b].req)
        /\ tabs' = [tabs EXCEPT ![b] = NoTab] /\ UNCHANGED <<codes, grants, drawn, issued, refused>>
    BY <1>3, Zenon DEF authenticate_local
  <2>2. DOMAIN logins' = LoginTokens
    BY <1>3, <1>d, MintKeepsDomain, Zenon DEF authenticate_local
  <2>3. tabs[b].req \in ReqIds
    BY <2>1, Zenon DEF OAuthInv, OAuthTypes, TabTypes
  <2> QED
    BY <2>1, <2>2, <2>3, BindKeepsRows, TabRests, CalmKeeps, ZenonT(30)
<1>4. ASSUME NEW b \in Tabs, do_register(b) PROVE OAuthInv'
  <2> DEFINE x == [tabs[b] EXCEPT !.at = "create"]
  <2>1. /\ tabs[b].at = "register" /\ bind_auth_request_to_local(tabs[b].req)
        /\ tabs' = [tabs EXCEPT ![b] = x] \/ tabs' = [tabs EXCEPT ![b] = NoTab]
        /\ UNCHANGED <<codes, grants, drawn, logins, issued, refused>>
    BY <1>4, Zenon DEF do_register
  <2>2. tabs[b].req \in ReqIds /\ "at" \in DOMAIN tabs[b] /\ "req" \in DOMAIN tabs[b]
    BY <2>1, Zenon DEF OAuthInv, OAuthTypes, TabTypes
  <2>3. "at" \in DOMAIN x /\ "req" \in DOMAIN x /\ x.at = "create" /\ x.req = tabs[b].req
    BY <2>2, Zenon
  <2> HIDE DEF x
  <2>4. TabTypes' /\ CalmTabs
    BY <2>1, <2>2, <2>3, TabRests, TabMoves, Zenon
  <2> QED
    BY <1>d, <2>1, <2>2, <2>4, BindKeepsRows, CalmKeeps, Zenon
<1>5. ASSUME NEW b \in Tabs, register_local_user(b) \/ CredentialsRefused(b) PROVE OAuthInv'
  <2>1. /\ tabs' = [tabs EXCEPT ![b] = NoTab] /\ UNCHANGED <<reqs, codes, grants, drawn, issued, refused>>
        /\ DOMAIN logins' = LoginTokens
    BY <1>5, <1>d, MintKeepsDomain, Zenon DEF register_local_user, CredentialsRefused, rowVars
  <2> QED
    BY <1>d, <2>1, TabRests, CalmKeeps, ZenonT(30)
<1>6. ASSUME NEW b \in Tabs, NEW r \in ReqIds, NEW t \in LoginTokens,
             complete_route(b, r, t) \/ accept_code(b, r, t)
      PROVE  OAuthInv'
  <2> DEFINE x == [at |-> "take", req |-> r, token |-> t, seen |-> reqs[r]]
  <2>1. /\ tabs' = tabs \/ tabs' = [tabs EXCEPT ![b] = x]
        /\ reqs' = Reaped(r) /\ UNCHANGED <<codes, grants, drawn, logins, issued, refused>>
    BY <1>6, ZenonT(30) DEF complete_route, accept_code
  <2>2. "at" \in DOMAIN x /\ "req" \in DOMAIN x /\ x.at = "take" /\ x.req = r
    BY ZenonT(30)
  <2> HIDE DEF x
  <2>3. TabTypes' /\ CalmTabs
    BY <2>1, <2>2, TheTabsStay, TabMoves, Zenon
  <2> QED
    BY <1>d, <2>1, <2>3, ReapedRows, CalmKeeps, Zenon
<1> QED
  BY Zenon, <1>1, <1>2, <1>3, <1>4, <1>5, <1>6, AuthorizeKeeps, TakeKeeps, ReleaseKeeps, RefuseKeeps,
     ExchangeKeeps DEF RequestStep

\* Signing in, the account pages and the sessions touch neither.
LEMMA AsideKeeps ==
  ASSUME OAuthInv, UNCHANGED <<reqs, codes, grants, drawn, tabs, issued, refused>>,
         DOMAIN logins' = LoginTokens
  PROVE  OAuthInv'
<1>1. DOMAIN reqs' = ReqIds
  BY ZenonT(30) DEF OAuthInv, OAuthTypes
<1> QED
  BY <1>1, TheTabsStay, CalmKeeps, Zenon

LEMMA GrantStepKeeps == ASSUME OAuthInv, GrantStep PROVE OAuthInv'
<1>d. DOMAIN logins = LoginTokens
  BY ZenonT(30) DEF OAuthInv, OAuthTypes
<1>1. ASSUME NEW t \in LoginTokens, NEW a, account_page(t, a) PROVE OAuthInv'
  <2>1. UNCHANGED <<reqs, codes, grants, drawn, tabs, issued, refused>> /\ DOMAIN logins' = LoginTokens
    BY <1>1, <1>d, SpendKeepsDomain, Zenon DEF account_page, rowVars
  <2> QED
    BY <2>1, AsideKeeps, Zenon
<1>2. ASSUME NEW t \in LoginTokens, NEW a, handle_account_callback(t, a) PROVE OAuthInv'
  <2>1. UNCHANGED <<reqs, codes, grants, drawn, tabs, issued, refused>> /\ DOMAIN logins' = LoginTokens
    BY <1>2, SpendKeepsDomain, Zenon DEF handle_account_callback
  <2> QED
    BY <2>1, AsideKeeps, Zenon
<1>3. ASSUME NEW s, NEW n, NEW e, NEW g, NEW v, token_refresh(s, n, e, g, v) \/ revoke(s) PROVE OAuthInv'
  <2>1. UNCHANGED <<reqs, codes, grants, drawn, tabs, issued, refused, logins>>
    BY <1>3, Zenon DEF token_refresh, revoke, rowVars
  <2> QED
    BY <1>d, <2>1, AsideKeeps, Zenon
<1> QED
  BY <1>1, <1>2, <1>3, DeviceAuthorizationKeeps, ShowingKeeps, AnswerKeeps, PollKeeps, Zenon DEF GrantStep

LEMMA SharedStepKeeps == ASSUME OAuthInv, SharedStep PROVE OAuthInv'
<1>d. DOMAIN logins = LoginTokens
  BY Zenon DEF OAuthInv, OAuthTypes
<1>1. ASSUME NEW c, register_client(c) PROVE OAuthInv'
  BY <1>1, <1>d, AsideKeeps, ZenonT(30) DEF register_client
<1>2. ASSUME NEW t \in LoginTokens, NEW u, UpstreamLogin(t, u) \/ native_submit(t, u) PROVE OAuthInv'
  <2>1. UNCHANGED <<reqs, codes, grants, drawn, tabs, issued, refused>> /\ DOMAIN logins' = LoginTokens
    BY <1>2, <1>d, Zenon DEF UpstreamLogin, native_submit, rowVars
  <2> QED
    BY <2>1, AsideKeeps, Zenon
<1>3. ASSUME NEW x \in Sources, Lapse(x) PROVE OAuthInv'
  <2>0. UNCHANGED <<drawn, logins, tabs, issued, refused>>
    BY <1>3, Zenon DEF Lapse
  <2>1. CASE x \in ReqIds /\ LiveReq(x) /\ reqs' = [reqs EXCEPT ![x].expired = TRUE] /\ UNCHANGED <<codes, grants>>
    <3>1. reqs' = [reqs EXCEPT ![x] = [reqs[x] EXCEPT !.expired = TRUE]]
      BY <2>1, Zenon
    <3>2. DOMAIN reqs' = ReqIds /\ \A q \in ReqIds : reqs'[q] # Nought => reqs[q] # Nought
      BY <2>1, <3>1, RowChanges, ZenonT(30)
    <3> QED
      BY <1>d, <2>0, <2>1, <3>2, TheTabsStay, CalmKeeps, Zenon
  <2>2. CASE /\ x \in ReqIds /\ codes[x] # Nought
             /\ codes' = [codes EXCEPT ![x].expired = TRUE] /\ UNCHANGED <<reqs, grants>>
    <3>1. DOMAIN codes' = ReqIds /\ \A q \in ReqIds : codes'[q] # Nought => codes[q] # Nought
      BY <2>2, Zenon DEF OAuthInv, OAuthTypes
    <3>2. TabTypes' /\ CalmTabs
      BY <2>0, TheTabsStay, Zenon
    <3>3. OAuthTypes'
      BY <2>0, <2>2, <3>1, <3>2, Zenon DEF OAuthInv, OAuthTypes
    <3>4. CalmRequests
      BY <2>0, <2>2, <3>1, <3>2, Zenon DEF CalmRequests
    <3>5. CalmGrants
      BY <2>0, <2>2, TheGrantsStay, Zenon
    <3> QED
      BY <3>3, <3>4, <3>5, RequestsStay, GrantsStay, Zenon DEF OAuthInv
  <2>3. CASE /\ x \in Grants /\ grants[x] # Nought
             /\ grants' = [grants EXCEPT ![x].expired = TRUE] /\ UNCHANGED <<reqs, codes>>
    <3> DEFINE row == [grants[x] EXCEPT !.expired = TRUE]
    <3>1. grants' = [grants EXCEPT ![x] = row]
      BY <2>3, Zenon
    <3>2. grants[x] \in GrantType
      BY <2>3, Zenon DEF OAuthInv, OAuthTypes
    <3>3. row \in GrantType /\ row.status = grants[x].status
      BY <3>2, ZenonT(30) DEF GrantType
    <3> HIDE DEF row
    <3> QED
      BY <1>d, <2>0, <2>3, <3>1, <3>3, GrantRowChanges, Zenon
  <2> QED
    BY <1>3, <2>1, <2>2, <2>3, Zenon DEF Lapse
<1> QED
  BY <1>1, <1>2, <1>3, Zenon DEF SharedStep

LEMMA OAuthSteps ==
  OAuthInv /\ [RequestStep \/ GrantStep \/ SharedStep]_oauthVars => OAuthInv'
<1> SUFFICES ASSUME OAuthInv, [RequestStep \/ GrantStep \/ SharedStep]_oauthVars PROVE OAuthInv'
  BY Zenon
<1>1. ASSUME UNCHANGED oauthVars PROVE OAuthInv'
  <2>1. UNCHANGED <<reqs, codes, grants, drawn, tabs, issued, refused, logins>>
    BY <1>1, Zenon DEF oauthVars, rowVars
  <2>2. DOMAIN logins = LoginTokens
    BY Zenon DEF OAuthInv, OAuthTypes
  <2> QED
    BY <2>1, <2>2, AsideKeeps, Zenon
<1> QED
  BY <1>1, RequestStepKeeps, GrantStepKeeps, SharedStepKeeps, Zenon

(* Authorization requests and device grants (oauth/server): however many
   tabs complete, approve, refuse and exchange them at once, each signs in at
   most one session, and none once it was refused while pending. *)
THEOREM GrantsAreUsedOnce == OAuthSpec => []GrantedOnce
<1>1. OAuthInv => GrantedOnce
  BY ZenonT(30) DEF OAuthInv, RequestOK, GrantOK, GrantedOnce, Sources
<1> QED
  BY <1>1, OAuthStart, OAuthSteps, PTL DEF OAuthSpec

-----------------------------------------------------------------------------
(* The grants and the rendezvous together: no request, device grant or
   version of a rendezvous box is used twice (oauth/server, rendezvous.rs). *)
THEOREM GrantsAreSound == OAuthSpec /\ RdvSpec => []GrantsSound
<1>1. GrantedOnce /\ NoLostWrite => GrantsSound
  BY Zenon DEF GrantsSound
<1> QED
  BY <1>1, GrantsAreUsedOnce, WritesAreConditional, PTL

-----------------------------------------------------------------------------
(* The process.                                                            *)

\* Before the first worker is spawned nobody is subscribed: a stop asked for
\* then is up only while its broadcast fails, and is taken back.
NotYetStarted ==
  main \in {"starting", "leaving"} /\ toStart = Workers =>
    /\ stopping => sigTask = "refused"
    /\ sigTask # "done" /\ listener = "none" /\ manager = "joining"
    /\ \A w \in Workers : work[w] = "off"

\* What the manager's state says of the workers it has joined.
ManagerTrue ==
  /\ main = "starting" => manager = "joining"
  /\ main \in {"running", "stopping"} => toStart = {}
  /\ main = "leaving" /\ toStart # Workers => manager \in {"ok", "err"}
  /\ exit \in {"ok", "restart"} => manager \in {"ok", "err"}
  /\ manager = "ok" => \A w \in Workers : work[w] = "joined"
  /\ manager \in {"sleeping", "err"} => faulty # {}
  /\ \A w \in Workers : work[w] \in {"error", "panic"} => w \in faulty

\* An interruptible worker that ended before it was interrupted has failed.
Interrupts ==
  /\ main \in {"starting", "running"} => ~interrupted
  /\ ~interrupted => \A w \in Interruptibles : work[w] \in {"returned", "joined"} => w \in faulty
  /\ (consumed /\ exit # "error") \/ exit = "panic" => Interruptibles \subseteq faulty
  /\ main # "exited" => exit = "none"

ProcessInv == TypeOK /\ NotYetStarted /\ ManagerTrue /\ Interrupts

LEMMA ProcessStart == Init => ProcessInv
<1> SUFFICES ASSUME Init PROVE ProcessInv
  BY Zenon
<1>1. TypeOK
  <2>1. work \in [Workers -> {"off"}] /\ signals \in 0 .. MaxSignals
    BY LifecycleAssumption DEF Init
  <2> QED
    BY <2>1, Zenon DEF Init, TypeOK
<1>2. \A w \in Workers : work[w] = "off"
  BY Zenon DEF Init
<1>3. Interruptibles \subseteq Workers
  BY Zenon DEF Workers
<1>4. NotYetStarted /\ ManagerTrue /\ Interrupts
  BY <1>2, <1>3, Zenon DEF Init, NotYetStarted, ManagerTrue, Interrupts
<1> QED
  BY <1>1, <1>4, Zenon DEF ProcessInv

WorkStates == {"off", "running", "checked", "parked", "returned", "error", "panic", "joined"}

\* A broadcast moves the parked workers only.
LEMMA BroadcastMoves ==
  ASSUME TypeOK
  PROVE  /\ Broadcast(work) \in [Workers -> WorkStates]
         /\ \A w \in Workers : \/ Broadcast(work)[w] = work[w]
                               \/ work[w] = "parked" /\ Broadcast(work)[w] = "running"
  BY Zenon DEF TypeOK, Broadcast, WorkStates

\* A stop leaves the workers where they are, or broadcasts.
LEMMA ShutdownMoves ==
  ASSUME TypeOK, Shutdown
  PROVE  /\ work' \in [Workers -> WorkStates] /\ stopping' \in BOOLEAN
         /\ \A w \in Workers : \/ work'[w] = work[w]
                               \/ work[w] = "parked" /\ work'[w] = "running"
<1>1. CASE work' = Broadcast(work) /\ stopping' = TRUE
  BY <1>1, BroadcastMoves, Zenon
<1>2. CASE UNCHANGED <<stopping, work>>
  BY <1>2, Zenon DEF TypeOK, WorkStates
<1> QED
  BY <1>1, <1>2, Zenon DEF Shutdown

LEMMA Subscribers ==
  ASSUME TypeOK, listener = "none", sigTask # "listening", \A w \in Workers : work[w] = "off"
  PROVE  Receivers = {}
<1>1. Watchers \subseteq Workers /\ Reloaders \subseteq Workers
  BY Zenon DEF Workers
<1> QED
  BY <1>1, Zenon DEF Receivers

\* The signal task and the restart.
LEMMA SignalKeeps ==
  ASSUME ProcessInv, (\E sig \in {"term", "usr1"} : Signal(sig)) \/ SignalSteps \/ Restart
  PROVE  ProcessInv'
<1> USE DEF ProcessInv
<1> DEFINE others == <<main, exit, listener, toStart, manager, restartee, faulty, consumed, interrupted>>
<1>w. Interruptibles \subseteq Workers
  BY Zenon DEF Workers
<1>1. ASSUME NEW sig \in {"term", "usr1"}, Signal(sig) PROVE ProcessInv'
  <2>1. TypeOK'
    BY <1>1, LifecycleAssumption DEF Signal, TypeOK, flags, pool
  <2>2. NotYetStarted'
    BY <1>1, Zenon DEF Signal, NotYetStarted, flags, pool
  <2>3. ManagerTrue' /\ Interrupts'
    BY <1>1, Zenon DEF Signal, ManagerTrue, Interrupts, flags, pool
  <2> QED
    BY <2>1, <2>2, <2>3, Zenon
<1>2. CASE HandleTerm
  <2>1. CASE Receivers = {} /\ ~stopping
    <3>1. stopping' = TRUE /\ sigTask' = "refused" /\ UNCHANGED <<others, work, restarting, signals>>
      BY <1>2, <2>1, Zenon DEF HandleTerm
    <3>2. TypeOK'
      BY <3>1, Zenon DEF TypeOK
    <3>3. NotYetStarted' /\ ManagerTrue' /\ Interrupts'
      BY <3>1, Zenon DEF NotYetStarted, ManagerTrue, Interrupts
    <3> QED
      BY <3>2, <3>3, Zenon
  <2>2. CASE ~(Receivers = {} /\ ~stopping)
    <3>1. Shutdown /\ sigTask' = "listening" /\ UNCHANGED <<others, restarting, signals>> /\ sigTask = "term"
      BY <1>2, <2>2, Zenon DEF HandleTerm
    <3>2. TypeOK'
      BY <3>1, ShutdownMoves DEF TypeOK, WorkStates
    <3>3. ~(main \in {"starting", "leaving"} /\ toStart = Workers)
      BY <2>2, <3>1, Subscribers, Zenon DEF NotYetStarted
    <3>4. NotYetStarted'
      BY <3>1, <3>3, Zenon DEF NotYetStarted
    <3>5. ManagerTrue' /\ Interrupts'
      BY <3>1, <1>w, ShutdownMoves, Zenon DEF ManagerTrue, Interrupts
    <3> QED
      BY <3>2, <3>4, <3>5, Zenon
  <2> QED
    BY <2>1, <2>2, Zenon
<1>3. CASE TakeBack
  <2>1. TypeOK'
    BY <1>3, ZenonT(30) DEF TakeBack, TypeOK, pool
  <2>2. NotYetStarted' /\ ManagerTrue' /\ Interrupts'
    BY <1>3, Zenon DEF TakeBack, NotYetStarted, ManagerTrue, Interrupts, pool
  <2> QED
    BY <2>1, <2>2, Zenon
<1>4. CASE HandleUsr1
  <2>1. work' = Broadcast(work) /\ sigTask' = "listening" /\ sigTask = "usr1"
        /\ UNCHANGED <<others, stopping, restarting, signals>>
    BY <1>4, Zenon DEF HandleUsr1, flags
  <2>2. TypeOK'
    BY <2>1, BroadcastMoves DEF TypeOK, WorkStates
  <2>3. NotYetStarted' /\ ManagerTrue' /\ Interrupts'
    BY <2>1, <1>w, BroadcastMoves DEF NotYetStarted, ManagerTrue, Interrupts
  <2> QED
    BY <2>2, <2>3, Zenon
<1>5. CASE SignalTaskEnds
  <2>1. TypeOK'
    BY <1>5, Zenon DEF SignalTaskEnds, TypeOK, flags, pool
  <2>2. NotYetStarted' /\ ManagerTrue' /\ Interrupts'
    BY <1>5, Zenon DEF SignalTaskEnds, NotYetStarted, ManagerTrue, Interrupts, flags, pool
  <2> QED
    BY <2>1, <2>2, Zenon
<1>6. CASE Restart
  <2>1. Shutdown /\ main = "running" /\ restarting' = TRUE /\ UNCHANGED <<others, sigTask, signals>>
    BY <1>6, Zenon DEF Restart
  <2>2. TypeOK'
    BY <2>1, ShutdownMoves DEF TypeOK, WorkStates
  <2>3. NotYetStarted' /\ ManagerTrue' /\ Interrupts'
    BY <2>1, <1>w, ShutdownMoves, Zenon DEF NotYetStarted, ManagerTrue, Interrupts
  <2> QED
    BY <2>2, <2>3, Zenon
<1> QED
  BY <1>1, <1>2, <1>3, <1>4, <1>5, <1>6, Zenon DEF SignalSteps

\* Startup and the listener.
LEMMA StartKeeps ==
  ASSUME ProcessInv, StartSteps \/ StartFails \/ ListenerSteps \/ BindFails
  PROVE  ProcessInv'
<1> USE DEF ProcessInv
<1>1. CASE StartCancelled \/ StartFails
  <2>1. TypeOK'
    BY <1>1, Zenon DEF StartCancelled, StartFails, Leave, TypeOK, flags, pool
  <2>2. NotYetStarted' /\ ManagerTrue' /\ Interrupts'
    BY <1>1 DEF StartCancelled, StartFails, Leave, NotYetStarted, ManagerTrue, Interrupts, flags, pool
  <2> QED
    BY <2>1, <2>2, Zenon
<1>2. ASSUME NEW w \in Workers, StartWorker(w) PROVE ProcessInv'
  <2>1. CASE stopping
    <3>1. TypeOK'
      BY <1>2, <2>1, Zenon DEF StartWorker, Leave, TypeOK, flags
    <3>2. NotYetStarted' /\ ManagerTrue' /\ Interrupts'
      BY <1>2, <2>1, Zenon DEF StartWorker, Leave, NotYetStarted, ManagerTrue, Interrupts, flags
    <3> QED
      BY <3>1, <3>2, Zenon
  <2>2. CASE ~stopping
    <3>1. TypeOK'
      BY <1>2, <2>2, Zenon DEF StartWorker, TypeOK, flags
    <3>2. toStart' # Workers /\ main' = "starting"
      BY <1>2, <2>2, Zenon DEF StartWorker
    <3>3. work' = [work EXCEPT ![w] = "running"] /\ work \in [Workers -> WorkStates]
      BY <1>2, <2>2, Zenon DEF StartWorker, TypeOK, WorkStates
    <3>4. NotYetStarted' /\ ManagerTrue' /\ Interrupts'
      BY <1>2, <2>2, <3>2, <3>3 DEF StartWorker, NotYetStarted, ManagerTrue, Interrupts, flags
    <3> QED
      BY <3>1, <3>4, Zenon
  <2> QED
    BY <2>1, <2>2, Zenon
<1>3. CASE Started
  <2>1. TypeOK'
    BY <1>3, Zenon DEF Started, TypeOK, flags, pool
  <2>2. NotYetStarted' /\ ManagerTrue' /\ Interrupts'
    BY <1>3, Zenon DEF Started, NotYetStarted, ManagerTrue, Interrupts, flags, pool
  <2> QED
    BY <2>1, <2>2, Zenon
<1>4. ASSUME NEW from, NEW to, ListenerStep(from, to),
             from # "none", to \in {"serving", "failed", "draining", "done"}
      PROVE  ProcessInv'
  <2>1. TypeOK'
    BY <1>4 DEF ListenerStep, TypeOK, flags, pool
  <2>2. NotYetStarted' /\ ManagerTrue' /\ Interrupts'
    BY <1>4, Zenon DEF ListenerStep, NotYetStarted, ManagerTrue, Interrupts, flags, pool
  <2> QED
    BY <2>1, <2>2, Zenon
<1> QED
  BY <1>1, <1>2, <1>3, <1>4, Zenon
     DEF StartSteps, ListenerSteps, Bind, BindFails, ListenerDrains, ListenerEnds

\* One worker moves.
LEMMA WorkerKeeps ==
  ASSUME ProcessInv, NEW w \in Workers, NEW from \in {"running", "checked"},
         NEW to \in WorkStates \ {"off"}, WorkerStep(w, from, to),
         faulty' = faulty \/ (faulty' = faulty \cup {w}),
         to \in {"error", "panic"} => faulty' = faulty \cup {w},
         to \notin {"joined"},
         to = "returned" /\ w \in Interruptibles => interrupted
  PROVE  ProcessInv'
<1> USE DEF ProcessInv
<1>1. work' = [work EXCEPT ![w] = to] /\ work \in [Workers -> WorkStates] /\ work[w] = from
      /\ UNCHANGED <<main, exit, stopping, restarting, sigTask, listener, toStart, manager, restartee,
                     consumed, interrupted, signals>>
  BY Zenon DEF WorkerStep, TypeOK, WorkStates, flags
<1>2. work'[w] = to /\ \A v \in Workers : v # w => work'[v] = work[v]
  BY <1>1, Zenon
<1>3. TypeOK'
  BY <1>1 DEF TypeOK, WorkStates
<1>4. NotYetStarted'
  BY <1>1, Zenon DEF NotYetStarted
<1>5. manager # "ok"
  BY <1>1, Zenon DEF ManagerTrue
<1>6. faulty \subseteq faulty'
  BY Zenon
<1>7. ManagerTrue'
  BY <1>1, <1>2, <1>5, <1>6, Zenon DEF ManagerTrue
<1>8. Interruptibles \subseteq Workers
  BY Zenon DEF Workers
<1>9. Interrupts'
  BY <1>1, <1>2, <1>6, <1>8, Zenon DEF Interrupts
<1> QED
  BY <1>3, <1>4, <1>7, <1>9, Zenon

\* The manager joins, restarts and ends.
LEMMA ManagerKeeps == ASSUME ProcessInv, ManagerSteps PROVE ProcessInv'
<1> USE DEF ProcessInv
<1>w. Interruptibles \subseteq Workers /\ Workers # {}
  BY LifecycleAssumption, Zenon DEF Workers
<1> DEFINE others == <<main, exit, stopping, restarting, sigTask, listener, toStart, faulty, consumed,
                       interrupted, signals>>
<1>1. ASSUME NEW w \in Workers, Join(w) PROVE ProcessInv'
  <2>1. work' = [work EXCEPT ![w] = "joined"] /\ work \in [Workers -> WorkStates]
        /\ UNCHANGED others /\ manager = "joining" /\ main \notin {"starting", "exited"}
        /\ work[w] \in {"returned", "error", "panic"}
    BY <1>1, Zenon DEF Join, TypeOK, WorkStates, flags
  <2>2. work'[w] = "joined" /\ \A v \in Workers : v # w => work'[v] = work[v]
    BY <2>1, Zenon
  <2>3. \/ UNCHANGED <<manager, restartee>>
        \/ manager' = "sleeping" /\ restartee' = {w} /\ w \in faulty
        \/ manager' = "err" /\ UNCHANGED restartee /\ w \in faulty
    BY <1>1, <2>1, Zenon DEF Join, ManagerTrue
  <2>4. TypeOK'
    BY <2>1, <2>3 DEF TypeOK, WorkStates
  <2>5. NotYetStarted'
    BY <2>1, <1>w, Zenon DEF NotYetStarted
  <2>6. ManagerTrue'
    BY <2>1, <2>2, <2>3, Zenon DEF ManagerTrue
  <2>7. Interrupts'
    BY <2>1, <2>2, <1>w, Zenon DEF Interrupts, ManagerTrue
  <2> QED
    BY <2>4, <2>5, <2>6, <2>7, Zenon
<1>2. CASE RestartWorker
  <2>1. UNCHANGED others /\ manager = "sleeping" /\ restartee' = {} /\ faulty # {} /\ main # "exited"
    BY <1>2, Zenon DEF RestartWorker, ManagerTrue, flags
  <2>2. \/ manager' = "err" /\ UNCHANGED work
        \/ /\ manager' = "joining"
           /\ work' = [v \in Workers |-> IF v \in restartee THEN "running" ELSE work[v]]
    BY <1>2, Zenon DEF RestartWorker
  <2>3. work' \in [Workers -> WorkStates]
        /\ \A v \in Workers : work'[v] = work[v] \/ (work'[v] = "running" /\ manager' = "joining")
    BY <2>2, Zenon DEF TypeOK, WorkStates
  <2>4. TypeOK'
    BY <2>1, <2>2, <2>3 DEF TypeOK, WorkStates
  <2>5. main \notin {"starting", "leaving"} /\ exit = "none"
    BY <2>1, Zenon DEF ManagerTrue, Interrupts, NotYetStarted
  <2>6. NotYetStarted'
    BY <2>1, <2>5, ZenonT(30) DEF NotYetStarted
  <2>7. ManagerTrue'
    BY <2>1, <2>2, <2>3, <2>5, Zenon DEF ManagerTrue
  <2>8. Interrupts'
    BY <2>1, <2>3, <1>w, Zenon DEF Interrupts
  <2> QED
    BY <2>4, <2>6, <2>7, <2>8, Zenon
<1>3. CASE ManagerEnds
  <2>1. TypeOK'
    BY <1>3, Zenon DEF ManagerEnds, TypeOK, flags
  <2>2. NotYetStarted' /\ ManagerTrue' /\ Interrupts'
    BY <1>3, <1>w, Zenon DEF ManagerEnds, NotYetStarted, ManagerTrue, Interrupts, flags
  <2> QED
    BY <2>1, <2>2, Zenon
<1> QED
  BY <1>1, <1>2, <1>3, Zenon DEF ManagerSteps

\* Run and stop.
LEMMA MainKeeps == ASSUME ProcessInv, MainSteps PROVE ProcessInv'
<1> USE DEF ProcessInv
<1>w. Interruptibles \subseteq Workers /\ Workers # {}
  BY LifecycleAssumption, Zenon DEF Workers
<1>1. CASE ListenerWins
  <2>1. TypeOK'
    BY <1>1, Zenon DEF ListenerWins, Leave, TypeOK, flags, pool
  <2>2. NotYetStarted' /\ ManagerTrue' /\ Interrupts'
    BY <1>1, Zenon DEF ListenerWins, Leave, NotYetStarted, ManagerTrue, Interrupts, flags, pool
  <2> QED
    BY <2>1, <2>2, Zenon
<1>2. CASE ManagerWins
  <2>1. Shutdown /\ main = "running" /\ consumed' = TRUE /\ manager \in {"ok", "err"}
        /\ UNCHANGED <<restarting, sigTask, listener, toStart, manager, restartee, faulty, interrupted, signals>>
        /\ (\/ manager = "ok" /\ main' = "stopping" /\ UNCHANGED exit
            \/ manager = "err" /\ main' = "exited" /\ exit' = "error")
    BY <1>2, Zenon DEF ManagerWins, Leave
  <2>2. TypeOK'
    BY <2>1, ShutdownMoves DEF TypeOK, WorkStates
  <2>3. manager = "ok" => Interruptibles \subseteq faulty
    BY <2>1, <1>w, Zenon DEF ManagerTrue, Interrupts
  <2>4. NotYetStarted' /\ ManagerTrue'
    BY <2>1, <1>w, ShutdownMoves, Zenon DEF NotYetStarted, ManagerTrue
  <2>5. Interrupts'
    BY <2>1, <2>3, <1>w, ShutdownMoves, Zenon DEF Interrupts
  <2> QED
    BY <2>2, <2>4, <2>5, Zenon
<1>3. CASE Interrupt
  <2>1. TypeOK'
    BY <1>3, Zenon DEF Interrupt, TypeOK, flags, pool
  <2>2. NotYetStarted' /\ ManagerTrue' /\ Interrupts'
    BY <1>3, Zenon DEF Interrupt, NotYetStarted, ManagerTrue, Interrupts, flags, pool
  <2> QED
    BY <2>1, <2>2, Zenon
<1>4. CASE ManagerStops
  <2>1. TypeOK'
    BY <1>4, Zenon DEF ManagerStops, Leave, TypeOK, flags, pool
  <2>2. toStart # Workers
    BY <1>4, <1>w, Zenon DEF ManagerStops, ManagerTrue
  <2>3. NotYetStarted' /\ ManagerTrue' /\ Interrupts'
    BY <1>4, <2>2, Zenon DEF ManagerStops, Leave, NotYetStarted, ManagerTrue, Interrupts, flags, pool
  <2> QED
    BY <2>1, <2>3, Zenon
<1>5. CASE Exit
  <2>1. TypeOK'
    BY <1>5, Zenon DEF Exit, Leave, TypeOK, flags, pool
  <2>2. toStart # Workers
    BY <1>5, Zenon DEF Exit, NotYetStarted
  <2>3. NotYetStarted' /\ ManagerTrue' /\ Interrupts'
    BY <1>5, <2>2, Zenon DEF Exit, Leave, NotYetStarted, ManagerTrue, Interrupts, flags, pool
  <2> QED
    BY <2>1, <2>3, Zenon
<1> QED
  BY <1>1, <1>2, <1>3, <1>4, <1>5, Zenon DEF MainSteps

LEMMA ProcessStep == ProcessInv /\ [Next]_vars => ProcessInv'
<1> SUFFICES ASSUME ProcessInv, [Next]_vars PROVE ProcessInv'
  BY Zenon
<1>1. ASSUME NEW w \in Workers, WorkerSteps(w) PROVE ProcessInv'
  <2>1. CASE WorkerReturns(w)
    <3>1. w \in Interruptibles => interrupted
      BY <2>1, LifecycleAssumption, Zenon DEF WorkerReturns, Returns
    <3> QED
      BY <2>1, <3>1, WorkerKeeps DEF WorkerReturns, WorkStates
  <2>2. CASE ReloaderChecks(w) \/ ReloaderSubscribes(w)
    BY <2>2, WorkerKeeps DEF ReloaderChecks, ReloaderSubscribes, WorkStates
  <2> QED
    BY <1>1, <2>1, <2>2, Zenon DEF WorkerSteps
<1>2. ASSUME NEW w \in Workers, NEW how \in {"error", "panic"}, WorkerFails(w, how) PROVE ProcessInv'
  BY <1>2, WorkerKeeps, Zenon DEF WorkerFails, WorkStates
<1>3. CASE UNCHANGED vars
  <2>1. /\ UNCHANGED <<main, exit, stopping, restarting, sigTask, listener, toStart, work>>
        /\ UNCHANGED <<manager, restartee, faulty, consumed, interrupted, signals>>
    BY <1>3, Zenon DEF vars, flags, pool
  <2>2. TypeOK'
    BY <2>1 DEF ProcessInv, TypeOK
  <2>3. NotYetStarted'
    BY <2>1, Zenon DEF ProcessInv, NotYetStarted
  <2>4. ManagerTrue'
    BY <2>1, Zenon DEF ProcessInv, ManagerTrue
  <2>5. Interrupts'
    BY <2>1, Zenon DEF ProcessInv, Interrupts
  <2> QED
    BY <2>2, <2>3, <2>4, <2>5, Zenon DEF ProcessInv
<1> QED
  BY <1>1, <1>2, <1>3, SignalKeeps, StartKeeps, ManagerKeeps, MainKeeps, Zenon DEF Next, Done

(* However many workers there are and however many fail, a clean exit has  *)
(* joined them all unless one failed and the manager with it, and the      *)
(* manager's result is awaited twice only when every interruptible service *)
(* has failed (Manager::stop, Services::stop).                             *)
THEOREM ExitIsSound == Spec => []ExitSound
<1>1. ProcessInv => ExitSound
  <2> SUFFICES ASSUME ProcessInv PROVE ExitSound
    BY Zenon
  <2>1. ExitJoinsWorkers
    BY Zenon DEF ProcessInv, ManagerTrue, ExitJoinsWorkers
  <2>2. DoubleAwaitNeedsFaults
    BY Zenon DEF ProcessInv, Interrupts, DoubleAwaitNeedsFaults
  <2> QED
    BY <2>1, <2>2, Zenon DEF ExitSound
<1> QED
  BY <1>1, ProcessStart, ProcessStep, PTL DEF Spec

=============================================================================
