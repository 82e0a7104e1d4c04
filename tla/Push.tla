-------------------------------- MODULE Push --------------------------------
(***************************************************************************)
(* Push notifications (crates/phantom-service/src/accounts/pusher and the  *)
(* routes under phantom-api/src/client/accounts/push): pushers and the     *)
(* gateway's verdict about them, the list of notified events a client      *)
(* pages through, and the push rules, which are loaded, changed and saved  *)
(* as a whole.                                                             *)
(***************************************************************************)
EXTENDS Naturals, FiniteSets, FiniteSetsExt, Sequences, SequencesExt

CONSTANTS
    PushUsers, PushDevices,
    DeviceUser,  \* [PushDevices -> PushUsers]
    Pushkeys, Apps,
    CustomRules, \* rule ids a user may create
    MaxRules,    \* MAX_RULES
    PageLimit,   \* the page size the client asks for
    PerUser,     \* notification_max_per_user
    MaxRow,      \* bound on the timeline positions drawn
    Writers,     \* concurrent push rule requests
    Absent

VARIABLES
    pushers,   \* senderkey_pusher: [user, key] -> app, Absent for none
    keyDevice, \* pushkey_deviceid
    removed,   \* the devices that have been removed
    posting,   \* a delivery awaiting its gateway: <<user, key>>, or <<>>
    notified,      \* useridcount_notification of one user: {[at, old, loud]}
    lastRow,   \* newest position notified
    pager,     \* the client paging through the list
    rules,     \* m.push_rules: [RuleIds -> status], Absent when missing
    writer     \* push rule requests: the ruleset each loaded, Absent for none

pushVars == <<pushers, keyDevice, removed, posting, notified, lastRow, pager, rules, writer>>
pusherVars == <<pushers, keyDevice, removed, posting>>
listVars == <<notified, lastRow, pager>>
ruleVars == <<rules, writer>>

----------------------------------------------------------------------------
(* Pushers *)

\* delete_pusher_for_others: the same app and pushkey under another user.
OthersWith(u, k, app) == {v \in PushUsers \ {u} : pushers[v][k] = app}

\* set_pusher, Post: without append other users lose the pusher; the pushkey
\* is then tied to the device that registered it last.
set_pusher(d, k, app, append) ==
    LET u == DeviceUser[d]
        losing == IF append THEN {} ELSE OthersWith(u, k, app)
    IN  /\ d \notin removed
        /\ pushers' = [v \in PushUsers |->
                         [pushers[v] EXCEPT ![k] = IF v = u THEN app
                                                   ELSE IF v \in losing THEN Absent
                                                   ELSE @]]
        /\ keyDevice' = [keyDevice EXCEPT ![k] = d]
        /\ UNCHANGED <<removed, posting, listVars, ruleVars>>

\* delete_pusher: the user's row, and the pushkey's device whoever set it.
delete_pusher(u, k) ==
    /\ pushers' = [pushers EXCEPT ![u][k] = Absent]
    /\ keyDevice' = [keyDevice EXCEPT ![k] = Absent]

DeletePusher(u, k) == delete_pusher(u, k) /\ UNCHANGED <<removed, posting, listVars, ruleVars>>

\* get_pushers and get_pushkeys
get_pushkeys(u) == {k \in Pushkeys : pushers[u][k] # Absent}

\* remove_device: the user's pushkeys whose device is the removed one.
RemoveDevicePushers(d) ==
    LET u == DeviceUser[d]
        gone == {k \in get_pushkeys(u) : keyDevice[k] = d}
    IN  /\ removed' = removed \cup {d}
        /\ pushers' = [pushers EXCEPT ![u] =
                         [k \in Pushkeys |-> IF k \in gone THEN Absent ELSE @[k]]]
        /\ keyDevice' = [k \in Pushkeys |-> IF k \in gone THEN Absent ELSE keyDevice[k]]
        /\ UNCHANGED <<posting, listVars, ruleVars>>

\* send_push_notice and send_badge_notices: a pusher read from the table is
\* posted to its gateway, unless the rules do not notify.
send_notice(u, k) ==
    /\ posting = <<>>
    /\ k \in get_pushkeys(u)
    /\ posting' = <<u, k>>
    /\ UNCHANGED <<pushers, keyDevice, removed, listVars, ruleVars>>

\* post_notification: delivered, failed, or the pushkey rejected.
Verdicts == {"sent", "failed", "rejected"}

\* deliver: a rejected pushkey takes its pusher with it.
deliver(verdict) ==
    /\ posting # <<>>
    /\ posting' = <<>>
    /\ IF verdict = "rejected" THEN delete_pusher(posting[1], posting[2])
                               ELSE UNCHANGED <<pushers, keyDevice>>
    /\ UNCHANGED <<removed, listVars, ruleVars>>

----------------------------------------------------------------------------
(* Notified events *)

\* record_notification: one row per event of the append path that notified.
record_notification(loud) ==
    /\ lastRow < MaxRow
    /\ lastRow' = lastRow + 1
    /\ notified' = notified \cup {[at |-> lastRow', old |-> FALSE, loud |-> loud]}
    /\ UNCHANGED <<pusherVars, pager, ruleVars>>

\* Time passes: the oldest rows cross notification_retention_days.
Age(r) ==
    /\ r \in notified /\ ~r.old
    /\ \A s \in notified : s.at < r.at => s.old
    /\ notified' = (notified \ {r}) \cup {[r EXCEPT !.old = TRUE]}
    /\ UNCHANGED <<pusherVars, lastRow, pager, ruleVars>>

\* prune: the rows too old, and those beyond the user's newest.
OverCap(r) == Cardinality({s \in notified : s.at >= r.at}) > PerUser
prune ==
    /\ \E r \in notified : r.old \/ OverCap(r)
    /\ notified' = {r \in notified : ~r.old /\ ~OverCap(r)}
    /\ UNCHANGED <<pusherVars, lastRow, pager, ruleVars>>

\* delete_notifications, on deactivation: the client's paging ends with it.
delete_notifications ==
    /\ notified # {}
    /\ notified' = {}
    /\ UNCHANGED <<pusherVars, lastRow, pager, ruleVars>>

(* Mutant: the token itself is listed again. *)
page_inclusive(from, limit, highlights) ==
    LET below == {r \in notified : (from = Absent \/ r.at <= from)
                               /\ (highlights => r.loud)}
        found == SetToSortSeq(below, LAMBDA r, s : r.at > s.at)
        shown == SubSeq(found, 1, Min({limit, Len(found)}))
    IN  [rows |-> shown,
         next |-> IF Len(found) > limit THEN Last(shown).at ELSE Absent]

\* page: rows strictly below the token (a token of 0 has none), newest first;
\* one row more than the limit is read to learn whether a token follows.
page(from, limit, highlights) ==
    LET below == {r \in notified : (from = Absent \/ r.at < from)
                               /\ (highlights => r.loud)}
        found == SetToSortSeq(below, LAMBDA r, s : r.at > s.at)
        shown == SubSeq(found, 1, Min({limit, Len(found)}))
    IN  [rows |-> shown,
         next |-> IF Len(found) > limit THEN Last(shown).at ELSE Absent]

\* get_notifications_route, asked for the pages one after the other.
get_notifications_route ==
    /\ pager.on
    /\ LET p == page(pager.from, PageLimit, pager.loud)
       IN  pager' = [pager EXCEPT !.got = @ \o p.rows, !.from = p.next,
                                  !.on = p.next # Absent]
    /\ UNCHANGED <<pusherVars, notified, lastRow, ruleVars>>

\* A client begins again at the newest row.
StartPaging(loud) ==
    /\ ~pager.on /\ notified # {}
    /\ pager' = [on |-> TRUE, from |-> Absent, loud |-> loud, got |-> <<>>,
                 began |-> {r.at : r \in notified}]
    /\ UNCHANGED <<pusherVars, notified, lastRow, ruleVars>>

----------------------------------------------------------------------------
(* Push rules: ".default" stands for the server defaults, ".old" for the     *)
(* deprecated mention rules                                                *)

RuleIds == CustomRules \cup {".default", ".old"}
server_default == [r \in RuleIds |-> IF r = ".default" THEN "on" ELSE "none"]

\* load_push_rules fails without the event; the request keeps what it read.
load_push_rules(w) ==
    /\ writer[w] = Absent /\ rules # Absent
    /\ writer' = [writer EXCEPT ![w] = rules]
    /\ UNCHANGED <<pusherVars, listVars, rules>>

\* admits_rule: an existing rule, or a new one below MAX_RULES.
admits_rule(set, r) ==
    set[r] # "none" \/ Cardinality({s \in RuleIds : set[s] # "none"}) < MaxRules

\* insert, remove, set_enabled and set_actions as the routes call them.
set_pushrule(set, r) ==
    IF r \in CustomRules /\ admits_rule(set, r) THEN [set EXCEPT ![r] = "on"] ELSE Absent
delete_pushrule(set, r) ==
    IF r \in CustomRules /\ set[r] # "none" THEN [set EXCEPT ![r] = "none"] ELSE Absent
set_pushrule_enabled(set, r) ==
    IF set[r] # "none" THEN [set EXCEPT ![r] = IF @ = "on" THEN "off" ELSE "on"]
                       ELSE Absent

\* set_actions, then check_rule_size; the actions do not tell rulesets apart.
set_pushrule_actions(set, r) == IF set[r] # "none" THEN set ELSE Absent

\* save_push_rules: the changed ruleset replaces whatever is stored by now; a
\* refused change saves nothing.
save_push_rules(w, new) ==
    /\ writer[w] # Absent
    /\ rules' = IF new = Absent THEN rules ELSE new
    /\ writer' = [writer EXCEPT ![w] = Absent]
    /\ UNCHANGED <<pusherVars, listVars>>

\* recreate_push_rules_and_return
recreate_push_rules ==
    /\ rules = Absent
    /\ rules' = server_default
    /\ UNCHANGED <<pusherVars, listVars, writer>>

\* get_pushrules_all_route and get_pushrules_global_route: a ruleset that
\* still holds a deprecated rule is stored again without it, the server
\* defaults brought up to date.
get_pushrules_route(w) ==
    /\ writer[w] # Absent
    /\ writer[w][".old"] # "none"
    /\ rules' = [writer[w] EXCEPT ![".old"] = "none",
                                  ![".default"] = IF @ = "none" THEN "on" ELSE @]
    /\ writer' = [writer EXCEPT ![w] = Absent]
    /\ UNCHANGED <<pusherVars, listVars>>

----------------------------------------------------------------------------
PushInit ==
    /\ pushers = [u \in PushUsers |-> [k \in Pushkeys |-> Absent]]
    /\ keyDevice = [k \in Pushkeys |-> Absent]
    /\ removed = {}
    /\ posting = <<>>
    /\ notified = {} /\ lastRow = 0
    /\ pager = [on |-> FALSE, from |-> Absent, loud |-> FALSE, got |-> <<>>, began |-> {}]
    /\ rules \in {Absent, [r \in RuleIds |-> IF r \in CustomRules THEN "none" ELSE "on"]}
    /\ writer = [w \in Writers |-> Absent]

PusherStep ==
    \/ \E d \in PushDevices, k \in Pushkeys, app \in Apps, append \in BOOLEAN :
          set_pusher(d, k, app, append)
    \/ \E u \in PushUsers, k \in Pushkeys : DeletePusher(u, k) \/ send_notice(u, k)
    \/ \E d \in PushDevices : RemoveDevicePushers(d)
    \/ \E v \in Verdicts : deliver(v)

ListStep ==
    \/ \E loud \in BOOLEAN : record_notification(loud) \/ StartPaging(loud)
    \/ \E r \in notified : Age(r)
    \/ prune \/ delete_notifications \/ get_notifications_route

RuleStep ==
    \/ recreate_push_rules
    \/ \E w \in Writers :
          \/ load_push_rules(w) \/ get_pushrules_route(w)
          \/ writer[w] # Absent /\ \E r \in RuleIds :
                \/ save_push_rules(w, set_pushrule(writer[w], r))
                \/ save_push_rules(w, delete_pushrule(writer[w], r))
                \/ save_push_rules(w, set_pushrule_enabled(writer[w], r))
                \/ save_push_rules(w, set_pushrule_actions(writer[w], r))

----------------------------------------------------------------------------
(* Properties *)

\* The pages of GET /notifications, put together, hold no row twice and every
\* wanted row that was there when the client began and still is, newest first,
\* however rows were added and pruned between the pages.
PagingCovers ==
    /\ \A i, j \in 1..Len(pager.got) : i < j => pager.got[i].at > pager.got[j].at
    /\ ~pager.on => \A r \in notified : r.at \in pager.began /\ (pager.loud => r.loud)
                                    => \E i \in 1..Len(pager.got) : pager.got[i].at = r.at
=============================================================================
