----------------------------- MODULE Federation -----------------------------
(***************************************************************************)
(* Talking to other servers: how it went lately, where they are, and which *)
(* keys they sign with.                                                    *)
(***************************************************************************)
EXTENDS Naturals, FiniteSets, FiniteSetsExt, Sequences, SequencesExt

-----------------------------------------------------------------------------
(***************************************************************************)
(* What this server remembers of how talking to others went, and requests  *)
(* sent to many of them at once.                                           *)
(* (crates/phantom-service/src/net/federation)                             *)
(*                                                                         *)
(* A failure is a row under the server and the window of time it fell in,  *)
(* the newest of a window; an answer deletes the server's rows, found      *)
(* first and then deleted one by one.  Time is in seconds.                 *)
(***************************************************************************)

CONSTANTS
  Servers,       \* other servers
  WindowSecs,    \* sender_timeout
  GraceSecs,     \* sender_retry_grace
  MaxBackoff,    \* sender_retry_backoff_limit
  SweepOpts,     \* options of a sweep: width, deadline, skip_backoff, record
  Timeout,       \* of one request of a sweep
  MaxNow,        \* bound on the clock
  MaxAsks        \* bound on requests outside the sweep

VARIABLES
  now,
  statuses,      \* rows of each server: window, class, time, and (a ghost)
                 \* whether no answer was recorded since
  clearing,      \* windows still to be deleted of a server that answered
  sweep,         \* the options of the sweep under way, and where it is
  asks           \* requests made outside it

pvars == <<now, statuses, clearing, sweep, asks>>

PeersInit ==
  /\ now = 0 /\ asks = 0
  /\ statuses = [s \in Servers |-> {}]
  /\ clearing = [s \in Servers |-> {}]
  /\ \E o \in SweepOpts :
       sweep = [opts |-> o, queue |-> Servers, flying |-> [s \in Servers |-> 0]]

-----------------------------------------------------------------------------
(* Backoff. *)

current_bucket == now \div WindowSecs

\* The longest streak that still tells: beyond it the delay is the longest.
n_max ==
  LET ratio == (MaxBackoff + WindowSecs - 1) \div WindowSecs
  IN Max({n \in 0 .. ratio : n * n <= ratio}) + 1

\* From the oldest row to the newest; the newest says when and how it failed.
fold_streak(rows) ==
  LET newest == CHOOSE r \in rows : \A q \in rows : q.bucket <= r.bucket
      oldest == Min({r.bucket : r \in rows})
      span == newest.bucket - oldest + 1
  IN [class |-> newest.class, anchor |-> newest.at,
      streak |-> IF span < n_max THEN span ELSE n_max]

delay_secs(streak) ==
  LET wait == CASE streak.class = "permanent" -> MaxBackoff
                [] streak.streak <= 1 /\ GraceSecs # 0 -> GraceSecs
                [] OTHER -> WindowSecs * streak.streak * streak.streak
  IN IF wait < MaxBackoff THEN wait ELSE MaxBackoff

attempt_verdict(streak) == IF now < streak.anchor + delay_secs(streak) THEN "no" ELSE "deprioritize"

should_attempt(s) == IF statuses[s] = {} THEN "yes" ELSE attempt_verdict(fold_streak(statuses[s]))

-----------------------------------------------------------------------------
(* Recording how a request went. *)

record_failure(s, class) ==
  /\ statuses' = [statuses EXCEPT ![s] =
       {r \in @ : r.bucket # current_bucket}
         \cup {[bucket |-> current_bucket, class |-> class, at |-> now, fresh |-> TRUE]}]
  /\ UNCHANGED clearing

(* Mutant: only the row of the present window is deleted. *)
record_success_now(s) ==
  /\ clearing' = [clearing EXCEPT ![s] = @ \cup {current_bucket}]
  /\ statuses' = [statuses EXCEPT ![s] = {[r EXCEPT !.fresh = FALSE] : r \in @}]

record_success(s) ==
  /\ clearing' = [clearing EXCEPT ![s] = @ \cup {r.bucket : r \in statuses[s]}]
  /\ statuses' = [statuses EXCEPT ![s] = {[r EXCEPT !.fresh = FALSE] : r \in @}]

\* One of the rows found is deleted.
Clear(s, bucket) ==
  /\ bucket \in clearing[s]
  /\ clearing' = [clearing EXCEPT ![s] = @ \ {bucket}]
  /\ statuses' = [statuses EXCEPT ![s] = {r \in @ : r.bucket # bucket}]
  /\ UNCHANGED <<now, sweep, asks>>

\* How requests end: an error another server explains is not held against it.
Results == {"ok", "transient", "permanent", "explained"}

classify_error(result) == IF result = "explained" THEN "none" ELSE result

record_outcome(s, result) ==
  CASE result = "ok" -> record_success(s)
    [] classify_error(result) = "none" -> UNCHANGED <<statuses, clearing>>
    [] OTHER -> record_failure(s, classify_error(result))

\* A request outside the sweep, sent whatever the verdict.
execute(s, result) ==
  /\ asks < MaxAsks /\ asks' = asks + 1
  /\ record_outcome(s, result)
  /\ UNCHANGED <<now, sweep>>

\* A transaction came from the server: it is up.
note_peer_alive(s) ==
  /\ asks < MaxAsks /\ asks' = asks + 1
  /\ statuses[s] # {} /\ record_success(s)
  /\ UNCHANGED <<now, sweep>>

-----------------------------------------------------------------------------
(* A sweep over the servers of a room. *)

Flying == {s \in Servers : sweep.flying[s] # 0}

backoff_fault(s) == sweep.opts.skip_backoff /\ should_attempt(s) = "no"

Outcome(s) == sweep' = [sweep EXCEPT !.queue = @ \ {s}, !.flying[s] = 0]

\* The next server is passed over, or asked while there is room.
gate(s) ==
  /\ s \in sweep.queue /\ s = Min(sweep.queue) /\ Cardinality(Flying) < sweep.opts.width
  /\ IF now >= sweep.opts.deadline \/ backoff_fault(s) THEN Outcome(s)
     ELSE sweep' = [sweep EXCEPT !.queue = @ \ {s},
            !.flying[s] = Min({now + Timeout, sweep.opts.deadline}) + 1]
  /\ UNCHANGED <<now, statuses, clearing, asks>>

\* It answers in time; the answer counts if the sweep is to contribute.
Answers(s, result) ==
  /\ s \in Flying
  /\ Outcome(s)
  /\ IF sweep.opts.record = "contribute" THEN record_outcome(s, result)
     ELSE UNCHANGED <<statuses, clearing>>
  /\ UNCHANGED <<now, asks>>

\* Or it does not: its request is dropped and the failure recorded here.
Elapsed(s) ==
  /\ s \in Flying /\ now + 1 >= sweep.flying[s]
  /\ Outcome(s)
  /\ IF sweep.opts.record = "contribute" THEN record_failure(s, "transient")
     ELSE UNCHANGED <<statuses, clearing>>
  /\ UNCHANGED <<now, asks>>

\* Requests that are due end before time goes on.
PeersTick ==
  /\ now < MaxNow
  /\ \A s \in Flying : now + 1 < sweep.flying[s]
  /\ now' = now + 1
  /\ UNCHANGED <<statuses, clearing, sweep, asks>>

PeersNext ==
  \/ PeersTick
  \/ \E s \in Servers :
       \/ note_peer_alive(s) \/ gate(s) \/ Elapsed(s)
       \/ \E result \in Results : execute(s, result) \/ Answers(s, result)
       \/ \E bucket \in clearing[s] : Clear(s, bucket)

-----------------------------------------------------------------------------
(* A server is held back only by failures since it last answered: once the *)
(* rows an answer found are deleted none older is left, and none holds it  *)
(* back for longer than the limit.                                         *)
BackoffIsEarned ==
  \A s \in Servers :
    /\ clearing[s] = {} => \A r \in statuses[s] : r.fresh
    /\ statuses[s] # {} /\ now >= Max({r.at : r \in statuses[s]}) + MaxBackoff
         => should_attempt(s) # "no"

-----------------------------------------------------------------------------
(***************************************************************************)
(* Finding the host that serves a server name: a well-known file, an SRV   *)
(* record, two caches, and the eviction of a route that failed.            *)
(* (crates/phantom-service/src/net/resolver, federation/execute.rs)        *)
(*                                                                         *)
(* A destination is the host put in the URL.  Its address is found through *)
(* the cache of overrides, which stands in for the SRV record; the address *)
(* of a host is the host itself here.  A host that does not serve a name   *)
(* fails or does not answer as a homeserver.                               *)
(***************************************************************************)

CONSTANTS
  Names,       \* server names
  Hosts,       \* every host name, the server names among them
  Form,        \* of a host name: "literal", "port" or "plain"
  WellKnowns,  \* what the well-known files may say: name -> host or "none"
  Srvs,        \* what the SRV records may say: host -> host or "none"
  Tasks,       \* requests under way
  MaxChanges,  \* changes of files and records
  MaxFaults    \* expiries, failures of the right host, caches cleared

ASSUME ResolverAssumption ==
  /\ Names \subseteq Hosts
  /\ Form \in [Hosts -> {"literal", "port", "plain"}]
  /\ WellKnowns \subseteq [Names -> Hosts \cup {"none"}]
  /\ Srvs \subseteq [Hosts -> Hosts \cup {"none"}]

VARIABLES
  well_known, srv,   \* the files and the records
  destinations,      \* cached: the host for a name, or "none"
  overrides,         \* cached: the target for a host, and whether still valid
  resolving,         \* the task that resolves a name, or 0
  task,              \* where each request is
  outcome,           \* of the last request to each name
  changes, faults

rvars == <<well_known, srv, destinations, overrides, resolving, task, outcome, changes, faults>>

NoOverride == [target |-> "none", valid |-> FALSE]
Waits == [pc |-> "idle", name |-> "none", host |-> "none", target |-> "none"]

ResolverInit ==
  /\ well_known \in WellKnowns /\ srv \in Srvs
  /\ destinations = [n \in Names |-> "none"]
  /\ overrides = [h \in Hosts |-> NoOverride]
  /\ resolving = [n \in Names |-> 0]
  /\ task = [t \in Tasks |-> Waits]
  /\ outcome = [n \in Names |-> "none"]
  /\ changes = 0 /\ faults = 0

-----------------------------------------------------------------------------
\* The host an SRV record, if there is one, puts in the place of another.
query_srv_record(h) == IF srv[h] = "none" THEN h ELSE srv[h]

\* The host the well-known file names, or "none" when there is none to read.
request_well_known(n) == well_known[n]

\* Steps 3.1 to 3.4 for a host a well-known file names, 4 and 5 for a name.
step_3(h) == IF Form[h] = "plain" THEN query_srv_record(h) ELSE h
step_4(n) == query_srv_record(n)

\* The host that serves a name.
Serves(n) ==
  CASE Form[n] # "plain" -> n
    [] request_well_known(n) # "none" -> step_3(request_well_known(n))
    [] OTHER -> step_4(n)

In(t, pc) == task[t].pc = pc
RecordsStay == UNCHANGED <<well_known, srv, changes>>

RequestStart(t, n) ==
  /\ In(t, "idle")
  /\ task' = [task EXCEPT ![t] = [Waits EXCEPT !.pc = "lookup", !.name = n]]
  /\ RecordsStay /\ UNCHANGED <<destinations, overrides, resolving, outcome, faults>>

\* A cached destination, looked for again once no one else resolves the name.
lookup_destination(t) ==
  LET n == task[t].name
  IN /\ In(t, "lookup")
     /\ IF destinations[n] # "none"
        THEN /\ task' = [task EXCEPT ![t].pc = "connect", ![t].host = destinations[n]]
             /\ UNCHANGED resolving
        ELSE /\ resolving[n] = 0
             /\ task' = [task EXCEPT ![t].pc = "well_known"]
             /\ resolving' = [resolving EXCEPT ![n] = t]
     /\ RecordsStay /\ UNCHANGED <<destinations, overrides, outcome, faults>>

\* Steps 1 and 2 need neither file nor record.
resolve_destination(t) ==
  LET n == task[t].name
      h == IF Form[n] # "plain" \/ request_well_known(n) = "none" THEN n
           ELSE request_well_known(n)
  IN /\ In(t, "well_known")
     /\ task' = [task EXCEPT ![t].pc = "srv", ![t].host = h]
     /\ RecordsStay /\ UNCHANGED <<destinations, overrides, resolving, outcome, faults>>

ResolveSrv(t) ==
  /\ In(t, "srv")
  /\ task' = [task EXCEPT ![t].pc = "override", ![t].target = step_3(task[t].host)]
  /\ RecordsStay /\ UNCHANGED <<destinations, overrides, resolving, outcome, faults>>

query_and_cache_override(t) == [target |-> task[t].target, valid |-> TRUE]

\* The address is asked for unless an override for the host is still valid;
\* a name without an address is no error, and nothing is cached for it.
conditional_query_and_cache_override(t) ==
  LET h == task[t].host
  IN /\ In(t, "override")
     /\ \/ /\ overrides' = IF Form[h] = "literal" \/ overrides[h].valid THEN overrides
                           ELSE [overrides EXCEPT ![h] = query_and_cache_override(t)]
           /\ UNCHANGED faults
        \/ /\ faults < MaxFaults /\ faults' = faults + 1
           /\ UNCHANGED overrides
     /\ task' = [task EXCEPT ![t].pc = "cache"]
     /\ RecordsStay /\ UNCHANGED <<destinations, resolving, outcome>>

set_destination(t) ==
  LET n == task[t].name
  IN /\ In(t, "cache")
     /\ destinations' = [destinations EXCEPT ![n] = task[t].host]
     /\ resolving' = [resolving EXCEPT ![n] = 0]
     /\ task' = [task EXCEPT ![t].pc = "connect"]
     /\ RecordsStay /\ UNCHANGED <<overrides, outcome, faults>>

(* Mutant: the name stays locked when its resolution fails. *)
handle_resolve_error_locked(t) ==
  /\ task[t].pc \in {"srv", "override"} /\ faults < MaxFaults
  /\ task' = [task EXCEPT ![t] = Waits]
  /\ faults' = faults + 1
  /\ RecordsStay /\ UNCHANGED <<resolving, destinations, overrides, outcome>>

\* DNS fails, or the server shuts down: nothing is cached.
handle_resolve_error(t) ==
  /\ task[t].pc \in {"srv", "override"} /\ faults < MaxFaults
  /\ resolving' = [resolving EXCEPT ![task[t].name] = 0]
  /\ task' = [task EXCEPT ![t] = Waits]
  /\ faults' = faults + 1
  /\ RecordsStay /\ UNCHANGED <<destinations, overrides, outcome>>

\* Where a connection to a host goes: an override that has expired still
\* tells the name to look up.
hooked_resolve(h) ==
  IF Form[h] = "literal" \/ overrides[h].target = "none" THEN h ELSE overrides[h].target

\* The request is sent; it fails when the host does not serve the name, and
\* may fail when it does.
perform(t) ==
  LET n == task[t].name
      right == hooked_resolve(task[t].host) = Serves(n)
  IN /\ In(t, "connect")
     /\ \/ right /\ task' = [task EXCEPT ![t] = Waits] /\ UNCHANGED faults
        \/ ~right /\ task' = [task EXCEPT ![t].pc = "evict"] /\ UNCHANGED faults
        \/ /\ right /\ faults < MaxFaults /\ faults' = faults + 1
           /\ task' = [task EXCEPT ![t].pc = "evict"]
     /\ outcome' = [outcome EXCEPT ![n] = IF right THEN "right" ELSE "wrong"]
     /\ RecordsStay /\ UNCHANGED <<destinations, overrides, resolving>>

\* Both rows of the route, one after the other.
evict_route(t) ==
  /\ \/ /\ In(t, "evict")
        /\ destinations' = [destinations EXCEPT ![task[t].name] = "none"]
        /\ task' = [task EXCEPT ![t].pc = "evict_override"]
        /\ UNCHANGED overrides
     \/ /\ In(t, "evict_override")
        /\ overrides' = [overrides EXCEPT ![task[t].host] = NoOverride]
        /\ task' = [task EXCEPT ![t] = Waits]
        /\ UNCHANGED destinations
  /\ RecordsStay /\ UNCHANGED <<resolving, outcome, faults>>

-----------------------------------------------------------------------------
(* What happens to the caches and the records meanwhile. *)

Fault == faults < MaxFaults /\ faults' = faults + 1

\* An expired destination is none; an expired override is kept.
Expire ==
  /\ Fault
  /\ \/ \E n \in Names : /\ destinations[n] # "none"
                         /\ destinations' = [destinations EXCEPT ![n] = "none"]
                         /\ UNCHANGED overrides
     \/ \E h \in Hosts : /\ overrides[h].valid
                         /\ overrides' = [overrides EXCEPT ![h].valid = FALSE]
                         /\ UNCHANGED destinations
  /\ RecordsStay /\ UNCHANGED <<resolving, task, outcome>>

\* An administrator's request; the two tables are cleared side by side.
clear_cache ==
  /\ Fault
  /\ \/ destinations' = [n \in Names |-> "none"] /\ UNCHANGED overrides
     \/ overrides' = [h \in Hosts |-> NoOverride] /\ UNCHANGED destinations
  /\ RecordsStay /\ UNCHANGED <<resolving, task, outcome>>

RecordsChange ==
  /\ changes < MaxChanges /\ changes' = changes + 1
  /\ well_known' \in WellKnowns /\ srv' \in Srvs
  /\ UNCHANGED <<destinations, overrides, resolving, task, outcome, faults>>

ResolverStep(t) ==
  \/ lookup_destination(t) \/ resolve_destination(t) \/ ResolveSrv(t)
  \/ conditional_query_and_cache_override(t) \/ set_destination(t)
  \/ perform(t) \/ evict_route(t)

ResolverNext ==
  \/ \E t \in Tasks : ResolverStep(t) \/ handle_resolve_error(t)
  \/ \E t \in Tasks, n \in Names : RequestStart(t, n)
  \/ Expire \/ clear_cache \/ RecordsChange

-----------------------------------------------------------------------------
(* Once files and records no longer change, and caches neither expire nor  *)
(* are cleared, requests made one after another all come to reach the host *)
(* that serves the name: whatever stale route, or half of one, the caches  *)
(* are left with, the failures it causes evict it.                         *)
RouteHeals == \A n \in Names : <>[](outcome[n] = "right")

-----------------------------------------------------------------------------
(***************************************************************************)
(* Obtaining the keys other servers sign with: from the database, from the *)
(* server itself, or from a notary, in an order the configuration decides. *)
(* (crates/phantom-service/src/net/server_keys)                            *)
(*                                                                         *)
(* A wanted key is a pair <<origin, key>>.  What the sources serve stays   *)
(* the same; any request to one may fail.  Current and old keys are not    *)
(* told apart: both are used wherever a key is looked for.                 *)
(***************************************************************************)

CONSTANTS
  Origins, Keys_,  \* servers and key ids
  OurName,         \* this server
  trusted_servers, \* the notaries, in the order they are asked
  Configs,         \* configurations: [only, first, on_join]
  Served,          \* what may be served: source -> origin -> keys
  Tasks_, Wants,   \* tasks, and the sets of keys a task may want
  MaxPuts          \* database writes that may fail

VARIABLES
  signing_keys,    \* the table: origin -> keys
  config, serves,
  verifying,       \* each task
  putfails

kvars == <<signing_keys, config, serves, verifying, putfails>>

Free == [pc |-> "idle", kind |-> "get", missing |-> {}, sources |-> <<>>,
         adds |-> {}, failed |-> {}, excused |-> FALSE]

ServerKeysInit ==
  /\ signing_keys = [o \in Origins |-> {}]
  /\ config \in Configs /\ serves \in Served
  /\ verifying = [t \in Tasks_ |-> Free]
  /\ putfails = 0

-----------------------------------------------------------------------------
\* Our own keys are in memory.
verify_key_exists(o, k) == o = OurName \/ k \in signing_keys[o]
verify_keys_for(o) == IF o = OurName THEN Keys_ ELSE signing_keys[o]
required_keys_exist(wanted) == \A w \in wanted : verify_key_exists(w[1], w[2])

acquire_locals(wanted) == {w \in wanted : ~verify_key_exists(w[1], w[2])}

Origin == IF config.only THEN <<>> ELSE <<"origin">>

(* Mutant: the notaries' last turn looks at the setting for joins too. *)
get_verify_key_on_join ==
  (IF config.first THEN trusted_servers ELSE <<>>) \o Origin
  \o (IF config.first \/ config.on_join THEN <<>> ELSE trusted_servers)

\* The order in which one key is looked for.
get_verify_key ==
  (IF config.first THEN trusted_servers ELSE <<>>) \o Origin
  \o (IF config.first THEN <<>> ELSE trusted_servers)

\* The order in which a batch is.
acquire_pubkeys ==
  IF config.first \/ config.on_join THEN trusted_servers \o Origin ELSE Origin \o trusted_servers

\* A task starts with what the database lacks; the check that does not
\* fetch ends there.
KeysWanted(t, kind, wanted) ==
  LET lacking == IF kind = "acquire" THEN acquire_locals(wanted)
                 ELSE {w \in wanted : w[2] \notin verify_keys_for(w[1])}
      refused == kind = "no_fetch" /\ ~required_keys_exist(wanted)
      plan == IF kind = "acquire" THEN acquire_pubkeys ELSE get_verify_key
  IN /\ verifying[t].pc = "idle"
     /\ kind # "acquire" => Cardinality(wanted) = 1
     /\ verifying' = [verifying EXCEPT ![t] =
          [Free EXCEPT !.pc = IF refused \/ lacking = {} THEN "done" ELSE "ask", !.kind = kind,
             !.missing = lacking, !.sources = plan, !.excused = refused]]
     /\ UNCHANGED <<signing_keys, config, serves, putfails>>

Missing(t) == {w[1] : w \in verifying[t].missing}
Add(o, keys) == [origin |-> o, keys |-> keys, read |-> FALSE, row |-> {}]

\* server_request: a server is not asked for its keys when it is ours.
server_request(answered) ==
  {Add(o, serves["origin"][o]) : o \in answered \ {OurName}}

\* notary_request, batch_notary_request: one failing request loses them all.
notary_request(t, n) == {Add(o, serves[n][o]) : o \in {x \in Missing(t) : serves[n][x] # {}}}

Asks(t) == verifying[t].pc = "ask" /\ verifying[t].adds = {} /\ verifying[t].missing # {}
Asked(t, adds, failed) ==
  /\ verifying' = [verifying EXCEPT ![t].sources = Tail(@), ![t].adds = adds, ![t].failed = @ \cup failed]
  /\ UNCHANGED <<signing_keys, config, serves, putfails>>

\* The next notary is asked for everything missing.
acquire_notary(t) ==
  /\ Asks(t) /\ verifying[t].sources # <<>> /\ Head(verifying[t].sources) # "origin"
  /\ LET n == Head(verifying[t].sources)
     IN \/ Asked(t, notary_request(t, n), {})
        \/ Asked(t, {}, Missing(t) \X {n})

\* Each origin is asked for its own; it answers, or fails, on its own.
acquire_origins(t) ==
  /\ Asks(t) /\ verifying[t].sources # <<>> /\ Head(verifying[t].sources) = "origin"
  /\ \E answered \in SUBSET Missing(t) :
        Asked(t, server_request(answered), (Missing(t) \ answered) \X {"origin"})

\* add_signing_keys reads the row, extends it and puts it back.
AddRead(t, a) ==
  /\ a \in verifying[t].adds /\ ~a.read
  /\ verifying' = [verifying EXCEPT
        ![t].adds = (@ \ {a}) \cup {[a EXCEPT !.read = TRUE, !.row = signing_keys[a.origin]]}]
  /\ UNCHANGED <<signing_keys, config, serves, putfails>>

add_signing_keys(t, a) ==
  /\ a \in verifying[t].adds /\ a.read
  /\ signing_keys' = [signing_keys EXCEPT ![a.origin] = a.row \cup a.keys]
  /\ verifying' = [verifying EXCEPT ![t].adds = @ \ {a},
        ![t].missing = {w \in @ : ~(w[1] = a.origin /\ w[2] \in a.keys)}]
  /\ UNCHANGED <<config, serves, putfails>>

\* The write fails: a batch goes on without the keys, a single look-up gives
\* up on the notaries.
AddFails(t, a) ==
  /\ a \in verifying[t].adds /\ a.read /\ putfails < MaxPuts
  /\ putfails' = putfails + 1
  /\ verifying' = [verifying EXCEPT ![t].adds = @ \ {a}, ![t].excused = TRUE,
        ![t].sources = IF verifying[t].kind = "acquire" THEN @
                       ELSE SelectSeq(@, LAMBDA s : s = "origin")]
  /\ UNCHANGED <<signing_keys, config, serves>>

\* Everything found, or every source asked: verify_event goes on with what
\* there is, and a task may start anew.
KeysDone(t) ==
  LET v == verifying[t] IN
  /\ \/ /\ v.pc = "ask" /\ v.adds = {} /\ (v.missing = {} \/ v.sources = <<>>)
        /\ verifying' = [verifying EXCEPT ![t].pc = "done", ![t].sources = <<>>]
     \/ v.pc = "done" /\ verifying' = [verifying EXCEPT ![t] = Free]
  /\ UNCHANGED <<signing_keys, config, serves, putfails>>

ServerKeysNext ==
  \E t \in Tasks_ :
    \/ \E kind \in {"get", "no_fetch", "acquire"}, w \in Wants : KeysWanted(t, kind, w)
    \/ acquire_notary(t) \/ acquire_origins(t) \/ KeysDone(t)
    \/ \E a \in verifying[t].adds : AddRead(t, a) \/ add_signing_keys(t, a) \/ AddFails(t, a)

-----------------------------------------------------------------------------
(* Whatever the configuration, a key that a source it allows serves, and   *)
(* that did not fail to answer, is found: the order of the sources and the *)
(* writes of other tasks never make a look-up end without it.              *)
FoundIfHeld ==
  \A t \in Tasks_ : verifying[t].pc = "done" /\ ~verifying[t].excused =>
    \A w \in verifying[t].missing, s \in ToSet(trusted_servers \o Origin) :
       w[2] \in serves[s][w[1]] => <<w[1], s>> \in verifying[t].failed \/ w[1] = OurName
=============================================================================
