------------------------------ MODULE Fetcher ------------------------------
(***************************************************************************)
(* Fetching events from other servers: requests for the same thing share   *)
(* one fetch, which asks a few servers at a time until one answers well.   *)
(* (crates/phantom-service/src/net/fetcher, federation/rank.rs)            *)
(*                                                                         *)
(* The worker owns the table of fetches and runs each handler to the end;  *)
(* a caller may give up at any await.  Interest in a fetch is a counted    *)
(* token the callers hold: here a number, alive while a caller holds it.   *)
(***************************************************************************)
EXTENDS Naturals, Sequences, FiniteSets, SequencesExt

CONSTANTS
  Callers,    \* tasks that fetch
  Keys,       \* what may be fetched
  opts,       \* and with which options
  Ours,       \* this server and those it does not federate with
  Capacity    \* REQUESTS_MAX

VARIABLES
  callers,    \* where each caller is: pc, what it fetches, token, answer
  mailbox,       \* requests sent to the worker
  waiting,    \* those it has put off
  inflight,   \* the fetches under way: the token of the latest interest
  running,    \* their attempts
  tokens,     \* tokens given out
  closed      \* the worker has stopped

fvars == <<callers, mailbox, waiting, inflight, running, tokens, closed>>

NoFetch == "nothing"
Attempts(token, pc) == [token |-> token, pc |-> pc, left |-> <<>>, limit |-> 0,
                        attempted |-> {}, racing |-> {}, round |-> 0, result |-> NoFetch]
AtRest == Attempts(0, "none")
Fetches == {f \in Keys : inflight[f] # 0}

FetcherInit ==
  /\ callers = [c \in Callers |-> [pc |-> "idle", f |-> NoFetch, token |-> 0, got |-> NoFetch]]
  /\ mailbox = <<>> /\ waiting = <<>>
  /\ inflight = [f \in Keys |-> 0]
  /\ running = [f \in Keys |-> AtRest]
  /\ tokens = 0
  /\ closed = FALSE

alive(token) == \E c \in Callers : callers[c].pc = "subscribed" /\ callers[c].token = token

-----------------------------------------------------------------------------
(* Whom to ask. *)

is_eligible(s) == s \notin Ours

push_unique(ss) == FoldLeft(LAMBDA kept, s : IF Contains(kept, s) THEN kept ELSE Append(kept, s), <<>>, ss)

\* Healthy servers before those that failed lately; those still backed off
\* only when there is no other.
rank_from_verdicts(ss, verdict) ==
  LET ranked(r) == SelectSeq(ss, LAMBDA s : verdict[s] = r)
  IN IF \A i \in DOMAIN ss : verdict[ss[i]] = "no" THEN ss
     ELSE ranked("yes") \o ranked("deprioritize")

ranked_override(f) == opts[f].hint \o opts[f].candidates

authority_server(f) == IF opts[f].op \in {"AuthEvent", "AuthChain"} THEN opts[f].powerful ELSE <<>>

candidates(f, verdict) ==
  LET chain == IF opts[f].candidates # <<>> THEN ranked_override(f)
               ELSE opts[f].hint \o authority_server(f) \o opts[f].popular \o opts[f].hosts
  IN rank_from_verdicts(push_unique(SelectSeq(chain, is_eligible)), verdict)

\* How many servers are asked at once, round by round; zero is no limit.
Fan(growth, by, width, rounds) == [growth |-> growth, by |-> by, width |-> width, rounds |-> rounds]

fanout_for_op(op) ==
  CASE op = "AuthEvent" -> Fan("geometric", 2, 4, 5)
    [] op = "AuthChain" -> Fan("linear", 1, 2, 2)
    [] op = "StateIds" -> Fan("linear", 1, 3, 3)
    [] op = "MissingEvents" -> Fan("geometric", 2, 0, 3)
    [] OTHER -> Fan("fixed", 1, 0, 0)

round_width(fan, round) ==
  CASE fan.growth = "fixed" -> 1
    [] fan.growth = "linear" -> 1 + fan.by * round
    [] fan.growth = "geometric" -> fan.by ^ round

least(a, b) == IF a < b THEN a ELSE b

effective_cap(requested, n) == IF requested = 0 THEN n ELSE least(requested, n)

\* What a server may answer to a request that has what its operation needs.
fetch_raw(f) == IF opts[f].complete THEN {"failed", "poisoned", "well"} ELSE {"failed"}

validate(f, answer) == answer = "well" \/ (answer = "poisoned" /\ ~opts[f].checks)

-----------------------------------------------------------------------------
(* The callers. *)

fetch(c, f) ==
  /\ callers[c].pc = "idle" /\ ~closed
  /\ callers' = [callers EXCEPT ![c].pc = "asked", ![c].f = f]
  /\ mailbox' = Append(mailbox, c)
  /\ UNCHANGED <<waiting, inflight, running, tokens, closed>>

\* A caller's future is dropped, with its hold on the token.
GiveUp(c) ==
  /\ callers[c].pc \in {"asked", "subscribed"}
  /\ callers' = [callers EXCEPT ![c].pc = "gone"]
  /\ UNCHANGED <<mailbox, waiting, inflight, running, tokens, closed>>

-----------------------------------------------------------------------------
(* The worker. *)

\* The worker's tables, passed through the requests one step handles.
FetchTables == [callers |-> callers, waiting |-> waiting, inflight |-> inflight,
           running |-> running, tokens |-> tokens]

Subscribed(t, c, token) ==
  IF t.callers[c].pc = "asked"
  THEN [t.callers EXCEPT ![c].pc = "subscribed", ![c].token = token] ELSE t.callers

\* A request whose caller is gone starts nothing.
dispatch(t, c) ==
  LET f == t.callers[c].f
      token == t.tokens + 1
  IN IF t.callers[c].pc # "asked" THEN t
     ELSE [t EXCEPT !.callers = Subscribed(t, c, token), !.tokens = token,
                    !.inflight[f] = token, !.running[f] = Attempts(token, "select")]

on_request(t, c) ==
  LET f == t.callers[c].f
      held == \E d \in Callers : t.callers[d].pc = "subscribed" /\ t.callers[d].token = t.inflight[f]
  IN CASE t.inflight[f] = 0 /\ Cardinality({g \in Keys : t.running[g] # AtRest}) >= Capacity ->
            [t EXCEPT !.waiting = Append(@, c)]
       [] t.inflight[f] = 0 -> dispatch(t, c)
       [] held -> [t EXCEPT !.callers = Subscribed(t, c, t.inflight[f])]
       [] OTHER -> [t EXCEPT !.callers = Subscribed(t, c, t.tokens + 1),
                             !.tokens = @ + 1, !.inflight[f] = t.tokens + 1]

FetchBecomes(t) ==
  /\ callers' = t.callers /\ waiting' = t.waiting /\ inflight' = t.inflight
  /\ running' = t.running /\ tokens' = t.tokens

WorkerReceive ==
  /\ ~closed /\ mailbox # <<>>
  /\ mailbox' = Tail(mailbox)
  /\ FetchBecomes(on_request(FetchTables, Head(mailbox)))
  /\ UNCHANGED closed

RECURSIVE Admit(_)
\* The requests put off are handled while there is room.
Admit(t) ==
  IF t.waiting = <<>> \/ Cardinality({g \in Keys : t.running[g] # AtRest}) >= Capacity THEN t
  ELSE Admit(on_request([t EXCEPT !.waiting = Tail(@)], Head(t.waiting)))

Answered(t, f, result) ==
  [t EXCEPT !.callers = [c \in Callers |->
                           IF @[c].pc = "subscribed" /\ @[c].f = f
                           THEN [@[c] EXCEPT !.pc = "done", !.got = result] ELSE @[c]],
            !.inflight[f] = 0, !.running[f] = AtRest]

(* Mutant: a fetch that was given up ends, whoever has joined it since. *)
on_complete_at_once(f) ==
  /\ ~closed /\ running[f] # AtRest /\ running[f].pc = "ended"
  /\ FetchBecomes(Admit(Answered(FetchTables, f, running[f].result)))
  /\ UNCHANGED <<mailbox, closed>>

\* A fetch given up that someone has joined since is run again.
on_complete(f) ==
  /\ ~closed /\ running[f] # AtRest /\ running[f].pc = "ended"
  /\ IF running[f].result = "cancelled" /\ alive(inflight[f])
     THEN FetchBecomes([FetchTables EXCEPT !.running[f] = Attempts(inflight[f], "select")])
     ELSE FetchBecomes(Admit(Answered(FetchTables, f, running[f].result)))
  /\ UNCHANGED <<mailbox, closed>>

-----------------------------------------------------------------------------
(* One fetch's attempts, between which the worker does other things. *)

FetchRuns(f, pc) == running[f] # AtRest /\ running[f].pc = pc /\ ~closed
FetchEnds(f, result) == running' = [running EXCEPT ![f].pc = "ended", ![f].result = result]
FetchElse == UNCHANGED <<callers, mailbox, waiting, inflight, tokens, closed>>

SelectCandidates(f, verdict) ==
  LET found == candidates(f, verdict)
  IN /\ FetchRuns(f, "select") /\ FetchElse
     /\ IF found = <<>> THEN FetchEnds(f, "no candidates")
        ELSE running' = [running EXCEPT ![f].pc = "round", ![f].left = found,
                                        ![f].limit = effective_cap(opts[f].attempt_limit, Len(found))]

\* The next servers are asked at once, unless no one waits any more.
run_attempts(f) ==
  LET r == running[f]
      done == Cardinality(r.attempted)
      fan == fanout_for_op(opts[f].op)
      width == least(effective_cap(fan.width, round_width(fan, r.round)), r.limit - done)
  IN /\ FetchRuns(f, "round") /\ FetchElse
     /\ IF ~alive(r.token) /\ done < r.limit THEN FetchEnds(f, "cancelled")
        ELSE IF done >= r.limit \/ r.left = <<>> \/ r.round >= effective_cap(fan.rounds, r.round + 1)
        THEN FetchEnds(f, "not found")
        ELSE running' = [running EXCEPT ![f].pc = "racing",
               ![f].racing = {r.left[i] : i \in 1 .. least(width, Len(r.left))},
               ![f].left = SubSeq(r.left, width + 1, Len(r.left))]

\* One of the servers asked has answered.
attempt(f, s, answer) ==
  LET r == running[f]
      after == [r EXCEPT !.racing = @ \ {s}, !.attempted = @ \cup {s}]
  IN /\ FetchRuns(f, "racing") /\ FetchElse
     /\ s \in r.racing /\ answer \in fetch_raw(f)
     /\ IF validate(f, answer) THEN FetchEnds(f, answer)
        ELSE IF ~alive(r.token) THEN FetchEnds(f, "cancelled")
        ELSE running' = [running EXCEPT ![f] =
               IF after.racing = {} THEN [after EXCEPT !.pc = "round", !.round = @ + 1] ELSE after]

\* The worker stops: what it held is dropped, and those who wait on it told.
interrupt ==
  /\ ~closed
  /\ closed' = TRUE
  /\ callers' = [c \in Callers |->
                   IF callers[c].pc = "subscribed" \/ (callers[c].pc = "asked" /\ Contains(waiting, c))
                   THEN [callers[c] EXCEPT !.pc = "done", !.got = "cancelled"] ELSE callers[c]]
  /\ waiting' = <<>> /\ inflight' = [f \in Keys |-> 0] /\ running' = [f \in Keys |-> AtRest]
  /\ UNCHANGED <<mailbox, tokens>>

Verdicts(f) == [ToSet(opts[f].hint \o opts[f].candidates \o opts[f].powerful \o opts[f].popular \o opts[f].hosts)
                  -> {"yes", "deprioritize", "no"}]

FetcherNext ==
  \/ \E c \in Callers, f \in Keys : fetch(c, f)
  \/ \E c \in Callers : GiveUp(c)
  \/ WorkerReceive
  \/ \E f \in Keys : on_complete(f) \/ run_attempts(f)
  \/ \E f \in Keys : \E verdict \in Verdicts(f) : SelectCandidates(f, verdict)
  \/ \E f \in Keys, answer \in {"failed", "poisoned", "well"} :
       running[f] # AtRest /\ \E s \in running[f].racing : attempt(f, s, answer)
  \/ interrupt

-----------------------------------------------------------------------------
(* Whoever gives up and whoever joins in between, no caller is stranded    *)
(* while the worker runs: one that waits for a fetch waits for attempts    *)
(* that are under way, a request is put off only while the worker is full, *)
(* never more than Capacity fetches run, and none is answered with         *)
(* another's cancellation.                                                 *)
NoOneStranded ==
  ~closed =>
    /\ \A c \in Callers : callers[c].pc = "subscribed" => running[callers[c].f] # AtRest
    /\ \A c \in Callers : callers[c].got # "cancelled"
    /\ waiting # <<>> => Cardinality(Fetches) >= Capacity
    /\ Cardinality(Fetches) <= Capacity
============================================================================
