------------------------------- MODULE MCFeeds ------------------------------
(***************************************************************************)
(* What clients and other servers are told and ask for, each part on its   *)
(* own: sliding sync, the state a /sync answer carries, presence, typing,  *)
(* the EDUs of a transaction, the fetcher, the peers' streaks, the         *)
(* resolver and the keys of other servers.                                 *)
(***************************************************************************)
EXTENDS SyncRooms, Ephemeral, Fetcher, Federation

VARIABLE part

netvars == <<fvars, pvars, rvars, kvars, evars>>
syncvars == <<slideVars, stateVars, ephemeralVars>>

-----------------------------------------------------------------------------
Opt(op, hint, cands, popular) ==
  [op |-> op, hint |-> hint, candidates |-> cands, powerful |-> <<"s2">>, popular |-> popular,
   hosts |-> <<"s1">>, attempt_limit |-> 0, complete |-> TRUE, checks |-> TRUE]
\* The second names no server but this one.
MCopts == [k1 |-> Opt("AuthEvent", <<"s1">>, <<>>, <<"us", "s1">>),
           k2 |-> [Opt("Event", <<>>, <<"us">>, <<>>) EXCEPT !.powerful = <<>>, !.hosts = <<>>]]

MCSweepOpts == {[width |-> 1, deadline |-> 9, skip_backoff |-> TRUE, record |-> "contribute"],
                [width |-> 2, deadline |-> 2, skip_backoff |-> FALSE, record |-> "observe"]}

MCForm == [h \in Hosts |-> IF h = "p" THEN "port" ELSE "plain"]
MCWellKnowns == {[a |-> "d", b |-> "d"], [a |-> "none", b |-> "d"], [a |-> "p", b |-> "none"]}
MCSrvs == {[h \in Hosts |-> IF h = "d" THEN x ELSE "none"] : x \in {"t", "u", "none"}}

MCAskConfigs == {[width |-> 2, sub |-> {}], [width |-> 1, sub |-> {2}]}

MCConfigs == {[only |-> FALSE, first |-> FALSE, on_join |-> TRUE],
              [only |-> FALSE, first |-> TRUE, on_join |-> FALSE],
              [only |-> TRUE, first |-> FALSE, on_join |-> FALSE]}
MCTrusted == <<"m", "n">>
MCServed == {[s \in {"origin", "m", "n"} |-> [o \in Origins |->
               CASE s = "m" -> {1} [] s = "n" -> {2} [] OTHER -> {1}]]}
MCWants == {{<<1, 2>>}, {<<1, 1>>, <<1, 2>>, <<2, 1>>}}

-----------------------------------------------------------------------------
\* The parts that are not the behaviour's start in one state.
FeedsInit ==
  /\ part \in {"slide", "state", "presence", "typing", "fetcher", "peers", "resolver", "keys", "edus"}
  /\ SlideInit /\ SyncStateInit /\ PresenceInit /\ TypingInit
  /\ FetcherInit /\ PeersInit /\ ResolverInit /\ ServerKeysInit /\ EdusInit
  /\ part # "resolver" => well_known = [a |-> "d", b |-> "d"] /\ srv["d"] = "t"
  /\ part # "keys" => config = [only |-> FALSE, first |-> FALSE, on_join |-> TRUE]

SyncNext ==
  /\ UNCHANGED netvars
  /\ \/ part = "slide" /\ SlideNext /\ UNCHANGED <<stateVars, ephemeralVars>>
     \/ part = "state" /\ SyncStateNext /\ UNCHANGED <<slideVars, ephemeralVars>>
     \/ part = "presence" /\ PresenceNext /\ UNCHANGED <<slideVars, stateVars>>
     \/ part = "typing" /\ TypingNext /\ UNCHANGED <<slideVars, stateVars>>

NetNext ==
  /\ UNCHANGED syncvars
  /\ \/ part = "fetcher" /\ FetcherNext /\ UNCHANGED <<pvars, rvars, kvars, evars>>
     \/ part = "peers" /\ PeersNext /\ UNCHANGED <<fvars, rvars, kvars, evars>>
     \/ part = "resolver" /\ ResolverNext /\ UNCHANGED <<fvars, pvars, kvars, evars>>
     \/ part = "keys" /\ ServerKeysNext /\ UNCHANGED <<fvars, pvars, rvars, evars>>
     \/ part = "edus" /\ EdusNext /\ UNCHANGED <<fvars, pvars, rvars, kvars>>

FeedsNext == UNCHANGED part /\ (SyncNext \/ NetNext)

\* A request once made goes on, and every name is asked for again and again.
RequestsGoOn ==
  \A t \in Tasks :
    /\ WF_rvars(part = "resolver" /\ ResolverStep(t))
    /\ \A n \in Names : SF_rvars(part = "resolver" /\ RequestStart(t, n))

FeedsSpec == FeedsInit /\ [][FeedsNext]_<<part, netvars, syncvars>> /\ RequestsGoOn

\* One connection of sliding sync alone.
SlideSpec == FeedsInit /\ part = "slide" /\ [][FeedsNext]_<<part, netvars, syncvars>>

\* RouteHeals, of the behaviours in which requests are made.
RoutesHeal == part = "resolver" => RouteHeals

(* Asking other servers works out: every caller of the fetcher is served,  *)
(* backoff is earned by failures and ends, and a key that a server asked   *)
(* for it serves is found.                                                 *)
FetchesSound == NoOneStranded /\ BackoffIsEarned /\ FoundIfHeld
=============================================================================
