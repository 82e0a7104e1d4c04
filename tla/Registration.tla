---------------------------- MODULE Registration ----------------------------
(***************************************************************************)
(* Proofs an account is opened or extended with: user-interactive sessions *)
(* (auth/uiaa.rs), addresses verified by mail or text (auth/threepid),     *)
(* registration tokens (auth/registration_tokens), and the routes that     *)
(* spend them (client/auth/register, client/accounts/account/3pid); and    *)
(* the limits on attempts that all of them take (ratelimit.rs,             *)
(* auth/attempts.rs), a machine of their own.                              *)
(*                                                                         *)
(* A request holds its own copy of the session it read, as try_auth_inner  *)
(* does; a step under pending_mutex, claim_mutex or a token's lock is one  *)
(* action.                                                                 *)
(***************************************************************************)
EXTENDS Naturals, FiniteSets

CONSTANTS
    RUsers,      \* accounts that exist, or that a registration opens
    Sids,        \* verification sessions: an address and a client secret
    Uiaa,        \* user-interactive session ids
    RTokens,     \* registration tokens kept in the database
    RegRequests,    \* requests in flight
    MaxVerify,   \* MAX_VERIFY_ATTEMPTS
    MaxUses,     \* bound on a token's limit
    MaxMints,    \* bound on the times a verification session is mailed
    Required,    \* stages registration asks for: a subset of {"token", "email"}
    NoRow

ASSUME RegAssumption ==
    /\ MaxUses \in Nat
    /\ Uiaa \cap {"available", "spent"} = {}
    /\ NoRow \notin [uses : Nat, max : Nat, old : BOOLEAN]
    /\ NoRow \notin Sids

VARIABLES
    pending,  \* threepidsid_pending: NoRow or [valid, attempts, use, stale]
    claims,   \* userdevicesessionid_threepid: uiaa session -> NoRow or sid
    uiaa,     \* userdevicesessionid_uiaainfo: NoRow or the completed stages
    rtokens,  \* registrationtoken_info: NoRow or [uses, max, old]
    bound,    \* userid_email: {<<user, sid>>}
    owner,    \* email_userid: the user an address leads to
    reg,      \* requests in flight
    spent, \* history: associations handed out per minting of a sid
    mailed,   \* history: mintings per sid
    granted,  \* history: uses granted since the token was created
    allowed   \* history: the largest limit the token has had since then

proofVars == <<pending, claims, spent, mailed>>
tokenVars == <<rtokens, granted, allowed>>
bindVars == <<bound, owner>>
regVars == <<proofVars, uiaa, tokenVars, bindVars, reg>>

Quiet == [at |-> "idle"]
Put(r, s) == reg' = [reg EXCEPT ![r] = s]

----------------------------------------------------------------------------
(* Verified addresses *)

Row(sid) == pending[sid] # NoRow
Stale(sid) == pending[sid].stale
Claimed(sid, s) == pending[sid].use = s

\* delete_pending_state: the row, and the claim index if it still leads here.
delete_pending_state(sid) ==
    /\ pending' = [pending EXCEPT ![sid] = NoRow]
    /\ claims' = [s \in Uiaa |-> IF claims[s] = sid /\ Claimed(sid, s) THEN NoRow ELSE claims[s]]

\* create_or_reuse_pending: a used session is refused, a repeated send_attempt
\* changes nothing, anything else mints a token.
create_or_reuse_pending(sid, again) ==
    /\ mailed[sid] < MaxMints
    /\ IF Row(sid) /\ ~Stale(sid) /\ (pending[sid].use # "available" \/ again)
       THEN UNCHANGED proofVars
       ELSE /\ pending' = [pending EXCEPT ![sid] =
                  [valid |-> FALSE, attempts |-> 0, use |-> "available", stale |-> FALSE]]
            /\ claims' = IF Row(sid) /\ Stale(sid)
                         THEN [s \in Uiaa |-> IF claims[s] = sid /\ Claimed(sid, s) THEN NoRow
                                              ELSE claims[s]]
                         ELSE claims
            /\ spent' = [spent EXCEPT ![sid] = 0]
            /\ mailed' = [mailed EXCEPT ![sid] = @ + 1]
    /\ UNCHANGED <<uiaa, tokenVars, bindVars, reg>>

\* validate_pending_token: each mismatch is counted, the last one deletes.
validate_pending_token(sid, right) ==
    /\ Row(sid)
    /\ CASE Stale(sid) -> delete_pending_state(sid)
         [] ~Stale(sid) /\ (pending[sid].use # "available" \/ pending[sid].valid) ->
              UNCHANGED <<pending, claims>>
         [] OTHER ->
              IF right
              THEN pending' = [pending EXCEPT ![sid].valid = TRUE] /\ UNCHANGED claims
              ELSE IF pending[sid].attempts + 1 >= MaxVerify THEN delete_pending_state(sid)
              ELSE pending' = [pending EXCEPT ![sid].attempts = @ + 1] /\ UNCHANGED claims
    /\ UNCHANGED <<spent, mailed, uiaa, tokenVars, bindVars, reg>>

\* claim_validated: whether uiaa session s may own the proof, and the rows.
Claimable(sid, s) ==
    /\ Row(sid) /\ ~Stale(sid) /\ pending[sid].valid
    /\ pending[sid].use \in {"available", s}
    /\ claims[s] \in {NoRow, sid}

claim_validated(sid, s) ==
    CASE Row(sid) /\ Stale(sid) -> delete_pending_state(sid)
      [] Claimable(sid, s) -> /\ pending' = [pending EXCEPT ![sid].use = s]
                              /\ claims' = [claims EXCEPT ![s] = sid]
      [] OTHER -> UNCHANGED <<pending, claims>>

\* The claim is still s's own when its locks are held.
Owned(sid, s) == claims[s] = sid /\ Row(sid) /\ ~Stale(sid) /\ Claimed(sid, s)

\* refresh_claim and redeem_claim drop an index that leads to no live claim.
DropClaim(sid, s) ==
    IF claims[s] # sid THEN UNCHANGED <<pending, claims>>
    ELSE /\ claims' = [claims EXCEPT ![s] = NoRow]
         /\ pending' = IF Row(sid) /\ Stale(sid) THEN [pending EXCEPT ![sid] = NoRow] ELSE pending

refresh_claim(sid, s) == IF Owned(sid, s) THEN UNCHANGED <<pending, claims>> ELSE DropClaim(sid, s)

(* Mutant: the association is handed out and the proof stays claimed. *)
redeem_and_keep(sid, s) ==
    IF Owned(sid, s)
    THEN spent' = [spent EXCEPT ![sid] = @ + 1] /\ UNCHANGED <<pending, claims>>
    ELSE DropClaim(sid, s) /\ UNCHANGED spent

\* redeem_claim: spent and unindexed in one transaction.
redeem_claim(sid, s) ==
    IF Owned(sid, s)
    THEN /\ pending' = [pending EXCEPT ![sid].use = "spent"]
         /\ claims' = [claims EXCEPT ![s] = NoRow]
         /\ spent' = [spent EXCEPT ![sid] = @ + 1]
    ELSE DropClaim(sid, s) /\ UNCHANGED spent

\* redeem_validated, for an address added to an account.
session_validated(sid) ==
    Row(sid) /\ ~Stale(sid) /\ pending[sid].valid /\ pending[sid].use = "available"

redeem_validated(sid) ==
    CASE Row(sid) /\ Stale(sid) -> delete_pending_state(sid) /\ UNCHANGED spent
      [] session_validated(sid) -> /\ pending' = [pending EXCEPT ![sid].use = "spent"]
                                   /\ spent' = [spent EXCEPT ![sid] = @ + 1]
                                   /\ UNCHANGED claims
      [] OTHER -> UNCHANGED <<pending, claims, spent>>

\* put_binding writes both rows; the later writer owns the address.
put_binding(u, sid) ==
    /\ bound' = bound \cup {<<u, sid>>}
    /\ owner' = [owner EXCEPT ![sid] = u]

bound_elsewhere(u, sid) == owner[sid] \notin {NoRow, u}

\* The routes that mail a token: registering and adding ask for an address
\* nobody has, a password reset for one that leads to an account.
address_in_use(sid) == owner[sid] # NoRow
request_registration_token(sid) == ~address_in_use(sid)
request_3pid_management_token(sid) == ~address_in_use(sid)
request_password_change_token(sid) == address_in_use(sid)

send_email_token(sid, again) ==
    /\ request_registration_token(sid) \/ request_3pid_management_token(sid)
       \/ request_password_change_token(sid)
    /\ create_or_reuse_pending(sid, again)

\* delete_3pid_route
del_binding(u, sid) ==
    /\ bound' = bound \ {<<u, sid>>}
    /\ owner' = IF owner[sid] = u THEN [owner EXCEPT ![sid] = NoRow] ELSE owner
    /\ UNCHANGED <<proofVars, uiaa, tokenVars, reg>>

----------------------------------------------------------------------------
(* Registration tokens *)

is_valid(info) == info.uses < info.max /\ ~info.old

save_token(t, max) ==
    /\ rtokens[t] = NoRow
    /\ rtokens' = [rtokens EXCEPT ![t] = [uses |-> 0, max |-> max, old |-> FALSE]]
    /\ granted' = [granted EXCEPT ![t] = 0]
    /\ allowed' = [allowed EXCEPT ![t] = max]
    /\ UNCHANGED <<proofVars, uiaa, bindVars, reg>>

revoke_token(t) ==
    /\ rtokens[t] # NoRow
    /\ rtokens' = [rtokens EXCEPT ![t] = NoRow]
    /\ UNCHANGED <<proofVars, granted, allowed, uiaa, bindVars, reg>>

\* update_token keeps the uses and replaces limit and age.
update_token(t, max) ==
    /\ rtokens[t] # NoRow
    /\ rtokens' = [rtokens EXCEPT ![t] = [uses |-> @.uses, max |-> max, old |-> FALSE]]
    /\ allowed' = [allowed EXCEPT ![t] = IF max > @ THEN max ELSE @]
    /\ UNCHANGED <<proofVars, granted, uiaa, bindVars, reg>>

(* Mutant: a use whose record could not be written is granted all the same. *)
check_token_unrecorded(t, recorded) ==
    IF rtokens[t] = NoRow THEN UNCHANGED tokenVars
    ELSE IF ~is_valid(rtokens[t]) THEN rtokens' = [rtokens EXCEPT ![t] = NoRow] /\ UNCHANGED <<granted, allowed>>
    ELSE LET next == [rtokens[t] EXCEPT !.uses = @ + 1] IN
         /\ rtokens' = IF ~recorded THEN rtokens
                       ELSE [rtokens EXCEPT ![t] = IF is_valid(next) THEN next ELSE NoRow]
         /\ granted' = [granted EXCEPT ![t] = @ + 1]
         /\ UNCHANGED allowed

\* check_token with consume: an invalid row is removed, a use that cannot be
\* recorded is not granted, and the last use removes the row.
check_token(t, recorded) ==
    IF rtokens[t] = NoRow THEN UNCHANGED tokenVars
    ELSE IF ~is_valid(rtokens[t]) THEN rtokens' = [rtokens EXCEPT ![t] = NoRow] /\ UNCHANGED <<granted, allowed>>
    ELSE LET next == [rtokens[t] EXCEPT !.uses = @ + 1] IN
         /\ rtokens' = IF ~recorded THEN rtokens
                       ELSE [rtokens EXCEPT ![t] = IF is_valid(next) THEN next ELSE NoRow]
         /\ granted' = IF recorded THEN [granted EXCEPT ![t] = @ + 1] ELSE granted
         /\ UNCHANGED allowed

\* iterate_and_clean_tokens: a row read as invalid is removed, with no lock,
\* so an update between the two is lost with it.
CleanRead(r, t) ==
    /\ reg[r] = Quiet /\ rtokens[t] # NoRow /\ ~is_valid(rtokens[t])
    /\ Put(r, [at |-> "clean", token |-> t])
    /\ UNCHANGED <<proofVars, uiaa, tokenVars, bindVars>>

iterate_and_clean_tokens(r) ==
    /\ reg[r].at = "clean"
    /\ rtokens' = [rtokens EXCEPT ![reg[r].token] = NoRow]
    /\ Put(r, Quiet)
    /\ UNCHANGED <<proofVars, granted, allowed, uiaa, bindVars>>

----------------------------------------------------------------------------
(* Registering *)

\* enforce_uiaa without auth data: a session with nothing completed.
UiaaCreate(s) ==
    /\ uiaa[s] = NoRow
    /\ uiaa' = [uiaa EXCEPT ![s] = {}]
    /\ UNCHANGED <<proofVars, tokenVars, bindVars, reg>>

\* try_auth_inner reads the session; auth is a token, a proof or a re-poll.
RegisterRead(r, s, stg, with) ==
    /\ reg[r] = Quiet /\ uiaa[s] # NoRow
    /\ Put(r, [at |-> "stage", sess |-> s, stage |-> stg, with |-> with, done |-> uiaa[s]])
    /\ UNCHANGED <<proofVars, uiaa, tokenVars, bindVars>>

\* The stage itself: a token use, or the claim of a verified address.
RegisterStage(r, recorded) ==
    LET j == reg[r]
        ok == CASE j.stage = "token" -> rtokens[j.with] # NoRow /\ is_valid(rtokens[j.with]) /\ recorded
                [] j.stage = "email" -> Claimable(j.with, j.sess)
                [] OTHER -> TRUE
        done == IF j.stage = "poll" THEN j.done ELSE j.done \cup {j.stage}
    IN  /\ j.at = "stage"
        /\ CASE j.stage = "token" -> check_token(j.with, recorded) /\ UNCHANGED <<pending, claims>>
             [] j.stage = "email" -> claim_validated(j.with, j.sess) /\ UNCHANGED tokenVars
             [] OTHER -> UNCHANGED <<pending, claims, tokenVars>>
        /\ Put(r, IF ~ok THEN Quiet
                  ELSE [j EXCEPT !.at = IF j.stage # "email" /\ "email" \in done THEN "lookup" ELSE "settle",
                                 !.done = done])
        /\ UNCHANGED <<spent, mailed, uiaa, bindVars>>

\* refresh_claim's and redeem_claim's first read of the claim, before the locks.
ClaimLookup(r) ==
    /\ reg[r].at \in {"lookup", "find"}
    /\ LET sid == claims[reg[r].sess] IN
       IF sid # NoRow
       THEN Put(r, [reg[r] EXCEPT !.at = IF @ = "lookup" THEN "refresh" ELSE "redeem", !.with = sid]) /\ UNCHANGED uiaa
       ELSE /\ uiaa' = IF reg[r].at = "lookup"
                       THEN [uiaa EXCEPT ![reg[r].sess] = reg[r].done \ {"email"}] ELSE uiaa
            /\ Put(r, Quiet)
    /\ UNCHANGED <<proofVars, tokenVars, bindVars>>

\* The re-check of an earlier claim; a lapsed one takes its stage back.
RegisterRecheck(r) ==
    LET j == reg[r] IN
    /\ j.at = "refresh"
    /\ refresh_claim(j.with, j.sess)
    /\ IF Owned(j.with, j.sess)
       THEN Put(r, [j EXCEPT !.at = "settle"]) /\ UNCHANGED uiaa
       ELSE Put(r, Quiet) /\ uiaa' = [uiaa EXCEPT ![j.sess] = j.done \ {"email"}]
    /\ UNCHANGED <<spent, mailed, tokenVars, bindVars>>

\* The end of try_auth_inner: an unfinished session is stored; a finished one
\* is deleted, or kept until its email claim is spent.
RegisterSettle(r) ==
    LET j == reg[r]
        complete == Required \subseteq j.done
    IN  /\ j.at = "settle"
        /\ uiaa' = [uiaa EXCEPT ![j.sess] = IF complete /\ "email" \notin Required THEN NoRow ELSE j.done]
        /\ Put(r, CASE ~complete -> Quiet
                    [] complete /\ "email" \in Required -> [j EXCEPT !.at = "find"]
                    [] OTHER -> Quiet)
        /\ UNCHANGED <<proofVars, tokenVars, bindVars>>

\* enforce_uiaa: the association is spent, and then the session deleted.
RegisterRedeem(r, u) ==
    LET j == reg[r] IN
    /\ j.at = "redeem"
    /\ redeem_claim(j.with, j.sess)
    /\ Put(r, IF Owned(j.with, j.sess)
              THEN [at |-> "drop", user |-> u, with |-> j.with, sess |-> j.sess] ELSE Quiet)
    /\ UNCHANGED <<mailed, uiaa, tokenVars, bindVars>>

RegisterDrop(r) ==
    /\ reg[r].at = "drop"
    /\ uiaa' = [uiaa EXCEPT ![reg[r].sess] = NoRow]
    /\ Put(r, [at |-> "bind", user |-> reg[r].user, with |-> reg[r].with])
    /\ UNCHANGED <<proofVars, tokenVars, bindVars>>

\* add_3pid_route, past its own interactive authentication.
add_3pid_route(r, u, sid) ==
    /\ reg[r] = Quiet
    /\ redeem_validated(sid)
    /\ Put(r, IF session_validated(sid) THEN [at |-> "bind", user |-> u, with |-> sid] ELSE Quiet)
    /\ UNCHANGED <<mailed, uiaa, tokenVars, bindVars>>

\* try_bind_registration_email and the tail of add_3pid_route: an address that
\* leads to someone else is left alone.
try_bind_registration_email(r) ==
    LET j == reg[r] IN
    /\ j.at = "bind"
    /\ Put(r, IF bound_elsewhere(j.user, j.with) THEN Quiet ELSE [j EXCEPT !.at = "put"])
    /\ UNCHANGED <<proofVars, uiaa, tokenVars, bindVars>>

BindPut(r) ==
    /\ reg[r].at = "put"
    /\ put_binding(reg[r].user, reg[r].with)
    /\ Put(r, Quiet)
    /\ UNCHANGED <<proofVars, uiaa, tokenVars>>

\* PENDING_TTL, UIAA_SESSION_TTL and a token's max_age
ProofsAge ==
    /\ \/ \E sid \in Sids : /\ Row(sid) /\ ~Stale(sid)
                            /\ pending' = [pending EXCEPT ![sid].stale = TRUE] /\ UNCHANGED rtokens
       \/ \E t \in RTokens : /\ rtokens[t] # NoRow /\ ~rtokens[t].old
                             /\ rtokens' = [rtokens EXCEPT ![t].old = TRUE] /\ UNCHANGED pending
    /\ UNCHANGED <<claims, spent, mailed, granted, allowed, uiaa, bindVars, reg>>

\* A server starts with no rows; one that has been running may hold a token.
RegInit ==
    /\ pending = [s \in Sids |-> NoRow] /\ claims = [s \in Uiaa |-> NoRow]
    /\ uiaa = [s \in Uiaa |-> NoRow]
    /\ rtokens \in {[t \in RTokens |-> NoRow],
                    [t \in RTokens |-> [uses |-> 0, max |-> MaxUses, old |-> FALSE]]}
    /\ bound = {} /\ owner = [s \in Sids |-> NoRow]
    /\ reg = [r \in RegRequests |-> Quiet]
    /\ spent = [s \in Sids |-> 0] /\ mailed = [s \in Sids |-> 0]
    /\ granted = [t \in RTokens |-> 0] /\ allowed = [t \in RTokens |-> IF rtokens[t] = NoRow THEN 0 ELSE MaxUses]

\* The token's life, with its consumers.
TokenStep ==
    \/ \E t \in RTokens, m \in 1 .. MaxUses : save_token(t, m) \/ update_token(t, m)
    \/ \E t \in RTokens : revoke_token(t)
    \/ \E r \in RegRequests, t \in RTokens : CleanRead(r, t)
    \/ \E r \in RegRequests : iterate_and_clean_tokens(r)

ProofStep ==
    \/ \E sid \in Sids, again \in BOOLEAN : send_email_token(sid, again)
    \/ \E sid \in Sids, right \in BOOLEAN : validate_pending_token(sid, right)
    \/ \E u \in RUsers, sid \in Sids : del_binding(u, sid)
    \/ \E r \in RegRequests, u \in RUsers, sid \in Sids : add_3pid_route(r, u, sid)
    \/ \E r \in RegRequests : try_bind_registration_email(r) \/ BindPut(r)

RegisterStep ==
    \/ \E s \in Uiaa : UiaaCreate(s)
    \/ \E r \in RegRequests, s \in Uiaa :
          \/ \E t \in RTokens : RegisterRead(r, s, "token", t)
          \/ \E sid \in Sids : RegisterRead(r, s, "email", sid)
          \/ RegisterRead(r, s, "poll", NoRow)
    \/ \E r \in RegRequests, w \in BOOLEAN : RegisterStage(r, w)
    \/ \E r \in RegRequests : ClaimLookup(r) \/ RegisterRecheck(r) \/ RegisterSettle(r) \/ RegisterDrop(r)
    \/ \E r \in RegRequests, u \in RUsers : RegisterRedeem(r, u)

RegNext == TokenStep \/ ProofStep \/ RegisterStep \/ ProofsAge
RegSpec == RegInit /\ [][RegNext]_regVars

----------------------------------------------------------------------------
(* Properties *)

(* A verified address yields its association once: whichever of a
   registration's requests, its retries and add_3pid get there first, the
   proof that one mail brought is spent once, and the later ones are refused. *)
ProofOnce == \A sid \in Sids : spent[sid] <= 1

(* A registration token admits no more registrations than the largest limit
   it has had since it was created, with uses that could not be written,
   limits changed meanwhile and rows cleaned away without the lock. *)
UsesWithinLimit == \A t \in RTokens : granted[t] <= allowed[t]

(* What a registration is let in for is spent within its limit, whoever
   races for it: the uses of a token, and the one use of a verified address. *)
SpentWithinLimits == UsesWithinLimit /\ ProofOnce

----------------------------------------------------------------------------
(* Attempt limits: a table of token buckets with a cap on its size.  An
   attempt takes its token before the slow check it pays for, and gives it
   back if it turns out not to count: a password that was right, a
   registration that opened no account.

   Allowance is counted in clock ticks: one token is Cost ticks, so the
   refill rate is 1 / Cost tokens a tick. *)

CONSTANTS
    LKeys,       \* accounts, sessions or addresses
    Cost,        \* ticks that restore one token
    Burst,       \* tokens a bucket opens with
    Cap,         \* DEFAULT_MAP_CAP
    MaxTicks,    \* bounds of the model
    MaxInFlight,
    NoBucket

ASSUME LimitsAssumption ==
    /\ Cost \in Nat \ {0} /\ Burst \in Nat \ {0} /\ Cap \in Nat \ {0}
    /\ MaxTicks \in Nat /\ MaxInFlight \in Nat
    /\ NoBucket \notin [tokens : Nat, last : Nat]

VARIABLES
    buckets,  \* NoBucket or [tokens, last]
    ticks,    \* Instant::now
    flying,   \* ticks paid for attempts whose outcome is not known yet
    wrong,    \* history: ticks paid for attempts that counted, for this bucket
    opening,  \* history: what the key could spend when its bucket was opened
    birth     \* history: when that was

limitVars == <<buckets, ticks, flying, wrong, opening, birth>>

Full == Burst * Cost

\* refill: for the time since the last debit, up to the burst.
refill(b) == IF b.tokens + (ticks - b.last) > Full THEN Full ELSE b.tokens + (ticks - b.last)

Buckets == {k \in LKeys : buckets[k] # NoBucket}

\* evict: the buckets that are full again, and if that frees nothing the one
\* debited longest ago.
Refilled(k) == buckets[k].tokens + (ticks - buckets[k].last) >= Full
Kept == {k \in Buckets : ~Refilled(k)}
Evictable(k) == k \in Kept /\ \A j \in Kept : buckets[k].last <= buckets[j].last

evict(gone) ==
    IF Cardinality(Kept) >= Cap THEN \E k \in Kept : Evictable(k) /\ gone = (Buckets \ Kept) \cup {k}
                                ELSE gone = Buckets \ Kept

(* Mutant: a debit leaves the refill clock where it was. *)
debit_keeps_clock(k) ==
    /\ refill(buckets[k]) >= Cost
    /\ buckets' = [buckets EXCEPT ![k].tokens = refill(buckets[k]) - Cost]

\* debit: refused below one token, with nothing written.
debit(k) ==
    /\ refill(buckets[k]) >= Cost
    /\ buckets' = [buckets EXCEPT ![k] = [tokens |-> refill(@) - Cost, last |-> ticks]]

\* check_password, check_session_password and reserve_registration on a known
\* key.
CheckKnown(k) ==
    /\ buckets[k] # NoBucket
    /\ flying[k] < MaxInFlight * Cost
    /\ debit(k)
    /\ flying' = [flying EXCEPT ![k] = @ + Cost]
    /\ UNCHANGED <<ticks, wrong, opening, birth>>

\* check_at on a new key: room is made, and a full bucket opened and debited.
CheckNew(k) ==
    /\ buckets[k] = NoBucket
    /\ flying[k] < MaxInFlight * Cost
    /\ \E gone \in SUBSET Buckets :
          /\ IF Cardinality(Buckets) >= Cap THEN evict(gone) ELSE gone = {}
          /\ buckets' = [j \in LKeys |->
                IF j = k THEN [tokens |-> Full - Cost, last |-> ticks]
                ELSE IF j \in gone THEN NoBucket ELSE buckets[j]]
    /\ flying' = [flying EXCEPT ![k] = @ + Cost]
    /\ wrong' = [wrong EXCEPT ![k] = 0]
    /\ opening' = [opening EXCEPT ![k] = Full + flying[k]]
    /\ birth' = [birth EXCEPT ![k] = ticks]
    /\ UNCHANGED ticks

\* PasswordAttempt::failed, RegistrationToken::commit; a login attempt counts
\* as soon as it is made.
failed(k) ==
    /\ flying[k] > 0
    /\ flying' = [flying EXCEPT ![k] = @ - Cost]
    /\ wrong' = [wrong EXCEPT ![k] = @ + Cost]
    /\ UNCHANGED <<buckets, ticks, opening, birth>>

\* Drop without failed or commit: refund, never above the burst.
refund(k) ==
    /\ flying[k] > 0
    /\ flying' = [flying EXCEPT ![k] = @ - Cost]
    /\ buckets' = IF buckets[k] = NoBucket THEN buckets
                  ELSE [buckets EXCEPT ![k].tokens = IF @ + Cost > Full THEN Full ELSE @ + Cost]
    /\ UNCHANGED <<ticks, wrong, opening, birth>>

Tick ==
    /\ ticks < MaxTicks
    /\ ticks' = ticks + 1
    /\ UNCHANGED <<buckets, flying, wrong, opening, birth>>

LimitsInit ==
    /\ buckets = [k \in LKeys |-> NoBucket] /\ ticks = 0
    /\ flying = [k \in LKeys |-> 0] /\ wrong = [k \in LKeys |-> 0]
    /\ opening = [k \in LKeys |-> 0] /\ birth = [k \in LKeys |-> 0]

LimitsNext ==
    \/ \E k \in LKeys : CheckKnown(k) \/ CheckNew(k) \/ failed(k) \/ refund(k)
    \/ Tick

LimitsSpec == LimitsInit /\ [][LimitsNext]_limitVars

----------------------------------------------------------------------------

(* The attempts that counted against one bucket never exceed what it opened
   with and has accrued since: concurrent attempts that all started before
   the first of them failed, refunds, refusals and evictions of other keys
   included.  What was in flight when an evicted bucket was reopened is part
   of the opening. *)
GuessesBounded == \A k \in LKeys : wrong[k] <= opening[k] + (ticks - birth[k])
=============================================================================
