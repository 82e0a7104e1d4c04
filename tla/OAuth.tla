------------------------------- MODULE OAuth -------------------------------
(***************************************************************************)
(* The OIDC server (phantom-service/src/auth/oauth/server and the routes   *)
(* of phantom-api/src/oidc): authorization requests that a browser takes   *)
(* through a provider or a local sign-in to a code, device grants, the     *)
(* sessions both end in, and the account pages.                            *)
(*                                                                         *)
(* Each browser tab runs one request at a time.  Between two of its steps  *)
(* other tabs run; a step that holds the row's lock is one action.         *)
(***************************************************************************)
EXTENDS Naturals, FiniteSets, Sequences

CONSTANTS
    OUsers,      \* accounts
    Metadata,    \* client metadata offered for registration
    Uris,        \* redirect targets requests name
    Allowlist,   \* oidc_registration_allowed_redirect_hosts
    RequireClientUri, RequireApproval, RequireDevice, NativeAuth, \* configuration
    Scopes,      \* requested scopes: [devices, other]
    ReqIds,      \* authorization request ids, each drawn once
    Idps,        \* configured identity providers
    Grants,      \* device codes, each with its user code
    LoginTokens, \* short-lived login tokens, each drawn once
    Tabs,        \* browser tabs and HTTP requests in flight
    MaxVerifyAttempts,
    MaxRefresh,  \* bound on refreshes of one session
    Nought

ASSUME OAuthAssumption == ReqIds \cap Grants = {}

VARIABLES
    clients,  \* oidcclientid_registration
    reqs,     \* oidcreqid_authrequest: Nought or [client, uri, scope, idp, local, expired]
    accounts, \* each user: "none", "active" or "gone" once deactivated
    logins,   \* login tokens: Nought, a user, or "spent"
    codes,    \* oidccode_authsession, one per request: Nought or [user, req, expired]
    grants,   \* oidcdevicecode_devicegrant: Nought or [status, user, scope, attempts, expired]
    sessions, \* devices with their refresh generation: {[user, device, gen, refreshable]}
    drawn,    \* request ids and device codes handed out so far
    tabs,     \* what each tab is doing
    issued,   \* history: sessions issued for each request and grant
    refused   \* history: requests and grants refused while pending

rowVars == <<clients, accounts, reqs, codes, grants, drawn>>
oauthVars == <<rowVars, logins, sessions, tabs, issued, refused>>

NoTab == [at |-> "idle"]
Sources == ReqIds \cup Grants

----------------------------------------------------------------------------
(* Clients.  Host names and private-use schemes are sequences of labels, the
   top-level one first; <<>> is no host. *)

\* An https URL with a host and no userinfo.
parse_https(u) == u.kind = "https" /\ u.host # <<>> /\ ~u.userinfo

\* The base itself or a name under it.
shares_base(host, base) == Len(base) <= Len(host) /\ SubSeq(host, 1, Len(base)) = base

is_loopback(u) == u.host = <<"localhost">>

\* A scheme with a dot whose labels start with the base's.
is_reverse_dns(scheme, base) == Len(scheme) > 1 /\ shares_base(scheme, base)

validate_web_redirect(u, base) == ~u.userinfo /\ u.host # <<>> /\ shares_base(u.host, base)

\* What application type a redirect target is admitted for.
validate_redirect_uri(u, native, base) ==
    /\ ~u.fragment
    /\ \/ u.kind = "https" /\ validate_web_redirect(u, base)
       \/ u.kind = "http" /\ native /\ is_loopback(u) /\ u.port = 0
       \/ u.kind = "private" /\ native /\ u.host = <<>> /\ is_reverse_dns(u.scheme, base)

\* validate_client_metadata; an absent list of types is the default one.
validate_client_metadata(c) ==
    LET base == IF c.client_uri = {} THEN <<>> ELSE (CHOOSE u \in c.client_uri : TRUE).host IN
    /\ c.redirects # {}
    /\ \A u \in c.client_uri : parse_https(u)
    /\ RequireClientUri => c.client_uri # {}
    /\ \A u \in c.pages : parse_https(u) /\ shares_base(u.host, base)
    /\ \A u \in c.redirects : validate_redirect_uri(u, c.native, base)
    /\ c.responses = {} \/ "code" \in c.responses
    /\ c.grants = {} \/ {"authorization_code", "refresh_token"} \subseteq c.grants

\* A host is looked up by name, a private-use URI by its scheme.
redirect_allowlisted(u) == (IF u.host # <<>> THEN u.host ELSE u.scheme) \in Allowlist

\* normalize and prune: unknown types go before the client id is derived.
normalize(c) == [c EXCEPT !.grants = @ \cap {"authorization_code", "refresh_token", "device_code"},
                          !.responses = @ \cap {"code"}]

\* registration_route: the id is a hash of the normalized metadata, so a
\* repeated registration finds its row.
register_client(c) ==
    /\ validate_client_metadata(c)
    /\ Allowlist # {} => \A u \in c.redirects : redirect_allowlisted(u)
    /\ clients' = clients \cup {normalize(c)}
    /\ UNCHANGED <<accounts, reqs, codes, grants, drawn, logins, sessions, tabs, issued, refused>>

----------------------------------------------------------------------------
(* Authorization requests *)

\* A registered target, or for a loopback one the same with any port.
redirect_uri_matches(registered, requested) ==
    \/ registered = requested
    \/ /\ {registered.kind, requested.kind} = {"http"}
       /\ is_loopback(registered) /\ is_loopback(requested)
       /\ [registered EXCEPT !.port = 0] = [requested EXCEPT !.port = 0]

\* authorize_route: a provider the request names, none when the native page
\* offers every branch, the default one otherwise.
authorize_route(r, c, u, sc, idp) ==
    /\ c \in clients
    /\ \E registered \in c.redirects : redirect_uri_matches(registered, u)
    /\ idp = Nought => NativeAuth
    /\ r \notin drawn
    /\ drawn' = drawn \cup {r}
    /\ reqs' = [reqs EXCEPT ![r] = [client |-> c, uri |-> u, scope |-> sc, idp |-> idp,
                                    local |-> FALSE, expired |-> FALSE]]
    /\ UNCHANGED <<clients, accounts, codes, grants, logins, sessions, tabs, issued, refused>>

\* peek_auth_request: an expired request is removed by whoever reads it.
LiveReq(r) == reqs[r] # Nought /\ ~reqs[r].expired
Reaped(r) == IF reqs[r] # Nought /\ reqs[r].expired THEN [reqs EXCEPT ![r] = Nought] ELSE reqs

\* Refuse a request bound to a provider other than p, or to any for Nought.
no_other_provider(q, p) == q.idp \in {Nought, p}

\* Refuse a request the local branch has already claimed.
local_unclaimed(q) == ~q.local

\* bind_auth_request_to_provider, reached from the login page.
provider_redirect(r, p) ==
    /\ r \in drawn
    /\ reqs' = IF LiveReq(r) /\ no_other_provider(reqs[r], p) /\ local_unclaimed(reqs[r])
               THEN [reqs EXCEPT ![r].idp = p] ELSE Reaped(r)
    /\ UNCHANGED <<clients, accounts, codes, grants, drawn, logins, sessions, tabs, issued, refused>>

\* update_auth_request and local_auth_selected: the local branch's claim.
bind_auth_request_to_local(r) ==
    reqs' = IF LiveReq(r) /\ no_other_provider(reqs[r], Nought)
            THEN [reqs EXCEPT ![r].local = TRUE] ELSE Reaped(r)

----------------------------------------------------------------------------
(* Signing in: every branch ends in a fresh login token *)

Fresh(t) == logins[t] = Nought
Holds(t) == logins[t] \in OUsers

\* Single sign-on at a provider, which hands the browser back a login token
\* and opens the account on its first use.
UpstreamLogin(t, u) ==
    /\ Fresh(t) /\ accounts[u] # "gone"
    /\ logins' = [logins EXCEPT ![t] = u]
    /\ accounts' = [accounts EXCEPT ![u] = "active"]
    /\ UNCHANGED <<clients, reqs, codes, grants, drawn, sessions, tabs, issued, refused>>

\* verify_credentials: a local account with a password that is not deactivated.
verify_credentials(u) == accounts[u] = "active"

\* native_submit for a device or account flow: the password alone.
native_submit(t, u) ==
    /\ NativeAuth /\ Fresh(t) /\ verify_credentials(u)
    /\ logins' = [logins EXCEPT ![t] = u]
    /\ UNCHANGED <<rowVars, sessions, tabs, issued, refused>>

\* check_local_auth_request, before any credential is looked at.
check_local_auth_request(b, r, t, u, mode) ==
    /\ NativeAuth /\ tabs[b] = NoTab /\ r \in drawn /\ Fresh(t)
    /\ tabs' = IF LiveReq(r) /\ no_other_provider(reqs[r], Nought)
               THEN [tabs EXCEPT ![b] = [at |-> mode, req |-> r, token |-> t, user |-> u]]
               ELSE tabs
    /\ reqs' = Reaped(r)
    /\ UNCHANGED <<clients, accounts, codes, grants, drawn, logins, sessions, issued, refused>>

CanUpdate(r) == LiveReq(r) /\ no_other_provider(reqs[r], Nought)
MintLogin(b) == logins' = IF Fresh(tabs[b].token)
                          THEN [logins EXCEPT ![tabs[b].token] = tabs[b].user] ELSE logins

\* authenticate_local: the password verified, the request is claimed, and only
\* then does the tab get its login token.
authenticate_local(b) ==
    /\ tabs[b].at = "login" /\ verify_credentials(tabs[b].user)
    /\ bind_auth_request_to_local(tabs[b].req)
    /\ IF CanUpdate(tabs[b].req) THEN MintLogin(b) ELSE UNCHANGED logins
    /\ tabs' = [tabs EXCEPT ![b] = NoTab]
    /\ UNCHANGED <<clients, accounts, codes, grants, drawn, sessions, issued, refused>>

\* do_register: a free name, then the claim, then the account.
do_register(b) ==
    /\ tabs[b].at = "register" /\ accounts[tabs[b].user] = "none"
    /\ bind_auth_request_to_local(tabs[b].req)
    /\ tabs' = [tabs EXCEPT ![b] = IF CanUpdate(tabs[b].req) THEN [@ EXCEPT !.at = "create"] ELSE NoTab]
    /\ UNCHANGED <<clients, accounts, codes, grants, drawn, logins, sessions, issued, refused>>

register_local_user(b) ==
    /\ tabs[b].at = "create"
    /\ accounts' = [accounts EXCEPT ![tabs[b].user] = "active"]
    /\ MintLogin(b)
    /\ tabs' = [tabs EXCEPT ![b] = NoTab]
    /\ UNCHANGED <<clients, reqs, codes, grants, drawn, sessions, issued, refused>>

\* A wrong password, a name that is taken: nothing is claimed.
CredentialsRefused(b) ==
    /\ tabs[b].at \in {"login", "register"}
    /\ tabs' = [tabs EXCEPT ![b] = NoTab]
    /\ UNCHANGED <<rowVars, logins, sessions, issued, refused>>

----------------------------------------------------------------------------
(* Completing a request *)

\* The prompt is skipped when it is turned off or the target is allowlisted.
approval_waived(u) == ~RequireApproval \/ redirect_allowlisted(u)

\* complete_route: the code is released at once, or the approval page shown.
complete_route(b, r, t) ==
    /\ tabs[b] = NoTab /\ r \in drawn /\ ~Fresh(t)
    /\ reqs' = Reaped(r)
    /\ tabs' = IF LiveReq(r) /\ approval_waived(reqs[r].uri)
               THEN [tabs EXCEPT ![b] = [at |-> "take", req |-> r, token |-> t, seen |-> reqs[r]]]
               ELSE tabs
    /\ UNCHANGED <<clients, accounts, codes, grants, drawn, logins, sessions, issued, refused>>

\* accept_code: the form approved, the request is read again and carried to
\* release_code.
accept_code(b, r, t) ==
    /\ tabs[b] = NoTab /\ r \in drawn /\ ~Fresh(t)
    /\ tabs' = IF LiveReq(r) THEN [tabs EXCEPT ![b] = [at |-> "take", req |-> r, token |-> t, seen |-> reqs[r]]]
                          ELSE tabs
    /\ reqs' = Reaped(r)
    /\ UNCHANGED <<clients, accounts, codes, grants, drawn, logins, sessions, issued, refused>>

(* Mutant: the request is not looked at again before it is retired. *)
take_as_seen(b) ==
    /\ tabs[b].at = "take"
    /\ reqs' = [reqs EXCEPT ![tabs[b].req] = Nought]
    /\ tabs' = [tabs EXCEPT ![b].at = "mint"]
    /\ UNCHANGED <<clients, accounts, codes, grants, drawn, logins, sessions, issued, refused>>

\* take_auth_request: read again under the lock, unchanged or refused, and
\* removed.
take_auth_request(b) ==
    LET r == tabs[b].req
        same == LiveReq(r) /\ reqs[r] = tabs[b].seen
    IN  /\ tabs[b].at = "take"
        /\ reqs' = IF same THEN [reqs EXCEPT ![r] = Nought] ELSE Reaped(r)
        /\ tabs' = [tabs EXCEPT ![b] = IF same THEN [@ EXCEPT !.at = "mint"] ELSE NoTab]
        /\ UNCHANGED <<clients, accounts, codes, grants, drawn, logins, sessions, issued, refused>>

\* consume_login_token: a login token names its user once.
consume_login_token(t) == logins' = [logins EXCEPT ![t] = IF Holds(t) THEN "spent" ELSE @]

\* create_auth_code: the code carries what the request asked for.
create_auth_code(r, q, u) == [codes EXCEPT ![r] = [user |-> u, req |-> q, expired |-> FALSE]]

\* release_code, after the take: the login token is spent and the code minted.
release_code(b) ==
    /\ tabs[b].at = "mint"
    /\ consume_login_token(tabs[b].token)
    /\ codes' = IF Holds(tabs[b].token)
                THEN create_auth_code(tabs[b].req, tabs[b].seen, logins[tabs[b].token]) ELSE codes
    /\ tabs' = [tabs EXCEPT ![b] = NoTab]
    /\ UNCHANGED <<clients, accounts, reqs, grants, drawn, sessions, issued, refused>>

\* retire_auth_request: removed under its lock, unread.
retire_auth_request(r) == reqs' = [reqs EXCEPT ![r] = Nought]

\* refuse_code: the request is retired and the login token burns.
refuse_code(r, t) ==
    /\ r \in drawn
    /\ refused' = IF reqs[r] # Nought THEN refused \cup {r} ELSE refused
    /\ retire_auth_request(r)
    /\ consume_login_token(t)
    /\ UNCHANGED <<clients, accounts, codes, grants, drawn, sessions, tabs, issued>>

----------------------------------------------------------------------------
(* Tokens *)

\* narrow_scope: more than one device is refused, as is anything unknown when
\* scopes are strict; sc.other stands for the latter.
narrow_scope(sc) == Cardinality(sc.devices) <= 1 /\ ~sc.other

\* issue_tokens: the device the scope names, or a fresh one, with new access
\* and refresh tokens, which end the ones it had.
issue_tokens(src, u, sc) ==
    IF narrow_scope(sc) /\ (RequireDevice => sc.devices # {})
    THEN LET d == IF sc.devices = {} THEN src ELSE CHOOSE d \in sc.devices : TRUE IN
         /\ sessions' = {s \in sessions : s.user # u \/ s.device # d}
                        \cup {[user |-> u, device |-> d, gen |-> 0, refreshable |-> TRUE]}
         /\ issued' = [issued EXCEPT ![src] = @ + 1]
    ELSE UNCHANGED <<sessions, issued>>

\* exchange_auth_code under the code's lock: the code is removed before its
\* age, client, redirect target and verifier are judged.
exchange_auth_code(r, u, verified) == codes[r].req.uri = u /\ verified /\ ~codes[r].expired

token_authorization_code(r, u, verified) ==
    /\ codes[r] # Nought
    /\ codes' = [codes EXCEPT ![r] = Nought]
    /\ IF exchange_auth_code(r, u, verified)
       THEN issue_tokens(r, codes[r].user, codes[r].req.scope) ELSE UNCHANGED <<sessions, issued>>
    /\ UNCHANGED <<clients, accounts, reqs, grants, drawn, logins, tabs, refused>>

\* token_refresh: the current token rotates; an expired one is dropped, with
\* the device under hard logout; the one before it is answered with the token
\* it was exchanged for within the grace period, and ends the session after.
token_refresh(s, presented, expired, grace, hard) ==
    /\ s \in sessions
    /\ s.refreshable /\ presented <= s.gen /\ s.gen < MaxRefresh
    /\ LET gone == sessions \ {s}
           Becomes(t) == sessions' = gone \cup {t}
       IN  CASE presented = s.gen /\ ~expired -> Becomes([s EXCEPT !.gen = @ + 1])
             [] presented = s.gen /\ expired /\ ~hard -> Becomes([s EXCEPT !.refreshable = FALSE])
             [] presented = s.gen /\ expired /\ hard -> sessions' = gone
             [] presented + 1 = s.gen /\ ~grace /\ hard -> sessions' = gone
             [] OTHER -> UNCHANGED sessions
    /\ UNCHANGED <<rowVars, logins, tabs, issued, refused>>

\* revoke and session_end_execute_html: the device goes with its tokens.
revoke(s) ==
    /\ s \in sessions
    /\ sessions' = sessions \ {s}
    /\ UNCHANGED <<rowVars, logins, tabs, issued, refused>>

----------------------------------------------------------------------------
(* Device grants *)

\* create_device_grant: one row, found by the device's code and by the user's.
create_device_grant(g, sc) ==
    grants' = [grants EXCEPT ![g] = [status |-> "pending", user |-> Nought, scope |-> sc,
                                     attempts |-> 0, expired |-> FALSE]]

\* device_authorization: a registered client draws a device and a user code.
device_authorization(g, sc) ==
    /\ clients # {}
    /\ g \notin drawn
    /\ drawn' = drawn \cup {g}
    /\ create_device_grant(g, sc)
    /\ UNCHANGED <<clients, accounts, reqs, codes, logins, sessions, tabs, issued, refused>>

Pending(g) == grants[g] # Nought /\ ~grants[g].expired /\ grants[g].status = "pending"
GrantReaped(g) == IF grants[g] # Nought /\ grants[g].expired
                  THEN [grants EXCEPT ![g] = Nought] ELSE grants

\* verify_device_grant counts the showing; past the limit the grant goes.
verify_device_grant(g) ==
    IF ~Pending(g) THEN GrantReaped(g)
    ELSE IF grants[g].attempts + 1 > MaxVerifyAttempts
         THEN [grants EXCEPT ![g] = Nought]
         ELSE [grants EXCEPT ![g].attempts = @ + 1]

\* handle_device_callback_get: the consent page; a code that does not verify
\* burns the login token it was tried with.
handle_device_callback_get(g, t) ==
    /\ g \in drawn /\ Holds(t)
    /\ grants' = verify_device_grant(g)
    /\ IF Pending(g) /\ grants'[g] # Nought THEN UNCHANGED logins ELSE consume_login_token(t)
    /\ UNCHANGED <<clients, accounts, reqs, codes, drawn, sessions, tabs, issued, refused>>

\* set_device_grant_status: only a pending grant takes an answer.
set_device_grant_status(g, status, u) ==
    IF Pending(g) THEN [grants EXCEPT ![g].status = status, ![g].user = u] ELSE GrantReaped(g)

\* approve_device_grant and deny_device_grant
Resolve(g, action, u) ==
    CASE action = "approve" -> set_device_grant_status(g, "approved", u)
      [] action = "deny" -> set_device_grant_status(g, "denied", Nought)
      [] OTHER -> grants

\* handle_device_callback_post: the login token is spent first.
handle_device_callback_post(g, t, action) ==
    /\ g \in drawn /\ Holds(t)
    /\ consume_login_token(t)
    /\ grants' = Resolve(g, action, logins[t])
    /\ refused' = IF action = "deny" /\ Pending(g) THEN refused \cup {g} ELSE refused
    /\ UNCHANGED <<clients, accounts, reqs, codes, drawn, sessions, tabs, issued>>

\* poll_device_grant under the grant's lock: anything but pending removes it.
poll_device_grant(g) == IF Pending(g) THEN grants ELSE [grants EXCEPT ![g] = Nought]

\* token_device_code: an approved grant is exchanged for tokens.
token_device_code(g) ==
    /\ grants[g] # Nought
    /\ grants' = poll_device_grant(g)
    /\ IF grants[g].status = "approved" /\ ~grants[g].expired
       THEN issue_tokens(g, grants[g].user, grants[g].scope) ELSE UNCHANGED <<sessions, issued>>
    /\ UNCHANGED <<clients, accounts, reqs, codes, drawn, logins, tabs, refused>>

----------------------------------------------------------------------------
(* Account pages *)

\* validate_account_action after normalize_account_action.
ConfirmActions == {"session_end", "account_deactivate", "cross_signing_reset", "profile"}

\* handle_account_callback, GET: the list spends the login token; a page with
\* a confirmation form only reads it, so that the form can carry it.
account_page(t, action) ==
    /\ Holds(t)
    /\ IF action = "sessions_list" THEN consume_login_token(t) ELSE UNCHANGED logins
    /\ UNCHANGED <<rowVars, sessions, tabs, issued, refused>>

Mine(u) == {s \in sessions : s.user = u}

\* session_end_execute_html: a device of the user's own, with its tokens.
session_end_execute_html(u) ==
    /\ IF Mine(u) = {} THEN UNCHANGED sessions ELSE \E s \in Mine(u) : sessions' = sessions \ {s}
    /\ UNCHANGED accounts

\* account_deactivate_execute_html: full_deactivate.
account_deactivate_execute_html(u) ==
    /\ sessions' = sessions \ Mine(u)
    /\ accounts' = [accounts EXCEPT ![u] = "gone"]

\* handle_account_callback, POST: the form's token is spent, then the action
\* runs for the user it named.
handle_account_callback(t, action) ==
    /\ Holds(t) /\ action \in ConfirmActions
    /\ consume_login_token(t)
    /\ CASE action = "session_end" -> session_end_execute_html(logins[t])
         [] action = "account_deactivate" -> account_deactivate_execute_html(logins[t])
         [] OTHER -> UNCHANGED <<sessions, accounts>>
    /\ UNCHANGED <<clients, reqs, codes, grants, drawn, tabs, issued, refused>>

----------------------------------------------------------------------------
(* Time *)

\* AUTH_REQUEST_LIFETIME, AUTH_CODE_LIFETIME and DEVICE_GRANT_LIFETIME
Lapse(x) ==
    /\ \/ /\ x \in ReqIds /\ LiveReq(x)
          /\ reqs' = [reqs EXCEPT ![x].expired = TRUE] /\ UNCHANGED <<codes, grants>>
       \/ /\ x \in ReqIds /\ codes[x] # Nought /\ ~codes[x].expired
          /\ codes' = [codes EXCEPT ![x].expired = TRUE] /\ UNCHANGED <<reqs, grants>>
       \/ /\ x \in Grants /\ grants[x] # Nought /\ ~grants[x].expired
          /\ grants' = [grants EXCEPT ![x].expired = TRUE] /\ UNCHANGED <<reqs, codes>>
    /\ UNCHANGED <<clients, accounts, drawn, logins, sessions, tabs, issued, refused>>

OAuthInit ==
    /\ accounts \in [OUsers -> {"none", "active"}]
    /\ clients = {} /\ drawn = {} /\ sessions = {} /\ refused = {}
    /\ reqs = [r \in ReqIds |-> Nought]
    /\ codes = [r \in ReqIds |-> Nought]
    /\ grants = [g \in Grants |-> Nought]
    /\ logins = [t \in LoginTokens |-> Nought]
    /\ tabs = [b \in Tabs |-> NoTab]
    /\ issued = [s \in Sources |-> 0]

RequestStep ==
    \/ \E r \in ReqIds, c \in clients, u \in Uris, sc \in Scopes, p \in Idps \cup {Nought} :
          authorize_route(r, c, u, sc, p)
    \/ \E r \in ReqIds, p \in Idps : provider_redirect(r, p)
    \/ \E b \in Tabs, r \in ReqIds, t \in LoginTokens, u \in OUsers,
          m \in {"login", "register"} : check_local_auth_request(b, r, t, u, m)
    \/ \E b \in Tabs : authenticate_local(b) \/ do_register(b) \/ register_local_user(b)
                       \/ CredentialsRefused(b)
    \/ \E b \in Tabs, r \in ReqIds, t \in LoginTokens :
          complete_route(b, r, t) \/ accept_code(b, r, t)
    \/ \E b \in Tabs : take_auth_request(b) \/ release_code(b)
    \/ \E r \in ReqIds, t \in LoginTokens : refuse_code(r, t)
    \/ \E r \in ReqIds, u \in Uris, v \in BOOLEAN : token_authorization_code(r, u, v)

GrantStep ==
    \/ \E g \in Grants, sc \in Scopes : device_authorization(g, sc)
    \/ \E g \in Grants, t \in LoginTokens : handle_device_callback_get(g, t)
    \/ \E g \in Grants, t \in LoginTokens, a \in {"approve", "deny", "other"} :
          handle_device_callback_post(g, t, a)
    \/ \E g \in Grants : token_device_code(g)
    \/ \E t \in LoginTokens, a \in ConfirmActions \cup {"sessions_list"} : account_page(t, a)
    \/ \E t \in LoginTokens, a \in ConfirmActions : handle_account_callback(t, a)
    \/ \E s \in sessions, n \in 0 .. MaxRefresh, e, g, v \in BOOLEAN : token_refresh(s, n, e, g, v)
    \/ \E s \in sessions : revoke(s)

SharedStep ==
    \/ \E c \in Metadata : register_client(c)
    \/ \E t \in LoginTokens, u \in OUsers : UpstreamLogin(t, u) \/ native_submit(t, u)
    \/ \E x \in Sources : Lapse(x)

OAuthSpec == OAuthInit /\ [][RequestStep \/ GrantStep \/ SharedStep]_oauthVars

----------------------------------------------------------------------------
(* Properties *)

(* However many tabs, retries and resubmitted forms are at work, one
   authorization request and one device grant sign in at most one session, and
   one that was refused while it was pending signs in none. *)
GrantedOnce == \A x \in Sources : issued[x] <= (IF x \in refused THEN 0 ELSE 1)

-----------------------------------------------------------------------------
(***************************************************************************)
(* Rendezvous sessions (phantom-service/src/auth/rendezvous.rs and the     *)
(* routes of client/auth/rendezvous.rs): mailboxes two devices write to in *)
(* turn, each write conditional on the version it answers.                 *)
(*                                                                         *)
(* Every operation holds the sessions lock, so each is one action; what    *)
(* interleaves are the devices, which keep the validator of their last     *)
(* read.  The clock may stand still between two writes, or step back.      *)
(***************************************************************************)

CONSTANTS
    Boxes,       \* session ids, each drawn once
    Payloads,
    BoxWriters,     \* the devices that read and write
    MaxBoxes,    \* rendezvous_max_sessions
    MaxClock, MaxPuts,  \* bounds
    NoBox

ASSUME RdvAssumption ==
    /\ MaxClock \in Nat
    /\ NoBox \notin Boxes \X (Payloads \X Nat)

VARIABLES
    boxes,    \* None or [data, modified, created, stale]
    opened,   \* ids handed out
    clock,    \* SystemTime::now in milliseconds
    read,     \* the version each writer holds: <<box, etag>> or NoBox
    version,  \* history: writes accepted per box
    readAt,   \* history: the version number behind read
    overwrote \* history: an accepted conditional write replaced another version

rdvVars == <<boxes, opened, clock, read, version, readAt, overwrote>>

\* etag hashes the id, the data and last_modified in milliseconds.
etag(b) == <<boxes[b].data, boxes[b].modified>>

(* Mutant: the clock alone stamps a write. *)
stamp_now(now, previous) == now

\* Strictly after the previous write, whatever the clock says.
next_last_modified(now, previous) == IF now > previous + 1 THEN now ELSE previous + 1

\* rendezvous create: expired sessions go, then the oldest while at capacity.
create_box_at(b, d) ==
    LET live == {x \in Boxes : boxes[x] # NoBox /\ ~boxes[x].stale}
        full == Cardinality(live) >= MaxBoxes
        oldest(x) == \A y \in live : boxes[x].created <= boxes[y].created
    IN  /\ b \notin opened
        /\ opened' = opened \cup {b}
        /\ \E victim \in {x \in live : oldest(x)} \cup {NoBox} :
              /\ full <=> victim # NoBox
              /\ boxes' = [x \in Boxes |->
                    IF x = b THEN [data |-> d, modified |-> clock, created |-> clock, stale |-> FALSE]
                    ELSE IF x \in live \ {victim} THEN boxes[x] ELSE NoBox]
        /\ UNCHANGED <<clock, read, version, readAt, overwrote>>

Reap(b) == IF boxes[b] # NoBox /\ boxes[b].stale THEN [boxes EXCEPT ![b] = NoBox] ELSE boxes
Here(b) == boxes[b] # NoBox /\ ~boxes[b].stale

\* get_at, with if_none_match answered from the same row.
get_at(w, b) ==
    /\ b \in opened
    /\ boxes' = Reap(b)
    /\ read' = [read EXCEPT ![w] = IF Here(b) THEN <<b, etag(b)>> ELSE @]
    /\ readAt' = [readAt EXCEPT ![w] = IF Here(b) THEN version[b] ELSE @]
    /\ UNCHANGED <<opened, clock, version, overwrote>>

\* put_with_at: a validator that does not match is refused, unless the data
\* is what is stored already, which only extends the session.
put_with_at(w, b, d, any) ==
    LET match == any \/ read[w] = <<b, etag(b)>>
        next == [boxes[b] EXCEPT !.data = d, !.modified = next_last_modified(clock, @)]
    IN  /\ b \in opened /\ read[w] # NoBox /\ read[w][1] = b
        /\ version[b] < MaxPuts
        /\ IF Here(b) /\ match
           THEN /\ boxes' = [boxes EXCEPT ![b] = next]
                /\ version' = [version EXCEPT ![b] = @ + 1]
                /\ read' = [read EXCEPT ![w] = <<b, <<d, next.modified>>>>]
                /\ readAt' = [readAt EXCEPT ![w] = version[b] + 1]
                /\ overwrote' = (overwrote \/ (~any /\ readAt[w] # version[b]))
           ELSE /\ boxes' = Reap(b)
                /\ read' = [read EXCEPT ![w] = IF Here(b) /\ d = boxes[b].data THEN <<b, etag(b)>> ELSE @]
                /\ readAt' = [readAt EXCEPT ![w] = IF Here(b) /\ d = boxes[b].data THEN version[b] ELSE @]
                /\ UNCHANGED <<version, overwrote>>
        /\ UNCHANGED <<opened, clock>>

\* delete and delete_if_active
delete_box(b) ==
    /\ boxes[b] # NoBox
    /\ boxes' = [boxes EXCEPT ![b] = NoBox]
    /\ UNCHANGED <<opened, clock, read, version, readAt, overwrote>>

RdvTime ==
    /\ \/ /\ \E c \in 0 .. MaxClock : clock' = c
          /\ UNCHANGED boxes
       \/ \E b \in Boxes : Here(b) /\ boxes' = [boxes EXCEPT ![b].stale = TRUE] /\ UNCHANGED clock
    /\ UNCHANGED <<opened, read, version, readAt, overwrote>>

RdvInit ==
    /\ boxes = [b \in Boxes |-> NoBox] /\ opened = {} /\ clock = 0
    /\ read = [w \in BoxWriters |-> NoBox] /\ overwrote = FALSE
    /\ version = [b \in Boxes |-> 0] /\ readAt = [w \in BoxWriters |-> 0]

RdvNext ==
    \/ \E b \in Boxes, d \in Payloads : create_box_at(b, d)
    \/ \E w \in BoxWriters, b \in Boxes : get_at(w, b)
    \/ \E w \in BoxWriters, b \in Boxes, d \in Payloads, any \in BOOLEAN : put_with_at(w, b, d, any)
    \/ \E b \in Boxes : delete_box(b)
    \/ RdvTime

RdvSpec == RdvInit /\ [][RdvNext]_rdvVars

----------------------------------------------------------------------------

(* A write conditional on an ETag or a sequence token that is accepted has
   replaced exactly the version its device read: two devices writing the same
   bytes in the same millisecond, or with the clock set back, still get
   different validators. *)
NoLostWrite == ~overwrote

(* What is granted once is used once: an authorization or device grant signs
   in one session, and no device's write to a box is lost to another's. *)
GrantsSound == GrantedOnce /\ NoLostWrite
=============================================================================
