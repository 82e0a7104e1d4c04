------------------------------ MODULE Sessions ------------------------------
(***************************************************************************)
(* Devices and the tokens that sign them in: the users service             *)
(* (crates/phantom-service/src/accounts/users: mod.rs, device.rs,          *)
(* token.rs) under the routes that drive it (login, refresh, logout,       *)
(* register, password change, device deletion, deactivation).              *)
(*                                                                         *)
(* A request runs a program: the sequence of database steps its handler    *)
(* makes, one step per await.  Requests interleave step by step; only the  *)
(* per-user access-token lock keeps two of them apart.                     *)
(***************************************************************************)
EXTENDS Naturals, Sequences, FiniteSets, SequencesExt

CONSTANTS Users, Devices, Owner, Reqs,
          MaxTokens, MaxStarts, Nil

VARIABLES
    password,    \* userid_password: "none" (no such user), "empty", "set"
    deactivated, \* the users carrying the deactivation marker
    devices,     \* keys of userdeviceid_metadata
    tokenRow,    \* token_userdeviceid: access and refresh tokens alike
    accessOf,    \* userdeviceid_token
    refreshOf,   \* userdeviceid_refresh
    spentRow,    \* spentrefresh_userdeviceid: [d, next] or Nil
    spentOf,     \* userdeviceid_spentrefresh
    loginRow,    \* logintoken_expiresatuserid: token -> user
    rows,        \* which other tables hold rows of a device
    lock,        \* access_token_locks, one per user
    loginLock,   \* login_token_locks, one per login token
    req,         \* the requests in flight
    minted,      \* tokens generated so far
    starts,      \* requests begun so far
    \* history
    raced,       \* devices written while a removal of them was under way
    redeemed     \* how often each login token signed somebody in

tables == <<password, deactivated, devices, tokenRow, accessOf, refreshOf,
            spentRow, spentOf, loginRow, rows>>
vars == <<tables, lock, loginLock, req, minted, starts, raced, redeemed>>

\* A minting request draws a fresh number; generate_refresh_token marks the
\* refresh token of that number with the "refresh_" prefix.
Minted == 1..MaxTokens
generate_refresh_token(n) == MaxTokens + n
RefreshTokens == {generate_refresh_token(n) : n \in Minted}
Tokens == Minted \cup RefreshTokens

\* The tables remove_device empties between the tokens and the metadata, in
\* the order it empties them.
DeviceTables ==
    <<"todevice", "onetimekeys", "fallbackkey", "devicekeys", "connections",
      "pushers">>

Step(s, d) == [s |-> s, d |-> d]
Write(d, table) == [s |-> "write", d |-> d, table |-> table]

Idle == [todo |-> <<>>, at |-> Nil, rt |-> Nil, prev |-> Nil, spent |-> Nil,
         read |-> <<Nil, Nil>>]

Removing(d) == \E r \in Reqs : \E i \in 1..Len(req[r].todo) :
                   /\ req[r].todo[i].d = d
                   /\ req[r].todo[i].s = "metadata"

----------------------------------------------------------------------------
(* Programs *)

\* set_access_token: lock, check the metadata, rotate the refresh token when
\* one is given, commit the access token.
set_access_token(d, rotate) ==
    <<Step("lock", d), Step("check", d)>>
    \o (IF rotate THEN <<Step("spend", d), Step("drop", d), Step("insert", d)>>
                  ELSE <<>>)
    \o <<Step("previous", d), Step("commit", d)>>

create_device(d) == <<Step("create", d)>> \o set_access_token(d, FALSE)

(* Mutant: the device's pushers are left. *)
remove_device_but_pushers(d) ==
    <<Step("lock", d), Step("previous", d), Step("rm_access", d),
      Step("rm_read", d), Step("rm_refresh", d)>>
    \o [i \in 1..(Len(DeviceTables) - 1) |-> Step(DeviceTables[i], d)]
    \o <<Step("metadata", d)>>

\* remove_device: the tokens first, the metadata last.
remove_device(d) ==
    <<Step("lock", d), Step("previous", d), Step("rm_access", d),
      Step("rm_read", d), Step("rm_refresh", d)>>
    \o [i \in 1..Len(DeviceTables) |-> Step(DeviceTables[i], d)]
    \o <<Step("metadata", d)>>

\* all_device_ids reads one snapshot; the removals then run one by one.
remove_all(ds) == FlattenSeq([i \in 1..Cardinality(ds) |->
                                 remove_device(SetToSeq(ds)[i])])

DevicesOf(u) == {d \in devices : Owner[d] = u}

----------------------------------------------------------------------------
(* Routes: each reads what decides its program, then runs it. *)

Begin(r, todo, at, rt) ==
    /\ req[r] = Idle
    /\ starts < MaxStarts
    /\ starts' = starts + 1
    /\ req' = [req EXCEPT ![r] = [Idle EXCEPT !.todo = todo, !.at = at,
                                              !.rt = rt]]

Now(r, s) == req[r].todo # <<>> /\ Head(req[r].todo).s = s
Dev(r) == Head(req[r].todo).d

\* The request goes on with its program, forgetting its locals at the end.
Go(r, changed) ==
    req' = [req EXCEPT ![r] = IF Len(@.todo) = 1 THEN Idle
                              ELSE [changed EXCEPT !.todo = Tail(@)]]

\* The request fails: its program is dropped.
Fail(r) == req' = [req EXCEPT ![r] = Idle]

\* A device is raced when it is written while, or after, being removed.
Touch(r) == raced' = IF Removing(Dev(r)) \/ Dev(r) \notin devices
                      THEN raced \cup {Dev(r)} ELSE raced

Mint == minted < MaxTokens /\ minted' = minted + 1

\* Token::lookup: a request is authenticated by an access token that resolves.
\* Neither the device's metadata nor the account is looked at.
Authenticated(d) == \E t \in Tokens : tokenRow[t] = d /\ accessOf[d] = t

\* The device part of a login: the device is created unless it is listed.
SignIn(d, refresh) == (IF d \in devices THEN <<>> ELSE create_device(d))
                      \o set_access_token(d, refresh)

\* login_route by password: an account without a password, or deactivated,
\* is refused before any device is touched.
login_password(r, d, refresh) ==
    /\ password[Owner[d]] = "set"
    /\ Owner[d] \notin deactivated
    /\ Mint
    /\ Begin(r, SignIn(d, refresh), minted + 1,
             IF refresh THEN generate_refresh_token(minted + 1) ELSE Nil)
    /\ UNCHANGED <<tables, lock, loginLock, raced, redeemed>>

(* Mutant: the login token is read without its lock. *)
login_token_unlocked(r, d, t) ==
    /\ loginRow[t] = Owner[d]
    /\ Begin(r, <<Step("redeem", d)>>, t, Nil)
    /\ UNCHANGED <<tables, lock, loginLock, minted, raced, redeemed>>

\* login_route by token: find_from_login_token takes the token's lock and
\* reads its row, refusing a token that has none,
login_token(r, d, t) ==
    /\ loginLock[t] = Nil
    /\ loginRow[t] = Owner[d]
    /\ loginLock' = [loginLock EXCEPT ![t] = r]
    /\ Begin(r, <<Step("redeem", d)>>, t, Nil)
    /\ UNCHANGED <<tables, lock, minted, raced, redeemed>>

\* deletes it, and only then is deactivation looked at.
RedeemLogin(r) ==
    /\ Now(r, "redeem")
    /\ LET t == req[r].at
           d == Dev(r)
       IN  /\ loginRow' = [loginRow EXCEPT ![t] = Nil]
           /\ loginLock' = [loginLock EXCEPT ![t] = Nil]
           /\ redeemed' = [redeemed EXCEPT ![t] = @ + 1]
           /\ IF Owner[d] \in deactivated
                THEN Fail(r) /\ UNCHANGED minted
                ELSE Mint /\ req' = [req EXCEPT ![r] =
                                       [Idle EXCEPT !.todo = SignIn(d, FALSE),
                                                    !.at = minted + 1]]
    /\ UNCHANGED <<password, deactivated, devices, tokenRow, accessOf,
                   refreshOf, spentRow, spentOf, rows, lock, starts, raced>>

\* login_token_route (get_token): a signed-in, active user mints a login token.
login_token_route(r, d) ==
    /\ Authenticated(d)
    /\ Owner[d] \notin deactivated
    /\ Mint
    /\ Begin(r, <<>>, Nil, Nil)
    /\ loginRow' = [loginRow EXCEPT ![minted + 1] = Owner[d]]
    /\ UNCHANGED <<password, deactivated, devices, tokenRow, accessOf,
                   refreshOf, spentRow, spentOf, rows, lock, loginLock, raced, redeemed>>

\* classify_refresh_token: current, spent for one generation, or unknown.
classify_refresh_token(t) ==
    CASE tokenRow[t] # Nil /\ refreshOf[tokenRow[t]] = t -> "current"
      [] spentRow[t] # Nil /\ ~(tokenRow[t] # Nil /\ refreshOf[tokenRow[t]] = t)
           -> "replayed"
      [] OTHER -> "unknown"

\* refresh_token_route.  expired: the deadline of the current token passed;
\* hard, revokes: the two configuration switches; within: inside the reuse
\* grace window.
refresh_token_route(r, t, expired, hard, within, revokes) ==
    LET kind == classify_refresh_token(t)
        d == IF kind = "current" THEN tokenRow[t] ELSE spentRow[t].d
        grace == within /\ refreshOf[d] = spentRow[t].next
    IN  /\ kind # "unknown"
        /\ CASE kind = "current" /\ expired ->
                  /\ Begin(r, IF hard THEN remove_device(d)
                              ELSE <<Step("rm_read", d),
                                     Step("rm_refresh", d)>>, Nil, Nil)
                  /\ UNCHANGED minted
             [] kind = "current" /\ ~expired ->
                  /\ Mint
                  /\ Begin(r, set_access_token(d, TRUE), minted + 1,
                           generate_refresh_token(minted + 1))
             [] kind = "replayed" /\ grace ->
                  /\ Mint
                  /\ Begin(r, set_access_token(d, FALSE), minted + 1, Nil)
             [] kind = "replayed" /\ ~grace ->
                  /\ Begin(r, IF revokes THEN remove_device(d) ELSE <<>>,
                           Nil, Nil)
                  /\ UNCHANGED minted
        /\ UNCHANGED <<tables, lock, loginLock, raced, redeemed>>

\* logout_route, and delete_device_route on the device itself.
logout_route(r, d) ==
    /\ Authenticated(d)
    /\ Begin(r, remove_device(d), Nil, Nil)
    /\ UNCHANGED <<tables, lock, minted, loginLock, raced, redeemed>>

\* logout_all_route
logout_all_route(r, d) ==
    /\ Authenticated(d)
    /\ Begin(r, remove_all(DevicesOf(Owner[d])), Nil, Nil)
    /\ UNCHANGED <<tables, lock, minted, loginLock, raced, redeemed>>

\* delete_device_route and delete_devices_route: chosen devices of the sender.
delete_devices_route(r, d, ds) ==
    /\ Authenticated(d)
    /\ ds \subseteq DevicesOf(Owner[d])
    /\ Begin(r, remove_all(ds), Nil, Nil)
    /\ UNCHANGED <<tables, lock, minted, loginLock, raced, redeemed>>

\* change_password_route: the password first, then every device but the
\* sender's.
change_password_route(r, d) ==
    /\ Authenticated(d)
    /\ password' = [password EXCEPT ![Owner[d]] = "set"]
    /\ Begin(r, remove_all(DevicesOf(Owner[d]) \ {d}), Nil, Nil)
    /\ UNCHANGED <<deactivated, devices, tokenRow, accessOf, refreshOf,
                   spentRow, spentOf, loginRow, rows, lock, minted, loginLock, raced,
                   redeemed>>

\* deactivate_route: deactivate_account sets the marker, revokes every device
\* and then blanks the password.
deactivate_route(r, d) ==
    /\ Authenticated(d)
    /\ deactivated' = deactivated \cup {Owner[d]}
    /\ Begin(r, remove_all(DevicesOf(Owner[d]))
                \o <<Step("blank_password", d)>>, Nil, Nil)
    /\ UNCHANGED <<password, devices, tokenRow, accessOf, refreshOf, spentRow,
                   spentOf, loginRow, rows, lock, minted, loginLock, raced, redeemed>>

\* reactivate: only a deactivated account; the password, then the marker.
reactivate(u) ==
    /\ u \in deactivated
    /\ starts < MaxStarts
    /\ starts' = starts + 1
    /\ password' = [password EXCEPT ![u] = "set"]
    /\ deactivated' = deactivated \ {u}
    /\ UNCHANGED <<devices, tokenRow, accessOf, refreshOf, spentRow, spentOf,
                   loginRow, rows, lock, req, minted, loginLock, raced, redeemed>>

\* register_route: full_register refuses an existing user, creates the
\* account, and the route signs its first device in.
register_route(r, d) ==
    /\ password[Owner[d]] = "none"
    /\ password' = [password EXCEPT ![Owner[d]] = "set"]
    /\ Mint
    /\ Begin(r, create_device(d) \o set_access_token(d, FALSE), minted + 1, Nil)
    /\ UNCHANGED <<deactivated, devices, tokenRow, accessOf, refreshOf,
                   spentRow, spentOf, loginRow, rows, lock, loginLock, raced, redeemed>>

\* update_device_route: reads the metadata, edits it, puts it back.
update_device_route(r, d) ==
    /\ Authenticated(d)
    /\ d \in devices
    /\ Begin(r, <<Step("put_metadata", d)>>, Nil, Nil)
    /\ UNCHANGED <<tables, lock, minted, loginLock, raced, redeemed>>

\* What a signed-in device's own requests write into the tables keyed by it:
\* keys, fallback keys, sliding sync connections and pushers.  Uploads check
\* the metadata first and write later.
device_writes(r, d, i) ==
    /\ Authenticated(d)
    /\ d \in devices
    /\ DeviceTables[i] # "todevice"
    /\ Begin(r, <<Write(d, DeviceTables[i])>>, Nil, Nil)
    /\ UNCHANGED <<tables, lock, minted, loginLock, raced, redeemed>>

----------------------------------------------------------------------------
(* Steps *)

(* Mutant: the lock is not waited for. *)
PassLock(r) ==
    /\ Now(r, "lock")
    /\ lock' = [lock EXCEPT ![Owner[Dev(r)]] = r]
    /\ Go(r, req[r])
    /\ UNCHANGED <<tables, minted, starts, loginLock, raced, redeemed>>

\* access_token_locks.lock(user), in set_access_token and remove_access_token
TakeLock(r) ==
    /\ Now(r, "lock")
    /\ lock[Owner[Dev(r)]] = Nil
    /\ lock' = [lock EXCEPT ![Owner[Dev(r)]] = r]
    /\ Go(r, req[r])
    /\ UNCHANGED <<tables, minted, starts, loginLock, raced, redeemed>>

\* set_access_token refuses a device without metadata, releasing the lock.
CheckMetadata(r) ==
    /\ Now(r, "check")
    /\ IF Dev(r) \in devices
         THEN Go(r, req[r]) /\ UNCHANGED lock
         ELSE Fail(r) /\ lock' = [lock EXCEPT ![Owner[Dev(r)]] = Nil]
    /\ UNCHANGED <<tables, minted, starts, loginLock, raced, redeemed>>

\* set_refresh_token reads the outgoing token.
ReadSpent(r) ==
    /\ Now(r, "spend")
    /\ Go(r, [req[r] EXCEPT !.spent = refreshOf[Dev(r)]])
    /\ UNCHANGED <<tables, lock, minted, starts, loginLock, raced, redeemed>>

Clear(f, t) == IF t = Nil THEN f ELSE [f EXCEPT ![t] = Nil]

\* The transaction of remove_refresh_token over the two tokens it has read:
\* their rows go, and so do both pointers whatever they now hold.
DropRefresh(d, cur, old) ==
    /\ tokenRow' = Clear(tokenRow, cur)
    /\ spentRow' = Clear(spentRow, old)
    /\ refreshOf' = [refreshOf EXCEPT ![d] = Nil]
    /\ spentOf' = [spentOf EXCEPT ![d] = Nil]
    /\ UNCHANGED <<password, deactivated, devices, accessOf, loginRow, rows>>

\* set_refresh_token drops the current and the retained token.
DropOld(r) ==
    /\ Now(r, "drop")
    /\ DropRefresh(Dev(r), refreshOf[Dev(r)], spentOf[Dev(r)])
    /\ Go(r, req[r])
    /\ UNCHANGED <<lock, minted, starts, loginLock, raced, redeemed>>

\* Its transaction: the new token and, pointing at it, the outgoing one.
InsertRefresh(r) ==
    /\ Now(r, "insert")
    /\ LET d == Dev(r)
           old == req[r].spent
       IN  /\ tokenRow' = [tokenRow EXCEPT ![req[r].rt] = d]
           /\ refreshOf' = [refreshOf EXCEPT ![d] = req[r].rt]
           /\ IF old = Nil
                THEN UNCHANGED <<spentRow, spentOf>>
                ELSE /\ spentRow' = [spentRow EXCEPT ![old] =
                                        [d |-> d, next |-> req[r].rt]]
                     /\ spentOf' = [spentOf EXCEPT ![d] = old]
    /\ Touch(r)
    /\ Go(r, req[r])
    /\ UNCHANGED <<password, deactivated, devices, accessOf, loginRow, rows,
                   lock, minted, starts, loginLock, redeemed>>

\* set_access_token and remove_access_token read the pointer under the lock;
ReadPrevious(r) ==
    /\ Now(r, "previous")
    /\ Go(r, [req[r] EXCEPT !.prev = accessOf[Dev(r)]])
    /\ UNCHANGED <<tables, lock, loginLock, minted, starts, raced, redeemed>>

\* set_access_token's transaction removes the row it read and writes the new
\* row and the pointer; then the lock is released.
CommitAccess(r) ==
    /\ Now(r, "commit")
    /\ LET d == Dev(r)
       IN  /\ tokenRow' = [Clear(tokenRow, req[r].prev) EXCEPT ![req[r].at] = d]
           /\ accessOf' = [accessOf EXCEPT ![d] = req[r].at]
           /\ lock' = [lock EXCEPT ![Owner[d]] = Nil]
    /\ Touch(r)
    /\ Go(r, req[r])
    /\ UNCHANGED <<password, deactivated, devices, refreshOf, spentRow, spentOf,
                   loginRow, rows, loginLock, minted, starts, redeemed>>

\* create_device: refused for a user without an account row.
CreateDevice(r) ==
    /\ Now(r, "create")
    /\ IF password[Owner[Dev(r)]] = "none"
         THEN Fail(r) /\ UNCHANGED <<devices, raced>>
         ELSE /\ devices' = devices \cup {Dev(r)}
              /\ raced' = IF Removing(Dev(r)) THEN raced \cup {Dev(r)} ELSE raced
              /\ Go(r, req[r])
    /\ UNCHANGED <<password, deactivated, tokenRow, accessOf, refreshOf,
                   spentRow, spentOf, loginRow, rows, lock, minted, starts,
                   loginLock, redeemed>>

\* remove_access_token's transaction removes the row it read and the pointer;
\* then the lock is released.
RemoveAccess(r) ==
    /\ Now(r, "rm_access")
    /\ tokenRow' = Clear(tokenRow, req[r].prev)
    /\ accessOf' = [accessOf EXCEPT ![Dev(r)] = Nil]
    /\ lock' = [lock EXCEPT ![Owner[Dev(r)]] = Nil]
    /\ Go(r, req[r])
    /\ UNCHANGED <<password, deactivated, devices, refreshOf, spentRow, spentOf,
                   loginRow, rows, loginLock, minted, starts, raced, redeemed>>

\* remove_refresh_token outside any lock: first it reads both pointers,
RemoveRead(r) ==
    /\ Now(r, "rm_read")
    /\ Go(r, [req[r] EXCEPT !.read = <<refreshOf[Dev(r)], spentOf[Dev(r)]>>])
    /\ UNCHANGED <<tables, lock, minted, starts, loginLock, raced, redeemed>>

\* then its transaction runs over what it read.
RemoveRefresh(r) ==
    /\ Now(r, "rm_refresh")
    /\ DropRefresh(Dev(r), req[r].read[1], req[r].read[2])
    /\ Go(r, req[r])
    /\ UNCHANGED <<lock, minted, starts, loginLock, raced, redeemed>>

\* remove_device empties one table after the other.
RemoveRows(r) ==
    /\ \E i \in 1..Len(DeviceTables) :
           /\ Now(r, DeviceTables[i])
           /\ rows' = [rows EXCEPT ![Dev(r)] = @ \ {DeviceTables[i]}]
    /\ Go(r, req[r])
    /\ UNCHANGED <<password, deactivated, devices, tokenRow, accessOf,
                   refreshOf, spentRow, spentOf, loginRow, lock, minted,
                   starts, loginLock, raced, redeemed>>

\* Its last step deletes the metadata.
RemoveMetadata(r) ==
    /\ Now(r, "metadata")
    /\ devices' = devices \ {Dev(r)}
    /\ Go(r, req[r])
    /\ UNCHANGED <<password, deactivated, tokenRow, accessOf, refreshOf,
                   spentRow, spentOf, loginRow, rows, lock, minted, starts,
                   loginLock, raced, redeemed>>

\* update_device_metadata: a blind put of what was read before.
PutMetadata(r) ==
    /\ Now(r, "put_metadata")
    /\ devices' = devices \cup {Dev(r)}
    /\ Touch(r)
    /\ Go(r, req[r])
    /\ UNCHANGED <<password, deactivated, tokenRow, accessOf, refreshOf,
                   spentRow, spentOf, loginRow, rows, lock, minted, starts,
                   loginLock, redeemed>>

\* A device's own upload lands.
WriteRows(r) ==
    /\ Now(r, "write")
    /\ rows' = [rows EXCEPT ![Dev(r)] = @ \cup {Head(req[r].todo).table}]
    /\ Touch(r)
    /\ Go(r, req[r])
    /\ UNCHANGED <<password, deactivated, devices, tokenRow, accessOf,
                   refreshOf, spentRow, spentOf, loginRow, lock, minted,
                   starts, loginLock, redeemed>>

\* set_password(None), the end of revoke_credentials.
BlankPassword(r) ==
    /\ Now(r, "blank_password")
    /\ password' = [password EXCEPT ![Owner[Dev(r)]] = "empty"]
    /\ Go(r, req[r])
    /\ UNCHANGED <<deactivated, devices, tokenRow, accessOf, refreshOf, spentRow,
                   spentOf, loginRow, rows, lock, minted, starts, loginLock, raced,
                   redeemed>>

----------------------------------------------------------------------------

\* Any set of accounts may be registered; nobody is signed in, but a login token
\* of a registered user may still be out.
Init ==
    /\ password \in [Users -> {"none", "set"}]
    /\ deactivated = {}
    /\ devices = {}
    /\ tokenRow = [t \in Tokens |-> Nil]
    /\ accessOf = [d \in Devices |-> Nil]
    /\ refreshOf = [d \in Devices |-> Nil]
    /\ spentRow = [t \in RefreshTokens |-> Nil]
    /\ spentOf = [d \in Devices |-> Nil]
    /\ minted \in {0, 1}
    /\ loginRow \in [Minted -> Users \cup {Nil}]
    /\ \A t \in Minted : IF t <= minted THEN /\ loginRow[t] # Nil
                                            /\ password[loginRow[t]] = "set"
                                       ELSE loginRow[t] = Nil
    /\ rows = [d \in Devices |-> {}]
    /\ lock = [u \in Users |-> Nil]
    /\ loginLock = [t \in Minted |-> Nil]
    /\ req = [r \in Reqs |-> Idle]
    /\ starts = 0
    /\ raced = {}
    /\ redeemed = [t \in Minted |-> 0]

Route(r) ==
    \/ \E d \in Devices :
          \/ \E refresh \in BOOLEAN : login_password(r, d, refresh)
          \/ \E t \in Minted : login_token(r, d, t)
          \/ login_token_route(r, d)
          \/ logout_route(r, d)
          \/ logout_all_route(r, d)
          \/ \E ds \in SUBSET devices : delete_devices_route(r, d, ds)
          \/ change_password_route(r, d)
          \/ deactivate_route(r, d)
          \/ register_route(r, d)
          \/ update_device_route(r, d)
          \/ \E i \in 1..Len(DeviceTables) : device_writes(r, d, i)
    \/ \E t \in RefreshTokens, expired, hard, within, revokes \in BOOLEAN :
          refresh_token_route(r, t, expired, hard, within, revokes)

Work(r) ==
    \/ TakeLock(r) \/ CheckMetadata(r) \/ ReadSpent(r) \/ DropOld(r)
    \/ InsertRefresh(r) \/ ReadPrevious(r) \/ CommitAccess(r) \/ CreateDevice(r)
    \/ RemoveAccess(r) \/ RemoveRead(r) \/ RemoveRefresh(r) \/ RemoveRows(r)
    \/ RemoveMetadata(r) \/ PutMetadata(r) \/ WriteRows(r)
    \/ BlankPassword(r) \/ RedeemLogin(r)

Next ==
    \/ \E r \in Reqs : Route(r) \/ Work(r)
    \/ \E u \in Users : reactivate(u)

Spec == Init /\ [][Next]_vars

----------------------------------------------------------------------------
(* Properties *)

\* The lock's purpose (users/mod.rs, access_token_locks): whatever logins,
\* refreshes and removals overlap, every access token that resolves is the
\* one its device's pointer names, so a removal always finds it.  One that no
\* pointer names would stay valid after every logout.
OneTokenPerDevice ==
    \A t \in Minted : tokenRow[t] # Nil => accessOf[tokenRow[t]] = t

\* find_from_login_token: a login token signs in at most one device however
\* many requests present it at once.
LoginTokenOnce == \A t \in Minted : redeemed[t] <= 1

\* remove_device leaves nothing behind: a device that is gone, and that no
\* other request wrote while it was being removed, has no token that
\* resolves, no pointer, no retained refresh token and no rows.
RemovedIsGone ==
    \A d \in Devices \ (devices \cup raced) :
        /\ accessOf[d] = Nil /\ refreshOf[d] = Nil /\ spentOf[d] = Nil
        /\ \A t \in Tokens : tokenRow[t] # d
        /\ \A t \in RefreshTokens : spentRow[t] # Nil => spentRow[t].d # d
        /\ rows[d] \subseteq {"todevice"}

(* A token is a key to one device and only as long as the device is there: *)
(* tokens and devices name each other, a login token is redeemed once, and *)
(* a removed device leaves nothing that logs in.                           *)
SessionsSound == OneTokenPerDevice /\ LoginTokenOnce /\ RemovedIsGone
=============================================================================
