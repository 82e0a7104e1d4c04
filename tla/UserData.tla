------------------------------ MODULE UserData ------------------------------
(***************************************************************************)
(* What a user stores on the server: account data and tags                 *)
(* (accounts/account_data.rs and the routes over it), the server-side key  *)
(* backup (accounts/key_backups.rs, client/accounts/backup) and the        *)
(* profile, whose changes are sent into the user's rooms                   *)
(* (accounts/profile, client/accounts/profile.rs).  None of it takes a     *)
(* lock of its own: every await lets another request in.                   *)
(***************************************************************************)
EXTENDS Naturals, FiniteSets, FiniteSetsExt

CONSTANTS
    Requests,   \* concurrent requests
    Tags, BackupSessions, Rooms, Names,
    MaxPosition, \* bound on the stream positions drawn
    MaxVersions, \* bound on the backup versions created
    None

VARIABLES
    dataRows,  \* roomuserdataid_accountdata of one type: {[at, tags]}
    pointer,   \* roomusertype_roomuserdataid: the row's position, 0 for none
    erased,    \* erase_user has run (the account was deactivated)
    backups,   \* version |-> [live, etag, keys], in the order created
    told,      \* history: the [version, etag, keys] an undisturbed client saw
    name,      \* userid_displayname
    member,    \* the user's member event per room: [on, name]
    job,       \* requests in progress
    counter    \* server-wide stream position

dataVars == <<dataRows, pointer, erased>>
backupVars == <<backups, told>>
profileVars == <<name, member>>
userVars == <<dataVars, backupVars, profileVars, job, counter>>

Free == [at |-> "free"]
Take(r, j) == job[r].at = "free" /\ job' = [job EXCEPT ![r] = j]
Continue(r, from, j) == job[r].at = from /\ job' = [job EXCEPT ![r] = j]
next_count == counter < MaxPosition /\ counter' = counter + 1

----------------------------------------------------------------------------
(* Account data *)

RowAt(p) == {row \in dataRows : row.at = p}

\* get_raw: the row the pointer names, when both are there.
get_raw == IF RowAt(pointer) = {} THEN {} ELSE (CHOOSE row \in RowAt(pointer) : TRUE).tags

\* update_tag_route and delete_tag_route read the event and change it ...
update_tag_route(r, t) ==
    /\ Take(r, [at |-> "put", tags |-> get_raw \cup {t}])
    /\ UNCHANGED <<dataVars, backupVars, profileVars, counter>>
delete_tag_route(r, t) ==
    /\ Take(r, [at |-> "put", tags |-> get_raw \ {t}])
    /\ UNCHANGED <<dataVars, backupVars, profileVars, counter>>

\* ... set_account_data replaces it ({} is the MSC3391 tombstone).
set_account_data(r, tags) ==
    /\ Take(r, [at |-> "put", tags |-> tags])
    /\ UNCHANGED <<dataVars, backupVars, profileVars, counter>>

\* update: the new row is put at a new position,
UpdatePut(r) ==
    /\ job[r].at = "put"
    /\ next_count
    /\ dataRows' = dataRows \cup {[at |-> counter', tags |-> job[r].tags]}
    /\ Continue(r, "put", [at |-> "prev", row |-> counter'])
    /\ UNCHANGED <<pointer, erased, backupVars, profileVars>>

(* Mutant: the old row is removed before the pointer moves. *)
UpdateReadDrops(r) ==
    /\ Continue(r, "prev", [at |-> "point", row |-> job[r].row, prev |-> 0])
    /\ dataRows' = dataRows \ RowAt(pointer)
    /\ UNCHANGED <<pointer, erased, backupVars, profileVars, counter>>

\* the pointer read,
UpdateRead(r) ==
    /\ Continue(r, "prev", [at |-> "point", row |-> job[r].row, prev |-> pointer])
    /\ UNCHANGED <<dataVars, backupVars, profileVars, counter>>

\* moved to the new row,
UpdatePoint(r) ==
    /\ Continue(r, "point", [at |-> "drop", prev |-> job[r].prev])
    /\ pointer' = job[r].row
    /\ UNCHANGED <<dataRows, erased, backupVars, profileVars, counter>>

\* and the row it named before removed.
UpdateDrop(r) ==
    /\ Continue(r, "drop", Free)
    /\ dataRows' = dataRows \ RowAt(job[r].prev)
    /\ UNCHANGED <<pointer, erased, backupVars, profileVars, counter>>

\* erase_user, on deactivation
erase_user ==
    /\ ~erased /\ erased' = TRUE
    /\ dataRows' = {} /\ pointer' = 0
    /\ UNCHANGED <<backupVars, profileVars, job, counter>>

\* changes_since: what an incremental sync reports.
changes_since(since, to) == {row \in dataRows : row.at >= since + 1 /\ row.at <= to}

----------------------------------------------------------------------------
(* Key backup.  A key's quality orders add_key's keep_old rule: 0 is none. *)

Versions == DOMAIN backups
Live == {v \in Versions : backups[v].live}

\* get_latest_backup_version and latest_version_check
get_latest_backup_version == IF Live = {} THEN 0 ELSE Max(Live)

\* create_backup draws the version and an etag.
create_backup ==
    /\ Cardinality(Versions) < MaxVersions
    /\ next_count
    /\ backups' = [v \in Versions \cup {Cardinality(Versions) + 1} |->
                     IF v \in Versions THEN backups[v]
                     ELSE [live |-> TRUE, etag |-> counter',
                           keys |-> [s \in BackupSessions |-> 0]]]
    /\ UNCHANGED <<dataVars, told, profileVars, job>>

\* update_backup
update_backup(v) ==
    /\ v \in Live
    /\ next_count
    /\ backups' = [backups EXCEPT ![v].etag = counter']
    /\ UNCHANGED <<dataVars, told, profileVars, job>>

\* delete_backup: its algorithm, etag and keys.
delete_backup(v) ==
    /\ v \in Live
    /\ backups' = [backups EXCEPT ![v] =
                     [live |-> FALSE, etag |-> 0, keys |-> [s \in BackupSessions |-> 0]]]
    /\ UNCHANGED <<dataVars, told, profileVars, job, counter>>

\* keep_old: verified before unverified, then the earlier index, then the
\* fewer forwards; a key that is as good is replaced.
keep_old(old, new) == old > new

\* The add routes check the version and read the stored key ...
add_backup_keys_route(r, v, s, new) ==
    /\ v # 0 /\ v = get_latest_backup_version
    /\ ~keep_old(backups[v].keys[s], new)
    /\ Take(r, [at |-> "etag", v |-> v, s |-> s, new |-> new])
    /\ UNCHANGED <<dataVars, backupVars, profileVars, counter>>

\* ... add_key puts the etag, if the version is still there, ...
AddKeyEtag(r) ==
    /\ IF job[r].at = "etag" /\ job[r].v \in Live
         THEN /\ next_count
              /\ backups' = [backups EXCEPT ![job[r].v].etag = counter']
              /\ Continue(r, "etag", [job[r] EXCEPT !.at = "key"])
         ELSE Continue(r, "etag", Free) /\ UNCHANGED <<backups, counter>>
    /\ UNCHANGED <<dataVars, told, profileVars>>

\* ... and then the key.
AddKeyPut(r) ==
    /\ Continue(r, "key", Free)
    /\ backups' = [backups EXCEPT ![job[r].v].keys[job[r].s] = job[r].new]
    /\ UNCHANGED <<dataVars, told, profileVars, counter>>

\* delete_all_keys, delete_room_keys and delete_room_key remove rows first ...
delete_keys(r, v, ss) ==
    /\ v \in Versions
    /\ backups' = [backups EXCEPT ![v].keys =
                     [s \in BackupSessions |-> IF s \in ss THEN 0 ELSE @[s]]]
    /\ Take(r, [at |-> "bump", v |-> v])
    /\ UNCHANGED <<dataVars, told, profileVars, counter>>

(* Mutant: deleting keys leaves the etag. *)
keep_etag(r) ==
    /\ Continue(r, "bump", Free)
    /\ UNCHANGED <<dataVars, backups, told, profileVars, counter>>

\* ... and then give a live backup a new etag.
bump_etag(r) ==
    /\ IF job[r].at = "bump" /\ job[r].v \in Live
         THEN next_count /\ backups' = [backups EXCEPT ![job[r].v].etag = counter']
         ELSE UNCHANGED <<backups, counter>>
    /\ Continue(r, "bump", Free)
    /\ UNCHANGED <<dataVars, told, profileVars>>

\* get_backup_info_route and get_backup_keys_route, with no write in progress:
\* count_etag and get_all.
ReadBackup(v) ==
    /\ v \in Live
    /\ \A r \in Requests : job[r].at \notin {"etag", "key", "bump"}
    /\ told' = told \cup {[v |-> v, etag |-> backups[v].etag, keys |-> backups[v].keys]}
    /\ told' # told
    /\ UNCHANGED <<dataVars, backups, profileVars, job, counter>>

----------------------------------------------------------------------------
(* Profile *)

\* set_field of the display name: the table first; update_member_events then
\* lists the joined rooms and reads the name to send.
set_field(r, n) ==
    /\ name' = n
    /\ Take(r, [at |-> "rooms", left |-> {q \in Rooms : member[q].on}, name |-> n])
    /\ UNCHANGED <<dataVars, backupVars, member, counter>>

\* One room of the list: its member event is read without the room's lock ...
ReadMember(r, q) ==
    /\ job[r].at = "rooms" /\ q \in job[r].left
    /\ job' = [job EXCEPT ![r] = [at |-> "send", left |-> @.left \ {q}, room |-> q,
                                  name |-> @.name, on |-> member[q].on]]
    /\ UNCHANGED <<dataVars, backupVars, profileVars, counter>>

\* ... and sent again, renamed, under it; a room refuses it when it must.
SendMember(r) ==
    /\ job[r].at = "send"
    /\ member' = [member EXCEPT ![job[r].room] = [on |-> job[r].on, name |-> job[r].name]]
    /\ job' = [job EXCEPT ![r] = IF @.left = {} THEN Free
                                 ELSE [at |-> "rooms", left |-> @.left, name |-> @.name]]
    /\ UNCHANGED <<dataVars, backupVars, name, counter>>

SkipRoom(r) ==
    /\ job[r].at = "send"
    /\ job' = [job EXCEPT ![r] = IF @.left = {} THEN Free
                                 ELSE [at |-> "rooms", left |-> @.left, name |-> @.name]]
    /\ UNCHANGED <<dataVars, backupVars, profileVars, counter>>

\* A name set while the user is in no room ends the request at once.
NoRooms(r) ==
    /\ job[r].at = "rooms" /\ job[r].left = {}
    /\ job' = [job EXCEPT ![r] = Free]
    /\ UNCHANGED <<dataVars, backupVars, profileVars, counter>>

\* fill_profile_data: a join carries the stored profile; leaving keeps it.
Join(q) ==
    /\ ~member[q].on
    /\ member' = [member EXCEPT ![q] = [on |-> TRUE, name |-> name]]
    /\ UNCHANGED <<dataVars, backupVars, name, job, counter>>
Leave(q) ==
    /\ member[q].on
    /\ member' = [member EXCEPT ![q].on = FALSE]
    /\ UNCHANGED <<dataVars, backupVars, name, job, counter>>

----------------------------------------------------------------------------
UserInit ==
    /\ dataRows = {} /\ pointer = 0 /\ erased = FALSE
    /\ backups = [v \in {} |-> None] /\ told = {}
    /\ name = None
    /\ member = [q \in Rooms |-> [on |-> FALSE, name |-> None]]
    /\ job = [r \in Requests |-> Free]
    /\ counter = 0

AccountDataStep ==
    \/ \E r \in Requests :
          \/ \E t \in Tags : update_tag_route(r, t) \/ delete_tag_route(r, t)
          \/ \E tags \in SUBSET Tags : set_account_data(r, tags)
          \/ UpdatePut(r) \/ UpdateRead(r) \/ UpdatePoint(r) \/ UpdateDrop(r)
    \/ erase_user

BackupStep ==
    \/ create_backup
    \/ \E v \in Versions : update_backup(v) \/ delete_backup(v) \/ ReadBackup(v)
    \/ \E r \in Requests :
          \/ \E v \in Versions, s \in BackupSessions, new \in 1..2 :
                add_backup_keys_route(r, v, s, new)
          \/ \E v \in Versions, ss \in SUBSET BackupSessions : delete_keys(r, v, ss)
          \/ AddKeyEtag(r) \/ AddKeyPut(r) \/ bump_etag(r)

ProfileStep ==
    \/ \E r \in Requests :
          \/ \E n \in Names \cup {None} : set_field(r, n)
          \/ \E q \in Rooms : ReadMember(r, q)
          \/ SendMember(r) \/ SkipRoom(r) \/ NoRooms(r)
    \/ \E q \in Rooms : Join(q) \/ Leave(q)

----------------------------------------------------------------------------
(* Properties *)

\* Until the account is erased, the pointer of a type names a row that exists
\* however updates overlap, so get_raw always finds what was set last or
\* before: update moves the pointer before it removes the old row.
PointerLoads == ~erased /\ pointer # 0 => RowAt(pointer) # {}

\* bump_etag's comment: "Deleting keys changes the backup just as adding them
\* does, so other clients have to see a new etag".  A client that reads a
\* backup while nobody writes it, twice, and finds the same etag finds the same
\* keys, whatever overlapped in between.
EtagTells == \A a, b \in told : a.v = b.v /\ a.etag = b.etag => a.keys = b.keys
=============================================================================
