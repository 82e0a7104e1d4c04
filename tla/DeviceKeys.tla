----------------------------- MODULE DeviceKeys -----------------------------
(***************************************************************************)
(* End-to-end encryption keys and to-device messages                       *)
(* (crates/phantom-service/src/accounts/users: keys.rs, fallback_keys.rs,  *)
(* to_device.rs) and the client and federation routes over them.           *)
(*                                                                         *)
(* Claiming a one-time key is a read and a remove under the owner's lock;  *)
(* a claim that finds none falls back to the fallback key, under the same  *)
(* lock but in a second critical section.  Uploads take no lock.           *)
(***************************************************************************)
EXTENDS Naturals, FiniteSets

CONSTANTS
    KeyDevices,   \* devices of one local user
    OneTimeKeys,  \* keys a client may upload, each once
    FallbackKeys, \* fallback keys a client may upload, any number of times
    SigningKeys,  \* cross-signing public keys
    Claims,       \* concurrent requests
    KeyLimit,     \* one_time_key_limit
    MaxCount,     \* bound on the stream positions drawn
    Nothing

ASSUME KeysAssumption ==
    Nothing \notin OneTimeKeys \cup FallbackKeys \cup KeyDevices \cup Claims

VARIABLES
    listed,    \* devices with metadata
    deviceKey, \* keyid_key rows of devices: the version uploaded, 0 for none
    oneTime,   \* onetimekeyid_onetimekeys
    fallback,  \* fallbackkeyid_fallbackkey: [key, used], key Nothing for none
    keyLock,   \* one_time_key_locks of the user
    claim,     \* requests in progress: where they are, the device, what they read
    unused,    \* one-time keys the clients have not uploaded yet
    cross,     \* userid_{master,selfsigning,usersigning}key indexes
    signed,    \* the cross-signing keys somebody else has signed
    approved,  \* an unexpired cross-signing reset approval
    changedAt, \* latest position in keychangeid_userid for the user
    toDevice,  \* todeviceid_events: positions of the queued events
    txns,      \* userdevicetxnid_response: answered sendToDevice transactions
    position,  \* server-wide stream position
    handed     \* history: how often each one-time key was handed out

keyVars == <<listed, deviceKey, oneTime, fallback, keyLock, claim, unused,
             cross, signed, approved, changedAt, toDevice, txns, position,
             handed>>

Kinds == {"master", "selfsigning", "usersigning"}
NoClaim == [at |-> "idle", d |-> Nothing, key |-> Nothing]

Draw == position < MaxCount /\ position' = position + 1

\* mark_device_key_update: a row under the user and each encrypted room.
mark_device_key_update == Draw /\ changedAt' = position'

----------------------------------------------------------------------------
(* Uploads *)

\* count_one_time_keys
count_one_time_keys(d) == Cardinality(oneTime[d])

\* add_device_keys, when upload_keys_route finds them changed.
add_device_keys(d) ==
    /\ d \in listed
    /\ mark_device_key_update
    /\ deviceKey' = [deviceKey EXCEPT ![d] = position']
    /\ UNCHANGED <<listed, oneTime, fallback, keyLock, claim, unused, cross,
                   signed, approved, toDevice, txns, handed>>

\* upload_keys_route, the one-time keys: it counts what is stored ...
CountOneTime(c, d) ==
    /\ claim[c].at = "idle"
    /\ d \in listed
    /\ claim' = [claim EXCEPT ![c] =
                    [at |-> "upload", d |-> d, key |-> count_one_time_keys(d)]]
    /\ UNCHANGED <<listed, deviceKey, oneTime, fallback, keyLock, unused, cross,
                   signed, approved, changedAt, toDevice, txns, position, handed>>

\* ... and later stores, one add_one_time_key each, as many of the request's
\* keys as that count left room for.
add_one_time_keys(c, ks) ==
    /\ claim[c].at = "upload"
    /\ ks \subseteq unused
    /\ Cardinality(ks) + claim[c].key <= KeyLimit
    /\ Draw
    /\ oneTime' = [oneTime EXCEPT ![claim[c].d] = @ \cup ks]
    /\ unused' = unused \ ks
    /\ claim' = [claim EXCEPT ![c] = NoClaim]
    /\ UNCHANGED <<listed, deviceKey, fallback, keyLock, cross, signed,
                   approved, changedAt, toDevice, txns, handed>>

\* set_fallback_key under the lock: the same key again changes nothing.
set_fallback_key(d, k) ==
    /\ d \in listed
    /\ keyLock = Nothing
    /\ fallback[d].key # k
    /\ Draw
    /\ fallback' = [fallback EXCEPT ![d] = [key |-> k, used |-> FALSE]]
    /\ UNCHANGED <<listed, deviceKey, oneTime, keyLock, claim, unused, cross,
                   signed, approved, changedAt, toDevice, txns, handed>>

----------------------------------------------------------------------------
(* Claims: claim_local_one_time_keys, for the client and federation routes *)

(* Mutant: the claim does not wait for the lock. *)
ReadOneTimeUnlocked(c, d) ==
    /\ claim[c].at = "idle"
    /\ Draw
    /\ \E k \in oneTime[d] :
          claim' = [claim EXCEPT ![c] = [at |-> "read", d |-> d, key |-> k]]
    /\ UNCHANGED <<listed, deviceKey, oneTime, fallback, keyLock, unused, cross,
                   signed, approved, changedAt, toDevice, txns, handed>>

\* take_one_time_key takes the lock, moves lastonetimekeyupdate and reads the
\* first key under the algorithm's prefix.
ReadOneTime(c, d) ==
    /\ claim[c].at = "idle"
    /\ keyLock = Nothing
    /\ Draw
    /\ \E k \in oneTime[d] \cup {Nothing} :
          /\ k = Nothing => oneTime[d] = {}
          /\ claim' = [claim EXCEPT ![c] = [at |-> "read", d |-> d, key |-> k]]
    /\ keyLock' = c
    /\ UNCHANGED <<listed, deviceKey, oneTime, fallback, unused, cross, signed,
                   approved, changedAt, toDevice, txns, handed>>

\* It removes the key it read and releases the lock; without one the claim
\* turns to the fallback key.
TakeOneTime(c) ==
    /\ claim[c].at = "read"
    /\ keyLock' = Nothing
    /\ LET k == claim[c].key
           d == claim[c].d
       IN  IF k = Nothing
             THEN /\ claim' = [claim EXCEPT ![c].at = "fallback"]
                  /\ UNCHANGED <<oneTime, handed>>
             ELSE /\ claim' = [claim EXCEPT ![c] = NoClaim]
                  /\ oneTime' = [oneTime EXCEPT ![d] = @ \ {k}]
                  /\ handed' = [handed EXCEPT ![k] = @ + 1]
    /\ UNCHANGED <<listed, deviceKey, fallback, unused, cross, signed, approved,
                   changedAt, toDevice, txns, position>>

\* take_fallback_key: handed out any number of times, marked used the first.
take_fallback_key(c) ==
    /\ claim[c].at = "fallback"
    /\ keyLock = Nothing
    /\ claim' = [claim EXCEPT ![c] = NoClaim]
    /\ LET d == claim[c].d
       IN  IF ~fallback[d].used
             THEN Draw /\ fallback' = [fallback EXCEPT ![d].used = TRUE]
             ELSE UNCHANGED <<position, fallback>>
    /\ UNCHANGED <<listed, deviceKey, oneTime, keyLock, unused, cross, signed,
                   approved, changedAt, toDevice, txns, handed>>

----------------------------------------------------------------------------
(* Cross-signing *)

\* allow_cross_signing_replacement, and the expiry of what it allowed.
allow_cross_signing_replacement ==
    /\ approved' = ~approved
    /\ UNCHANGED <<listed, deviceKey, oneTime, fallback, keyLock, claim, unused,
                   cross, signed, changedAt, toDevice, txns, position, handed>>

\* is_replaced: a supplied key that differs from the stored one.
is_replaced(kind, new) == new[kind] # Nothing /\ new[kind] # cross[kind]

\* upload_signing_keys_route.  new: the keys supplied; bad: the kind whose key
\* does not parse, Nothing for none; proved: whether the user authenticated.
\* add_cross_signing_keys stores kind after kind and stops at a bad one,
\* keeping what it stored and telling nobody.
upload_signing_keys_route(new, bad, proved) ==
    LET stored == CASE bad = "master" -> {}
                    [] bad = "selfsigning" -> {"master"}
                    [] bad = "usersigning" -> {"master", "selfsigning"}
                    [] OTHER -> Kinds
    IN  /\ bad # Nothing => new[bad] # Nothing
        /\ cross["master"] # Nothing /\ (\E k \in Kinds : is_replaced(k, new))
             => approved \/ proved
        /\ new["master"] # Nothing \/ cross["master"] # Nothing
        /\ cross' = [k \in Kinds |-> IF k \in stored /\ new[k] # Nothing
                                       THEN new[k] ELSE cross[k]]
        /\ IF bad = Nothing THEN mark_device_key_update
                            ELSE UNCHANGED <<position, changedAt>>
        /\ UNCHANGED <<listed, deviceKey, oneTime, fallback, keyLock, claim,
                       unused, signed, approved, toDevice, txns, handed>>

\* upload_signatures_route through sign_key: only a key that is stored.
sign_key(k) ==
    /\ \E kind \in Kinds : cross[kind] = k
    /\ mark_device_key_update
    /\ signed' = signed \cup {k}
    /\ UNCHANGED <<listed, deviceKey, oneTime, fallback, keyLock, claim, unused,
                   cross, approved, toDevice, txns, handed>>

----------------------------------------------------------------------------
(* To-device messages *)

\* send_event_to_device_route: an answered transaction is answered again
\* without effect; otherwise one device, or all listed ones, get the event,
\* each at a position of its own, and the transaction is remembered.
send_event_to_device_route(t, ds) ==
    /\ t \notin txns
    /\ ds \in {{d} : d \in KeyDevices} \cup {listed}
    /\ ds # {}
    /\ position + Cardinality(ds) <= MaxCount
    /\ position' = position + Cardinality(ds)
    /\ \E f \in [ds -> (position + 1)..position'] :
          /\ \A a, b \in ds : a # b => f[a] # f[b]
          /\ toDevice' = [d \in KeyDevices |->
                            toDevice[d] \cup (IF d \in ds THEN {f[d]} ELSE {})]
    /\ txns' = txns \cup {t}
    /\ UNCHANGED <<listed, deviceKey, oneTime, fallback, keyLock, claim, unused,
                   cross, signed, approved, changedAt, handed>>

\* get_to_device_events
get_to_device_events(d, since, to) ==
    {c \in toDevice[d] : c >= since + 1 /\ c <= to}

\* remove_to_device_events, as the next sync acknowledges what it was given.
remove_to_device_events(d, until) ==
    /\ toDevice[d] \cap 0..until # {}
    /\ toDevice' = [toDevice EXCEPT ![d] = @ \ (0..until)]
    /\ UNCHANGED <<listed, deviceKey, oneTime, fallback, keyLock, claim, unused,
                   cross, signed, approved, changedAt, txns, position, handed>>

----------------------------------------------------------------------------
(* Reads *)

\* keys_changed: the user's change is listed between two positions.
keys_changed(from, to) == changedAt >= from + 1 /\ changedAt <= to

\* local_keys: the devices whose keys a query returns.
local_keys == {d \in listed : deviceKey[d] # 0}

\* unused_fallback_key_types
unused_fallback_key_types(d) == ~fallback[d].used

KeysInit ==
    /\ listed \in SUBSET KeyDevices
    /\ deviceKey = [d \in KeyDevices |-> 0]
    /\ oneTime = [d \in KeyDevices |-> {}]
    /\ fallback = [d \in KeyDevices |-> [key |-> Nothing, used |-> TRUE]]
    /\ keyLock = Nothing
    /\ claim = [c \in Claims |-> NoClaim]
    /\ unused = OneTimeKeys
    /\ cross = [k \in Kinds |-> Nothing]
    /\ signed = {}
    /\ approved = FALSE
    /\ changedAt = 0
    /\ toDevice = [d \in KeyDevices |-> {}]
    /\ txns = {}
    /\ position = 0
    /\ handed = [k \in OneTimeKeys |-> 0]

Uploading ==
    \E d \in KeyDevices :
       \/ add_device_keys(d)
       \/ \E c \in Claims : CountOneTime(c, d)
       \/ \E k \in FallbackKeys : set_fallback_key(d, k)

Claiming ==
    \E c \in Claims :
       \/ \E d \in KeyDevices : ReadOneTime(c, d)
       \/ TakeOneTime(c)
       \/ take_fallback_key(c)
       \/ \E ks \in SUBSET unused : add_one_time_keys(c, ks)

Signing ==
    \/ allow_cross_signing_replacement
    \/ \E new \in [Kinds -> SigningKeys \cup {Nothing}],
          bad \in Kinds \cup {Nothing}, proved \in BOOLEAN :
          upload_signing_keys_route(new, bad, proved)
    \/ \E k \in SigningKeys : sign_key(k)

Messaging ==
    \/ \E t \in OneTimeKeys, ds \in SUBSET KeyDevices :
          send_event_to_device_route(t, ds)
    \/ \E d \in KeyDevices, until \in 0..MaxCount :
          remove_to_device_events(d, until)

KeysNext == Uploading \/ Claiming \/ Signing \/ Messaging
KeysSpec == KeysInit /\ [][KeysNext]_keyVars

----------------------------------------------------------------------------
(* Properties *)

\* take_one_time_key's comment: without the lock two concurrent claims could
\* take the same key.  Every one-time key goes to at most one claim, whichever
\* claims and uploads overlap.
HandedOnce == \A k \in OneTimeKeys : handed[k] <= 1

\* set_fallback_key's comment: a used fallback key never becomes unused again
\* while it is stored, even when its device uploads it once more, so the
\* client is always told to replace it.
UsedStaysUsed ==
    [][\A d \in KeyDevices :
          fallback[d].used /\ fallback'[d].key = fallback[d].key
          => fallback'[d].used]_keyVars
=============================================================================
