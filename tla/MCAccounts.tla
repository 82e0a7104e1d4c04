----------------------------- MODULE MCAccounts -----------------------------
(***************************************************************************)
(* The parts of the accounts area side by side.  They share no state but   *)
(* the stream counter, so a behaviour exercises one part, chosen at the    *)
(* start; the parts' own interleavings are complete.                       *)
(***************************************************************************)
EXTENDS Sessions, DeviceKeys, Push, UserData

CONSTANTS A, B, DA, DB

VARIABLE part

MCOwner == [d \in Devices |-> CHOOSE u \in Users : TRUE]
MCDeviceUser == [d \in PushDevices |-> IF d = DA THEN A ELSE B]

AccountsInit ==
    /\ part \in {"sessions", "claims", "signing", "pushers", "list", "rules",
                 "data", "backup", "profile"}
    /\ Init /\ KeysInit /\ PushInit /\ UserInit
    /\ part # "sessions" => \A u \in Users : password[u] = "none"
    /\ part \notin {"claims", "signing"} => listed = {}
    /\ part # "rules" => rules = Absent

ClaimsStep == Claiming \/ \E d \in KeyDevices : \/ \E c \in Claims : CountOneTime(c, d)
                                                \/ \E k \in FallbackKeys : set_fallback_key(d, k)
SigningStep == Signing \/ Messaging \/ \E d \in KeyDevices : add_device_keys(d)

AccountsNext ==
    /\ UNCHANGED part
    /\ \/ part = "sessions" /\ Next /\ UNCHANGED <<keyVars, pushVars, userVars>>
       \/ part = "claims" /\ ClaimsStep /\ UNCHANGED <<vars, pushVars, userVars>>
       \/ part = "signing" /\ SigningStep /\ UNCHANGED <<vars, pushVars, userVars>>
       \/ part = "pushers" /\ PusherStep /\ UNCHANGED <<vars, keyVars, userVars>>
       \/ part = "list" /\ ListStep /\ UNCHANGED <<vars, keyVars, userVars>>
       \/ part = "rules" /\ RuleStep /\ UNCHANGED <<vars, keyVars, userVars>>
       \/ part = "data" /\ AccountDataStep /\ UNCHANGED <<vars, keyVars, pushVars>>
       \/ part = "backup" /\ BackupStep /\ UNCHANGED <<vars, keyVars, pushVars>>
       \/ part = "profile" /\ ProfileStep /\ UNCHANGED <<vars, keyVars, pushVars>>

AccountsSpec == AccountsInit /\ [][AccountsNext]_<<part, vars, keyVars, pushVars, userVars>>

(* What a user stores is what their devices read: the notifications are    *)
(* paged without gaps, a pointer to account data loads, and a backup's     *)
(* etag tells its contents.                                                *)
UserDataSound == PagingCovers /\ PointerLoads /\ EtagTells
=============================================================================
