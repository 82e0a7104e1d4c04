------------------------------- MODULE Outbox -------------------------------
(***************************************************************************)
(* What the sending service promises its callers: an event accepted for a  *)
(* destination is held until that destination has settled it, unless the   *)
(* operator had it abandoned.  Delivery is at least once.                  *)
(***************************************************************************)
CONSTANTS Dests, Items

VARIABLES
    accepted,   \* events handed over for each destination
    held,       \* events stored for each destination
    settled,    \* events the destination took, or refused for good
    dropped     \* events abandoned on purpose

outbox == <<accepted, held, settled, dropped>>

Init ==
    /\ accepted = [d \in Dests |-> {}]
    /\ held = [d \in Dests |-> {}]
    /\ settled = [d \in Dests |-> {}]
    /\ dropped = [d \in Dests |-> {}]

\* An event is stored for the destinations it is meant for.
Accept(ds, x) ==
    /\ accepted' = [d \in Dests |-> accepted[d] \cup (IF d \in ds THEN {x} ELSE {})]
    /\ held' = [d \in Dests |-> held[d] \cup (IF d \in ds THEN {x} ELSE {})]
    /\ UNCHANGED <<settled, dropped>>

\* The destination takes an event, perhaps not for the first time.
Settle(d, x) ==
    /\ x \in accepted[d]
    /\ settled' = [settled EXCEPT ![d] = @ \cup {x}]
    /\ UNCHANGED <<accepted, held, dropped>>

\* Only settled events stop being held.
Release(d, xs) ==
    /\ xs \subseteq settled[d]
    /\ held' = [held EXCEPT ![d] = @ \ xs]
    /\ UNCHANGED <<accepted, settled, dropped>>

\* The operator's configuration or an unregistration gives events up.
Abandon(gone) ==
    /\ held' = [d \in Dests |-> held[d] \ gone[d]]
    /\ dropped' = [d \in Dests |-> dropped[d] \cup gone[d]]
    /\ UNCHANGED <<accepted, settled>>

Next ==
    \/ \E ds \in SUBSET Dests, x \in Items : Accept(ds, x)
    \/ \E d \in Dests, x \in Items : Settle(d, x)
    \/ \E d \in Dests, xs \in SUBSET Items : Release(d, xs)
    \/ \E gone \in [Dests -> SUBSET Items] : Abandon(gone)

Spec == Init /\ [][Next]_outbox
=============================================================================
