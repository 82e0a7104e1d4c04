-------------------------- MODULE TwoPhaseCounter --------------------------
(***************************************************************************)
(* phantom_core::sync::two_phase_counter: sequence numbers drawn with      *)
(* next() and visible to readers (current()) only once every number up to  *)
(* them has been retired by dropping its Permit.  Every method runs under  *)
(* the counter's RwLock, so each is one atomic action.                     *)
(***************************************************************************)
EXTENDS Integers, Sequences

CONSTANTS
    InitCount,  \* the `init` handed to Counter::new
    MaxId       \* u64::MAX: checked!(prev + 1) fails above it

ASSUME CounterAssumption == /\ InitCount \in Nat
                            /\ MaxId \in Nat
                            /\ InitCount <= MaxId

VARIABLES
    dispatched, \* State::dispatched, the last number handed out
    pending,    \* State::pending, the VecDeque of numbers in flight
    permits,    \* the live Permits, [id, retired]
    released    \* the last number the release callback accepted

vars == <<dispatched, pending, permits, released>>

-----------------------------------------------------------------------------

\* Mutant of Retired: the oldest number in flight is reported as settled.
Retired_Inclusive(ps, last) == IF ps = << >> THEN last ELSE Head(ps)

\* State::retired: just below the oldest number in flight.
Retired(ps, last) ==
    IF ps = << >> THEN last
    ELSE IF Head(ps) = 0 THEN 0 ELSE Head(ps) - 1

\* VecDeque::remove(index)
Without(ps, i) == [j \in 1 .. Len(ps) - 1 |-> IF j < i THEN ps[j] ELSE ps[j + 1]]

Init ==
    /\ dispatched = InitCount
    /\ pending = << >>
    /\ permits = {}
    /\ released = InitCount

\* Counter::next when the commit callback succeeds.
Dispatch ==
    /\ dispatched < MaxId
    /\ dispatched' = dispatched + 1
    /\ pending' = Append(pending, dispatched + 1)
    /\ permits' = permits \cup
           {[id |-> dispatched + 1, retired |-> Retired(pending, dispatched)]}
    /\ UNCHANGED released

\* Counter::next when the addition overflows or the commit callback fails:
\* the error returns before anything is drawn.
DispatchFails == UNCHANGED vars

\* What retire(id) hands to the release callback when id was the oldest.
ReleaseOf(rest, id) == IF rest = << >> THEN dispatched ELSE id

\* Permit::drop, that is State::retire(id).  The release callback runs only
\* for the oldest number and its failure is only logged.
Retire(p) ==
    /\ p \in permits
    /\ permits' = permits \ {p}
    /\ \E i \in 1 .. Len(pending) :
         /\ pending[i] = p.id
         /\ pending' = Without(pending, i)
         /\ \/ /\ i = 1
               /\ released' = ReleaseOf(Without(pending, i), p.id)
            \/ UNCHANGED released
    /\ UNCHANGED dispatched

Next == Dispatch \/ DispatchFails \/ \E p \in permits : Retire(p)

Spec == Init /\ [][Next]_vars
-----------------------------------------------------------------------------

PermitType == [id : Nat, retired : Nat]

\* Type invariant: numbers are u64s and pending is a queue of them.
TypeOK ==
    /\ dispatched \in InitCount .. MaxId
    /\ pending \in Seq(InitCount + 1 .. MaxId)
    /\ permits \subseteq PermitType
    /\ released \in InitCount .. MaxId

\* The queue is strictly sorted and holds exactly the numbers of the live
\* permits.  These are the debug_asserts of dispatch (:92), retire (:105) and
\* retired (:140, :151), on which retire's binary search rests.
PendingIsPermits ==
    /\ \A i, j \in 1 .. Len(pending) : i < j => pending[i] < pending[j]
    /\ \A i \in 1 .. Len(pending) : \E p \in permits : p.id = pending[i]
    /\ \A p \in permits : \E i \in 1 .. Len(pending) : pending[i] = p.id

\* current() never reports a number whose write is still in flight: a reader
\* that samples it sees every row up to it.
NothingInFlightIsVisible ==
    \A p \in permits : Retired(pending, dispatched) < p.id

\* What the release callback was last told is never ahead of what readers
\* see, and the frontier a permit sampled is below its own number.
ReleasedIsVisible ==
    /\ released <= Retired(pending, dispatched)
    /\ \A p \in permits : p.retired < p.id

\* "the frontier must not move backwards" (:132): neither current() nor the
\* number handed to the release callback ever decreases.
FrontierMonotone ==
    [][/\ Retired(pending', dispatched') >= Retired(pending, dispatched)
       /\ released' >= released]_vars
=============================================================================
