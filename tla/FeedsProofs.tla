---------------------------- MODULE FeedsProofs -----------------------------
(***************************************************************************)
(* The counter that positions are read from, and what our clients and      *)
(* other servers are told, for any number of users, writes, polls,         *)
(* shutdowns and broken connections: current() never reports a number in   *)
(* flight, a client's position passes only rows it received or whose write *)
(* a poll raced with, the position kept for another server skips no        *)
(* update, and presence and typing end.                                    *)
(***************************************************************************)
EXTENDS TwoPhaseCounter, SyncPoll, Ephemeral, TLAPS

\* How long the two provers may take over a leaf.
USE SMTT(30), ZenonT(30)

-----------------------------------------------------------------------------
(* The counter.                                                            *)

\* The queue ends at or below the last number handed out, which is what keeps
\* it sorted when dispatch() pushes the next one.
PendingBounded == \A i \in 1 .. Len(pending) : pending[i] <= dispatched

\* No two live permits carry the same number.
PermitsDistinct == \A p, q \in permits : p.id = q.id => p = q

\* The inductive invariant.
CounterInv == /\ TypeOK
        /\ PendingIsPermits
        /\ PendingBounded
        /\ PermitsDistinct
        /\ ReleasedIsVisible

\* What remains after retire() removes the number at index i.
LEMMA WithoutFacts ==
    ASSUME NEW S, NEW ps \in Seq(S), NEW i \in 1 .. Len(ps)
    PROVE  /\ Without(ps, i) \in Seq(S)
           /\ Len(Without(ps, i)) = Len(ps) - 1
           /\ \A j \in 1 .. Len(ps) - 1 :
                 Without(ps, i)[j] = IF j < i THEN ps[j] ELSE ps[j + 1]
<1>1. Len(ps) \in Nat /\ Len(ps) - 1 \in Nat
  OBVIOUS
<1>2. \A j \in 1 .. Len(ps) - 1 : (IF j < i THEN ps[j] ELSE ps[j + 1]) \in S
  OBVIOUS
<1>3. Without(ps, i) \in [1 .. Len(ps) - 1 -> S]
  BY <1>1, <1>2, Zenon DEF Without
<1>4. QED
  BY <1>1, <1>3 DEF Without

\* The numbers in flight are naturals above the initial value.
LEMMA PendingTyped ==
    ASSUME TypeOK
    PROVE  /\ InitCount \in Nat /\ MaxId \in Nat /\ dispatched \in Nat
           /\ Len(pending) \in Nat
           /\ \A i \in 1 .. Len(pending) :
                 pending[i] \in Nat /\ pending[i] \in InitCount + 1 .. MaxId
           /\ \A p \in permits : p.id \in Nat
BY CounterAssumption DEF TypeOK, PermitType

\* The frontier is a number, at or above the initial value, and below every
\* number in flight.
LEMMA RetiredFacts ==
    ASSUME TypeOK, PendingIsPermits, PendingBounded
    PROVE  /\ Retired(pending, dispatched) \in InitCount .. dispatched
           /\ NothingInFlightIsVisible
<1> USE CounterAssumption
<1>1. CASE pending = << >>
  <2>1. permits = {}
    BY <1>1 DEF PendingIsPermits
  <2>2. QED
    BY <1>1, <2>1 DEF Retired, NothingInFlightIsVisible, TypeOK
<1>2. CASE pending # << >>
  <2>1. /\ Len(pending) \in Nat /\ Len(pending) >= 1
        /\ Head(pending) = pending[1]
        /\ pending[1] \in InitCount + 1 .. MaxId
    BY <1>2 DEF TypeOK
  <2>2. /\ Retired(pending, dispatched) = pending[1] - 1
        /\ Retired(pending, dispatched) \in InitCount .. dispatched
    BY <1>2, <2>1 DEF Retired, TypeOK, PendingBounded
  <2>3. \A i \in 1 .. Len(pending) : pending[1] <= pending[i]
    BY <2>1, PendingTyped DEF PendingIsPermits
  <2>4. ASSUME NEW p \in permits
        PROVE  pending[1] - 1 < p.id
    BY <2>1, <2>3, PendingTyped DEF PendingIsPermits
  <2>5. QED
    BY <2>2, <2>4, Zenon DEF NothingInFlightIsVisible
<1>3. QED
  BY <1>1, <1>2, Zenon

\* A fresh counter satisfies the invariant.
LEMMA InitIInv == Init => CounterInv
BY CounterAssumption
DEF Init, CounterInv, TypeOK, PendingIsPermits, PendingBounded, PermitsDistinct,
    ReleasedIsVisible, Retired

\* dispatch() keeps the invariant and the frontier where they were.
LEMMA DispatchStep ==
    ASSUME CounterInv, Dispatch
    PROVE  /\ CounterInv'
           /\ Retired(pending', dispatched') = Retired(pending, dispatched)
<1> USE CounterAssumption
<1> DEFINE d == dispatched + 1
           np == [id |-> d, retired |-> Retired(pending, dispatched)]
<1>0. /\ TypeOK /\ PendingIsPermits /\ PendingBounded
      /\ PermitsDistinct /\ ReleasedIsVisible
      /\ dispatched < MaxId /\ dispatched' = d
      /\ pending' = Append(pending, d)
      /\ permits' = permits \cup {np}
      /\ released' = released
  BY Zenon DEF CounterInv, Dispatch
<1>1. Retired(pending, dispatched) \in InitCount .. dispatched
  BY <1>0, RetiredFacts, Zenon
<1>2. /\ Len(pending) \in Nat
      /\ Len(pending') = Len(pending) + 1
      /\ \A i \in 1 .. Len(pending) : pending'[i] = pending[i]
      /\ pending'[Len(pending) + 1] = d
      /\ d \in InitCount + 1 .. MaxId
      /\ pending' \in Seq(InitCount + 1 .. MaxId)
  BY <1>0 DEF TypeOK
<1>3. np \in PermitType /\ np.id = d /\ np.retired < d
  BY <1>0, <1>1 DEF PermitType, TypeOK
<1>4. TypeOK'
  BY <1>0, <1>2, <1>3 DEF TypeOK
<1>5. PendingBounded'
  BY <1>0, <1>2 DEF PendingBounded, TypeOK
<1>6. PendingIsPermits'
  <2>1. ASSUME NEW i \in 1 .. Len(pending'), NEW j \in 1 .. Len(pending'), i < j
        PROVE  pending'[i] < pending'[j]
    <3>1. CASE j \in 1 .. Len(pending)
      BY <1>0, <1>2, <2>1, <3>1 DEF PendingIsPermits
    <3>2. CASE j = Len(pending) + 1
      BY <1>0, <1>2, <2>1, <3>2 DEF PendingBounded, TypeOK
    <3>3. QED
      BY <1>2, <3>1, <3>2
  <2>2. ASSUME NEW i \in 1 .. Len(pending')
        PROVE  \E p \in permits' : p.id = pending'[i]
    <3>1. CASE i \in 1 .. Len(pending)
      BY <1>0, <1>2, <3>1 DEF PendingIsPermits
    <3>2. CASE i = Len(pending) + 1
      BY <1>0, <1>2, <1>3, <3>2, Zenon
    <3>3. QED
      BY <1>2, <3>1, <3>2
  <2>3. ASSUME NEW p \in permits'
        PROVE  \E i \in 1 .. Len(pending') : pending'[i] = p.id
    <3>1. CASE p \in permits
      BY <1>0, <1>2, <3>1 DEF PendingIsPermits
    <3>2. CASE p = np
      BY <1>0, <1>2, <1>3, <3>2
    <3>3. QED
      BY <1>0, <3>1, <3>2, Zenon
  <2>4. QED
    BY <2>1, <2>2, <2>3, Zenon DEF PendingIsPermits
<1>7. Retired(pending', dispatched') = Retired(pending, dispatched)
  <2>1. CASE pending = << >>
    BY <1>0, <1>2, <2>1 DEF Retired, TypeOK
  <2>2. CASE pending # << >>
    BY <1>0, <1>2, <2>2 DEF Retired, TypeOK
  <2>3. QED
    BY <2>1, <2>2, Zenon
<1>8. ReleasedIsVisible'
  BY <1>0, <1>1, <1>3, <1>7, Zenon DEF ReleasedIsVisible
<1>9. PermitsDistinct'
  <2>1. \A p \in permits : p.id # d
    BY <1>0, PendingTyped DEF PendingIsPermits, PendingBounded
  <2>2. QED
    BY <1>0, <1>3, <2>1, Zenon DEF PermitsDistinct
<1>10. QED
  BY <1>4, <1>5, <1>6, <1>7, <1>8, <1>9, Zenon DEF CounterInv

\* retire() keeps the invariant, and only moves the frontier and the released
\* number forwards.
LEMMA RetireStep ==
    ASSUME CounterInv, NEW p \in permits, Retire(p)
    PROVE  /\ CounterInv'
           /\ Retired(pending', dispatched') >= Retired(pending, dispatched)
           /\ released' >= released
<1> USE CounterAssumption
<1>0. /\ TypeOK /\ PendingIsPermits /\ PendingBounded
      /\ PermitsDistinct /\ ReleasedIsVisible
      /\ permits' = permits \ {p}
      /\ dispatched' = dispatched
  BY Zenon DEF CounterInv, Retire
<1>1. PICK k \in 1 .. Len(pending) :
        /\ pending[k] = p.id
        /\ pending' = Without(pending, k)
        /\ \/ k = 1 /\ released' = ReleaseOf(Without(pending, k), p.id)
           \/ released' = released
  BY Zenon DEF Retire
<1>2. /\ Len(pending) \in Nat
      /\ pending' \in Seq(InitCount + 1 .. MaxId)
      /\ Len(pending') = Len(pending) - 1
      /\ \A j \in 1 .. Len(pending) - 1 :
            pending'[j] = IF j < k THEN pending[j] ELSE pending[j + 1]
  <2>1. pending \in Seq(InitCount + 1 .. MaxId)
    BY <1>0, Zenon DEF TypeOK
  <2>2. /\ Without(pending, k) \in Seq(InitCount + 1 .. MaxId)
        /\ Len(Without(pending, k)) = Len(pending) - 1
        /\ \A j \in 1 .. Len(pending) - 1 :
              Without(pending, k)[j] = IF j < k THEN pending[j] ELSE pending[j + 1]
    BY <2>1, WithoutFacts, Zenon
  <2>3. Len(pending) \in Nat
    BY <2>1
  <2>4. QED
    BY <1>1, <2>2, <2>3, Zenon
<1> DEFINE n == Len(pending)
<1>3. /\ n \in Nat /\ k \in 1 .. n /\ dispatched \in Nat
      /\ \A i \in 1 .. n : pending[i] \in Nat /\ pending[i] \in InitCount + 1 .. MaxId
      /\ p.id \in Nat /\ p.id \in InitCount + 1 .. MaxId
      /\ p.id <= dispatched
  BY <1>0, <1>1, PendingTyped, Zenon DEF PendingBounded
<1>a. \A i, j \in 1 .. n : i < j => pending[i] < pending[j]
  BY <1>0, Zenon DEF PendingIsPermits
<1>b. /\ \A j \in 1 .. n - 1 : \E m \in 1 .. n : m # k /\ pending'[j] = pending[m]
      /\ Len(pending') = n - 1
  <2>1. ASSUME NEW j \in 1 .. n - 1
        PROVE  \E m \in 1 .. n : m # k /\ pending'[j] = pending[m]
    <3>1. CASE j < k
      <4>1. j \in 1 .. n /\ j # k
        BY <1>3, <3>1
      <4>2. pending'[j] = pending[j]
        BY <1>2, <3>1, Zenon
      <4>3. QED
        BY <4>1, <4>2, Zenon
    <3>2. CASE ~(j < k)
      <4>1. j + 1 \in 1 .. n /\ j + 1 # k
        BY <1>3, <3>2
      <4>2. pending'[j] = pending[j + 1]
        BY <1>2, <3>2, Zenon
      <4>3. QED
        BY <4>1, <4>2, Zenon
    <3>3. QED
      BY <3>1, <3>2, Zenon
  <2>2. QED
    BY <1>2, <2>1, Zenon
<1> HIDE DEF n
<1>4. PendingBounded'
  <2>1. \A m \in 1 .. n : pending[m] <= dispatched
    BY <1>0, Zenon DEF PendingBounded, n
  <2>2. QED
    BY <1>0, <1>b, <2>1, Zenon DEF PendingBounded
<1>5. PendingIsPermits'
  <2>1. ASSUME NEW i \in 1 .. n - 1, NEW j \in 1 .. n - 1, i < j
        PROVE  pending'[i] < pending'[j]
    <3>1. /\ pending'[i] = IF i < k THEN pending[i] ELSE pending[i + 1]
          /\ pending'[j] = IF j < k THEN pending[j] ELSE pending[j + 1]
      BY <1>2, Zenon DEF n
    <3>2. i \in 1 .. n /\ i + 1 \in 1 .. n /\ j \in 1 .. n /\ j + 1 \in 1 .. n
      BY <1>3
    <3>3. QED
      BY <1>3, <1>a, <2>1, <3>1, <3>2
  <2>2. ASSUME NEW i \in 1 .. n - 1
        PROVE  \E q \in permits' : q.id = pending'[i]
    <3>1. PICK m \in 1 .. n : m # k /\ pending'[i] = pending[m]
      BY <1>b, Zenon
    <3>2. PICK q \in permits : q.id = pending[m]
      BY <1>0, Zenon DEF PendingIsPermits, n
    <3>3. pending[m] # pending[k]
      <4>1. m < k \/ k < m
        BY <1>3, <3>1
      <4>2. QED
        BY <1>3, <1>a, <4>1
    <3>4. QED
      BY <1>0, <1>1, <3>1, <3>2, <3>3, Zenon
  <2>3. ASSUME NEW q \in permits'
        PROVE  \E i \in 1 .. n - 1 : pending'[i] = q.id
    <3>1. PICK m \in 1 .. n : pending[m] = q.id
      BY <1>0, Zenon DEF PendingIsPermits, n
    <3>2. m # k
      BY <1>0, <1>1, <3>1, Zenon DEF PermitsDistinct
    <3>3. CASE m < k
      <4>1. m \in 1 .. n - 1
        BY <1>3, <3>3
      <4>2. pending'[m] = pending[m]
        BY <1>2, <3>3, <4>1, Zenon DEF n
      <4>3. QED
        BY <3>1, <4>1, <4>2, Zenon
    <3>4. CASE m > k
      <4>1. m - 1 \in 1 .. n - 1 /\ ~(m - 1 < k) /\ (m - 1) + 1 = m
        BY <1>3, <3>4
      <4>2. pending'[m - 1] = pending[m]
        BY <1>2, <4>1, Zenon DEF n
      <4>3. QED
        BY <3>1, <4>1, <4>2, Zenon
    <3>5. QED
      BY <1>3, <3>2, <3>3, <3>4
  <2>4. QED
    BY <1>b, <2>1, <2>2, <2>3, Zenon DEF PendingIsPermits
<1>6. PermitsDistinct'
  BY <1>0, Zenon DEF PermitsDistinct
<1>7. /\ Retired(pending, dispatched) \in Nat
      /\ Retired(pending, dispatched) = pending[1] - 1
      /\ released \in Nat /\ released <= pending[1] - 1
      /\ 1 \in 1 .. n
  <2>1. pending # << >> /\ 1 \in 1 .. n /\ Head(pending) = pending[1]
    BY <1>0, <1>3 DEF TypeOK, n
  <2>2. pending[1] \in Nat /\ pending[1] >= 1
    BY <1>3, <2>1, PendingTyped, <1>0
  <2>3. Retired(pending, dispatched) = pending[1] - 1
    BY <2>1, <2>2 DEF Retired
  <2>4. QED
    BY <1>0, <2>1, <2>2, <2>3, CounterAssumption DEF ReleasedIsVisible, TypeOK
\* The frontier after the step, by whether anything is left in flight.
<1>8. CASE n = 1
  <2>1. pending' = << >> /\ k = 1
    BY <1>2, <1>3, <1>b, <1>8
  <2>2. Retired(pending', dispatched') = dispatched
    BY <1>0, <2>1, Zenon DEF Retired
  <2>3. Without(pending, k) = << >>
    BY <1>1, <2>1, Zenon
  <2>4. released' \in {released, dispatched}
    BY <1>1, <2>3, Zenon DEF ReleaseOf
  <2>5. pending[1] <= dispatched
    BY <1>1, <1>3, <2>1, Zenon
  <2>6. /\ Retired(pending', dispatched') >= Retired(pending, dispatched)
        /\ released' >= released
        /\ released' <= Retired(pending', dispatched')
    BY <1>3, <1>7, <2>2, <2>4, <2>5
  <2>7. TypeOK' /\ ReleasedIsVisible'
    BY <1>0, <1>2, <2>4, <2>6, Zenon DEF TypeOK, ReleasedIsVisible
  <2>8. QED
    BY <1>4, <1>5, <1>6, <2>6, <2>7, Zenon DEF CounterInv
<1>9. CASE n # 1
  <2>1. n - 1 \in Nat /\ n - 1 >= 1 /\ 1 \in 1 .. n - 1 /\ 2 \in 1 .. n
    BY <1>3, <1>9
  <2>2. pending' # << >> /\ Head(pending') = pending'[1]
    BY <1>2, <1>b, <2>1
  <2>3. pending'[1] = IF 1 < k THEN pending[1] ELSE pending[2]
    BY <1>2, <2>1 DEF n
  <2>4. /\ pending[1] \in Nat /\ pending[1] >= 1
        /\ pending'[1] \in Nat /\ pending'[1] >= pending[1] /\ pending'[1] >= 1
    BY <1>0, <1>3, <1>7, <1>a, <2>1, <2>3, PendingTyped
  <2>5. Retired(pending', dispatched') = pending'[1] - 1
    BY <2>2, <2>4 DEF Retired
  <2>6. Without(pending, k) # << >>
    BY <1>1, <2>2, Zenon
  <2>7. \/ released' = released
        \/ released' = pending[1] /\ pending'[1] > pending[1]
    BY <1>1, <1>3, <1>7, <1>a, <2>1, <2>3, <2>6 DEF ReleaseOf
  <2>8. /\ Retired(pending', dispatched') >= Retired(pending, dispatched)
        /\ released' >= released
        /\ released' <= Retired(pending', dispatched')
    BY <1>3, <1>7, <2>4, <2>5, <2>7
  <2>9. released' \in InitCount .. MaxId
    BY <1>0, <1>3, <1>7, <2>7, PendingTyped DEF TypeOK
  <2>10. TypeOK' /\ ReleasedIsVisible'
    BY <1>0, <1>2, <2>8, <2>9, Zenon DEF TypeOK, ReleasedIsVisible
  <2>11. QED
    BY <1>4, <1>5, <1>6, <2>8, <2>10, Zenon DEF CounterInv
<1>10. QED
  BY <1>8, <1>9, Zenon

\* Every step keeps the invariant and never moves the frontier back.
LEMMA StepFacts ==
    ASSUME CounterInv, [Next]_vars
    PROVE  /\ CounterInv'
           /\ Retired(pending', dispatched') >= Retired(pending, dispatched)
           /\ released' >= released
<1>0. Retired(pending, dispatched) \in Nat /\ released \in Nat
  BY RetiredFacts, CounterAssumption DEF CounterInv, TypeOK
<1>1. CASE Dispatch
  BY <1>0, <1>1, DispatchStep DEF Dispatch
<1>2. CASE \E p \in permits : Retire(p)
  BY <1>2, RetireStep, Zenon
<1>3. CASE UNCHANGED vars
  BY <1>0, <1>3 DEF CounterInv, TypeOK, PendingIsPermits, PendingBounded,
     PermitsDistinct, ReleasedIsVisible, vars
<1>4. QED
  BY <1>1, <1>2, <1>3, Zenon DEF Next, DispatchFails

\* The invariant holds in every reachable state.
THEOREM CounterInvariant == Spec => []CounterInv
<1>1. CounterInv /\ [Next]_vars => CounterInv'
  BY StepFacts, Zenon
<1>2. QED
  BY InitIInv, <1>1, PTL DEF Spec

\* current() never reports a number whose permit is still alive: a reader
\* that samples it sees every row up to it.
THEOREM FrontierSafe == Spec => []NothingInFlightIsVisible
<1>1. CounterInv => NothingInFlightIsVisible
  BY RetiredFacts, Zenon DEF CounterInv
<1>2. QED
  BY CounterInvariant, <1>1, PTL

\* The debug_asserts on the queue of numbers in flight hold.
THEOREM QueueSound == Spec => []PendingIsPermits
<1>1. CounterInv => PendingIsPermits
  BY Zenon DEF CounterInv
<1>2. QED
  BY CounterInvariant, <1>1, PTL

\* Neither current() nor the released number ever decreases.
THEOREM FrontierNeverRetreats == Spec => FrontierMonotone
<1>1. CounterInv /\ [Next]_vars
        => [/\ Retired(pending', dispatched') >= Retired(pending, dispatched)
            /\ released' >= released]_vars
  BY StepFacts, Zenon
<1>2. QED
  BY CounterInvariant, <1>1, PTL DEF Spec, FrontierMonotone

-----------------------------------------------------------------------------
(* The poll of a client.                                                   *)

\* Every number is drawn once, and removed rows are a subset of the stored ones.
Numbering ==
    /\ \A n \in All(drawn) : n \in Nat /\ n <= count /\ n \notin stored
    /\ \A n \in stored : n \in Nat /\ n <= count
    /\ All(rows) \subseteq stored
    /\ drawn["device"] \cap drawn["kept"] = {}
    /\ DOMAIN drawn = RowKinds /\ DOMAIN rows = RowKinds
    /\ {count, token, since, next} \subseteq Nat
    /\ token <= count /\ since <= count /\ next <= count

\* A write that has drawn its number but not stored its row is raced with once
\* a position, or the sample it will become, is at or past it.
DrawnIsRaced ==
    \A n \in All(drawn) :
       \/ n <= token
       \/ pc # "idle" /\ n <= since
       \/ pc \in {"build", "wait", "answer"} /\ n <= next
       => n \in raced

\* The positions of the client and of its poll have passed received rows only.
PassedIsReceived ==
    \A n \in stored :
       \/ n <= token
       \/ pc # "idle" /\ n <= since
       \/ pc = "wait" /\ n <= next
       => n \in received \cup raced

\* An answer on its way holds what its next_batch passes.
AnswerIsComplete ==
    pc = "answer" => \A n \in stored : n <= next => n \in received \cup raced \cup reply

SinceBeforeNext == pc \in {"build", "wait", "answer"} => since <= next

\* From the sample on, a row stored past it has fired an armed watcher.
WakeupKept ==
    pc \in {"build", "wait"} /\ armed /\ (\E n \in stored : n > next) => woken

PollInv ==
    /\ Numbering
    /\ DrawnIsRaced
    /\ PassedIsReceived
    /\ AnswerIsComplete
    /\ SinceBeforeNext
    /\ RemovedIsReceived
    /\ WakeupKept

\* The invariant holds before the first write and the first poll.
LEMMA PollStart == PollInit => PollInv
BY DEF PollInit, PollInv, Numbering, DrawnIsRaced, PassedIsReceived, AnswerIsComplete,
       SinceBeforeNext, RemovedIsReceived, WakeupKept, All, RowKinds

\* A number drawn is new, so no position is at or past it.
LEMMA DrawStep ==
    ASSUME PollInv, NEW k \in RowKinds, Draw(k) PROVE PollInv'
<1>0. drawn'["device"] \cap drawn'["kept"] = {}
  BY DEF Draw, All, PollInv, Numbering, RowKinds
<1>1. /\ count' = count + 1 /\ All(drawn)' = All(drawn) \cup {count + 1}
      /\ All(rows)' = All(rows) /\ stored' = stored /\ rows' = rows
      /\ raced' = raced
      /\ DOMAIN drawn' = RowKinds
      /\ UNCHANGED <<pc, since, next, reply, token, received, armed, woken>>
  BY DEF Draw, All, PollInv, Numbering, poll, device
<1>2. QED
  BY <1>0, <1>1 DEF PollInv, Numbering, DrawnIsRaced, PassedIsReceived, AnswerIsComplete,
              SinceBeforeNext, RemovedIsReceived, WakeupKept

\* A row stored under a number some position has passed was raced with.
LEMMA PutStep ==
    ASSUME PollInv, NEW k \in RowKinds, NEW n \in 1 .. MaxCount, Put(k, n) PROVE PollInv'
<1>1. /\ n \in All(drawn) /\ stored' = stored \cup {n}
      /\ All(rows)' = All(rows) \cup {n}
      /\ All(drawn)' \subseteq All(drawn)
      /\ DOMAIN drawn' = RowKinds /\ DOMAIN rows' = RowKinds
      /\ UNCHANGED <<count, pc, since, next, reply, token, received, raced, armed>>
      /\ woken' = (woken \/ armed)
  BY DEF Put, All, PollInv, Numbering, device
<1>2. n \notin All(drawn)' /\ drawn'["device"] \cap drawn'["kept"] = {}
  BY DEF Put, All, PollInv, Numbering, RowKinds
<1>3. QED
  BY <1>1, <1>2, ZenonT(30) DEF PollInv, Numbering, DrawnIsRaced, PassedIsReceived, AnswerIsComplete,
              SinceBeforeNext, RemovedIsReceived, WakeupKept

\* The poll's own steps leave the writers alone.
LEMMA SampleStep ==
    ASSUME PollInv, Sample PROVE PollInv'
<1>1. /\ next' = count /\ pc' = "build" /\ raced' = raced \cup All(drawn)
      /\ since' = IF since > count THEN count ELSE since
      /\ UNCHANGED <<count, drawn, rows, stored, reply, token, received, armed, woken>>
      /\ All(drawn)' = All(drawn) /\ All(rows)' = All(rows) /\ pc = "sample"
  BY Zenon DEF Sample, server, device, All
<1>2. since' <= next' /\ since' = since
  BY <1>1 DEF PollInv, Numbering
<1>3. Numbering'
  BY <1>1, <1>2 DEF PollInv, Numbering
<1>4. WakeupKept'
  BY <1>1 DEF PollInv, Numbering, WakeupKept
<1>5. QED
  BY <1>1, <1>2, <1>3, <1>4, Zenon DEF PollInv, DrawnIsRaced, PassedIsReceived, AnswerIsComplete,
              SinceBeforeNext, RemovedIsReceived

\* A response holds every stored row of its range, and what it removes the
\* client had acknowledged.
LEMMA BuildStep ==
    ASSUME PollInv, Build PROVE PollInv'
<1>1. /\ pc = "build" /\ pc' \in {"answer", "wait"} /\ All(drawn)' = All(drawn)
      /\ UNCHANGED <<count, drawn, stored, since, next, token, received, raced, armed, woken>>
  BY Zenon DEF Build, device, All
<1>2. since <= next
  BY <1>1, Zenon DEF PollInv, SinceBeforeNext
<1>3. CASE rows' = rows /\ reply' = reply /\ ~(since < next) /\ pc' = "wait"
  <2>1. since = next /\ All(rows)' = All(rows)
    BY <1>2, <1>3 DEF PollInv, Numbering, All
  <2>2. QED
    BY <1>1, <1>3, <2>1, Zenon DEF PollInv, Numbering, DrawnIsRaced, PassedIsReceived,
       AnswerIsComplete, SinceBeforeNext, RemovedIsReceived, WakeupKept
<1>4. CASE /\ rows' = [rows EXCEPT !["device"] = @ \ Acknowledged]
           /\ reply' = Found
           /\ pc' = "wait" => Found = {}
  <2>1. DOMAIN rows' = RowKinds /\ All(rows)' \subseteq All(rows)
    BY <1>4 DEF PollInv, Numbering, All
  <2>2. \A n \in All(rows) : n \in All(rows)' \/ n <= since
    BY <1>4 DEF PollInv, Numbering, All, Acknowledged, RowKinds
  <2>3. \A n \in stored : n <= since => n \in received \cup raced
    BY <1>1, Zenon DEF PollInv, PassedIsReceived
  <2>4. RemovedIsReceived'
    BY <1>1, <2>2, <2>3, Zenon DEF PollInv, Numbering, RemovedIsReceived
  <2>5. \A n \in stored : n <= next => n \in received \cup raced \cup reply'
    BY <1>4, <2>3 DEF PollInv, Numbering, RemovedIsReceived, Found
  <2>6. Numbering'
    BY <1>1, <2>1, Zenon DEF PollInv, Numbering
  <2>7. PassedIsReceived'
    BY <1>1, <1>4, <2>3, <2>5, Zenon DEF PollInv, PassedIsReceived
  <2>8. DrawnIsRaced' /\ AnswerIsComplete' /\ SinceBeforeNext' /\ WakeupKept'
    BY <1>1, <1>2, <2>5, Zenon DEF PollInv, DrawnIsRaced, AnswerIsComplete, SinceBeforeNext, WakeupKept
  <2>9. QED
    BY <2>4, <2>6, <2>7, <2>8, Zenon DEF PollInv
<1>5. QED
  BY <1>3, <1>4, Zenon DEF Build

\* The invariant is inductive: one case for each action of PollNext.
LEMMA PollKeeps == PollInv /\ [PollNext]_pollVars => PollInv'
<1> SUFFICES ASSUME PollInv, [PollNext]_pollVars PROVE PollInv'
  BY Zenon
<1> USE DEF PollInv, Numbering, DrawnIsRaced, PassedIsReceived, AnswerIsComplete,
            SinceBeforeNext, RemovedIsReceived, WakeupKept
<1>1. ASSUME NEW k \in RowKinds, Draw(k) PROVE PollInv'
  BY <1>1, DrawStep, Zenon
<1>2. ASSUME NEW k \in RowKinds, NEW n \in 1 .. MaxCount, Put(k, n) PROVE PollInv'
  BY <1>2, PutStep, Zenon
<1>3. CASE Stop
  BY <1>3, Zenon DEF Stop, device, All
<1>4. CASE Restart
  BY <1>4 DEF Restart, device, All, RowKinds
<1>5. CASE Request
  BY <1>5 DEF Request, server, device, All
<1>6. CASE Arm
  BY <1>6 DEF Arm, server, device, All
<1>7. CASE Sample
  BY <1>7, SampleStep, Zenon
<1>8. CASE Build
  BY <1>8, BuildStep, Zenon
<1>9. CASE Woken
  BY <1>9 DEF Woken, server, device, All
<1>10. CASE EmptyResponse
  BY <1>10 DEF EmptyResponse, server, device, All
<1>11. CASE Answer
  BY <1>11 DEF Answer, server, All
<1>12. CASE Disconnect
  BY <1>12 DEF Disconnect, server, All
<1>13. CASE UNCHANGED pollVars
  BY <1>13 DEF pollVars, server, poll, device, All
<1>14. QED
  BY <1>1, <1>2, <1>3, <1>4, <1>5, <1>6, <1>7, <1>8, <1>9, <1>10, <1>11, <1>12, <1>13, Zenon
     DEF PollNext

\* The invariant holds throughout every behaviour.
LEMMA SyncInvariant == PollSpec => []PollInv
BY PollStart, PollKeeps, PTL DEF PollSpec

\* The client's position never passes a row it has not received, unless a poll
\* sampled the counter between the row's number being drawn and its being stored.
THEOREM PositionPassesReceivedRows == PollSpec => []PositionIsReceived
<1>1. PollInv => PositionIsReceived
  BY Zenon DEF PollInv, PassedIsReceived, PositionIsReceived
<1>2. QED
  BY SyncInvariant, <1>1, PTL

\* remove_to_device_events removes only rows the device received, with the same
\* exception, whatever answers are lost.
THEOREM RemovesReceivedRows == PollSpec => []RemovedIsReceived
BY SyncInvariant, PTL DEF PollInv

\* A poll never parks over a row that was stored after its sample: the watchers
\* armed before the sample have fired.
THEOREM NoWakeupIsLost == PollSpec => []NoLostWakeup
<1>1. PollInv => NoLostWakeup
  BY Zenon DEF PollInv, WakeupKept, NoLostWakeup
<1>2. QED
  BY SyncInvariant, <1>1, PTL

\* The three promises of the long poll together.
THEOREM PollIsSound == PollSpec => []PollSound
BY PositionPassesReceivedRows, RemovesReceivedRows, NoWakeupIsLost, PTL DEF PollSound

-----------------------------------------------------------------------------
(* Ephemeral updates for another server.                                   *)

UpdateRow == [count : Nat, kind : Kinds, user : Users]

EdusTypes ==
  /\ lastcount \in Nat /\ educount \in Nat
  /\ writing \in SUBSET UpdateRow /\ updates \in SUBSET UpdateRow
  /\ selecting \in [on : BOOLEAN, since : Nat, upper : Nat, left : SUBSET Kinds, max : Nat]

\* Who has been dealt with, up to a number.
DealtWith == selected \cup cut \cup passed

EdusInv ==
  /\ EdusTypes
  /\ educount <= lastcount
  /\ \A r \in writing \cup updates : r.count <= lastcount
  /\ \A w \in writing : w.count <= educount => w.count \in passed
  /\ NoneSkipped
  /\ selecting.on =>
       /\ selecting.since = educount /\ educount <= selecting.max
       /\ selecting.max <= selecting.upper /\ selecting.upper <= lastcount
       /\ \A w \in writing : w.count <= selecting.upper => w.count \in passed
       /\ \A r \in updates : r.user \in Locals /\ r.count <= selecting.upper /\ r.kind \notin selecting.left
            => r.count \in DealtWith

LEMMA EdusStart == EdusInit => EdusInv
BY DEF EdusInit, EdusInv, EdusTypes, NoneSkipped, NoSelection

LEMMA UpdateStartKeeps ==
  ASSUME EdusInv, NEW k \in Kinds, NEW u \in Users, UpdateStart(k, u)
  PROVE  EdusInv'
<1> DEFINE w == [count |-> lastcount + 1, kind |-> k, user |-> u]
<1>1. /\ lastcount' = lastcount + 1 /\ writing' = writing \cup {w}
      /\ UNCHANGED <<updates, educount, selecting, selected, cut, passed>>
  BY Zenon DEF UpdateStart
<1>2. w \in UpdateRow /\ w.count = lastcount + 1
  BY DEF UpdateRow, EdusInv, EdusTypes
<1> HIDE DEF w
<1>3. EdusTypes'
  BY <1>1, <1>2 DEF EdusInv, EdusTypes
<1>4. \A r \in writing \cup updates : r.count \in Nat
  BY Zenon DEF EdusInv, EdusTypes, UpdateRow
<1>5. selecting.upper \in Nat /\ educount \in Nat /\ lastcount \in Nat
  BY Zenon DEF EdusInv, EdusTypes
<1> QED
  BY <1>1, <1>2, <1>3, <1>4, <1>5 DEF EdusInv, NoneSkipped, DealtWith

LEMMA UpdatePutKeeps ==
  ASSUME EdusInv, NEW w \in writing, UpdatePut(w)
  PROVE  EdusInv'
<1>1. /\ writing' = writing \ {w}
      /\ updates' \in SUBSET (updates \cup {w})
      /\ UNCHANGED <<lastcount, educount, selecting, selected, cut, passed>>
  BY Zenon DEF UpdatePut
<1>2. EdusTypes'
  BY <1>1, Zenon DEF EdusInv, EdusTypes
<1> QED
  BY <1>1, <1>2, Zenon DEF EdusInv, NoneSkipped, DealtWith

LEMMA WindowKeeps == ASSUME EdusInv, select_edus PROVE EdusInv'
<1> DEFINE new == [on |-> TRUE, since |-> educount, upper |-> lastcount, left |-> Kinds, max |-> educount]
<1>1. /\ selecting' = new /\ passed' = passed \cup {w.count : w \in writing}
      /\ UNCHANGED <<lastcount, writing, updates, educount, selected, cut>>
  BY Zenon DEF select_edus, current_count
<1>2. /\ new \in [on : BOOLEAN, since : Nat, upper : Nat, left : SUBSET Kinds, max : Nat]
      /\ new.since = educount /\ new.upper = lastcount /\ new.left = Kinds /\ new.max = educount
  BY Zenon DEF EdusInv, EdusTypes
<1> HIDE DEF new
<1>3. EdusTypes'
  BY <1>1, <1>2, Zenon DEF EdusInv, EdusTypes
<1>4. \A r \in updates : r.kind \in Kinds
  BY Zenon DEF EdusInv, EdusTypes, UpdateRow
<1>5. NoneSkipped'
  BY <1>1, Zenon DEF EdusInv, NoneSkipped
<1> QED
  BY <1>1, <1>2, <1>3, <1>4, <1>5 DEF EdusInv, EdusTypes

LEMMA SelectKeeps ==
  ASSUME EdusInv, NEW k \in Kinds, NEW seen \in SUBSET InWindow(k), SelectKind(k, seen)
  PROVE  EdusInv'
<1> DEFINE taken == {r \in seen : r.user \in Locals}
           due == {r \in InWindow(k) : r.user \in Locals}
           counts == {selecting.max} \cup {r.count : r \in seen}
<1>0. PICK top \in counts : /\ \A c \in counts : c <= top
                            /\ selecting' = [selecting EXCEPT !.left = @ \ {k}, !.max = top]
  BY Zenon DEF SelectKind
<1> DEFINE new == [selecting EXCEPT !.left = @ \ {k}, !.max = top]
<1>1. /\ selecting.on /\ selecting' = new
      /\ selected' = selected \cup {r.count : r \in taken}
      /\ cut' = cut \cup {r.count : r \in due \ taken}
      /\ UNCHANGED <<lastcount, writing, updates, educount, passed>>
  BY <1>0, Zenon DEF SelectKind
<1>2. /\ selecting.max \in Nat /\ selecting.upper \in Nat /\ selecting.max <= selecting.upper
      /\ selecting.left \in SUBSET Kinds
  BY <1>1, Zenon DEF EdusInv, EdusTypes
<1>3. \A r \in seen : r.count \in Nat /\ r.count <= selecting.upper
  BY Zenon DEF InWindow, EdusInv, EdusTypes, UpdateRow
<1>4. selecting.max <= top
  BY <1>0, Zenon
<1>5. top \in Nat /\ top <= selecting.upper
  BY <1>2, <1>3, Zenon
<1>6. /\ new \in [on : BOOLEAN, since : Nat, upper : Nat, left : SUBSET Kinds, max : Nat]
      /\ new.on = selecting.on /\ new.since = selecting.since /\ new.upper = selecting.upper
      /\ new.left = selecting.left \ {k} /\ new.max = top
  BY <1>5, ZenonT(30) DEF EdusInv, EdusTypes
<1> HIDE DEF new
<1>7. EdusTypes'
  BY <1>1, <1>6, Zenon DEF EdusInv, EdusTypes
<1>8. \A r \in due : r.count \in selected' \cup cut'
  BY <1>1, Zenon
<1>9. NoneSkipped'
  BY <1>1, Zenon DEF EdusInv, NoneSkipped
<1>10. ASSUME NEW r \in updates, r.user \in Locals, r.count <= selecting.upper, r.kind \notin new.left
       PROVE  r.count \in DealtWith'
  <2>1. CASE r.kind \notin selecting.left
    BY <1>1, <1>10, <2>1, Zenon DEF EdusInv, DealtWith
  <2>2. CASE r.kind = k /\ r.count <= educount
    BY <1>1, <1>10, <2>2, Zenon DEF EdusInv, NoneSkipped, DealtWith
  <2>3. CASE r.kind = k /\ ~(r.count <= educount)
    <3>1. selecting.since = educount /\ educount \in Nat /\ r.count \in Nat
      BY <1>1, Zenon DEF EdusInv, EdusTypes, UpdateRow
    <3>2. selecting.since < r.count
      BY <2>3, <3>1
    <3>3. r \in InWindow(k)
      BY <1>10, <2>3, <3>2, Zenon DEF InWindow
    <3>4. r \in due
      BY <1>10, <3>3, Zenon
    <3> QED
      BY <1>8, <3>4, Zenon DEF DealtWith
  <2> QED
    BY <1>6, <1>10, <2>1, <2>2, <2>3, Zenon
<1>11. educount <= top
  BY <1>1, <1>2, <1>4, <1>5 DEF EdusInv, EdusTypes
<1> QED
  BY <1>1, <1>5, <1>6, <1>7, <1>9, <1>10, <1>11, Zenon DEF EdusInv

LEMMA KeepPositionKeeps == ASSUME EdusInv, set_latest_educount PROVE EdusInv'
<1>1. /\ selecting.on /\ selecting.left = {} /\ educount' = selecting.max /\ selecting' = NoSelection
      /\ UNCHANGED <<lastcount, writing, updates, selected, cut, passed>>
  BY Zenon DEF set_latest_educount
<1>2. NoSelection \in [on : BOOLEAN, since : Nat, upper : Nat, left : SUBSET Kinds, max : Nat] /\ ~NoSelection.on
  BY Zenon DEF NoSelection
<1>3. EdusTypes'
  BY <1>1, <1>2, Zenon DEF EdusInv, EdusTypes
<1>4. selecting.max \in Nat /\ selecting.upper \in Nat /\ lastcount \in Nat
      /\ \A r \in writing \cup updates : r.count \in Nat
  BY Zenon DEF EdusInv, EdusTypes, UpdateRow
<1>5. NoneSkipped'
  BY <1>1, <1>4 DEF EdusInv, NoneSkipped, DealtWith
<1>6. selecting.max <= lastcount
  BY <1>1, <1>4 DEF EdusInv
<1>7. \A w \in writing : w.count <= selecting.max => w.count \in passed
  BY <1>1, <1>4 DEF EdusInv
<1> QED
  BY <1>1, <1>2, <1>3, <1>5, <1>6, <1>7, Zenon DEF EdusInv

LEMMA EdusKeeps == EdusInv /\ [EdusNext]_evars => EdusInv'
<1> SUFFICES ASSUME EdusInv, [EdusNext]_evars PROVE EdusInv'
  BY Zenon
<1>1. CASE UNCHANGED evars
  BY <1>1, Zenon DEF evars, EdusInv, EdusTypes, NoneSkipped, DealtWith
<1>2. CASE select_edus_device_changes
  BY <1>2, SelectKeeps, Zenon DEF select_edus_device_changes, Kinds
<1>3. CASE select_edus_receipts
  BY <1>3, SelectKeeps, Zenon DEF select_edus_receipts, Kinds
<1>4. CASE select_edus_presence
  BY <1>4, SelectKeeps, Zenon DEF select_edus_presence, Kinds
<1> QED
  BY <1>1, <1>2, <1>3, <1>4, UpdateStartKeeps, UpdatePutKeeps, WindowKeeps, KeepPositionKeeps, Zenon DEF EdusNext

(* The position kept for a server passes no update of our users that no
   transaction carried, apart from what a limit left out and what had drawn
   its number without being stored (sender/edus.rs, select_edus). *)
THEOREM PositionSkipsNothing == EdusSpec => []NoneSkipped
<1>1. EdusInv => NoneSkipped
  BY Zenon DEF EdusInv
<1> QED
  BY <1>1, EdusStart, EdusKeeps, PTL DEF EdusSpec

-----------------------------------------------------------------------------
(* Presence and typing.                                                    *)

WriterType == [pc : {"idle", "write", "arm"}, state : States, ago : Nat]
Pcs == {"idle", "look", "users"}

EphemeralTypes ==
  /\ clock \in Nat
  /\ presence \in [state : States \cup {"none"}, ts : Int, here : BOOLEAN]
  /\ writers \in [Writers -> WriterType]
  /\ timers \in SUBSET Int
  /\ typing \in [Typers -> Int]
  /\ update \in Nat /\ counted \in Nat
  /\ watcher.pc \in Pcs /\ watcher.next \in Nat /\ watcher.update \in Nat /\ watcher.token \in Nat

\* A timer ends late enough to step the row down.
TimerSet == \E due \in timers : due >= presence.ts + timeout_of(presence.state)

(* What keeps SteppedDown: a writer past its write has a timer to start for
   the very state of the row, or one is already set, or a write is to come.
   A writer merely not idle would not do: it may be about to start a timer
   for a state the row has left. *)
PresenceInv ==
  /\ presence.ts <= clock
  /\ presence.here /\ presence.state \in {"online", "unavailable"} =>
       \/ \E w \in Writers : writers[w].pc = "write"
       \/ \E w \in Writers : writers[w].pc = "arm" /\ writers[w].state = presence.state
       \/ TimerSet

(* What keeps TypingIsSeen: a change draws a number above every next_batch
   fixed so far, so that an answer whose next_batch covers the last change
   read that change. *)
TypingInv ==
  /\ update <= counted /\ watcher.token <= counted
  /\ watcher.pc # "idle" => watcher.next <= counted
  /\ watcher.pc = "users" /\ update <= watcher.next => watcher.update = update
  /\ TypingIsSeen

EphemeralInv == EphemeralTypes /\ PresenceInv /\ TypingInv

LEMMA EphemeralStart == PresenceInit /\ TypingInit => EphemeralInv
BY DEF PresenceInit, TypingInit, EphemeralInv, EphemeralTypes, PresenceInv, TypingInv, TypingIsSeen, Typing,
       WriterType, NoWriter, States, Writers, Pcs

LEMMA TimeoutsAreNumbers == \A s : timeout_of(s) \in Nat
BY EphemeralAssumption, Zenon DEF timeout_of

\* One writer's record replaced by another of the same type.
LEMMA WriterReplaced ==
  ASSUME EphemeralTypes, NEW w \in Writers, NEW r \in WriterType, writers' = [writers EXCEPT ![w] = r]
  PROVE  /\ writers' \in [Writers -> WriterType] /\ writers'[w] = r
         /\ \A v \in Writers : v # w => writers'[v] = writers[v]
BY Zenon DEF EphemeralTypes

LEMMA PresenceLeavesTyping ==
  ASSUME TypingInv, UNCHANGED typingVars
  PROVE  TypingInv'
BY Zenon DEF TypingInv, TypingIsSeen, Typing, typingVars

LEMMA BeginKeeps ==
  ASSUME EphemeralInv, NEW w \in Writers, NEW s \in States, NEW a \in Nat, Begin(w, s, a),
         UNCHANGED << clock, presence, typingVars >>, timers' \in SUBSET timers
  PROVE  EphemeralInv'
<1> DEFINE r == [pc |-> "write", state |-> s, ago |-> a]
<1>1. r \in WriterType /\ r.pc = "write"
  BY Zenon DEF WriterType
<1>2. writers' = [writers EXCEPT ![w] = r]
  BY Zenon DEF Begin
<1> HIDE DEF r
<1>3. writers' \in [Writers -> WriterType] /\ writers'[w].pc = "write"
  BY <1>1, <1>2, WriterReplaced, Zenon DEF EphemeralInv
<1>4. EphemeralTypes'
  BY <1>3, Zenon DEF EphemeralInv, EphemeralTypes, typingVars
<1>5. PresenceInv'
  BY <1>3, Zenon DEF EphemeralInv, PresenceInv
<1> QED
  BY <1>4, <1>5, PresenceLeavesTyping, Zenon DEF EphemeralInv

LEMMA PingKeeps == ASSUME EphemeralInv, NEW s \in States, ping_presence(s) PROVE EphemeralInv'
BY BeginKeeps, Zenon DEF ping_presence, Writers

LEMMA WritePresenceKeeps == ASSUME EphemeralInv, NEW w \in Writers, WritePresence(w) PROVE EphemeralInv'
<1> DEFINE new == writers[w]
           row == [state |-> new.state, ts |-> clock - new.ago, here |-> TRUE]
           r == [new EXCEPT !.pc = "arm"]
<1>1. new \in WriterType /\ new.state \in States /\ new.ago \in Nat /\ clock \in Nat
  BY Zenon DEF EphemeralInv, EphemeralTypes, WriterType
<1>2. r \in WriterType /\ r.pc = "arm" /\ r.state = new.state
  BY <1>1, Zenon DEF WriterType
<1>3. writers' = [writers EXCEPT ![w] = r]
  BY Zenon DEF WritePresence
<1>4. /\ presence' = row \/ (presence' = presence /\ presence.state = new.state)
      /\ UNCHANGED << clock, timers, typingVars >>
  BY Zenon DEF WritePresence
<1>5. /\ row \in [state : States \cup {"none"}, ts : Int, here : BOOLEAN]
      /\ row.state = new.state /\ row.ts <= clock
  BY <1>1
<1> HIDE DEF new, row, r
<1>6. writers' \in [Writers -> WriterType] /\ writers'[w] = r
  BY <1>2, <1>3, WriterReplaced, Zenon DEF EphemeralInv
<1>7. EphemeralTypes'
  BY <1>4, <1>5, <1>6, Zenon DEF EphemeralInv, EphemeralTypes, typingVars
<1>8. presence'.state = new.state /\ presence'.ts <= clock
  BY <1>4, <1>5, Zenon DEF EphemeralInv, PresenceInv
<1>9. PresenceInv'
  BY <1>2, <1>4, <1>6, <1>8, Zenon DEF PresenceInv
<1> QED
  BY <1>4, <1>7, <1>9, PresenceLeavesTyping, Zenon DEF EphemeralInv

LEMMA SendTimerKeeps == ASSUME EphemeralInv, NEW w \in Writers, SendTimer(w) PROVE EphemeralInv'
<1> DEFINE due == clock + timeout_of(writers[w].state)
<1>1. /\ timers' = timers \cup {due} /\ writers' = [writers EXCEPT ![w] = NoWriter]
      /\ writers[w].pc = "arm" /\ UNCHANGED << clock, presence, typingVars >>
  BY Zenon DEF SendTimer
<1>2. NoWriter \in WriterType
  BY Zenon DEF NoWriter, WriterType, States
<1>3. writers' \in [Writers -> WriterType] /\ \A v \in Writers : v # w => writers'[v] = writers[v]
  BY <1>1, <1>2, WriterReplaced, Zenon DEF EphemeralInv
<1>4. due \in Int /\ clock \in Nat
  BY TimeoutsAreNumbers DEF EphemeralInv, EphemeralTypes
<1>5. EphemeralTypes'
  BY <1>1, <1>3, <1>4, ZenonT(30) DEF EphemeralInv, EphemeralTypes, typingVars
<1>6. writers[w].state = presence.state => due >= presence.ts + timeout_of(presence.state)
  BY TimeoutsAreNumbers DEF EphemeralInv, EphemeralTypes, PresenceInv
<1>7. PresenceInv'
  <2> HIDE DEF due
  <2>1. ASSUME presence.here, presence.state \in {"online", "unavailable"}
        PROVE  \/ \E v \in Writers : writers'[v].pc = "write"
               \/ \E v \in Writers : writers'[v].pc = "arm" /\ writers'[v].state = presence.state
               \/ \E d \in timers' : d >= presence.ts + timeout_of(presence.state)
    <3>1. CASE \E v \in Writers : writers[v].pc = "write"
      BY <1>1, <1>3, <3>1, Zenon
    <3>2. CASE \E v \in Writers : writers[v].pc = "arm" /\ writers[v].state = presence.state
      BY <1>1, <1>3, <1>6, <3>2, Zenon
    <3>3. CASE TimerSet
      BY <1>1, <3>3, Zenon DEF TimerSet
    <3> QED
      BY <2>1, <3>1, <3>2, <3>3, Zenon DEF EphemeralInv, PresenceInv
  <2> QED
    BY <1>1, <2>1, Zenon DEF EphemeralInv, PresenceInv, TimerSet, timeout_of
<1> QED
  BY <1>1, <1>5, <1>7, PresenceLeavesTyping, Zenon DEF EphemeralInv

LEMMA TimerEndsKeeps == ASSUME EphemeralInv, NEW due \in timers, process_presence_timer(due) PROVE EphemeralInv'
<1>1. timers' = timers \ {due} /\ due <= clock /\ UNCHANGED << clock, presence, typingVars >>
  BY Zenon DEF process_presence_timer
<1>2. Ago \in Nat /\ "timer" \in Writers /\ {"unavailable", "offline"} \subseteq States
  BY DEF Ago, EphemeralInv, EphemeralTypes, PresenceInv, Writers, States
<1>3. CASE Begin("timer", "unavailable", Ago)
  BY <1>1, <1>2, <1>3, BeginKeeps, Zenon
<1>4. CASE Begin("timer", "offline", Ago)
  BY <1>1, <1>2, <1>4, BeginKeeps, Zenon
<1>5. CASE /\ ~(presence.state = "online" /\ Ago >= IdleAfter)
           /\ ~(presence.state = "unavailable" /\ Ago >= OfflineAfter)
           /\ UNCHANGED writers
  <2>1. EphemeralTypes'
    BY <1>1, <1>5, Zenon DEF EphemeralInv, EphemeralTypes, typingVars
  <2>2. presence.state \in {"online", "unavailable"} => ~(due >= presence.ts + timeout_of(presence.state))
    BY <1>1, <1>5, EphemeralAssumption DEF Ago, timeout_of, EphemeralInv, EphemeralTypes
  <2>3. PresenceInv'
    BY <1>1, <1>5, <2>2, Zenon DEF EphemeralInv, PresenceInv, TimerSet, timeout_of
  <2> QED
    BY <1>1, <2>1, <2>3, PresenceLeavesTyping, Zenon DEF EphemeralInv
<1> QED
  BY <1>3, <1>4, <1>5, Zenon DEF process_presence_timer

LEMMA RebootKeeps == ASSUME EphemeralInv, RebootPresence PROVE EphemeralInv'
<1> DEFINE row == [presence EXCEPT !.here = FALSE]
<1>1. /\ presence' = row /\ timers' = {} /\ writers' = [w \in Writers |-> NoWriter]
      /\ UNCHANGED << clock, typingVars >>
  BY Zenon DEF RebootPresence
<1>2. /\ row \in [state : States \cup {"none"}, ts : Int, here : BOOLEAN]
      /\ ~row.here /\ row.ts = presence.ts
  BY ZenonT(30) DEF EphemeralInv, EphemeralTypes
<1> HIDE DEF row
<1>3. EphemeralTypes'
  BY <1>1, <1>2, Zenon DEF EphemeralInv, EphemeralTypes, typingVars, WriterType, NoWriter, States
<1>4. PresenceInv'
  BY <1>1, <1>2, Zenon DEF EphemeralInv, PresenceInv
<1> QED
  BY <1>1, <1>3, <1>4, PresenceLeavesTyping, Zenon DEF EphemeralInv

LEMMA TimeKeeps == ASSUME EphemeralInv, PassTime PROVE EphemeralInv'
<1>1. clock' = clock + 1 /\ UNCHANGED << presenceVars, typingVars >>
  BY Zenon DEF PassTime
<1>2. EphemeralTypes'
  BY <1>1 DEF EphemeralInv, EphemeralTypes, presenceVars, typingVars
<1>3. PresenceInv'
  BY <1>1 DEF EphemeralInv, EphemeralTypes, PresenceInv, TimerSet, presenceVars, timeout_of
<1> QED
  BY <1>1, <1>2, <1>3, PresenceLeavesTyping, Zenon DEF EphemeralInv

LEMMA TypingLeavesPresence ==
  ASSUME PresenceInv, UNCHANGED << clock, presenceVars >>
  PROVE  PresenceInv'
BY Zenon DEF PresenceInv, TimerSet, presenceVars, timeout_of

\* What a change of the typing users does: a number above every other.
LEMMA Changed ==
  ASSUME EphemeralTypes, TypingInv, NEW users \in [Typers -> Int], Change(users)
  PROVE  /\ counted' \in Nat /\ update' \in Nat /\ typing' \in [Typers -> Int]
         /\ update' = counted' /\ counted < counted' /\ watcher.token < update'
         /\ watcher.pc # "idle" => watcher.next < update'
BY DEF EphemeralTypes, TypingInv, Change

LEMMA Maintained ==
  ASSUME EphemeralTypes, TypingInv, typings_maintain
  PROVE  \/ UNCHANGED << typing, update, counted >>
         \/ \E users \in [Typers -> Int] : Change(users)
<1>1. [u \in Typers |-> IF u \in Expired THEN -1 ELSE typing[u]] \in [Typers -> Int]
  BY DEF EphemeralTypes
<1> QED
  BY <1>1, Zenon DEF typings_maintain

LEMMA TypingChangeKeeps ==
  ASSUME EphemeralInv, NEW users \in [Typers -> Int], Change(users), UNCHANGED << clock, presenceVars, watcher >>
  PROVE  EphemeralInv'
<1>1. /\ counted' \in Nat /\ update' \in Nat /\ typing' \in [Typers -> Int]
      /\ update' = counted' /\ counted < counted' /\ watcher.token < update'
      /\ watcher.pc # "idle" => watcher.next < update'
  BY Changed, Zenon DEF EphemeralInv
<1>2. EphemeralTypes'
  BY <1>1, Zenon DEF EphemeralInv, EphemeralTypes, presenceVars
<1>3. TypingInv'
  BY <1>1 DEF EphemeralInv, EphemeralTypes, TypingInv, TypingIsSeen
<1> QED
  BY <1>2, <1>3, TypingLeavesPresence, Zenon DEF EphemeralInv

LEMMA SampleKeeps == ASSUME EphemeralInv, SampleTyping PROVE EphemeralInv'
<1>1. /\ watcher'.pc = "look" /\ watcher'.next = counted /\ watcher'.update = watcher.update
      /\ watcher'.token = watcher.token /\ watcher'.seen = watcher.seen
      /\ UNCHANGED << clock, presenceVars, typing, update, counted >>
  BY DEF SampleTyping, EphemeralInv, EphemeralTypes
<1>2. EphemeralTypes'
  BY <1>1, Zenon DEF EphemeralInv, EphemeralTypes, presenceVars, Pcs
<1>3. TypingInv'
  BY <1>1 DEF EphemeralInv, EphemeralTypes, TypingInv, TypingIsSeen, Typing
<1> QED
  BY <1>1, <1>2, <1>3, TypingLeavesPresence, Zenon DEF EphemeralInv

LEMMA LastUpdateKeeps == ASSUME EphemeralInv, last_typing_update PROVE EphemeralInv'
<1>1. /\ watcher.pc = "look" /\ typings_maintain
      /\ watcher'.pc = "users" /\ watcher'.update = update' /\ watcher'.next = watcher.next
      /\ watcher'.token = watcher.token /\ watcher'.seen = watcher.seen
      /\ UNCHANGED << clock, presenceVars >>
  BY DEF last_typing_update, EphemeralInv, EphemeralTypes
<1>2. /\ counted' \in Nat /\ update' \in Nat /\ typing' \in [Typers -> Int]
      /\ update' <= counted' /\ counted <= counted'
      /\ update' <= watcher.token => UNCHANGED << typing, update >>
  BY <1>1, Maintained, Changed DEF EphemeralInv, EphemeralTypes, TypingInv
<1>3. EphemeralTypes'
  BY <1>1, <1>2, Zenon DEF EphemeralInv, EphemeralTypes, presenceVars, Pcs
<1>4. TypingInv'
  BY <1>1, <1>2 DEF EphemeralInv, EphemeralTypes, TypingInv, TypingIsSeen, Typing
<1> QED
  BY <1>1, <1>3, <1>4, TypingLeavesPresence, Zenon DEF EphemeralInv

LEMMA UsersReadKeeps == ASSUME EphemeralInv, typing_users_for_user PROVE EphemeralInv'
<1>1. /\ watcher.pc = "users" /\ watcher'.pc = "idle" /\ watcher'.next = 0 /\ watcher'.update = 0
      /\ watcher'.token = watcher.next
      /\ watcher'.seen = IF watcher.update > watcher.token THEN Typing ELSE watcher.seen
      /\ UNCHANGED << clock, presenceVars, typing, update, counted >>
  BY Zenon DEF typing_users_for_user
<1>2. EphemeralTypes'
  BY <1>1 DEF EphemeralInv, EphemeralTypes, presenceVars, Pcs
<1>3. update <= watcher.next => watcher'.seen = Typing
  BY <1>1 DEF EphemeralInv, EphemeralTypes, TypingInv, TypingIsSeen
<1>4. TypingInv'
  BY <1>1, <1>3, Zenon DEF EphemeralInv, EphemeralTypes, TypingInv, TypingIsSeen, Typing
<1> QED
  BY <1>1, <1>2, <1>4, TypingLeavesPresence, Zenon DEF EphemeralInv

LEMMA SnapshotKeeps == ASSUME EphemeralInv, typing_snapshot_for_user PROVE EphemeralInv'
<1>1. /\ watcher.pc = "look" /\ typings_maintain
      /\ watcher'.pc = "idle" /\ watcher'.next = 0 /\ watcher'.update = 0 /\ watcher'.token = watcher.next
      /\ watcher'.seen = IF watcher.token < update' /\ update' <= watcher.next
                         THEN {u \in Typers : typing'[u] # -1} ELSE watcher.seen
      /\ UNCHANGED << clock, presenceVars >>
  BY Zenon DEF typing_snapshot_for_user
<1>2. /\ counted' \in Nat /\ update' \in Nat /\ typing' \in [Typers -> Int]
      /\ update' <= counted' /\ counted <= counted'
      /\ update' <= watcher.token => UNCHANGED << typing, update >>
  BY <1>1, Maintained, Changed DEF EphemeralInv, EphemeralTypes, TypingInv
<1>3. EphemeralTypes'
  BY <1>1, <1>2 DEF EphemeralInv, EphemeralTypes, presenceVars, Pcs
<1>4. update' <= watcher.next => watcher'.seen = {u \in Typers : typing'[u] # -1}
  <2>1. CASE update' <= watcher.token
    BY <1>1, <1>2, <2>1 DEF EphemeralInv, EphemeralTypes, TypingInv, TypingIsSeen, Typing
  <2>2. CASE ~(update' <= watcher.token)
    BY <1>1, <1>2, <2>2 DEF EphemeralInv, EphemeralTypes
  <2> QED
    BY <2>1, <2>2, Zenon
<1>5. TypingInv'
  BY <1>1, <1>2, <1>4 DEF EphemeralInv, EphemeralTypes, TypingInv, TypingIsSeen, Typing
<1> QED
  BY <1>1, <1>3, <1>5, TypingLeavesPresence, Zenon DEF EphemeralInv

LEMMA EphemeralKeeps == EphemeralInv /\ [PresenceNext \/ TypingNext]_ephemeralVars => EphemeralInv'
<1> SUFFICES ASSUME EphemeralInv, [PresenceNext \/ TypingNext]_ephemeralVars PROVE EphemeralInv'
  BY Zenon
<1>1. CASE UNCHANGED ephemeralVars
  BY <1>1, PresenceLeavesTyping, TypingLeavesPresence, Zenon
     DEF ephemeralVars, presenceVars, typingVars, EphemeralInv, EphemeralTypes
<1>2. CASE \E u \in Typers : typing_add(u)
  <2>1. \A u \in Typers : [typing EXCEPT ![u] = clock + TypingFor] \in [Typers -> Int]
    BY EphemeralAssumption DEF EphemeralInv, EphemeralTypes
  <2> QED
    BY <1>2, <2>1, TypingChangeKeeps, Zenon DEF typing_add
<1>3. CASE \E u \in Typers : typing_remove(u)
  <2>1. \A u \in Typers : [typing EXCEPT ![u] = -1] \in [Typers -> Int]
    BY DEF EphemeralInv, EphemeralTypes
  <2> QED
    BY <1>3, <2>1, TypingChangeKeeps, Zenon DEF typing_remove
<1>4. CASE PresenceNext
  BY <1>4, PingKeeps, WritePresenceKeeps, SendTimerKeeps, TimerEndsKeeps, RebootKeeps, TimeKeeps, Zenon DEF PresenceNext
<1>5. CASE TypingNext
  BY <1>2, <1>3, <1>5, SampleKeeps, LastUpdateKeeps, UsersReadKeeps, SnapshotKeeps, TimeKeeps, Zenon DEF TypingNext
<1> QED
  BY <1>1, <1>4, <1>5, Zenon

(* While the server runs, a user shown online or unavailable has a write
   under way or a timer late enough to step them down, and a client whose
   token covers the last change of the typing users shows those users
   (presence/mod.rs, typing/mod.rs). *)
THEOREM EphemeralIsSound == EphemeralSpec => []EphemeralSound
<1>1. EphemeralInv => EphemeralSound
  BY Zenon DEF EphemeralInv, PresenceInv, TypingInv, TimerSet, EphemeralSound, SteppedDown
<1> QED
  BY <1>1, EphemeralStart, EphemeralKeeps, PTL DEF EphemeralSpec

=============================================================================
