--------------------------- MODULE SendingProofs ---------------------------
(***************************************************************************)
(* For any number of destinations, events, crashes and restarts: at most   *)
(* one transaction per destination is in flight, handle_response_err never *)
(* panics, and with the startup burst on no accepted event is lost; and    *)
(* the sender implements the outbox.                                       *)
(***************************************************************************)
EXTENDS Sending, TLAPS

\* How long the two provers may take over a leaf.
USE SMTT(30), ZenonT(30)

\* A stopped server has nothing in flight.
DownIsIdle == phase = "down" => futures = {}

\* The inductive invariant.
IInv == /\ TypeOK
        /\ DownIsIdle
        /\ OneInFlight
        /\ ActiveIsInFlight
        /\ NothingLost

\* The rows dequeued are rows of the table.
LEMMA TakeSubset == \A S, n : Take(S, n) \subseteq S
BY Zenon DEF Take

\* Flush is not a queue key, so no event is one.
LEMMA NewItemsType ==
    ASSUME NEW m \in MsgType PROVE NewItems(m) \subseteq Items
BY Zenon DEF NewItems, MsgType

\* The message handled is one of the channel's, and popping keeps its type.
LEMMA ReceiveType ==
    ASSUME TypeOK, NEW m, Receive(m)
    PROVE  m \in MsgType /\ chan' \in Seq(MsgType) /\ phase = "up"
BY DEF Receive, TypeOK

\* A worker that has just been built is well typed.
LEMMA InitTypeOK == Init => TypeOK
BY SendingAssumption DEF Init, TypeOK, Statuses

\* Queuing stores rows and posts well-formed messages.
LEMMA QueueType ==
    ASSUME TypeOK, NEW ds \in SUBSET Dests, NEW x \in Items, Queue(ds, x)
    PROVE  TypeOK'
<1>1. chan' \in Seq(MsgType)
  <2>1. CASE phase = "up"
    <3>1. PICK n \in 1 .. MaxChan - Len(chan) :
               \E order \in [1 .. n -> Msgs(ds, x)] : chan' = chan \o order
      BY <2>1, Zenon DEF Queue
    <3>3. n \in Nat
      BY SendingAssumption DEF TypeOK
    <3>0. PICK order \in [1 .. n -> Msgs(ds, x)] : chan' = chan \o order
      BY <3>1, Zenon
    <3>2. Msgs(ds, x) \subseteq MsgType
      <4>1. \A d \in ds : [dest |-> d, item |-> x, revive |-> FALSE] \in MsgType
        BY Zenon DEF MsgType
      <4>2. QED
        BY <4>1, Zenon DEF Msgs
    <3>4. order \in Seq(MsgType)
      BY <3>0, <3>2, <3>3
    <3>5. QED
      BY <3>0, <3>4 DEF TypeOK
  <2>2. CASE phase # "up"
    BY <2>2, Zenon DEF Queue, TypeOK
  <2>3. QED
    BY <2>1, <2>2, Zenon
<1>2. /\ queued' \in [Dests -> SUBSET Items]
      /\ accepted' \in [Dests -> SUBSET Items]
  BY Zenon DEF Queue, TypeOK
<1>3. QED
  BY <1>1, <1>2, Zenon DEF Queue, TypeOK

\* Every branch of handle_request leaves well-typed tables and futures.
LEMMA RequestType ==
    ASSUME TypeOK, HandleRequest
    PROVE  TypeOK'
<1>1. PICK m : RequestIgnored(m) \/ RequestRetries(m) \/ RequestSends(m) \/ RequestFails(m)
  BY Zenon DEF HandleRequest
<1>2. Receive(m)
  BY <1>1, Zenon DEF RequestIgnored, RequestRetries, RequestSends, RequestFails
<1>3. m \in MsgType /\ chan' \in Seq(MsgType) /\ m.dest \in Dests
  <2>1. m \in MsgType /\ chan' \in Seq(MsgType)
    BY <1>2, ReceiveType, Zenon
  <2>2. QED
    BY <2>1, Zenon DEF MsgType
<1>4. NewItems(m) \subseteq Items
  BY <1>3, NewItemsType, Zenon
<1>5. CASE RequestIgnored(m)
  BY <1>3, <1>5, Zenon DEF RequestIgnored, TypeOK, history
<1>6. CASE RequestRetries(m)
  <2>1. Future(m.dest, active[m.dest], FALSE) \in FutureType
    BY <1>3, Zenon DEF Future, FutureType, TypeOK
  <2>2. futures' \subseteq FutureType
    BY <1>6, <2>1, Zenon DEF RequestRetries, TypeOK
  <2>3. status' \in [Dests -> Statuses]
    BY <1>6, ZenonT(30) DEF RequestRetries, TypeOK, Statuses
  <2>4. QED
    BY <1>3, <1>6, <2>2, <2>3, Zenon DEF RequestRetries, TypeOK, history
<1>7. CASE RequestSends(m)
  <2>1. ASSUME NEW e \in Edus(m.dest) PROVE Future(m.dest, NewItems(m), e) \in FutureType
    BY <1>3, <1>4, Zenon DEF Future, FutureType, Edus
  <2>2. futures' \subseteq FutureType
    BY <1>7, <2>1, Zenon DEF RequestSends, TypeOK
  <2>3. status' \in [Dests -> Statuses]
    BY <1>7, Zenon DEF RequestSends, TypeOK, Statuses
  <2>4. active' \in [Dests -> SUBSET Items] /\ queued' \in [Dests -> SUBSET Items]
    BY <1>4, <1>7, Zenon DEF RequestSends, MarkActive, TypeOK
  <2>5. QED
    BY <1>3, <1>7, <2>2, <2>3, <2>4, Zenon DEF RequestSends, TypeOK, history
<1>8. CASE RequestFails(m)
  <2>1. status' \in [Dests -> Statuses]
    BY <1>8, Zenon DEF RequestFails, TypeOK, Statuses
  <2>2. active' \in [Dests -> SUBSET Items] /\ queued' \in [Dests -> SUBSET Items]
    BY <1>4, <1>8 DEF RequestFails, MarkActive, TypeOK
  <2>3. QED
    BY <1>3, <1>8, <2>1, <2>2, Zenon DEF RequestFails, TypeOK, history
<1>9. QED
  BY <1>1, <1>5, <1>6, <1>7, <1>8, Zenon

\* handle_response_ok, whether it dequeues more or ends, keeps the types.
LEMMA ResponseOkType ==
    ASSUME TypeOK, NEW f \in futures, ResponseOk(f)
    PROVE  TypeOK'
<1> DEFINE d == f.dest
           new == Take(queued[d], DequeueLimit)
<1>1. d \in Dests /\ new \subseteq Items
  BY TakeSubset, Zenon DEF TypeOK, FutureType
<1>2. Future(d, new, FALSE) \in FutureType
  BY <1>1, Zenon DEF Future, FutureType
<1>3. futures' \subseteq FutureType
  BY <1>2, Zenon DEF ResponseOk, TypeOK
<1>4. status' \in [Dests -> Statuses]
  BY Zenon DEF ResponseOk, TypeOK, Statuses
<1>5. active' \in [Dests -> SUBSET Items] /\ queued' \in [Dests -> SUBSET Items]
  <2>1. \/ /\ active' = [active EXCEPT ![d] = new]
           /\ queued' = [queued EXCEPT ![d] = @ \ new]
        \/ /\ active' = [active EXCEPT ![d] = {}]
           /\ queued' = queued
    BY Zenon DEF ResponseOk
  <2> HIDE DEF new
  <2>2. QED
    BY <1>1, <2>1 DEF TypeOK
<1>6. QED
  BY <1>3, <1>4, <1>5, Zenon DEF ResponseOk, TypeOK, history

\* No step of a caller, the worker, a peer or a stop breaks the types.
LEMMA TypeStep == TypeOK /\ [Next]_vars => TypeOK'
<1> SUFFICES ASSUME TypeOK, [Next]_vars PROVE TypeOK'
  BY Zenon
<1>1. CASE \E ds \in SUBSET Dests, x \in Items : Queue(ds, x)
  BY <1>1, QueueType, Zenon
<1>2. CASE \E d \in Dests, revive \in BOOLEAN : FlushServer(d, revive)
  <2>1. PICK d \in Dests, revive \in BOOLEAN : FlushServer(d, revive)
    BY <1>2, Zenon
  <2>2. [dest |-> d, item |-> Flush, revive |-> revive] \in MsgType
    BY Zenon DEF MsgType
  <2>3. QED
    BY <2>1, <2>2 DEF FlushServer, TypeOK, history
<1>3. ASSUME NEW d \in Dests, CleanupEvents(d) PROVE TypeOK'
  BY <1>3, Zenon DEF CleanupEvents, TypeOK, volatile
<1>4. ASSUME NEW d \in Dests, BackoffElapses(d) PROVE TypeOK'
  BY <1>4, Zenon DEF BackoffElapses, TypeOK, history
<1>5. CASE HandleRequest
  BY <1>5, RequestType, Zenon
<1>6. ASSUME NEW f \in futures, Settle(f) PROVE TypeOK'
  BY <1>6 DEF Settle, TypeOK, FutureType, volatile
<1>7. ASSUME NEW f \in futures, ResponseOk(f) PROVE TypeOK'
  BY <1>7, ResponseOkType, Zenon
<1>8. ASSUME NEW f \in futures, ResponseErr(f) PROVE TypeOK'
  BY <1>8 DEF ResponseErr, TypeOK, FutureType, Statuses, history
<1>9. ASSUME NEW f \in futures, Finish(f) PROVE TypeOK'
  BY <1>9, Zenon DEF Finish, TypeOK, FutureType, history
<1>10. CASE Interrupt
  BY <1>10 DEF Interrupt, TypeOK, history
<1>11. ASSUME LoseVolatile, stops' \in Nat PROVE TypeOK'
  BY <1>11 DEF LoseVolatile, TypeOK, Statuses, history
<1>12. CASE Start
  <2>1. \A d \in Dests : Kept(d) \subseteq Items
    BY TakeSubset, Zenon DEF Kept, TypeOK
  <2>2. futures' \subseteq FutureType
    <3>1. \A d \in Dests : Future(d, Kept(d), FALSE) \in FutureType
      BY <2>1, Zenon DEF Future, FutureType
    <3>2. QED
      BY <1>12, <3>1, Zenon DEF Start
  <2>3. status' \in [Dests -> Statuses]
    BY <1>12, Zenon DEF Start, Statuses
  <2>4. active' \in [Dests -> SUBSET Items] /\ dropped' \in [Dests -> SUBSET Items]
    BY <1>12, <2>1, Zenon DEF Start, TypeOK
  <2>5. QED
    BY <1>12, <2>2, <2>3, <2>4, Zenon DEF Start, TypeOK
<1>13. CASE UNCHANGED vars
  BY <1>13, Zenon DEF vars, volatile, history, TypeOK
<1>14. QED
  BY <1>1, <1>2, <1>3, <1>4, <1>5, <1>6, <1>7, <1>8, <1>9, <1>10, <1>11, <1>12,
     <1>13 DEF Next, Exit, Crash, TypeOK

\* Every reachable state is well typed.
THEOREM SendingTypes == Spec => []TypeOK
BY InitTypeOK, TypeStep, PTL DEF Spec

-----------------------------------------------------------------------------

\* The invariant holds of a worker with empty tables.
LEMMA InitIInv == Init => IInv
BY InitTypeOK, Zenon DEF Init, IInv, DownIsIdle, OneInFlight, ActiveIsInFlight, NothingLost

\* A message that starts a transaction finds its destination idle.
LEMMA AllowedIsIdle ==
    ASSUME IInv, NEW m, Receive(m), Allowed(m)
    PROVE  /\ m.dest \in Dests /\ phase = "up"
           /\ \A f \in futures : f.dest # m.dest
<1>1. m \in MsgType /\ phase = "up"
  BY ReceiveType, Zenon DEF IInv
<1>2. m.dest \in Dests
  BY <1>1, Zenon DEF MsgType
<1>3. status[m.dest] \in {"none", "failed"}
  BY Zenon DEF Allowed
<1>4. QED
  BY <1>1, <1>2, <1>3, Zenon DEF IInv, OneInFlight

\* handle_request starts a transaction only where none is in flight, and with
\* every active row of its destination.
LEMMA RequestStep ==
    ASSUME IInv, HandleRequest
    PROVE  DownIsIdle' /\ OneInFlight' /\ ActiveIsInFlight' /\ NothingLost'
<1>1. PICK m : RequestIgnored(m) \/ RequestRetries(m) \/ RequestSends(m) \/ RequestFails(m)
  BY Zenon DEF HandleRequest
<1>2. Receive(m) /\ phase = "up" /\ phase' = "up"
  BY <1>1, ReceiveType, Zenon DEF RequestIgnored, RequestRetries, RequestSends, RequestFails, IInv
<1>3. DownIsIdle'
  BY <1>2, Zenon DEF DownIsIdle
<1>4. CASE RequestIgnored(m)
  BY <1>3, <1>4, Zenon DEF RequestIgnored, IInv, OneInFlight, ActiveIsInFlight, NothingLost, history
<1>5. CASE RequestRetries(m)
  <2> DEFINE d == m.dest
             new == Future(d, active[d], FALSE)
  <2>1. d \in Dests /\ \A f \in futures : f.dest # d
    BY <1>2, <1>5, AllowedIsIdle, Zenon DEF RequestRetries
  <2>2. new.dest = d /\ new.items = active[d]
    BY Zenon DEF Future
  <2>3. \/ active[d] # {} /\ futures' = futures \cup {new}
           /\ status' = [status EXCEPT ![d] = "retrying"]
        \/ active[d] = {} /\ futures' = futures
           /\ status' = [status EXCEPT ![d] = "none"]
    BY <1>5, Zenon DEF RequestRetries
  <2>4. active' = active /\ queued' = queued /\ history' = history
    BY <1>5, Zenon DEF RequestRetries, history
  <2> HIDE DEF new, d
  <2>5. OneInFlight'
    <3>1. \A f \in futures' : \/ f = new /\ status'[d] = "retrying"
                              \/ f \in futures /\ f.dest # d /\ status'[f.dest] = status[f.dest]
      BY <2>1, <2>3 DEF IInv, TypeOK, FutureType
    <3>2. QED
      BY <2>2, <3>1, Zenon DEF OneInFlight, IInv
  <2>6. ActiveIsInFlight'
    BY <1>2, <2>1, <2>2, <2>3, <2>4 DEF ActiveIsInFlight, IInv, TypeOK
  <2>7. NothingLost'
    BY <2>4, Zenon DEF NothingLost, IInv, history
  <2>8. QED
    BY <1>3, <2>5, <2>6, <2>7, Zenon
<1>6. CASE RequestSends(m) \/ RequestFails(m)
  <2> DEFINE d == m.dest
  <2>1. Allowed(m) /\ status[d] = "none"
    BY <1>6, Zenon DEF RequestSends, RequestFails, Allowed
  <2>2. d \in Dests /\ \A f \in futures : f.dest # d
    BY <1>2, <2>1, AllowedIsIdle, Zenon
  <2>3. Netburst => active[d] = {}
    BY <1>2, <2>1, <2>2, Zenon DEF IInv, ActiveIsInFlight
  <2>4. status' = [status EXCEPT ![d] = "running"] /\ history' = history
    BY <1>6, Zenon DEF RequestSends, RequestFails, history
  <2>5. \/ active' = active /\ queued' = queued
        \/ /\ active' = [active EXCEPT ![d] = @ \cup NewItems(m)]
           /\ queued' = [queued EXCEPT ![d] = @ \ NewItems(m)]
    BY <1>6, Zenon DEF RequestSends, RequestFails, MarkActive
  <2>6. \/ futures' = futures
        \/ /\ \E g : g.dest = d /\ g.items = NewItems(m) /\ futures' = futures \cup {g}
           /\ active' = [active EXCEPT ![d] = @ \cup NewItems(m)]
    <3>1. CASE RequestFails(m)
      BY <3>1, Zenon DEF RequestFails
    <3>2. CASE RequestSends(m)
      <4>1. PICK e \in Edus(d) : futures' = futures \cup {Future(d, NewItems(m), e)}
        BY <3>2, Zenon DEF RequestSends
      <4>2. /\ Future(d, NewItems(m), e).dest = d
            /\ Future(d, NewItems(m), e).items = NewItems(m)
        BY Zenon DEF Future
      <4>3. active' = [active EXCEPT ![d] = @ \cup NewItems(m)]
        BY <3>2, Zenon DEF RequestSends, MarkActive
      <4>4. QED
        BY <4>1, <4>2, <4>3, Zenon
    <3>3. QED
      BY <1>6, <3>1, <3>2, Zenon
  <2> HIDE DEF d
  <2>7. OneInFlight'
    BY <2>2, <2>4, <2>6 DEF OneInFlight, IInv, TypeOK
  <2>8. ActiveIsInFlight'
    BY <1>2, <2>2, <2>3, <2>4, <2>5, <2>6 DEF ActiveIsInFlight, IInv, TypeOK
  <2>9. NothingLost'
    BY <2>2, <2>4, <2>5 DEF NothingLost, IInv, TypeOK, history
  <2>10. QED
    BY <1>3, <2>7, <2>8, <2>9, Zenon
<1>7. QED
  BY <1>1, <1>4, <1>5, <1>6, Zenon

\* A success deletes active rows that it settled and takes the next rows along.
LEMMA ResponseOkStep ==
    ASSUME IInv, NEW f \in futures, ResponseOk(f)
    PROVE  DownIsIdle' /\ OneInFlight' /\ ActiveIsInFlight' /\ NothingLost'
<1> DEFINE d == f.dest
           new == Take(queued[d], DequeueLimit)
           g == Future(d, new, FALSE)
<1>1. d \in Dests /\ \A h \in futures : h.dest = d => h = f
  BY Zenon DEF IInv, TypeOK, FutureType, OneInFlight
<1>2. g.dest = d /\ g.items = new /\ new \subseteq queued[d]
  BY TakeSubset, Zenon DEF Future
<1>3. /\ phase' = "up" /\ history' = history
      /\ f.items \subseteq settled[d]
  BY Zenon DEF ResponseOk, history
<1>4. \/ /\ status' = [status EXCEPT ![d] = "running"]
         /\ futures' = (futures \ {f}) \cup {g}
      \/ /\ status' = [status EXCEPT ![d] = "none"]
         /\ futures' = futures \ {f}
         /\ active' = [active EXCEPT ![d] = {}]
  BY Zenon DEF ResponseOk
<1>5. \/ /\ active' = [active EXCEPT ![d] = new]
         /\ queued' = [queued EXCEPT ![d] = @ \ new]
      \/ /\ active' = [active EXCEPT ![d] = {}]
         /\ queued' = queued
  BY Zenon DEF ResponseOk
<1>6. Netburst => active[d] \subseteq settled[d]
  BY <1>1, <1>3, Zenon DEF IInv, ActiveIsInFlight
<1> HIDE DEF d, new, g
<1>a. /\ status'[d] \in {"running", "none"}
      /\ \A e \in Dests : e # d => status'[e] = status[e] /\ active'[e] = active[e]
      /\ \A h \in futures' : h = g \/ (h \in futures /\ h.dest # d /\ h.dest \in Dests)
  <2>1. \A h \in futures : h.dest \in Dests
    BY Zenon DEF IInv, TypeOK, FutureType
  <2>2. QED
    BY <1>1, <1>4, <1>5, <2>1, Zenon DEF IInv, TypeOK
<1>7. OneInFlight'
  <2>1. \A h \in futures' : status'[h.dest] \in {"running", "retrying"}
    <3>1. g \in futures' => status'[d] = "running"
      BY <1>1, <1>2, <1>4, <1>a DEF IInv, TypeOK
    <3>2. QED
      BY <1>2, <1>a, <3>1, Zenon DEF IInv, OneInFlight
  <2>2. \A h, k \in futures' : h.dest = k.dest => h = k
    BY <1>2, <1>a, Zenon DEF IInv, OneInFlight
  <2>3. QED
    BY <2>1, <2>2, Zenon DEF OneInFlight
<1>8. ActiveIsInFlight'
  <2>1. active'[d] \subseteq new /\ (status'[d] = "none" => active'[d] = {})
    BY <1>1, <1>4, <1>5, Zenon DEF IInv, TypeOK
  <2>2. QED
    BY <1>1, <1>2, <1>3, <1>a, <2>1 DEF ActiveIsInFlight, IInv, ResponseOk
<1>9. NothingLost'
  BY <1>1, <1>2, <1>3, <1>5, <1>6 DEF NothingLost, IInv, TypeOK, history
<1>10. QED
  BY <1>3, <1>7, <1>8, <1>9, Zenon DEF DownIsIdle

\* finish_responses deletes the active rows of a success only.
LEMMA FinishStep ==
    ASSUME IInv, NEW f \in futures, Finish(f)
    PROVE  DownIsIdle' /\ OneInFlight' /\ ActiveIsInFlight' /\ NothingLost'
<1> DEFINE d == f.dest
<1>1. d \in Dests
  BY Zenon DEF IInv, TypeOK, FutureType
<1>2. /\ futures' = futures \ {f} /\ phase' = "closing" /\ status' = status
      /\ history' = history /\ queued' = queued
  BY Zenon DEF Finish, history
<1>3. \/ f.items \subseteq settled[d] /\ active' = [active EXCEPT ![d] = {}]
      \/ active' = active
  BY Zenon DEF Finish
<1>4. Netburst => active[d] \subseteq f.items
  BY <1>1, Zenon DEF IInv, ActiveIsInFlight
<1> HIDE DEF d
<1>5. OneInFlight' /\ DownIsIdle'
  BY <1>2, Zenon DEF OneInFlight, IInv, DownIsIdle
<1>6. ActiveIsInFlight'
  BY <1>1, <1>2, <1>3 DEF ActiveIsInFlight, IInv, TypeOK
<1>7. NothingLost'
  BY <1>1, <1>2, <1>3, <1>4, Zenon DEF NothingLost, IInv, TypeOK, history
<1>8. QED
  BY <1>5, <1>6, <1>7, Zenon

\* startup_netburst starts from an idle worker and keeps or drops each row.
LEMMA StartStep ==
    ASSUME IInv, Start
    PROVE  DownIsIdle' /\ OneInFlight' /\ ActiveIsInFlight' /\ NothingLost'
<1> DEFINE burst == {d \in Dests : Netburst /\ Kept(d) # {}}
<1>1. /\ phase' = "up"
      /\ active' = [d \in Dests |-> Kept(d)]
      /\ dropped' = [d \in Dests |-> dropped[d] \cup (active[d] \ Kept(d))]
      /\ status' = [d \in Dests |-> IF d \in burst THEN "running" ELSE "none"]
      /\ UNCHANGED <<queued, accepted, settled>>
  BY Zenon DEF Start
<1>2. \A f \in futures' : f.dest \in burst /\ f.items = Kept(f.dest)
                           /\ f = Future(f.dest, Kept(f.dest), FALSE)
  <2>1. futures' = {Future(d, Kept(d), FALSE) : d \in burst}
    BY Zenon DEF Start
  <2>2. \A d : Future(d, Kept(d), FALSE).dest = d /\ Future(d, Kept(d), FALSE).items = Kept(d)
    BY Zenon DEF Future
  <2> HIDE DEF burst
  <2>3. QED
    BY <2>1, <2>2, Zenon
<1>3. OneInFlight'
  <2>1. \A f, g \in futures' : f.dest = g.dest => f = g
    BY <1>2, Zenon
  <2>2. \A f \in futures' : status'[f.dest] = "running"
    BY <1>1, <1>2, Zenon
  <2>3. QED
    BY <2>1, <2>2, Zenon DEF OneInFlight
<1>4. ActiveIsInFlight'
  BY <1>1, <1>2, Zenon DEF ActiveIsInFlight
<1>5. NothingLost'
  BY <1>1, Zenon DEF NothingLost, IInv, TypeOK
<1>6. QED
  BY <1>1, <1>3, <1>4, <1>5, Zenon DEF DownIsIdle

\* The invariant is inductive: one case for each action of Next.
LEMMA IInvStep == IInv /\ [Next]_vars => IInv'
<1> SUFFICES ASSUME IInv, [Next]_vars
             PROVE  DownIsIdle' /\ OneInFlight' /\ ActiveIsInFlight' /\ NothingLost'
  BY TypeStep, Zenon DEF IInv
<1>1. ASSUME NEW ds \in SUBSET Dests, NEW x \in Items, Queue(ds, x)
      PROVE  DownIsIdle' /\ OneInFlight' /\ ActiveIsInFlight' /\ NothingLost'
  BY <1>1, Zenon DEF Queue, IInv, DownIsIdle, OneInFlight, ActiveIsInFlight, NothingLost, TypeOK
<1>2. ASSUME NEW d \in Dests, NEW revive \in BOOLEAN, FlushServer(d, revive)
      PROVE  DownIsIdle' /\ OneInFlight' /\ ActiveIsInFlight' /\ NothingLost'
  BY <1>2, Zenon DEF FlushServer, IInv, DownIsIdle, OneInFlight, ActiveIsInFlight, NothingLost, history
<1>3. ASSUME NEW d \in Dests, CleanupEvents(d)
      PROVE  DownIsIdle' /\ OneInFlight' /\ ActiveIsInFlight' /\ NothingLost'
  <2>1. DownIsIdle' /\ OneInFlight'
    BY <1>3, Zenon DEF CleanupEvents, IInv, DownIsIdle, OneInFlight, volatile
  <2>2. ActiveIsInFlight'
    BY <1>3, Zenon DEF CleanupEvents, IInv, ActiveIsInFlight, TypeOK, volatile
  <2>3. NothingLost'
    BY <1>3, Zenon DEF CleanupEvents, IInv, NothingLost, TypeOK
  <2>4. QED
    BY <2>1, <2>2, <2>3, Zenon
<1>4. ASSUME NEW d \in Dests, BackoffElapses(d)
      PROVE  DownIsIdle' /\ OneInFlight' /\ ActiveIsInFlight' /\ NothingLost'
  BY <1>4, Zenon DEF BackoffElapses, IInv, DownIsIdle, OneInFlight, ActiveIsInFlight, NothingLost, history
<1>5. CASE HandleRequest
  BY <1>5, RequestStep, Zenon
<1>6. ASSUME NEW f \in futures, Settle(f)
      PROVE  DownIsIdle' /\ OneInFlight' /\ ActiveIsInFlight' /\ NothingLost'
  <2>1. DownIsIdle' /\ OneInFlight' /\ ActiveIsInFlight'
    BY <1>6, Zenon DEF Settle, IInv, DownIsIdle, OneInFlight, ActiveIsInFlight, volatile
  <2>2. \A d \in Dests : settled[d] \subseteq settled'[d]
    BY <1>6, Zenon DEF Settle, IInv, TypeOK
  <2>3. NothingLost'
    BY <1>6, <2>2, Zenon DEF Settle, IInv, NothingLost
  <2>4. QED
    BY <2>1, <2>3, Zenon
<1>7. ASSUME NEW f \in futures, ResponseOk(f)
      PROVE  DownIsIdle' /\ OneInFlight' /\ ActiveIsInFlight' /\ NothingLost'
  BY <1>7, ResponseOkStep, Zenon
<1>8. ASSUME NEW f \in futures, ResponseErr(f)
      PROVE  DownIsIdle' /\ OneInFlight' /\ ActiveIsInFlight' /\ NothingLost'
  <2>1. f.dest \in Dests /\ status' = [status EXCEPT ![f.dest] = "failed"]
    BY <1>8, Zenon DEF ResponseErr, IInv, TypeOK, FutureType, OneInFlight
  <2>2. DownIsIdle' /\ OneInFlight'
    BY <1>8, <2>1 DEF ResponseErr, IInv, DownIsIdle, OneInFlight, TypeOK
  <2>3. ActiveIsInFlight'
    BY <1>8, <2>1, Zenon DEF ResponseErr, IInv, ActiveIsInFlight, TypeOK
  <2>4. NothingLost'
    BY <1>8, Zenon DEF ResponseErr, IInv, NothingLost, history
  <2>5. QED
    BY <2>2, <2>3, <2>4, Zenon
<1>9. ASSUME NEW f \in futures, Finish(f)
      PROVE  DownIsIdle' /\ OneInFlight' /\ ActiveIsInFlight' /\ NothingLost'
  BY <1>9, FinishStep, Zenon
<1>10. CASE Interrupt
  BY <1>10, Zenon DEF Interrupt, IInv, DownIsIdle, OneInFlight, ActiveIsInFlight, NothingLost, history
<1>11. CASE LoseVolatile
  BY <1>11, Zenon DEF LoseVolatile, IInv, DownIsIdle, OneInFlight, ActiveIsInFlight, NothingLost, history
<1>12. CASE Start
  BY <1>12, StartStep, Zenon
<1>13. CASE UNCHANGED vars
  BY <1>13, Zenon DEF vars, volatile, history, IInv, DownIsIdle, OneInFlight, ActiveIsInFlight,
     NothingLost
<1>14. QED
  BY Zenon, <1>1, <1>2, <1>3, <1>4, <1>5, <1>6, <1>7, <1>8, <1>9, <1>10, <1>11, <1>12,
     <1>13 DEF Next, Exit, Crash

\* The invariant holds throughout every behaviour of the sender.
LEMMA SendingInvariant == Spec => []IInv
BY InitIInv, IInvStep, PTL DEF Spec

\* Whatever the destinations, events and restarts, at most one transaction per
\* destination is in flight and handle_response_err never panics.
THEOREM OneTransactionPerDestination == Spec => []OneInFlight
BY SendingInvariant, PTL DEF IInv

\* With the startup burst on, the rows delete_all_active_requests_for removes
\* were all part of the transaction that succeeded.
THEOREM SuccessDeletesWhatItSent == Spec => []ActiveIsInFlight
BY SendingInvariant, PTL DEF IInv

\* With the startup burst on, no accepted event is lost between the two tables,
\* the worker and the network, crashes and failed writes included.
THEOREM NoEventLost == Spec => []NothingLost
BY SendingInvariant, PTL DEF IInv

\* The three together: one transaction, all active rows, nothing lost.
THEOREM SenderIsSound == Spec => []SenderSound
BY SendingInvariant, PTL DEF IInv, SenderSound

-----------------------------------------------------------------------------
(* The sender implements the outbox: every step of the worker, its callers, *)
(* its peers and its restarts is a step of the promise or leaves it alone.  *)

\* Whatever is stored, in flight or announced in the channel was accepted,
\* and no row is in both tables.
Known ==
    /\ \A d \in Dests : queued[d] \cup active[d] \subseteq accepted[d]
    /\ \A d \in Dests : queued[d] \cap active[d] = {}
    /\ \A f \in futures : f.items \subseteq accepted[f.dest]
    /\ \A i \in 1 .. Len(chan) : NewItems(chan[i]) \subseteq accepted[chan[i].dest]

\* The rows stored for each destination, as the refinement mapping has them.
Held == [d \in Dests |-> queued[d] \cup active[d]]

\* The message handled was announced for an accepted event, and those left in
\* the channel are the others.
LEMMA ReceiveKnown ==
    ASSUME IInv, Known, NEW m, Receive(m)
    PROVE  /\ m.dest \in Dests /\ NewItems(m) \subseteq accepted[m.dest]
           /\ \A i \in 1 .. Len(chan') :
                 i + 1 \in 1 .. Len(chan) /\ chan'[i] = chan[i + 1]
<1>1. chan \in Seq(MsgType) /\ chan # << >> /\ m = chan[1] /\ chan' = Tail(chan)
  BY DEF Receive, IInv, TypeOK
<1>2. 1 \in 1 .. Len(chan) /\ m \in MsgType
  BY <1>1
<1>3. m.dest \in Dests
  BY <1>2, Zenon DEF MsgType
<1>4. NewItems(m) \subseteq accepted[m.dest]
  BY <1>1, <1>2, Zenon DEF Known
<1>5. QED
  BY <1>1, <1>3, <1>4

\* Nothing is known before anything is accepted.
LEMMA InitKnown == Init => Known
BY DEF Init, Known

\* A step that leaves the rows and the accepted events alone, starts nothing
\* and announces nothing keeps what is known.
LEMMA KnownKept ==
    ASSUME Known, UNCHANGED <<queued, active, accepted, chan>>, futures' \subseteq futures
    PROVE  Known'
BY Zenon DEF Known, NewItems

\* Queuing stores and announces an event as it is accepted.
LEMMA QueueKnown ==
    ASSUME IInv, Known, NEW ds \in SUBSET Dests, NEW x \in Items, Queue(ds, x)
    PROVE  Known'
<1>1. \A d \in Dests : /\ accepted'[d] = accepted[d] \cup (IF d \in ds THEN {x} ELSE {})
                       /\ queued'[d] = queued[d] \cup (IF d \in ds THEN {x} ELSE {})
                       /\ active'[d] = active[d]
                       /\ d \in ds => x \notin accepted[d]
  BY Zenon DEF Queue
<1>2. \A f \in futures : f.dest \in Dests
  BY Zenon DEF IInv, TypeOK, FutureType
<1>3. \A i \in 1 .. Len(chan) : chan[i] \in MsgType /\ chan[i].dest \in Dests
  <2>1. \A i \in 1 .. Len(chan) : chan[i] \in MsgType
    BY DEF IInv, TypeOK
  <2>2. QED
    BY <2>1, Zenon DEF MsgType
<1>4. \A i \in 1 .. Len(chan') : NewItems(chan'[i]) \subseteq accepted'[chan'[i].dest]
  <2>1. CASE phase # "up"
    <3>1. chan' = chan
      BY <2>1, Zenon DEF Queue
    <3>2. QED
      BY <1>1, <1>3, <3>1 DEF Known, NewItems
  <2>2. CASE phase = "up"
    <3>0. PICK n \in 1 .. MaxChan - Len(chan) :
               \E order \in [1 .. n -> Msgs(ds, x)] : chan' = chan \o order
      BY <2>2, Zenon DEF Queue
    <3>2. n \in Nat
      BY SendingAssumption DEF IInv, TypeOK
    <3>1. PICK order \in [1 .. n -> Msgs(ds, x)] : chan' = chan \o order
      BY <3>0, Zenon
    <3>3. order \in Seq(Msgs(ds, x)) /\ Len(order) = n
      BY <3>1, <3>2
    <3>4. chan \in Seq(MsgType)
      BY Zenon DEF IInv, TypeOK
    <3>5. \A i \in 1 .. Len(chan') : \/ i \in 1 .. Len(chan) /\ chan'[i] = chan[i]
                                     \/ chan'[i] \in Msgs(ds, x)
      BY <3>1, <3>3, <3>4
    <3>6. \A m \in Msgs(ds, x) : m.dest \in ds /\ m.item = x
      BY DEF Msgs
    <3>7. ASSUME NEW i \in 1 .. Len(chan') PROVE NewItems(chan'[i]) \subseteq accepted'[chan'[i].dest]
      <4>1. CASE i \in 1 .. Len(chan) /\ chan'[i] = chan[i]
        BY <1>1, <1>3, <4>1 DEF Known, NewItems
      <4>2. CASE chan'[i] \in Msgs(ds, x)
        BY <1>1, <3>6, <4>2 DEF NewItems
      <4>3. QED
        BY <3>5, <4>1, <4>2, Zenon
    <3>8. QED
      BY <3>7, Zenon
  <2>3. QED
    BY <2>1, <2>2, Zenon
<1>5. futures' = futures
  BY Zenon DEF Queue
<1>6. /\ \A d \in Dests : queued'[d] \cup active'[d] \subseteq accepted'[d]
      /\ \A d \in Dests : queued'[d] \cap active'[d] = {}
  BY <1>1 DEF Known
<1>7. \A f \in futures' : f.items \subseteq accepted'[f.dest]
  BY <1>1, <1>2, <1>5 DEF Known
<1>8. QED
  BY <1>4, <1>6, <1>7, Zenon DEF Known

\* handle_request sends what it was told of or what was already active.
LEMMA RequestKnown ==
    ASSUME IInv, Known, HandleRequest
    PROVE  Known'
<1>1. PICK m : RequestIgnored(m) \/ RequestRetries(m) \/ RequestSends(m) \/ RequestFails(m)
  BY Zenon DEF HandleRequest
<1>2. Receive(m) /\ accepted' = accepted
  BY <1>1, Zenon DEF RequestIgnored, RequestRetries, RequestSends, RequestFails, history
<1>3. /\ m.dest \in Dests /\ NewItems(m) \subseteq accepted[m.dest]
      /\ \A i \in 1 .. Len(chan') : i + 1 \in 1 .. Len(chan) /\ chan'[i] = chan[i + 1]
  BY <1>2, ReceiveKnown, Zenon
<1>4. \A i \in 1 .. Len(chan') : NewItems(chan'[i]) \subseteq accepted'[chan'[i].dest]
  BY <1>2, <1>3 DEF Known, NewItems
<1>5. \/ active' = active /\ queued' = queued
      \/ /\ active' = [active EXCEPT ![m.dest] = @ \cup NewItems(m)]
         /\ queued' = [queued EXCEPT ![m.dest] = @ \ NewItems(m)]
  BY <1>1, Zenon DEF RequestIgnored, RequestRetries, RequestSends, RequestFails, MarkActive
<1>6. \A f \in futures' : \/ f \in futures
                          \/ f.dest = m.dest /\ (f.items = active[m.dest] \/ f.items = NewItems(m))
  BY <1>1 DEF RequestIgnored, RequestRetries, RequestSends, RequestFails, Future
<1> HIDE DEF NewItems
<1>7. \A f \in futures' : f.items \subseteq accepted'[f.dest]
  BY <1>2, <1>3, <1>6, Zenon DEF Known
<1>8. \A d \in Dests : queued'[d] \cup active'[d] \subseteq accepted'[d]
  BY <1>2, <1>3, <1>5 DEF Known, IInv, TypeOK
<1>9. \A d \in Dests : queued'[d] \cap active'[d] = {}
  BY <1>3, <1>5 DEF Known, IInv, TypeOK
<1>10. QED
  BY <1>4, <1>7, <1>8, <1>9, Zenon DEF Known

\* A success moves queued rows on, or leaves them queued.
LEMMA ResponseOkKnown ==
    ASSUME IInv, Known, NEW f \in futures, ResponseOk(f)
    PROVE  Known'
<1> DEFINE d == f.dest
           new == Take(queued[d], DequeueLimit)
<1>1. d \in Dests /\ new \subseteq queued[d]
  BY TakeSubset, Zenon DEF IInv, TypeOK, FutureType
<1>2. accepted' = accepted /\ chan' = chan
  BY Zenon DEF ResponseOk, history
<1>3. \/ /\ active' = [active EXCEPT ![d] = new]
         /\ queued' = [queued EXCEPT ![d] = @ \ new]
      \/ active' = [active EXCEPT ![d] = {}] /\ queued' = queued
  BY Zenon DEF ResponseOk
<1>4. \A g \in futures' : g \in futures \/ (g.dest = d /\ g.items = new)
  BY DEF ResponseOk, Future
<1> HIDE DEF d, new
<1>5. \A g \in futures' : g.items \subseteq accepted'[g.dest]
  BY <1>1, <1>2, <1>4, Zenon DEF Known
<1>6. \A e \in Dests : /\ queued'[e] \cup active'[e] \subseteq accepted'[e]
                       /\ queued'[e] \cap active'[e] = {}
  BY <1>1, <1>2, <1>3 DEF Known, IInv, TypeOK
<1>7. QED
  BY <1>2, <1>5, <1>6, Zenon DEF Known, NewItems

\* What is known is kept by every action.
LEMMA KnownStep == IInv /\ Known /\ [Next]_vars => Known'
<1> SUFFICES ASSUME IInv, Known, [Next]_vars PROVE Known'
  BY Zenon
<1>1. ASSUME NEW ds \in SUBSET Dests, NEW x \in Items, Queue(ds, x) PROVE Known'
  BY <1>1, QueueKnown, Zenon
<1>2. ASSUME NEW d \in Dests, NEW revive \in BOOLEAN, FlushServer(d, revive) PROVE Known'
  <2>1. chan \in Seq(MsgType) /\ chan' = Append(chan, [dest |-> d, item |-> Flush, revive |-> revive])
    BY <1>2, Zenon DEF FlushServer, IInv, TypeOK
  <2>2. \A i \in 1 .. Len(chan') : \/ i \in 1 .. Len(chan) /\ chan'[i] = chan[i]
                                   \/ NewItems(chan'[i]) = {}
    BY <2>1 DEF NewItems
  <2>3. UNCHANGED <<queued, active, accepted, futures>>
    BY <1>2, Zenon DEF FlushServer, history
  <2>4. \A i \in 1 .. Len(chan') : NewItems(chan'[i]) \subseteq accepted'[chan'[i].dest]
    BY <2>2, <2>3, ZenonT(30) DEF Known
  <2>5. QED
    BY <2>3, <2>4, Zenon DEF Known
<1>3. ASSUME NEW d \in Dests, CleanupEvents(d) PROVE Known'
  BY <1>3, Zenon DEF CleanupEvents, Known, IInv, TypeOK, volatile, NewItems
<1>4. ASSUME NEW d \in Dests, BackoffElapses(d) PROVE Known'
  BY <1>4, KnownKept, Zenon DEF BackoffElapses, history
<1>5. CASE HandleRequest
  BY <1>5, RequestKnown, Zenon
<1>6. ASSUME NEW f \in futures, Settle(f) PROVE Known'
  BY <1>6, KnownKept, Zenon DEF Settle, volatile
<1>7. ASSUME NEW f \in futures, ResponseOk(f) PROVE Known'
  BY <1>7, ResponseOkKnown, Zenon
<1>8. ASSUME NEW f \in futures, ResponseErr(f) PROVE Known'
  BY <1>8, KnownKept, Zenon DEF ResponseErr, history
<1>9. ASSUME NEW f \in futures, Finish(f) PROVE Known'
  <2>1. f.dest \in Dests
    BY Zenon DEF IInv, TypeOK, FutureType
  <2>2. QED
    BY <1>9, <2>1, Zenon DEF Finish, Known, IInv, TypeOK, history, NewItems
<1>10. CASE Interrupt
  BY <1>10, KnownKept, Zenon DEF Interrupt, history
<1>11. CASE LoseVolatile
  BY <1>11 DEF LoseVolatile, Known, history
<1>12. CASE Start
  <2>1. \A d \in Dests : Kept(d) \subseteq active[d]
    BY TakeSubset, Zenon DEF Kept
  <2>2. /\ active' = [d \in Dests |-> Kept(d)]
        /\ UNCHANGED <<queued, accepted, chan>>
        /\ \A f \in futures' : f.dest \in Dests /\ f.items = Kept(f.dest)
    BY <1>12 DEF Start, Future
  <2>3. QED
    BY <2>1, <2>2, Zenon DEF Known, NewItems
<1>13. CASE UNCHANGED vars
  BY <1>13, KnownKept, Zenon DEF vars, volatile, history
<1>14. QED
  BY Zenon, <1>1, <1>2, <1>3, <1>4, <1>5, <1>6, <1>7, <1>8, <1>9, <1>10, <1>11, <1>12,
     <1>13 DEF Next, Exit, Crash

\* The empty tables of a new worker are an empty outbox.
LEMMA InitOutbox == Init => Promise!Init
BY Zenon DEF Init, Promise!Init

\* A step that leaves the rows and the history alone is a stutter.
LEMMA StutterOutbox ==
    ASSUME UNCHANGED <<queued, active, history>>
    PROVE  UNCHANGED Promise!outbox
BY Zenon DEF Promise!outbox, history

\* A row made active stays held; one made active again after its transaction
\* ended, by a message that came late, is accepted a second time.
LEMMA MarkActiveOutbox ==
    ASSUME IInv, NEW d \in Dests, NEW xs, UNCHANGED history, xs \subseteq accepted[d],
           xs = {} \/ (\E x \in Items : xs = {x}), MarkActive(d, xs)
    PROVE  [Promise!Next]_Promise!outbox
<1>1. Held' = [e \in Dests |-> Held[e] \cup (IF e \in {d} THEN xs ELSE {})]
  <2>1. \A e \in Dests : queued'[e] \cup active'[e] = Held[e] \cup (IF e \in {d} THEN xs ELSE {})
    BY Zenon DEF MarkActive, Held, IInv, TypeOK
  <2>2. QED
    BY <2>1, Zenon DEF Held
<1>2. CASE xs = {}
  <2>1. Held' = Held
    BY <1>1, <1>2, Zenon DEF Held
  <2>2. QED
    BY <2>1, Zenon DEF Held, Promise!outbox, history
<1>3. CASE \E x \in Items : xs = {x}
  <2>1. PICK x \in Items : xs = {x}
    BY <1>3, Zenon
  <2>2. accepted' = [e \in Dests |-> accepted[e] \cup (IF e \in {d} THEN {x} ELSE {})]
    BY <2>1, Zenon DEF history, IInv, TypeOK
  <2>3. Promise!Accept({d}, x)
    BY <1>1, <2>1, <2>2, Zenon DEF Promise!Accept, Held, history
  <2>4. QED
    BY <2>3, Zenon DEF Promise!Next
<1>4. QED
  BY <1>2, <1>3, Zenon

\* A success releases rows of its destination that it had settled.
LEMMA ReleaseOutbox ==
    ASSUME Netburst, IInv, NEW f \in futures, f.items \subseteq settled[f.dest], UNCHANGED history,
           active'[f.dest] \cup queued'[f.dest] = queued[f.dest],
           \A e \in Dests \ {f.dest} : active'[e] = active[e] /\ queued'[e] = queued[e]
    PROVE  [Promise!Next]_Promise!outbox
<1> DEFINE d == f.dest
           xs == active[d] \ queued[d]
<1>1. d \in Dests /\ xs \subseteq Items
  BY Zenon DEF IInv, TypeOK, FutureType
<1>2. xs \subseteq settled[d]
  BY <1>1, Zenon DEF IInv, ActiveIsInFlight
<1>3. Held' = [Held EXCEPT ![d] = @ \ xs]
  BY <1>1, Zenon DEF Held
<1>4. PICK ys \in SUBSET Items : ys = xs
  BY <1>1, Zenon
<1>5. Promise!Release(d, ys)
  BY <1>2, <1>3, <1>4, Zenon DEF Promise!Release, Held, history
<1>6. QED
  BY <1>1, <1>5, Zenon DEF Promise!Next

\* Every step of the sender is a step of the outbox, or none.
LEMMA OutboxStep ==
    ASSUME Netburst, IInv, Known, [Next]_vars
    PROVE  [Promise!Next]_Promise!outbox
<1>1. ASSUME NEW ds \in SUBSET Dests, NEW x \in Items, Queue(ds, x)
      PROVE  [Promise!Next]_Promise!outbox
  <2>1. Held' = [d \in Dests |-> Held[d] \cup (IF d \in ds THEN {x} ELSE {})]
    <3>1. \A d \in Dests : queued'[d] \cup active'[d] = Held[d] \cup (IF d \in ds THEN {x} ELSE {})
      BY <1>1, Zenon DEF Queue, Held
    <3>2. QED
      BY <3>1, Zenon DEF Held
  <2>2. Promise!Accept(ds, x)
    BY <1>1, <2>1, Zenon DEF Queue, Promise!Accept, Held
  <2>3. QED
    BY <2>2, Zenon DEF Promise!Next
<1>2. ASSUME NEW d \in Dests, NEW revive \in BOOLEAN, FlushServer(d, revive)
      PROVE  [Promise!Next]_Promise!outbox
  BY <1>2, StutterOutbox, Zenon DEF FlushServer, history
<1>3. ASSUME NEW d \in Dests, CleanupEvents(d)
      PROVE  [Promise!Next]_Promise!outbox
  <2> DEFINE gone == [e \in Dests |-> IF e = d THEN queued[d] \cup active[d] ELSE {}]
  <2>1. gone \in [Dests -> SUBSET Items]
    BY Zenon DEF IInv, TypeOK
  <2>2. Held' = [e \in Dests |-> Held[e] \ gone[e]]
    <3>1. \A e \in Dests : queued'[e] \cup active'[e] = Held[e] \ gone[e]
      BY <1>3, Zenon DEF CleanupEvents, Held, IInv, TypeOK
    <3>2. QED
      BY <3>1, Zenon DEF Held
  <2>3. dropped' = [e \in Dests |-> dropped[e] \cup gone[e]]
    BY <1>3, Zenon DEF CleanupEvents, IInv, TypeOK
  <2>4. UNCHANGED <<accepted, settled>>
    BY <1>3, Zenon DEF CleanupEvents
  <2>5. PICK g \in [Dests -> SUBSET Items] : g = gone
    BY <2>1, Zenon
  <2> HIDE DEF gone
  <2>6. Promise!Abandon(g)
    BY <2>2, <2>3, <2>4, <2>5, Zenon DEF Promise!Abandon, Held
  <2>7. QED
    BY <2>6, Zenon DEF Promise!Next
<1>4. ASSUME NEW d \in Dests, BackoffElapses(d)
      PROVE  [Promise!Next]_Promise!outbox
  BY <1>4, StutterOutbox, Zenon DEF BackoffElapses, history
<1>5. CASE HandleRequest
  <2>1. PICK m : RequestIgnored(m) \/ RequestRetries(m) \/ RequestSends(m) \/ RequestFails(m)
    BY <1>5, Zenon DEF HandleRequest
  <2>2. Receive(m) /\ UNCHANGED history
    BY <2>1, Zenon DEF RequestIgnored, RequestRetries, RequestSends, RequestFails
  <2>3. \/ UNCHANGED <<queued, active>>
        \/ MarkActive(m.dest, NewItems(m))
    BY <2>1, Zenon DEF RequestIgnored, RequestRetries, RequestSends, RequestFails
  <2>4. m \in MsgType /\ m.dest \in Dests /\ NewItems(m) \subseteq accepted[m.dest]
    BY <2>2, ReceiveKnown, ReceiveType, Zenon DEF IInv
  <2>5. NewItems(m) = {} \/ (\E x \in Items : NewItems(m) = {x})
    BY <2>4, Zenon DEF NewItems, MsgType
  <2>6. QED
    BY <2>2, <2>3, <2>4, <2>5, StutterOutbox, MarkActiveOutbox, Zenon
<1>6. ASSUME NEW f \in futures, Settle(f)
      PROVE  [Promise!Next]_Promise!outbox
  <2>1. f.dest \in Dests /\ f.items \subseteq Items
    BY Zenon DEF IInv, TypeOK, FutureType
  <2>2. PICK x \in f.items : settled' = [settled EXCEPT ![f.dest] = @ \cup {x}]
    BY <1>6, Zenon DEF Settle
  <2>3. x \in accepted[f.dest] /\ UNCHANGED <<queued, active, accepted, dropped>>
    BY <1>6, Zenon DEF Known, Settle
  <2>4. Promise!Settle(f.dest, x)
    BY <2>2, <2>3, Zenon DEF Promise!Settle
  <2>5. QED
    BY <2>1, <2>4, Zenon DEF Promise!Next
<1>7. ASSUME NEW f \in futures, ResponseOk(f)
      PROVE  [Promise!Next]_Promise!outbox
  <2> DEFINE d == f.dest
             new == Take(queued[d], DequeueLimit)
  <2>1. d \in Dests /\ new \subseteq queued[d]
    BY TakeSubset, Zenon DEF IInv, TypeOK, FutureType
  <2>2. \/ /\ active' = [active EXCEPT ![d] = new]
           /\ queued' = [queued EXCEPT ![d] = @ \ new]
        \/ active' = [active EXCEPT ![d] = {}] /\ queued' = queued
    BY <1>7, Zenon DEF ResponseOk
  <2>3. f.items \subseteq settled[d] /\ UNCHANGED history
    BY <1>7, Zenon DEF ResponseOk
  <2> HIDE DEF new
  <2>4. /\ active'[d] \cup queued'[d] = queued[d]
        /\ \A e \in Dests \ {d} : active'[e] = active[e] /\ queued'[e] = queued[e]
    BY <2>1, <2>2 DEF IInv, TypeOK
  <2>5. QED
    BY <2>3, <2>4, ReleaseOutbox, Zenon
<1>8. ASSUME NEW f \in futures, ResponseErr(f)
      PROVE  [Promise!Next]_Promise!outbox
  BY <1>8, StutterOutbox, Zenon DEF ResponseErr, history
<1>9. ASSUME NEW f \in futures, Finish(f)
      PROVE  [Promise!Next]_Promise!outbox
  <2>1. f.dest \in Dests /\ UNCHANGED history /\ queued' = queued
    BY <1>9, Zenon DEF IInv, TypeOK, FutureType, Finish
  <2>2. CASE active' = active
    BY <2>1, <2>2, StutterOutbox, Zenon
  <2>3. CASE f.items \subseteq settled[f.dest] /\ active' = [active EXCEPT ![f.dest] = {}]
    <3>1. /\ active'[f.dest] \cup queued'[f.dest] = queued[f.dest]
          /\ \A e \in Dests \ {f.dest} : active'[e] = active[e] /\ queued'[e] = queued[e]
      BY <2>1, <2>3, Zenon DEF IInv, TypeOK
    <3>2. QED
      BY <2>1, <2>3, <3>1, ReleaseOutbox, Zenon
  <2>4. QED
    BY <1>9, <2>2, <2>3, Zenon DEF Finish
<1>10. CASE Interrupt
  BY <1>10, StutterOutbox, Zenon DEF Interrupt, history
<1>11. CASE LoseVolatile
  BY <1>11, StutterOutbox, Zenon DEF LoseVolatile, history
<1>12. CASE Start
  <2> DEFINE gone == [d \in Dests |-> active[d] \ Kept(d)]
  <2>1. gone \in [Dests -> SUBSET Items]
    BY Zenon DEF IInv, TypeOK
  <2>2. \A d \in Dests : Kept(d) \subseteq active[d]
    BY TakeSubset, Zenon DEF Kept
  <2>3. Held' = [d \in Dests |-> Held[d] \ gone[d]]
    <3>1. \A d \in Dests : queued'[d] \cup active'[d] = Held[d] \ gone[d]
      BY <1>12, <2>2, Zenon DEF Start, Held, Known
    <3>2. QED
      BY <3>1, Zenon DEF Held
  <2>4. /\ dropped' = [d \in Dests |-> dropped[d] \cup gone[d]]
        /\ UNCHANGED <<accepted, settled>>
    BY <1>12, Zenon DEF Start
  <2>5. PICK g \in [Dests -> SUBSET Items] : g = gone
    BY <2>1, Zenon
  <2> HIDE DEF gone
  <2>6. Promise!Abandon(g)
    BY <2>3, <2>4, <2>5, Zenon DEF Promise!Abandon, Held
  <2>7. QED
    BY <2>6, Zenon DEF Promise!Next
<1>13. CASE UNCHANGED vars
  BY <1>13, StutterOutbox, Zenon DEF vars, volatile, history
<1>14. QED
  BY Zenon, <1>1, <1>2, <1>3, <1>4, <1>5, <1>6, <1>7, <1>8, <1>9, <1>10, <1>11, <1>12,
     <1>13 DEF Next, Exit, Crash

\* With the startup burst on, the sender implements the outbox it promises its
\* callers, for any destinations, events, failed writes, crashes and restarts.
THEOREM SenderIsAnOutbox == ASSUME Netburst PROVE Spec => ImplementsOutbox
<1>1. Spec => [](IInv /\ Known)
  BY InitIInv, IInvStep, InitKnown, KnownStep, PTL DEF Spec
<1>2. IInv /\ Known /\ [Next]_vars => [Promise!Next]_Promise!outbox
  BY OutboxStep, Zenon
<1>3. QED
  BY <1>1, <1>2, InitOutbox, PTL DEF Spec, ImplementsOutbox, Promise!Spec
=============================================================================
