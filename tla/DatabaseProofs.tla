--------------------------- MODULE DatabaseProofs ---------------------------
(***************************************************************************)
(* The database's writes, for any number of tasks, keys, corks and         *)
(* crashes: what a caller was promised is durable, no number a stored row  *)
(* carries is drawn again, and whoever waits for a key is woken by its     *)
(* write.                                                                  *)
(***************************************************************************)
EXTENDS Database, TLAPS

\* How long the two provers may take over a leaf.
USE SMTT(30), ZenonT(30)

-----------------------------------------------------------------------------
(* The database's writes.                                                  *)

AllKeys == UNION {KeysOf(l) : l \in WriteLists}
AnyPrefix == Watchings \cup {<<>>}

Batch == [keys : Seq(AllKeys), put : BOOLEAN, num : Nat, counter : Nat]
TaskState == [pc : {"idle", "counting", "written", "waking", "firing"}, left : Seq(AllKeys), num : Nat,
              index : Nat, hold : CorkKinds \cup {"none"}, trig : SUBSET AnyPrefix]
WaiterState == [state : {"away", "waiting", "woken"}, prefix : AnyPrefix, since : Nat]

WritesTypes ==
  /\ log \in Seq(Batch)
  /\ flushed \in Nat /\ promised \in Nat /\ count \in Nat
  /\ task \in [DbTasks -> TaskState]
  /\ waiter \in [Waiters -> WaiterState]

DurableInv ==
  /\ promised <= flushed /\ flushed <= Len(log)
  /\ \A t \in DbTasks : task[t].index <= Len(log)

(* Counters grow along the log, and a number given to a row is the counter
   of an earlier batch: what a crash keeps of the log counts at least as far
   as its rows. *)
CountersInv ==
  /\ \A i, j \in 1 .. Len(log) : i < j /\ log[j].counter # 0 => log[i].counter <= log[j].counter
  /\ \A i \in 1 .. Len(log) : log[i].counter <= count
  /\ \A i \in 1 .. Len(log) : log[i].num # 0 => \E j \in 1 .. Len(log) : j < i /\ log[j].counter = log[i].num
  /\ \A t \in DbTasks : task[t].num # 0 => \E j \in 1 .. Len(log) : log[j].counter = task[t].num

InWriting(t) == task[t].pc \in {"written", "waking", "firing"}

\* t has still to wake whoever watches p, on account of key k.
StillToTell(t, k, p) == k \in KeysOf(task[t].left) \/ (task[t].pc = "firing" /\ p \in task[t].trig)

(* Whoever waits for a key put since they came has its writer still to tell
   them. *)
Owed ==
  \A w \in Waiters : waiter[w].state = "waiting" =>
    \A i \in 1 .. Len(log) : i > waiter[w].since /\ log[i].put =>
      \A k \in KeysOf(log[i].keys) : starts_with(k, waiter[w].prefix) =>
        \E t \in DbTasks : InWriting(t) /\ task[t].index = i /\ StillToTell(t, k, waiter[w].prefix)

(* A batch has one writer, unanswered while it works. *)
WakingInv ==
  /\ acked \in SUBSET (1 .. Len(log))
  /\ \A t \in DbTasks : InWriting(t) => task[t].index \in (1 .. Len(log)) \ acked
  /\ \A t, u \in DbTasks : InWriting(t) /\ InWriting(u) /\ task[t].index = task[u].index => t = u
  /\ Owed

WritesInv == WritesTypes /\ DurableInv /\ CountersInv /\ WakingInv

LEMMA WritesStart == WritesInit => WritesInv
<1> SUFFICES ASSUME WritesInit PROVE WritesInv
  BY Zenon
<1>1. NoTask \in TaskState /\ NoTask.pc = "idle" /\ NoTask.index = 0 /\ NoTask.num = 0
  BY DEF NoTask, TaskState
<1>2. NoWaiter \in WaiterState /\ NoWaiter.state = "away"
  BY Zenon DEF NoWaiter, WaiterState, AnyPrefix
<1>3. WritesTypes
  BY <1>1, <1>2 DEF WritesInit, WritesTypes
<1>4. Len(log) = 0 /\ \A t \in DbTasks : task[t] = NoTask
  BY Zenon DEF WritesInit
<1> QED
  BY <1>1, <1>2, <1>3, <1>4 DEF WritesInit, WritesInv, DurableInv, CountersInv, WakingInv, Owed, InWriting

\* What an append does to the log.
LEMMA Appended ==
  ASSUME WritesTypes, NEW b \in Batch, log' = Append(log, b)
  PROVE  /\ log' \in Seq(Batch) /\ Len(log') = Len(log) + 1 /\ Len(log) \in Nat
         /\ log'[Len(log) + 1] = b
         /\ \A i \in 1 .. Len(log) : log'[i] = log[i]
BY DEF WritesTypes

LEMMA LogEntries ==
  ASSUME WritesTypes, NEW i \in 1 .. Len(log)
  PROVE  log[i] \in Batch /\ log[i].counter \in Nat /\ log[i].num \in Nat
<1>1. log[i] \in Batch
  BY DEF WritesTypes
<1> QED
  BY <1>1, Zenon DEF Batch

\* What replacing one task's state does.
LEMMA TaskReplaced ==
  ASSUME WritesTypes, NEW t \in DbTasks, NEW r \in TaskState, task' = [task EXCEPT ![t] = r]
  PROVE  /\ task' \in [DbTasks -> TaskState] /\ task'[t] = r
         /\ \A u \in DbTasks : u # t => task'[u] = task[u]
BY Zenon DEF WritesTypes

\* What a task does outside the writing of a batch leaves the waking alone.
LEMMA OthersKeepWaking ==
  ASSUME WritesTypes, WakingInv, NEW t \in DbTasks, ~InWriting(t), ~InWriting(t)',
         \A u \in DbTasks : u # t => task'[u] = task[u],
         UNCHANGED <<waiter, acked>>,
         Len(log') \in Nat, Len(log) <= Len(log'),
         \A i \in 1 .. Len(log) : log'[i] = log[i],
         \A i \in 1 .. Len(log') : i > Len(log) => KeysOf(log'[i].keys) = {}
  PROVE  WakingInv'
<1>1. Len(log) \in Nat
  BY DEF WritesTypes
<1>2. acked' \in SUBSET (1 .. Len(log'))
  BY <1>1 DEF WakingInv
<1>3. \A u \in DbTasks : InWriting(u)' => u # t /\ InWriting(u) /\ task'[u] = task[u]
  BY Zenon DEF InWriting
<1>4. \A u \in DbTasks : InWriting(u) => u # t /\ InWriting(u)' /\ task'[u] = task[u]
  BY Zenon DEF InWriting
<1>5. \A u \in DbTasks : InWriting(u)' => task'[u].index \in (1 .. Len(log')) \ acked'
  <2> SUFFICES ASSUME NEW u \in DbTasks, InWriting(u)' PROVE task'[u].index \in (1 .. Len(log')) \ acked'
    BY Zenon
  <2>1. task[u].index \in (1 .. Len(log)) \ acked /\ task'[u] = task[u]
    BY <1>3, Zenon DEF WakingInv
  <2> QED
    BY <1>1, <2>1
<1>6. \A u, v \in DbTasks : InWriting(u)' /\ InWriting(v)' /\ task'[u].index = task'[v].index => u = v
  BY <1>3, Zenon DEF WakingInv
<1>7. Owed'
  <2> SUFFICES ASSUME NEW w \in Waiters, waiter'[w].state = "waiting", NEW i \in 1 .. Len(log'),
                      i > waiter'[w].since, log'[i].put, NEW k \in KeysOf(log'[i].keys), starts_with(k, waiter'[w].prefix)
               PROVE  \E u \in DbTasks : InWriting(u)' /\ task'[u].index = i /\ StillToTell(u, k, waiter[w].prefix)'
    BY ZenonT(30) DEF Owed
  <2>0. ~(i > Len(log))
    <3>1. KeysOf(log'[i].keys) # {}
      BY Zenon
    <3> QED
      BY <3>1, Zenon
  <2>1. i \in 1 .. Len(log) /\ log'[i] = log[i]
    BY <1>1, <2>0
  <2>2. PICK u \in DbTasks : InWriting(u) /\ task[u].index = i /\ StillToTell(u, k, waiter[w].prefix)
    BY <2>1, ZenonT(30) DEF WakingInv, Owed
  <2> QED
    BY <1>4, <2>2, Zenon DEF StillToTell
<1> QED
  BY <1>2, <1>5, <1>6, <1>7, Zenon DEF WakingInv

LEMMA CorkKeeps == ASSUME WritesInv, NEW t \in DbTasks, cork(t) PROVE WritesInv'
<1>1. PICK kind \in CorkKinds : task' = [task EXCEPT ![t].hold = kind]
  BY Zenon DEF cork
<1> DEFINE r == [task[t] EXCEPT !.hold = kind]
<1>2. /\ r \in TaskState /\ r.pc = "idle" /\ task[t].pc = "idle" /\ r.num = task[t].num /\ r.index = task[t].index
      /\ task' = [task EXCEPT ![t] = r]
  BY <1>1, Zenon DEF cork, WritesInv, WritesTypes, TaskState
<1> HIDE DEF r
<1>3. /\ task' \in [DbTasks -> TaskState] /\ task'[t] = r
      /\ \A u \in DbTasks : u # t => task'[u] = task[u]
  BY <1>2, TaskReplaced, Zenon DEF WritesInv
<1>4. UNCHANGED <<log, flushed, promised, count, waiter, acked>>
  BY Zenon DEF cork
<1>5. WritesTypes' /\ DurableInv' /\ CountersInv'
  BY <1>2, <1>3, <1>4 DEF WritesInv, WritesTypes, DurableInv, CountersInv
<1>6. WakingInv'
  BY <1>2, <1>3, <1>4, OthersKeepWaking DEF WritesInv, WritesTypes, InWriting
<1> QED
  BY <1>5, <1>6, Zenon DEF WritesInv

LEMMA DropCorkKeeps == ASSUME WritesInv, NEW t \in DbTasks, drop_cork(t) PROVE WritesInv'
<1>1. /\ task[t].pc = "idle" /\ task' = [task EXCEPT ![t] = NoTask]
      /\ flushed' = IF Flushes(t) THEN Len(log) ELSE flushed
      /\ promised' = IF task[t].hold = "flush" /\ task[t].index > promised THEN task[t].index ELSE promised
      /\ UNCHANGED <<log, count, waiter, acked>>
  BY Zenon DEF drop_cork
<1>2. NoTask \in TaskState /\ NoTask.pc = "idle" /\ NoTask.index = 0 /\ NoTask.num = 0
  BY DEF NoTask, TaskState
<1>3. /\ task' \in [DbTasks -> TaskState] /\ task'[t] = NoTask
      /\ \A u \in DbTasks : u # t => task'[u] = task[u]
  BY <1>1, <1>2, TaskReplaced, Zenon DEF WritesInv
<1>4. Len(log) \in Nat /\ task[t].index \in Nat /\ flushed \in Nat /\ promised \in Nat
  BY DEF WritesInv, WritesTypes, TaskState
<1>5. flushed' \in Nat /\ promised' \in Nat /\ promised' <= flushed' /\ flushed' <= Len(log)
  BY <1>1, <1>4 DEF Flushes, WritesInv, DurableInv
<1>6. WritesTypes' /\ DurableInv' /\ CountersInv'
  <2>1. WritesTypes'
    BY <1>1, <1>3, <1>5, Zenon DEF WritesInv, WritesTypes
  <2>2. DurableInv'
    BY <1>1, <1>2, <1>3, <1>4, <1>5 DEF WritesInv, DurableInv
  <2>3. CountersInv'
    BY <1>1, <1>2, <1>3, Zenon DEF WritesInv, CountersInv
  <2> QED
    BY <2>1, <2>2, <2>3, Zenon
<1>7. WakingInv'
  BY <1>1, <1>2, <1>3, OthersKeepWaking DEF WritesInv, WritesTypes, InWriting
<1> QED
  BY <1>6, <1>7, Zenon DEF WritesInv

LEMMA NextLockKeeps == ASSUME WritesInv, NEW t \in DbTasks, next_lock(t) PROVE WritesInv'
<1> DEFINE r == [task[t] EXCEPT !.pc = "counting"]
<1>1. /\ r \in TaskState /\ r.pc = "counting" /\ task[t].pc = "idle" /\ r.num = task[t].num
      /\ r.index = task[t].index /\ task' = [task EXCEPT ![t] = r]
  BY Zenon DEF next_lock, WritesInv, WritesTypes, TaskState
<1> HIDE DEF r
<1>2. /\ task' \in [DbTasks -> TaskState] /\ task'[t] = r
      /\ \A u \in DbTasks : u # t => task'[u] = task[u]
  BY <1>1, TaskReplaced, Zenon DEF WritesInv
<1>3. UNCHANGED <<log, flushed, promised, count, waiter, acked>>
  BY Zenon DEF next_lock
<1>4. WritesTypes' /\ DurableInv' /\ CountersInv'
  BY <1>1, <1>2, <1>3 DEF WritesInv, WritesTypes, DurableInv, CountersInv
<1>5. WakingInv'
  BY <1>1, <1>2, <1>3, OthersKeepWaking DEF WritesInv, WritesTypes, InWriting
<1> QED
  BY <1>4, <1>5, Zenon DEF WritesInv

LEMMA CountKeeps == ASSUME WritesInv, NEW t \in DbTasks, next(t) PROVE WritesInv'
<1> DEFINE r == [task[t] EXCEPT !.pc = "idle", !.num = count + 1]
           b == [keys |-> <<>>, put |-> TRUE, num |-> 0, counter |-> count + 1]
<1>1. /\ r \in TaskState /\ r.pc = "idle" /\ task[t].pc = "counting" /\ r.num = count + 1
      /\ r.index = task[t].index /\ task' = [task EXCEPT ![t] = r]
  <2>1. task[t] \in TaskState /\ count + 1 \in Nat
    BY DEF WritesInv, WritesTypes
  <2>2. r \in TaskState /\ r.pc = "idle" /\ r.num = count + 1 /\ r.index = task[t].index
    BY <2>1, Zenon DEF TaskState
  <2>3. task' = [task EXCEPT ![t] = r] /\ task[t].pc = "counting"
    BY Zenon DEF next
  <2> QED
    BY <2>2, <2>3, Zenon
<1>2. b \in Batch /\ b.num = 0 /\ b.counter = count + 1 /\ KeysOf(b.keys) = {} /\ count \in Nat
  BY DEF Batch, WritesInv, WritesTypes, KeysOf
<1>3. /\ log' = Append(log, b) /\ count' = count + 1 /\ UNCHANGED <<flushed, promised, waiter, acked>>
  BY Zenon DEF next, StoresCount, Writes
<1> HIDE DEF r, b
<1>4. /\ task' \in [DbTasks -> TaskState] /\ task'[t] = r
      /\ \A u \in DbTasks : u # t => task'[u] = task[u]
  BY <1>1, TaskReplaced, ZenonT(30) DEF WritesInv
<1>5. /\ log' \in Seq(Batch) /\ Len(log') = Len(log) + 1 /\ Len(log) \in Nat
      /\ log'[Len(log) + 1] = b
      /\ \A i \in 1 .. Len(log) : log'[i] = log[i]
  BY <1>2, <1>3, Appended, Zenon DEF WritesInv
<1>6. WritesTypes'
  BY <1>2, <1>3, <1>4, <1>5 DEF WritesInv, WritesTypes
<1>7. DurableInv'
  <2>1. \A u \in DbTasks : task'[u].index = task[u].index /\ task[u].index \in Nat
    BY <1>1, <1>4, Zenon DEF WritesInv, WritesTypes, TaskState
  <2>2. flushed \in Nat /\ promised \in Nat /\ Len(log) \in Nat
    BY DEF WritesInv, WritesTypes
  <2>3. flushed' <= Len(log') /\ promised' <= flushed'
    BY <1>3, <1>5, <2>2 DEF WritesInv, DurableInv
  <2>4. \A u \in DbTasks : task'[u].index <= Len(log')
    BY <1>5, <2>1, <2>2 DEF WritesInv, DurableInv
  <2> QED
    BY <2>3, <2>4, Zenon DEF DurableInv
<1>8. \A i \in 1 .. Len(log) : log[i].counter \in Nat /\ log[i].num \in Nat
  BY LogEntries, Zenon DEF WritesInv
<1>9. CountersInv'
  <2>1. \A i, j \in 1 .. Len(log') : i < j /\ log'[j].counter # 0 => log'[i].counter <= log'[j].counter
    <3> SUFFICES ASSUME NEW i \in 1 .. Len(log'), NEW j \in 1 .. Len(log'), i < j, log'[j].counter # 0
                 PROVE  log'[i].counter <= log'[j].counter
      BY Zenon
    <3>1. i \in 1 .. Len(log) /\ log'[i] = log[i] /\ log[i].counter <= count
      BY <1>5 DEF WritesInv, CountersInv
    <3>2. CASE j \in 1 .. Len(log)
      BY <1>5, <3>1, <3>2 DEF WritesInv, CountersInv
    <3>3. CASE j = Len(log) + 1
      BY <1>2, <1>5, <1>8, <3>1, <3>3
    <3> QED
      BY <1>5, <3>2, <3>3
  <2>2. \A i \in 1 .. Len(log') : log'[i].counter <= count'
    BY <1>2, <1>3, <1>5, <1>8 DEF WritesInv, CountersInv
  <2>3. \A i \in 1 .. Len(log') :
          log'[i].num # 0 => \E j \in 1 .. Len(log') : j < i /\ log'[j].counter = log'[i].num
    <3> SUFFICES ASSUME NEW i \in 1 .. Len(log'), log'[i].num # 0
                 PROVE  \E j \in 1 .. Len(log') : j < i /\ log'[j].counter = log'[i].num
      BY Zenon
    <3>1. i \in 1 .. Len(log) /\ log'[i] = log[i]
      BY <1>2, <1>5
    <3>2. PICK j \in 1 .. Len(log) : j < i /\ log[j].counter = log[i].num
      BY <3>1, Zenon DEF WritesInv, CountersInv
    <3>3. j \in 1 .. Len(log') /\ log'[j] = log[j]
      BY <1>5
    <3> QED
      BY <3>1, <3>2, <3>3, Zenon
  <2>4. \A u \in DbTasks : task'[u].num # 0 => \E j \in 1 .. Len(log') : log'[j].counter = task'[u].num
    <3> SUFFICES ASSUME NEW u \in DbTasks, task'[u].num # 0
                 PROVE  \E j \in 1 .. Len(log') : log'[j].counter = task'[u].num
      BY Zenon
    <3>1. CASE u = t
      <4>1. Len(log) + 1 \in 1 .. Len(log')
        BY <1>5
      <4> QED
        BY <1>1, <1>2, <1>4, <1>5, <3>1, <4>1, Zenon
    <3>2. CASE u # t
      <4>1. PICK j \in 1 .. Len(log) : log[j].counter = task[u].num
        BY <1>4, <3>2, Zenon DEF WritesInv, CountersInv
      <4>2. j \in 1 .. Len(log') /\ log'[j] = log[j]
        BY <1>5
      <4> QED
        BY <1>4, <3>2, <4>1, <4>2, Zenon
    <3> QED
      BY <3>1, <3>2, Zenon
  <2> QED
    BY <2>1, <2>2, <2>3, <2>4, Zenon DEF CountersInv
<1>10. WakingInv'
  BY <1>1, <1>2, <1>3, <1>4, <1>5, OthersKeepWaking DEF WritesInv, InWriting
<1> QED
  BY <1>6, <1>7, <1>9, <1>10, Zenon DEF WritesInv

\* A batch that stores no counter, whose number is one the writer was given.
LEMMA WriteKeepsCounters ==
  ASSUME WritesInv, NEW t \in DbTasks, NEW b \in Batch, log' = Append(log, b),
         b.counter = 0, b.num \in {0, task[t].num}, UNCHANGED count,
         task'[t].num \in {0, task[t].num}, \A u \in DbTasks : u # t => task'[u] = task[u]
  PROVE  CountersInv'
<1>1. /\ Len(log') = Len(log) + 1 /\ Len(log) \in Nat /\ log'[Len(log) + 1] = b
      /\ \A i \in 1 .. Len(log) : log'[i] = log[i]
  BY Appended, Zenon DEF WritesInv
<1>2. \A i \in 1 .. Len(log) : log[i].counter \in Nat /\ log[i].num \in Nat
  BY LogEntries, Zenon DEF WritesInv
<1>3. \A i \in 1 .. Len(log') : (i \in 1 .. Len(log) /\ log'[i] = log[i]) \/ (i = Len(log) + 1 /\ log'[i] = b)
  BY <1>1
<1>4. \A j \in 1 .. Len(log) : j \in 1 .. Len(log') /\ log'[j] = log[j] /\ j < Len(log) + 1
  BY <1>1
<1>5. \A i, j \in 1 .. Len(log') : i < j /\ log'[j].counter # 0 => log'[i].counter <= log'[j].counter
  BY <1>1, <1>2, <1>3 DEF WritesInv, CountersInv
<1>6. \A i \in 1 .. Len(log') : log'[i].counter <= count'
  BY <1>2, <1>3 DEF WritesInv, WritesTypes, CountersInv
<1>7. \A u \in DbTasks : task[u].num # 0 => \E j \in 1 .. Len(log') : j < Len(log) + 1 /\ log'[j].counter = task[u].num
  <2> SUFFICES ASSUME NEW u \in DbTasks, task[u].num # 0
               PROVE  \E j \in 1 .. Len(log') : j < Len(log) + 1 /\ log'[j].counter = task[u].num
    BY Zenon
  <2>1. PICK j \in 1 .. Len(log) : log[j].counter = task[u].num
    BY Zenon DEF WritesInv, CountersInv
  <2> QED
    BY <1>4, <2>1, Zenon
<1>8. \A i \in 1 .. Len(log') :
        log'[i].num # 0 => \E j \in 1 .. Len(log') : j < i /\ log'[j].counter = log'[i].num
  <2> SUFFICES ASSUME NEW i \in 1 .. Len(log'), log'[i].num # 0
               PROVE  \E j \in 1 .. Len(log') : j < i /\ log'[j].counter = log'[i].num
    BY Zenon
  <2>1. CASE i \in 1 .. Len(log) /\ log'[i] = log[i]
    <3>1. PICK j \in 1 .. Len(log) : j < i /\ log[j].counter = log[i].num
      BY <2>1, Zenon DEF WritesInv, CountersInv
    <3> QED
      BY <1>4, <2>1, <3>1, Zenon
  <2>2. CASE i = Len(log) + 1 /\ log'[i] = b
    BY <1>7, <2>2
  <2> QED
    BY <1>3, <2>1, <2>2, Zenon
<1>9. \A u \in DbTasks : task'[u].num # 0 => \E j \in 1 .. Len(log') : log'[j].counter = task'[u].num
  <2> SUFFICES ASSUME NEW u \in DbTasks, task'[u].num # 0
               PROVE  \E j \in 1 .. Len(log') : log'[j].counter = task'[u].num
    BY Zenon
  <2>1. task'[u].num = task[u].num
    BY Zenon
  <2> QED
    BY <1>7, <2>1, Zenon
<1> QED
  BY <1>5, <1>6, <1>8, <1>9, Zenon DEF CountersInv

\* A batch put or removed, with its writer still to wake whoever watches it.
LEMMA WriteKeepsWaking ==
  ASSUME WritesInv, NEW t \in DbTasks, task[t].pc = "idle", NEW b \in Batch, log' = Append(log, b),
         task'[t].pc = "written", task'[t].index = Len(log) + 1, b.put => task'[t].left = b.keys,
         \A u \in DbTasks : u # t => task'[u] = task[u], UNCHANGED <<waiter, acked>>
  PROVE  WakingInv'
<1>1. /\ Len(log') = Len(log) + 1 /\ Len(log) \in Nat /\ log'[Len(log) + 1] = b
      /\ \A i \in 1 .. Len(log) : log'[i] = log[i]
  BY Appended, Zenon DEF WritesInv
<1>2. \A u \in DbTasks : InWriting(u) => u # t /\ InWriting(u)' /\ task'[u] = task[u]
  BY Zenon DEF InWriting
<1>3. \A u \in DbTasks : InWriting(u)' => \/ u = t /\ task'[u].index = Len(log) + 1
                                          \/ u # t /\ InWriting(u) /\ task'[u].index = task[u].index
  BY Zenon DEF InWriting
<1>4. acked' \in SUBSET (1 .. Len(log'))
  BY <1>1 DEF WritesInv, WakingInv
<1>5. \A u \in DbTasks : InWriting(u) => task[u].index \in (1 .. Len(log)) \ acked
  BY Zenon DEF WritesInv, WakingInv
<1>6. Len(log) + 1 \notin acked /\ Len(log) + 1 \in 1 .. Len(log')
  BY <1>1 DEF WritesInv, WakingInv
<1>7. \A u \in DbTasks : InWriting(u)' => task'[u].index \in (1 .. Len(log')) \ acked'
  BY <1>1, <1>3, <1>5, <1>6
<1>8. \A u, v \in DbTasks : InWriting(u)' /\ InWriting(v)' /\ task'[u].index = task'[v].index => u = v
  BY <1>1, <1>3, <1>5 DEF WritesInv, WakingInv
<1>9. Owed'
  <2> SUFFICES ASSUME NEW w \in Waiters, waiter'[w].state = "waiting", NEW i \in 1 .. Len(log'),
                      i > waiter'[w].since, log'[i].put, NEW k \in KeysOf(log'[i].keys), starts_with(k, waiter'[w].prefix)
               PROVE  \E u \in DbTasks : InWriting(u)' /\ task'[u].index = i /\ StillToTell(u, k, waiter[w].prefix)'
    BY ZenonT(90) DEF Owed
  <2>1. CASE i = Len(log) + 1
    BY <1>1, <2>1, Zenon DEF InWriting, StillToTell
  <2>2. CASE i # Len(log) + 1
    <3>1. i \in 1 .. Len(log) /\ log'[i] = log[i]
      BY <1>1, <2>2
    <3>2. PICK u \in DbTasks : InWriting(u) /\ task[u].index = i /\ StillToTell(u, k, waiter[w].prefix)
      BY <3>1, ZenonT(30) DEF WritesInv, WakingInv, Owed
    <3> QED
      BY <1>2, <3>2, Zenon DEF StillToTell
  <2> QED
    BY <2>1, <2>2, Zenon
<1> QED
  BY <1>4, <1>7, <1>8, <1>9, Zenon DEF WakingInv

LEMMA KeyLists == WriteLists \subseteq Seq(AllKeys)
<1> SUFFICES ASSUME NEW l \in WriteLists PROVE l \in Seq(AllKeys)
  BY Zenon
<1>1. l \in Seq(KeysOf(l)) /\ KeysOf(l) \subseteq AllKeys
  BY WritesAssumption, Zenon DEF AllKeys
<1> HIDE DEF AllKeys
<1> QED
  BY <1>1

LEMMA WriteKeepsRest ==
  ASSUME WritesInv, NEW t \in DbTasks, NEW r \in TaskState, task' = [task EXCEPT ![t] = r],
         NEW b \in Batch, log' = Append(log, b), r.index = Len(log) + 1,
         UNCHANGED <<flushed, promised, count, waiter>>
  PROVE  WritesTypes' /\ DurableInv'
<1>1. /\ log' \in Seq(Batch) /\ Len(log') = Len(log) + 1 /\ Len(log) \in Nat
  BY Appended, Zenon DEF WritesInv
<1>2. /\ task' \in [DbTasks -> TaskState] /\ task'[t] = r
      /\ \A u \in DbTasks : u # t => task'[u] = task[u]
  BY TaskReplaced, Zenon DEF WritesInv
<1>3. WritesTypes'
  BY <1>1, <1>2, Zenon DEF WritesInv, WritesTypes
<1>4. flushed \in Nat /\ promised \in Nat /\ \A u \in DbTasks : task[u].index \in Nat
  BY Zenon DEF WritesInv, WritesTypes, TaskState
<1>5. flushed' <= Len(log') /\ promised' <= flushed'
  BY <1>1, <1>4 DEF WritesInv, DurableInv
<1>6. \A u \in DbTasks : task'[u].index <= Len(log')
  BY <1>1, <1>2, <1>4 DEF WritesInv, DurableInv
<1> QED
  BY <1>3, <1>5, <1>6, Zenon DEF DurableInv

LEMMA InsertKeeps ==
  ASSUME WritesInv, NEW t \in DbTasks, NEW keys \in WriteLists, insert(t, keys)
  PROVE  WritesInv'
<1> DEFINE r == [task[t] EXCEPT !.pc = "written", !.index = Len(log) + 1, !.left = keys, !.num = 0]
           b == [keys |-> keys, put |-> TRUE, num |-> task[t].num, counter |-> 0]
<1>1. task[t] \in TaskState /\ Len(log) + 1 \in Nat /\ keys \in Seq(AllKeys)
  BY KeyLists DEF WritesInv, WritesTypes
<1>2. r \in TaskState /\ r.pc = "written" /\ r.index = Len(log) + 1 /\ r.left = keys /\ r.num = 0 /\ task[t].num \in Nat
  BY <1>1, Zenon DEF TaskState
<1>3. b \in Batch /\ b.keys = keys /\ b.put /\ b.num = task[t].num /\ b.counter = 0
  BY <1>1, <1>2, Zenon DEF Batch
<1>4. /\ task' = [task EXCEPT ![t] = r] /\ task[t].pc = "idle" /\ log' = Append(log, b)
      /\ UNCHANGED <<flushed, promised, count, waiter, acked>>
  BY Zenon DEF insert, Writes
<1> HIDE DEF r, b
<1>5. task'[t] = r /\ \A u \in DbTasks : u # t => task'[u] = task[u]
  BY <1>2, <1>4, TaskReplaced, Zenon DEF WritesInv
<1>6. WritesTypes' /\ DurableInv'
  BY <1>2, <1>3, <1>4, WriteKeepsRest, Zenon
<1>7. CountersInv'
  BY <1>2, <1>3, <1>4, <1>5, WriteKeepsCounters, Zenon
<1>8. WakingInv'
  BY <1>2, <1>3, <1>4, <1>5, WriteKeepsWaking, Zenon
<1> QED
  BY <1>6, <1>7, <1>8, Zenon DEF WritesInv

LEMMA RemoveKeeps ==
  ASSUME WritesInv, NEW t \in DbTasks, NEW keys \in WriteLists, remove(t, keys)
  PROVE  WritesInv'
<1> DEFINE r == [task[t] EXCEPT !.pc = "written", !.index = Len(log) + 1]
           b == [keys |-> keys, put |-> FALSE, num |-> 0, counter |-> 0]
<1>1. task[t] \in TaskState /\ Len(log) + 1 \in Nat /\ keys \in Seq(AllKeys)
  BY KeyLists DEF WritesInv, WritesTypes
<1>2. r \in TaskState /\ r.pc = "written" /\ r.index = Len(log) + 1 /\ r.num = task[t].num
  BY <1>1, Zenon DEF TaskState
<1>3. b \in Batch /\ ~b.put /\ b.num = 0 /\ b.counter = 0
  BY <1>1, <1>2, Zenon DEF Batch
<1>4. /\ task' = [task EXCEPT ![t] = r] /\ task[t].pc = "idle" /\ log' = Append(log, b)
      /\ UNCHANGED <<flushed, promised, count, waiter, acked>>
  BY Zenon DEF remove, Writes
<1> HIDE DEF r, b
<1>5. task'[t] = r /\ \A u \in DbTasks : u # t => task'[u] = task[u]
  BY <1>2, <1>4, TaskReplaced, Zenon DEF WritesInv
<1>6. WritesTypes' /\ DurableInv'
  BY <1>2, <1>3, <1>4, WriteKeepsRest, Zenon
<1>7. CountersInv'
  BY <1>2, <1>3, <1>4, <1>5, WriteKeepsCounters, Zenon
<1>8. WakingInv'
  BY <1>2, <1>3, <1>4, <1>5, WriteKeepsWaking, Zenon
<1> QED
  BY <1>6, <1>7, <1>8, Zenon DEF WritesInv

\* What is owed after a step, said of the next state.
LEMMA OwedNext ==
  ASSUME \A w \in Waiters : waiter'[w].state = "waiting" =>
           \A i \in 1 .. Len(log') : i > waiter'[w].since /\ log'[i].put =>
             \A k \in KeysOf(log'[i].keys) : starts_with(k, waiter'[w].prefix) =>
               \E u \in DbTasks : InWriting(u)' /\ task'[u].index = i /\ StillToTell(u, k, waiter[w].prefix)'
  PROVE  Owed'
  BY Zenon DEF Owed, InWriting, StillToTell

LEMMA OwedKept ==
  ASSUME Owed, log' = log,
         \A w \in Waiters : waiter'[w].state = "waiting" => waiter'[w] = waiter[w],
         \A u \in DbTasks : (InWriting(u) => InWriting(u)') /\ task'[u].index = task[u].index,
         \A k : \A u \in DbTasks, w \in Waiters : waiter'[w].state = "waiting" /\ starts_with(k, waiter[w].prefix)
            /\ StillToTell(u, k, waiter[w].prefix) => StillToTell(u, k, waiter[w].prefix)'
  PROVE  Owed'
<1> SUFFICES ASSUME NEW w \in Waiters, waiter'[w].state = "waiting", NEW i \in 1 .. Len(log'),
                    i > waiter'[w].since, log'[i].put, NEW k \in KeysOf(log'[i].keys), starts_with(k, waiter'[w].prefix)
             PROVE  \E u \in DbTasks : InWriting(u)' /\ task'[u].index = i /\ StillToTell(u, k, waiter[w].prefix)'
  BY OwedNext, Zenon
<1>1. waiter'[w] = waiter[w]
  BY Zenon
<1>2. PICK u \in DbTasks : InWriting(u) /\ task[u].index = i /\ StillToTell(u, k, waiter[w].prefix)
  BY <1>1, ZenonT(30) DEF Owed
<1> QED
  BY <1>1, <1>2, Zenon

\* A writer on its way through one batch: whoever it had to tell it still
\* has, or no longer waits.
LEMMA WorkKeeps ==
  ASSUME WritesInv, NEW t \in DbTasks, NEW r \in TaskState, task' = [task EXCEPT ![t] = r],
         InWriting(t), r.pc \in {"written", "waking", "firing"}, r.index = task[t].index, r.num = task[t].num,
         flushed' \in Nat, promised' \in Nat, promised' <= flushed', flushed' <= Len(log),
         UNCHANGED <<log, count, acked>>,
         waiter' \in [Waiters -> WaiterState],
         \A w \in Waiters : waiter'[w].state = "waiting" => waiter'[w] = waiter[w],
         \A k : \A w \in Waiters : waiter'[w].state = "waiting" /\ starts_with(k, waiter[w].prefix)
            /\ StillToTell(t, k, waiter[w].prefix) => StillToTell(t, k, waiter[w].prefix)'
  PROVE  WritesInv'
<1>1. /\ task' \in [DbTasks -> TaskState] /\ task'[t] = r
      /\ \A u \in DbTasks : u # t => task'[u] = task[u]
  BY TaskReplaced, Zenon DEF WritesInv
<1>2. WritesTypes'
  BY <1>1, Zenon DEF WritesInv, WritesTypes
<1>3. DurableInv'
  BY <1>1, Zenon DEF WritesInv, DurableInv
<1>4. CountersInv'
  BY <1>1 DEF WritesInv, CountersInv
<1>5. \A u \in DbTasks : (InWriting(u)' <=> InWriting(u)) /\ task'[u].index = task[u].index
  BY <1>1, Zenon DEF InWriting
<1>6. Owed'
  <2>1. Owed /\ log' = log
    BY Zenon DEF WritesInv, WakingInv
  <2>2. \A k : \A u \in DbTasks, w \in Waiters : waiter'[w].state = "waiting" /\ starts_with(k, waiter[w].prefix)
            /\ StillToTell(u, k, waiter[w].prefix) => StillToTell(u, k, waiter[w].prefix)'
    <3> SUFFICES ASSUME NEW k, NEW u \in DbTasks, NEW w \in Waiters,
                        waiter'[w].state = "waiting", starts_with(k, waiter[w].prefix),
                        StillToTell(u, k, waiter[w].prefix)
                 PROVE  StillToTell(u, k, waiter[w].prefix)'
      BY Zenon
    <3>1. CASE u = t
      BY <3>1, Zenon
    <3>2. CASE u # t
      BY <1>1, <3>2, Zenon DEF StillToTell
    <3> QED
      BY <3>1, <3>2, Zenon
  <2> QED
    BY <1>5, <2>1, <2>2, OwedKept, Zenon
<1>7. /\ acked' \in SUBSET (1 .. Len(log'))
      /\ \A u \in DbTasks : InWriting(u)' => task'[u].index \in (1 .. Len(log')) \ acked'
      /\ \A u, v \in DbTasks : InWriting(u)' /\ InWriting(v)' /\ task'[u].index = task'[v].index => u = v
  BY <1>5, Zenon DEF WritesInv, WakingInv
<1>8. WakingInv'
  BY <1>6, <1>7, Zenon DEF WakingInv
<1> QED
  BY <1>2, <1>3, <1>4, <1>8, Zenon DEF WritesInv

LEMMA FlushKeeps == ASSUME WritesInv, NEW t \in DbTasks, flush_if_uncorked(t) PROVE WritesInv'
<1> DEFINE r == [task[t] EXCEPT !.pc = "waking"]
<1>1. task[t] \in TaskState
  BY Zenon DEF WritesInv, WritesTypes
<1>2. /\ r \in TaskState /\ r.pc = "waking" /\ r.index = task[t].index /\ r.num = task[t].num
      /\ r.left = task[t].left /\ r.trig = task[t].trig /\ task[t].index \in Nat
  BY <1>1, Zenon DEF TaskState
<1>3. /\ task' = [task EXCEPT ![t] = r] /\ task[t].pc = "written"
      /\ flushed' = IF corks > 0 THEN flushed ELSE Len(log)
      /\ promised' = IF corks = 0 /\ task[t].index > promised THEN task[t].index ELSE promised
      /\ UNCHANGED <<log, count, waiter, acked>>
  BY Zenon DEF flush_if_uncorked
<1> HIDE DEF r
<1>4. Len(log) \in Nat /\ flushed \in Nat /\ promised \in Nat /\ promised <= flushed /\ flushed <= Len(log)
      /\ task[t].index <= Len(log)
  BY DEF WritesInv, WritesTypes, DurableInv
<1>5. flushed' \in Nat /\ promised' \in Nat /\ promised' <= flushed' /\ flushed' <= Len(log)
  BY <1>2, <1>3, <1>4
<1>6. task'[t] = r
  BY <1>2, <1>3, TaskReplaced, Zenon DEF WritesInv
<1>7. \A k, p : StillToTell(t, k, p) => k \in KeysOf(task'[t].left)
  BY <1>2, <1>3, <1>6, Zenon DEF StillToTell
<1>8. /\ InWriting(t) /\ waiter' \in [Waiters -> WaiterState]
      /\ \A k : \A w \in Waiters : StillToTell(t, k, waiter[w].prefix) => StillToTell(t, k, waiter[w].prefix)'
  BY <1>3, <1>7, Zenon DEF InWriting, StillToTell, WritesInv, WritesTypes
<1> QED
  BY <1>2, <1>3, <1>5, <1>8, WorkKeeps, Zenon

\* A list's elements are its head and those of its tail.
LEMMA HeadOrTail ==
  ASSUME NEW S, NEW l \in Seq(S), l # <<>>, NEW k \in KeysOf(l)
  PROVE  k = Head(l) \/ k \in KeysOf(Tail(l))
<1>1. PICK i \in 1 .. Len(l) : k = l[i]
  BY DEF KeysOf
<1>2. CASE i = 1
  BY <1>1, <1>2
<1>3. CASE i # 1
  <2>1. Tail(l) \in Seq(S) /\ Len(Tail(l)) = Len(l) - 1 /\ i - 1 \in 1 .. Len(Tail(l)) /\ Tail(l)[i - 1] = l[i]
    BY <1>3
  <2>2. i - 1 \in DOMAIN Tail(l)
    BY <2>1
  <2>3. k = Tail(l)[i - 1]
    BY <1>1, <2>1, Zenon
  <2> QED
    BY <2>2, <2>3, Zenon DEF KeysOf
<1> QED
  BY <1>2, <1>3, Zenon

LEMMA CollectKeeps == ASSUME WritesInv, NEW t \in DbTasks, wake_collect(t) PROVE WritesInv'
<1> DEFINE trig == Triggers(Head(task[t].left))
           r == [task[t] EXCEPT !.left = Tail(@), !.trig = trig, !.pc = IF trig = {} THEN "waking" ELSE "firing"]
<1>1. task[t] \in TaskState /\ task[t].left \in Seq(AllKeys) /\ task[t].left # <<>> /\ task[t].pc = "waking"
  BY Zenon DEF WritesInv, WritesTypes, TaskState, wake_collect
<1>2. trig \in SUBSET AnyPrefix
  <2>1. \A w \in Waiters : waiter[w] \in WaiterState
    BY Zenon DEF WritesInv, WritesTypes
  <2>2. \A w \in Waiters : waiter[w].prefix \in AnyPrefix
    BY <2>1, Zenon DEF WaiterState
  <2> QED
    BY <2>2, Zenon DEF Triggers, Watched
<1>3. \A k : \A w \in Waiters : waiter[w].state = "waiting" /\ starts_with(k, waiter[w].prefix) /\ k = Head(task[t].left)
         => waiter[w].prefix \in trig
  BY Zenon DEF Triggers, Watched
<1>4. task' = [task EXCEPT ![t] = r] /\ UNCHANGED <<log, flushed, promised, count, waiter, acked>>
  BY Zenon DEF wake_collect
<1> HIDE DEF trig
<1>5. Tail(task[t].left) \in Seq(AllKeys)
  BY <1>1
<1>6. /\ r \in TaskState /\ r.pc \in {"waking", "firing"} /\ r.index = task[t].index /\ r.num = task[t].num
      /\ r.left = Tail(task[t].left) /\ r.trig = trig /\ (trig # {} => r.pc = "firing")
  BY <1>1, <1>2, <1>5, Zenon DEF TaskState
<1> HIDE DEF r
<1>7. task'[t] = r
  BY <1>4, <1>6, TaskReplaced, ZenonT(30) DEF WritesInv
<1>8. ASSUME NEW w \in Waiters, NEW k, waiter[w].state = "waiting", starts_with(k, waiter[w].prefix),
             StillToTell(t, k, waiter[w].prefix)
      PROVE  StillToTell(t, k, waiter[w].prefix)'
  <2>1. k \in KeysOf(task[t].left)
    BY <1>1, <1>8, Zenon DEF StillToTell
  <2>2. CASE k = Head(task[t].left)
    BY <1>3, <1>4, <1>6, <1>7, <1>8, <2>2, Zenon DEF StillToTell
  <2>3. CASE k \in KeysOf(Tail(task[t].left))
    BY <1>6, <1>7, <2>3, Zenon DEF StillToTell
  <2> QED
    BY <1>1, <2>1, <2>2, <2>3, HeadOrTail, Zenon
<1>9. /\ InWriting(t) /\ waiter' \in [Waiters -> WaiterState] /\ flushed' \in Nat /\ promised' \in Nat
      /\ promised' <= flushed' /\ flushed' <= Len(log)
  BY <1>1, <1>4, Zenon DEF InWriting, WritesInv, WritesTypes, DurableInv
<1> QED
  BY <1>4, <1>6, <1>8, <1>9, WorkKeeps, Zenon

LEMMA FireKeeps == ASSUME WritesInv, NEW t \in DbTasks, wake_fire(t) PROVE WritesInv'
<1> DEFINE r == [task[t] EXCEPT !.pc = "waking", !.trig = {}]
           hit(w) == waiter[w].state = "waiting" /\ waiter[w].prefix \in task[t].trig
<1>1. task[t] \in TaskState /\ task[t].pc = "firing"
  BY Zenon DEF WritesInv, WritesTypes, wake_fire
<1>2. /\ r \in TaskState /\ r.pc = "waking" /\ r.index = task[t].index /\ r.num = task[t].num
      /\ r.left = task[t].left
  BY <1>1, Zenon DEF TaskState
<1>3. /\ task' = [task EXCEPT ![t] = r] /\ UNCHANGED <<log, flushed, promised, count, acked>>
      /\ waiter' = [w \in Waiters |-> IF hit(w) THEN [waiter[w] EXCEPT !.state = "woken"] ELSE waiter[w]]
  BY Zenon DEF wake_fire
<1> HIDE DEF r
<1>4. \A w \in Waiters : [waiter[w] EXCEPT !.state = "woken"] \in WaiterState
                         /\ [waiter[w] EXCEPT !.state = "woken"].state = "woken" /\ waiter[w] \in WaiterState
  BY Zenon DEF WritesInv, WritesTypes, WaiterState
<1>5. waiter' \in [Waiters -> WaiterState]
  BY <1>3, <1>4, Zenon
<1>6. \A w \in Waiters : waiter'[w].state = "waiting" => waiter'[w] = waiter[w] /\ waiter[w].prefix \notin task[t].trig
  BY <1>3, <1>4, Zenon
<1>7. task'[t] = r
  BY <1>2, <1>3, TaskReplaced, Zenon DEF WritesInv
<1>8. ASSUME NEW w \in Waiters, NEW k, waiter'[w].state = "waiting", starts_with(k, waiter[w].prefix),
             StillToTell(t, k, waiter[w].prefix)
      PROVE  StillToTell(t, k, waiter[w].prefix)'
  BY <1>2, <1>6, <1>7, <1>8, Zenon DEF StillToTell
<1>9. /\ InWriting(t) /\ flushed' \in Nat /\ promised' \in Nat
      /\ promised' <= flushed' /\ flushed' <= Len(log)
  BY <1>1, <1>3, Zenon DEF InWriting, WritesInv, WritesTypes, DurableInv
<1>10. \A w \in Waiters : waiter'[w].state = "waiting" => waiter'[w] = waiter[w]
  BY <1>6, Zenon
<1>11. r.pc \in {"written", "waking", "firing"} /\ UNCHANGED <<log, count, acked>>
  BY <1>2, <1>3, Zenon
<1> QED
  BY <1>2, <1>3, <1>5, <1>8, <1>9, <1>10, <1>11, WorkKeeps, Zenon

LEMMA AnswerKeeps == ASSUME WritesInv, NEW t \in DbTasks, Answers(t) PROVE WritesInv'
<1> DEFINE r == [task[t] EXCEPT !.pc = "idle", !.index = IF task[t].hold = "none" THEN 0 ELSE @]
<1>1. task[t] \in TaskState /\ task[t].pc = "waking" /\ task[t].left = <<>>
  BY Zenon DEF WritesInv, WritesTypes, Answers
<1>2. r \in TaskState /\ r.pc = "idle" /\ r.index \in {0, task[t].index} /\ r.num = task[t].num
  BY <1>1, Zenon DEF TaskState
<1>3. /\ task' = [task EXCEPT ![t] = r] /\ acked' = acked \union {task[t].index}
      /\ UNCHANGED <<log, flushed, promised, count, waiter>>
  BY Zenon DEF Answers
<1> HIDE DEF r
<1>4. /\ task' \in [DbTasks -> TaskState] /\ task'[t] = r
      /\ \A u \in DbTasks : u # t => task'[u] = task[u]
  BY <1>2, <1>3, TaskReplaced, Zenon DEF WritesInv
<1>5. WritesTypes' /\ CountersInv'
  BY <1>2, <1>3, <1>4 DEF WritesInv, WritesTypes, CountersInv
<1>6. DurableInv'
  <2>1. Len(log) \in Nat
    BY DEF WritesInv, WritesTypes
  <2> QED
    BY <1>2, <1>3, <1>4, <2>1 DEF WritesInv, DurableInv
<1>7. InWriting(t) /\ ~InWriting(t)' /\ \A k, p : ~StillToTell(t, k, p)
  BY <1>1, <1>2, <1>4 DEF InWriting, StillToTell, KeysOf
<1>8. \A u \in DbTasks : InWriting(u)' <=> u # t /\ InWriting(u)
  BY <1>4, <1>7, Zenon DEF InWriting
<1>9. task[t].index \in 1 .. Len(log)
  BY <1>7, Zenon DEF WritesInv, WakingInv
<1>10. acked' \in SUBSET (1 .. Len(log'))
  BY <1>3, <1>9, Zenon DEF WritesInv, WakingInv
<1>11. \A u \in DbTasks : InWriting(u)' => task'[u].index \in (1 .. Len(log')) \ acked'
  BY <1>3, <1>4, <1>7, <1>8, Zenon DEF WritesInv, WakingInv
<1>12. \A u, v \in DbTasks : InWriting(u)' /\ InWriting(v)' /\ task'[u].index = task'[v].index => u = v
  BY <1>4, <1>8, Zenon DEF WritesInv, WakingInv
<1>13. Owed'
  <2> SUFFICES ASSUME NEW w \in Waiters, waiter'[w].state = "waiting", NEW i \in 1 .. Len(log'),
                      i > waiter'[w].since, log'[i].put, NEW k \in KeysOf(log'[i].keys), starts_with(k, waiter'[w].prefix)
               PROVE  \E u \in DbTasks : InWriting(u)' /\ task'[u].index = i /\ StillToTell(u, k, waiter[w].prefix)'
    BY Zenon DEF Owed
  <2>1. Owed
    BY Zenon DEF WritesInv, WakingInv
  <2>2. PICK u \in DbTasks : InWriting(u) /\ task[u].index = i /\ StillToTell(u, k, waiter[w].prefix)
    BY <1>3, <2>1, Zenon DEF Owed
  <2>3. u # t /\ task'[u] = task[u]
    BY <1>4, <1>7, <2>2, Zenon
  <2> QED
    BY <1>3, <1>8, <2>2, <2>3, Zenon DEF StillToTell
<1> QED
  BY <1>5, <1>6, <1>10, <1>11, <1>12, <1>13, ZenonT(30) DEF WritesInv, WakingInv

LEMMA WatchKeeps == ASSUME WritesInv, NEW w \in Waiters, NEW p \in Watchings, watch(w, p) PROVE WritesInv'
<1> DEFINE new == [state |-> "waiting", prefix |-> p, since |-> Len(log)]
<1>0. Len(log) \in Nat /\ p \in AnyPrefix
  BY DEF AnyPrefix, WritesInv, WritesTypes
<1>1. new \in WaiterState /\ new.since = Len(log) /\ Len(log) \in Nat
  BY <1>0, Zenon DEF WaiterState
<1>2. /\ waiter' = [waiter EXCEPT ![w] = new]
      /\ UNCHANGED <<log, flushed, promised, count, task, acked>>
  BY Zenon DEF watch
<1> HIDE DEF new
<1>3. /\ waiter' \in [Waiters -> WaiterState] /\ waiter'[w] = new
      /\ \A v \in Waiters : v # w => waiter'[v] = waiter[v]
  BY <1>1, <1>2, Zenon DEF WritesInv, WritesTypes
<1>4. WritesTypes' /\ DurableInv' /\ CountersInv'
  <2>1. WritesTypes'
    BY <1>2, <1>3, Zenon DEF WritesInv, WritesTypes
  <2>2. DurableInv' /\ CountersInv'
    BY <1>2, Zenon DEF WritesInv, DurableInv, CountersInv
  <2> QED
    BY <2>1, <2>2, Zenon
<1>5. Owed'
  <2> SUFFICES ASSUME NEW v \in Waiters, waiter'[v].state = "waiting", NEW i \in 1 .. Len(log'),
                      i > waiter'[v].since, log'[i].put, NEW k \in KeysOf(log'[i].keys), starts_with(k, waiter'[v].prefix)
               PROVE  \E u \in DbTasks : InWriting(u)' /\ task'[u].index = i /\ StillToTell(u, k, waiter[v].prefix)'
    BY Zenon DEF Owed
  <2>1. v # w /\ waiter'[v] = waiter[v]
    BY <1>1, <1>2, <1>3
  <2>2. Owed
    BY Zenon DEF WritesInv, WakingInv
  <2>3. PICK u \in DbTasks : InWriting(u) /\ task[u].index = i /\ StillToTell(u, k, waiter[v].prefix)
    BY <1>2, <2>1, <2>2, Zenon DEF Owed
  <2> QED
    BY <1>2, <2>1, <2>3, Zenon DEF StillToTell, InWriting
<1>6. WakingInv'
  BY <1>2, <1>5, Zenon DEF WritesInv, WakingInv, InWriting
<1> QED
  BY <1>4, <1>6, Zenon DEF WritesInv

\* The counter a log starts it from is at least every counter in the log,
\* where counters grow along it.
LEMMA StoredCount ==
  ASSUME NEW l \in Seq(Batch), stored_count(l),
         \A i, j \in 1 .. Len(l) : i < j /\ l[j].counter # 0 => l[i].counter <= l[j].counter
  PROVE  count' \in Nat /\ \A i \in 1 .. Len(l) : l[i].counter <= count'
<1> DEFINE S == {i \in 1 .. Len(l) : l[i].counter # 0}
<1>1. \A i \in 1 .. Len(l) : l[i].counter \in Nat
  <2>1. \A i \in 1 .. Len(l) : l[i] \in Batch
    OBVIOUS
  <2> QED
    BY <2>1, Zenon DEF Batch
<1>2. CASE S = {} /\ count' = 0
  BY <1>1, <1>2
<1>3. ASSUME NEW m \in S, \A x \in S : x <= m, count' = l[m].counter
      PROVE  count' \in Nat /\ \A i \in 1 .. Len(l) : l[i].counter <= count'
  <2>1. m \in 1 .. Len(l) /\ l[m].counter # 0 /\ l[m].counter \in Nat
    BY <1>1, Zenon
  <2>2. ASSUME NEW i \in 1 .. Len(l) PROVE l[i].counter <= l[m].counter
    <3>1. CASE l[i].counter = 0
      BY <2>1, <3>1
    <3>2. CASE i = m
      BY <2>1, <3>2
    <3>3. CASE i \in S /\ i # m
      <4>1. i <= m
        BY <1>3, <3>3, Zenon
      <4>2. i < m
        BY <2>1, <3>3, <4>1
      <4> QED
        BY <2>1, <4>2, Zenon
    <3> QED
      BY <3>1, <3>2, <3>3, Zenon
  <2> QED
    BY <1>3, <2>1, <2>2, Zenon
<1> QED
  BY <1>2, <1>3, Zenon DEF stored_count

LEMMA CrashKeeps == ASSUME WritesInv, DbCrash PROVE WritesInv'
<1>1. PICK n \in flushed .. Len(log) : /\ log' = SubSeq(log, 1, n) /\ flushed' = n
                                       /\ stored_count(SubSeq(log, 1, n))
  BY Zenon DEF DbCrash
<1>2. /\ task' = [t \in DbTasks |-> NoTask] /\ waiter' = [w \in Waiters |-> NoWaiter]
      /\ acked' = {} /\ UNCHANGED promised
  BY Zenon DEF DbCrash
<1>3. log \in Seq(Batch) /\ Len(log) \in Nat /\ flushed \in Nat /\ promised \in Nat /\ n \in Nat /\ n <= Len(log)
  BY DEF WritesInv, WritesTypes
<1>4. log' \in Seq(Batch) /\ Len(log') = n /\ \A i \in 1 .. n : i \in 1 .. Len(log) /\ log'[i] = log[i]
  BY <1>1, <1>3
<1>5. \A i, j \in 1 .. Len(log') : i < j /\ log'[j].counter # 0 => log'[i].counter <= log'[j].counter
  BY <1>4, Zenon DEF WritesInv, CountersInv
<1>6. count' \in Nat /\ \A i \in 1 .. Len(log') : log'[i].counter <= count'
  BY <1>1, <1>4, <1>5, StoredCount, Zenon
<1>7. NoTask \in TaskState /\ NoTask.pc = "idle" /\ NoTask.index = 0 /\ NoTask.num = 0
  BY DEF NoTask, TaskState
<1>8. NoWaiter \in WaiterState /\ NoWaiter.state = "away"
  BY Zenon DEF NoWaiter, WaiterState, AnyPrefix
<1>9. (\A t \in DbTasks : task'[t] = NoTask) /\ (\A w \in Waiters : waiter'[w] = NoWaiter)
  BY <1>2, Zenon
<1>10. WritesTypes'
  BY <1>1, <1>2, <1>3, <1>4, <1>6, <1>7, <1>8, Zenon DEF WritesTypes
<1>11. DurableInv'
  BY <1>1, <1>2, <1>3, <1>4, <1>7, <1>9 DEF WritesInv, DurableInv
<1>12. ASSUME NEW i \in 1 .. Len(log'), log'[i].num # 0
       PROVE  \E j \in 1 .. Len(log') : j < i /\ log'[j].counter = log'[i].num
  <2>1. PICK j \in 1 .. Len(log) : j < i /\ log[j].counter = log[i].num
    BY <1>4, <1>12, Zenon DEF WritesInv, CountersInv
  <2>2. j \in 1 .. Len(log')
    BY <1>3, <1>4, <2>1
  <2> QED
    BY <1>4, <2>1, <2>2, Zenon
<1>13. CountersInv'
  BY <1>5, <1>6, <1>7, <1>9, <1>12, Zenon DEF CountersInv
<1>14. (\A t \in DbTasks : ~InWriting(t)') /\ Owed'
  BY <1>7, <1>8, <1>9, Zenon DEF InWriting, Owed
<1>15. WakingInv'
  BY <1>2, <1>14, Zenon DEF WakingInv
<1> QED
  BY <1>10, <1>11, <1>13, <1>15, Zenon DEF WritesInv

LEMMA WritesKeeps == WritesInv /\ [WritesNext]_writeVars => WritesInv'
<1> SUFFICES ASSUME WritesInv, [WritesNext]_writeVars PROVE WritesInv'
  BY Zenon
<1>1. CASE UNCHANGED writeVars
  <2>1. UNCHANGED <<log, flushed, promised, count, task, waiter, acked>>
    BY <1>1, Zenon DEF writeVars
  <2>2. WritesTypes'
    BY <2>1, Zenon DEF WritesInv, WritesTypes
  <2>3. DurableInv' /\ CountersInv'
    BY <2>1, Zenon DEF WritesInv, DurableInv, CountersInv
  <2>4. Owed'
    <3>1. Owed /\ waiter' = waiter /\ log' = log /\ task' = task
      BY <2>1, Zenon DEF WritesInv, WakingInv
    <3>2. \A k : \A u \in DbTasks, w \in Waiters :
              StillToTell(u, k, waiter[w].prefix) => StillToTell(u, k, waiter[w].prefix)'
      BY <3>1, Zenon DEF StillToTell
    <3>3. \A u \in DbTasks : InWriting(u) => InWriting(u)'
      BY <3>1, Zenon DEF InWriting
    <3> QED
      BY <3>1, <3>2, <3>3, OwedKept, ZenonT(30)
  <2>5. WakingInv'
    BY <2>1, <2>4, Zenon DEF WritesInv, WakingInv, InWriting
  <2> QED
    BY <2>2, <2>3, <2>5, Zenon DEF WritesInv
<1>2. CASE \E t \in DbTasks : cork(t) \/ drop_cork(t) \/ next_lock(t) \/ next(t)
  BY <1>2, CorkKeeps, DropCorkKeeps, NextLockKeeps, CountKeeps, Zenon
<1>3. CASE \E t \in DbTasks : flush_if_uncorked(t) \/ wake_collect(t) \/ wake_fire(t) \/ Answers(t)
  BY <1>3, FlushKeeps, CollectKeeps, FireKeeps, AnswerKeeps, Zenon
<1>4. CASE \E t \in DbTasks, keys \in WriteLists : insert(t, keys) \/ remove(t, keys)
  BY <1>4, InsertKeeps, RemoveKeeps, Zenon
<1> QED
  BY <1>1, <1>2, <1>3, <1>4, WatchKeeps, CrashKeeps, Zenon DEF WritesNext

(* What a caller was promised is with the operating system, whatever corks
   others hold and whenever the process dies (store/cork.rs, map/insert.rs). *)
THEOREM PromisesAreKept == WritesSpec => []PromisedIsDurable
<1>1. WritesInv => PromisedIsDurable
  <2> SUFFICES ASSUME WritesInv PROVE PromisedIsDurable
    BY Zenon
  <2>1. promised \in Nat /\ flushed \in Nat /\ Len(log) \in Nat
    BY DEF WritesInv, WritesTypes
  <2> QED
    BY <2>1 DEF WritesInv, DurableInv, PromisedIsDurable
<1> QED
  BY <1>1, WritesStart, WritesKeeps, PTL DEF WritesSpec

(* No number a stored row carries is drawn again after any crash, and once a
   writer is answered whoever watched its keys has been woken
   (server_state/counter.rs, map/watchers.rs). *)
THEOREM WritesAreSound == WritesSpec => []WritesSound
<1>1. WritesInv => NumbersNotReused
  <2> SUFFICES ASSUME WritesInv, NEW i \in 1 .. Len(log) PROVE log[i].num <= count
    BY Zenon DEF NumbersNotReused
  <2>1. log[i].num \in Nat /\ count \in Nat
    BY LogEntries, Zenon DEF WritesInv, WritesTypes
  <2>2. CASE log[i].num = 0
    BY <2>1, <2>2
  <2>3. CASE log[i].num # 0
    <3>1. PICK j \in 1 .. Len(log) : log[j].counter = log[i].num
      BY <2>3, Zenon DEF WritesInv, CountersInv
    <3> QED
      BY <3>1, Zenon DEF WritesInv, CountersInv
  <2> QED
    BY <2>2, <2>3, Zenon
<1>2. WritesInv => WaitersTold
  <2> SUFFICES ASSUME WritesInv, NEW w \in Waiters, waiter[w].state = "waiting", NEW i \in acked,
                      i > waiter[w].since, log[i].put, NEW k \in KeysOf(log[i].keys), starts_with(k, waiter[w].prefix)
               PROVE  FALSE
    BY Zenon DEF WaitersTold
  <2>1. i \in 1 .. Len(log) /\ Owed
    BY Zenon DEF WritesInv, WakingInv
  <2>2. PICK t \in DbTasks : InWriting(t) /\ task[t].index = i
    BY <2>1, Zenon DEF Owed
  <2> QED
    BY <2>2, Zenon DEF WritesInv, WakingInv
<1> QED
  BY <1>1, <1>2, WritesStart, WritesKeeps, PTL DEF WritesSpec, WritesSound

=============================================================================
