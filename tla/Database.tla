------------------------------ MODULE Database ------------------------------
(***************************************************************************)
(* The database engine under the tables: how a write becomes durable and   *)
(* visible, and the threads that serve blocking reads.                     *)
(***************************************************************************)
EXTENDS Sequences, FiniteSets, Integers, Folds

-----------------------------------------------------------------------------
(* Writing to the database (map/insert.rs, store/txn.rs, store/cork.rs,      *)
(* map/watchers.rs) and the counter rows are numbered with                   *)
(* (ops/server_state/counter.rs), through crashes of the process.            *)
(*                                                                           *)
(* RocksDB is external: its log of atomic batches, of which a crash keeps a  *)
(* prefix that holds at least what was flushed (manual_wal_flush is on).  A  *)
(* batch is the keys it puts or removes, the number its row was given (0 for *)
(* none) and the counter it stores (0 for none).                             *)

CONSTANTS
    DbTasks,     \* the tasks that write
    WriteLists,  \* the lists of keys written at once, keys being sequences
    Watchings,   \* the prefixes watched
    Waiters,     \* the tasks that watch
    CorkKinds,   \* the corks taken besides the counter's: "guard", "flush"
    MaxLog,      \* bound on the batches in the log
    MaxCrashes   \* bound on the crashes; the last one ends the behaviour

KeysOf(l) == {l[i] : i \in DOMAIN l}

ASSUME WritesAssumption == \A l \in WriteLists : l \in Seq(KeysOf(l))

VARIABLES
    log,      \* the batches, in the order RocksDB applied them
    flushed,  \* how many of them the operating system has
    promised, \* how many of them a caller may count on
    corks,    \* Engine::corks
    count,    \* Counter::count
    counting, \* who holds the counter's lock, or "free"
    task,     \* the tasks
    waiter,   \* the watchers: the prefix, the batches before it, its state
    acked,    \* the batches whose writer was answered
    crashes

writeVars == <<log, flushed, promised, corks, count, counting, task, waiter, acked, crashes>>

NoTask == [pc |-> "idle", left |-> <<>>, num |-> 0, index |-> 0, hold |-> "none", trig |-> {}]
NoWaiter == [state |-> "away", prefix |-> <<>>, since |-> 0]

WritesInit ==
    /\ log = <<>> /\ flushed = 0 /\ promised = 0 /\ corks = 0 /\ count = 0 /\ counting = "free"
    /\ task = [t \in DbTasks |-> NoTask]
    /\ waiter = [w \in Waiters |-> NoWaiter]
    /\ acked = {} /\ crashes = 0

Running == crashes < MaxCrashes

Writes(keys, put, num, counter) ==
    log' = Append(log, [keys |-> keys, put |-> put, num |-> num, counter |-> counter])

(* Cork::new: a plain guard, or one that flushes when it is dropped.         *)
cork(t) ==
    /\ Running /\ task[t].pc = "idle" /\ task[t].hold = "none"
    /\ \E kind \in CorkKinds : task' = [task EXCEPT ![t].hold = kind]
    /\ corks' = corks + 1
    /\ UNCHANGED <<log, flushed, promised, count, counting, waiter, acked, crashes>>

(* Cork::drop: uncork, then flush whoever else still holds a cork. *)
Flushes_polite(t) == task[t].hold = "flush" /\ corks = 1
Flushes(t) == task[t].hold = "flush"
drop_cork(t) ==
    /\ task[t].pc = "idle" /\ task[t].hold # "none"
    /\ corks' = corks - 1
    /\ flushed' = IF Flushes(t) THEN Len(log) ELSE flushed
    /\ promised' = IF task[t].hold = "flush" /\ task[t].index > promised THEN task[t].index ELSE promised
    /\ task' = [task EXCEPT ![t] = NoTask]
    /\ UNCHANGED <<log, count, counting, waiter, acked, crashes>>

(* Counter::next takes a plain cork and the lock, adds one and stores it;    *)
(* the number is the task's to give to a row.                                *)
next_lock(t) ==
    /\ Running /\ task[t].pc = "idle" /\ task[t].num = 0 /\ counting = "free"
    /\ counting' = t /\ corks' = corks + 1
    /\ task' = [task EXCEPT ![t].pc = "counting"]
    /\ UNCHANGED <<log, flushed, promised, count, waiter, acked, crashes>>
StoresCount_lazily(n) == UNCHANGED log
StoresCount(n) == Writes(<<>>, TRUE, 0, n)
next(t) ==
    /\ task[t].pc = "counting" /\ counting = t /\ Len(log) < MaxLog
    /\ count' = count + 1
    /\ StoresCount(count + 1)
    /\ counting' = "free" /\ corks' = corks - 1
    /\ task' = [task EXCEPT ![t].pc = "idle", ![t].num = count + 1]
    /\ UNCHANGED <<flushed, promised, waiter, acked, crashes>>

(* insert, insert_batch and Txn::execute: one atomic batch, whose keys are   *)
(* woken one after the other.                                                *)
insert(t, keys) ==
    /\ Running /\ task[t].pc = "idle" /\ Len(log) < MaxLog
    /\ Writes(keys, TRUE, task[t].num, 0)
    /\ task' = [task EXCEPT ![t].pc = "written", ![t].index = Len(log) + 1, ![t].left = keys, ![t].num = 0]
    /\ UNCHANGED <<flushed, promised, corks, count, counting, waiter, acked, crashes>>

(* remove wakes nobody. *)
remove(t, keys) ==
    /\ Running /\ task[t].pc = "idle" /\ Len(log) < MaxLog
    /\ Writes(keys, FALSE, 0, 0)
    /\ task' = [task EXCEPT ![t].pc = "written", ![t].index = Len(log) + 1]
    /\ UNCHANGED <<flushed, promised, corks, count, counting, waiter, acked, crashes>>

(* Nothing is flushed while anybody holds a cork; otherwise what was written *)
(* is with the operating system before the caller is answered.               *)
flush_if_uncorked(t) ==
    /\ task[t].pc = "written"
    /\ flushed' = IF corks > 0 THEN flushed ELSE Len(log)
    /\ promised' = IF corks = 0 /\ task[t].index > promised THEN task[t].index ELSE promised
    /\ task' = [task EXCEPT ![t].pc = "waking"]
    /\ UNCHANGED <<log, corks, count, counting, waiter, acked, crashes>>

(* Watchers::wake, key by key: the prefixes of the key somebody watches are  *)
(* collected under the read lock ...                                         *)
Watched == {waiter[w].prefix : w \in {v \in Waiters : waiter[v].state = "waiting"}}
Triggers_exact(k) == Watched \intersect {k}
starts_with(k, p) == Len(p) <= Len(k) /\ SubSeq(k, 1, Len(p)) = p
Triggers(k) == {p \in Watched : starts_with(k, p)}
wake_collect(t) ==
    /\ task[t].pc = "waking" /\ task[t].left # <<>>
    /\ LET trig == Triggers(Head(task[t].left))
       IN  task' = [task EXCEPT ![t].left = Tail(@), ![t].trig = trig,
                                ![t].pc = IF trig = {} THEN "waking" ELSE "firing"]
    /\ UNCHANGED <<log, flushed, promised, corks, count, counting, waiter, acked, crashes>>

(* ... and removed and fired under the write lock, with whoever has come to  *)
(* watch them in between.                                                    *)
wake_fire(t) ==
    /\ task[t].pc = "firing"
    /\ waiter' = [w \in Waiters |-> IF waiter[w].state = "waiting" /\ waiter[w].prefix \in task[t].trig
                                    THEN [waiter[w] EXCEPT !.state = "woken"] ELSE waiter[w]]
    /\ task' = [task EXCEPT ![t].pc = "waking", ![t].trig = {}]
    /\ UNCHANGED <<log, flushed, promised, corks, count, counting, acked, crashes>>

Answers(t) ==
    /\ task[t].pc = "waking" /\ task[t].left = <<>>
    /\ task' = [task EXCEPT ![t].pc = "idle", ![t].index = IF task[t].hold = "none" THEN 0 ELSE @]
    /\ acked' = acked \union {task[t].index}
    /\ UNCHANGED <<log, flushed, promised, corks, count, counting, waiter, crashes>>

(* Watchers::watch: a waiter comes once. *)
watch(w, p) ==
    /\ Running /\ waiter[w].state = "away"
    /\ waiter' = [waiter EXCEPT ![w] = [state |-> "waiting", prefix |-> p, since |-> Len(log)]]
    /\ UNCHANGED <<log, flushed, promised, corks, count, counting, task, acked, crashes>>

(* stored_count: the counter starts from the last value stored. *)
stored_count(l) ==
    LET storing == {i \in 1..Len(l) : l[i].counter # 0}
    IN  \/ storing = {} /\ count' = 0
        \/ \E i \in storing : (\A j \in storing : j <= i) /\ count' = l[i].counter

(* The process dies and starts again on what the log kept. *)
DbCrash ==
    /\ Running
    /\ \E n \in flushed..Len(log) :
         /\ log' = SubSeq(log, 1, n)
         /\ flushed' = n
         /\ stored_count(SubSeq(log, 1, n))
    /\ corks' = 0 /\ counting' = "free"
    /\ task' = [t \in DbTasks |-> NoTask]
    /\ waiter' = [w \in Waiters |-> NoWaiter]
    /\ acked' = {} /\ crashes' = crashes + 1
    /\ UNCHANGED promised

WritesNext ==
    \/ \E t \in DbTasks :
         \/ cork(t) \/ drop_cork(t) \/ next_lock(t) \/ next(t)
         \/ flush_if_uncorked(t) \/ wake_collect(t) \/ wake_fire(t) \/ Answers(t)
         \/ \E keys \in WriteLists : insert(t, keys) \/ remove(t, keys)
    \/ \E w \in Waiters, p \in Watchings : watch(w, p)
    \/ DbCrash

WritesSpec == WritesInit /\ [][WritesNext]_writeVars

(* No number a stored row carries is ever drawn again, though a draw is not  *)
(* flushed: the counter is behind the row in the log, so a crash that keeps  *)
(* the row keeps the draw.                                                   *)
NumbersNotReused == \A i \in 1..Len(log) : log[i].num <= count

(* A write answered while nobody held a cork, and the writes made under a    *)
(* flushing cork once it is dropped, outlive any crash.                      *)
PromisedIsDurable == promised <= flushed /\ promised <= Len(log)

(* A waiter is never left waiting by a write to what it watches: once the    *)
(* writer of a batch after its arrival is answered it has been woken, though *)
(* collecting the prefixes and firing them are two steps.                    *)
WaitersTold ==
    \A w \in Waiters : waiter[w].state = "waiting" =>
        \A i \in acked : i > waiter[w].since /\ log[i].put =>
            \A k \in KeysOf(log[i].keys) : ~starts_with(k, waiter[w].prefix)

(* What other tasks may rely on after a write: its number is never drawn   *)
(* again, and whoever watched its key has been woken.                      *)
WritesSound == NumbersNotReused /\ WaitersTold

-----------------------------------------------------------------------------
(* The database's thread pool (pool/mod.rs, pool/configure.rs): blocking     *)
(* reads are commands on bounded queues, one per hardware queue of the       *)
(* storage device, each served by the threads of its group.                  *)
(*                                                                           *)
(* A caller that is dropped gives its answer up but its command stays on the *)
(* queue.  A command keeps the engine alive; the engine closes the pool when *)
(* the last reference to it goes, which may be a command in a worker's hand. *)

CONSTANTS
    Devices,       \* what the storage device may report: [nr_requests, mq]
    CoresPresent,  \* the cores of the machine
    PerCoreLimit,  \* db_pool_workers_limit
    PoolWorkers,   \* db_pool_workers, for a device without queues
    QueueMult,     \* db_pool_queue_mult
    WorkerMost,    \* WORKER_LIMIT.1
    QueueMost,     \* QUEUE_LIMIT.1
    Callers,       \* the tasks that read
    MaxCalls       \* bound on the reads of each

VARIABLES
    device,   \* the device
    queues,   \* the commands queued, by queue: the callers' names
    worker,   \* what each worker does, [at, cmd]: it waits, is busy with a command,
              \* closes the pool or has exited
    caller,   \* [stage, queue, calls]
    held,     \* the rest of the server still holds the engine
    closed,   \* the queues are closed
    closer    \* who closes the pool: a worker, 0 for another thread, none yet

poolVars == <<device, queues, worker, caller, held, closed, closer>>

Cap(n, lo, hi) == IF n < lo THEN lo ELSE IF n > hi THEN hi ELSE n
Least(a, b) == IF a < b THEN a ELSE b
Total(s) ==
    MapThenFoldSet(LAMBDA a, b : a + b, 0, LAMBDA i : s[i], LAMBDA S : CHOOSE i \in S : TRUE, DOMAIN s)

(* One group for each hardware queue that a core of ours feeds: as many      *)
(* workers as it has tags, within the per-core limit and the device's.       *)
worker_counts_split(dev) ==
    LET fed == SelectSeq(dev.mq, LAMBDA q : q.cpus \intersect CoresPresent # {})
    IN  [i \in 1..Len(fed) |->
           Least(fed[i].tags, Least(dev.nr_requests, PerCoreLimit * Cardinality(fed[i].cpus \intersect CoresPresent)))
               \div Len(fed)]
worker_counts(dev) ==
    LET fed == SelectSeq(dev.mq, LAMBDA q : q.cpus \intersect CoresPresent # {})
    IN  [i \in 1..Len(fed) |->
           Least(fed[i].tags, Least(dev.nr_requests, PerCoreLimit * Cardinality(fed[i].cpus \intersect CoresPresent)))]

(* A device without queues gets one group of the configured size. *)
Groups(dev) == IF dev.mq = <<>> THEN <<PoolWorkers>> ELSE worker_counts(dev)
queue_sizes(dev) == [i \in DOMAIN Groups(dev) |-> Cap(Groups(dev)[i] * QueueMult, 1, QueueMost)]
total_workers(dev) ==
    LET fallback == IF dev.mq = <<>> THEN PoolWorkers ELSE 0
        most == Cap(Total([i \in DOMAIN dev.mq |-> dev.mq[i].tags]) + fallback, 1, WorkerMost)
    IN  Cap(Total(Groups(dev)), 1, most)

(* The queue a core uses: the identifier of the hardware queue it feeds, the *)
(* last one listed if several; the first queue when that names none.         *)
topology(dev, core) ==
    LET feeds == {i \in DOMAIN dev.mq : core \in dev.mq[i].cpus}
    IN  IF feeds = {} THEN 0 ELSE dev.mq[CHOOSE i \in feeds : \A j \in feeds : j <= i].id
select_queue(core) ==
    LET id == topology(device, core) IN IF id + 1 \in DOMAIN queues THEN id + 1 ELSE 1

(* spawn_one: the workers are dealt out to the queues in turn. *)
group(w) == ((w - 1) % Len(queues)) + 1

At(where) == [at |-> where, cmd |-> <<>>]

PoolInit ==
    /\ device \in Devices
    /\ queues = [i \in DOMAIN queue_sizes(device) |-> <<>>]
    /\ worker = [w \in 1..total_workers(device) |-> At("wait")]
    /\ caller = [c \in Callers |-> [stage |-> "idle", queue |-> 1, calls |-> 0]]
    /\ held = TRUE /\ closed = FALSE /\ closer = -1

(* execute_get, execute_iter: pick the queue of the core we run on ... *)
execute(c) ==
    /\ held /\ caller[c].stage = "idle" /\ caller[c].calls < MaxCalls
    /\ \E core \in CoresPresent :
         caller' = [caller EXCEPT ![c] = [stage |-> "sending", queue |-> select_queue(core), calls |-> @.calls + 1]]
    /\ UNCHANGED <<device, queues, worker, held, closed, closer>>

(* ... and wait for room on it. *)
send(c) ==
    /\ caller[c].stage = "sending"
    /\ Len(queues[caller[c].queue]) < queue_sizes(device)[caller[c].queue]
    /\ queues' = [queues EXCEPT ![caller[c].queue] = Append(@, <<c, caller[c].calls>>)]
    /\ caller' = [caller EXCEPT ![c].stage = "waiting"]
    /\ UNCHANGED <<device, worker, held, closed, closer>>

(* The future is dropped before its answer. *)
Abandons(c) ==
    /\ caller[c].stage \in {"sending", "waiting"}
    /\ caller' = [caller EXCEPT ![c].stage = "idle"]
    /\ UNCHANGED <<device, queues, worker, held, closed, closer>>

worker_wait(w) ==
    /\ worker[w].at = "wait" /\ queues[group(w)] # <<>>
    /\ worker' = [worker EXCEPT ![w] = [at |-> "busy", cmd |-> Head(queues[group(w)])]]
    /\ queues' = [queues EXCEPT ![group(w)] = Tail(@)]
    /\ UNCHANGED <<device, caller, held, closed, closer>>

InHand(w) == worker[w].at = "busy"

(* Nothing refers to the engine any more, apart from what v drops now. *)
LastReference(v) ==
    /\ ~held
    /\ \A c \in Callers : caller[c].stage = "idle"
    /\ \A i \in DOMAIN queues : queues[i] = <<>>
    /\ \A w \in DOMAIN worker : w # v => ~InHand(w)

(* handle_get, handle_batch, handle_iter: answer unless the caller has gone; *)
(* then the command is dropped, which may be the last of the engine.         *)
handle(w) ==
    /\ InHand(w)
    /\ LET c == worker[w].cmd[1]
       IN  caller' = IF caller[c].stage = "waiting" /\ caller[c].calls = worker[w].cmd[2]
                     THEN [caller EXCEPT ![c].stage = "idle"] ELSE caller
    /\ IF LastReference(w) /\ closer = -1
       THEN closed' = TRUE /\ closer' = w /\ worker' = [worker EXCEPT ![w] = At("closing")]
       ELSE UNCHANGED <<closed, closer>> /\ worker' = [worker EXCEPT ![w] = At("wait")]
    /\ UNCHANGED <<device, queues, held>>

(* The rest of the server lets the engine go. *)
Release ==
    /\ held /\ \A c \in Callers : caller[c].stage = "idle"
    /\ held' = FALSE
    /\ IF \A i \in DOMAIN queues : queues[i] = <<>>
       THEN IF \E w \in DOMAIN worker : InHand(w) THEN UNCHANGED <<closed, closer>>
            ELSE closed' = TRUE /\ closer' = 0
       ELSE UNCHANGED <<closed, closer>>
    /\ UNCHANGED <<device, queues, worker, caller>>

(* A worker leaves once its queue is closed and empty. *)
Exits(w) ==
    /\ worker[w].at = "wait" /\ closed /\ queues[group(w)] = <<>>
    /\ worker' = [worker EXCEPT ![w] = At("exited")]
    /\ UNCHANGED <<device, queues, caller, held, closed, closer>>

(* close joins every worker but the thread it runs on. *)
Joined(w) == \A v \in DOMAIN worker \ {w} : worker[v].at = "exited"
close_joined(w) ==
    /\ closer = w /\ worker[w].at = "closing" /\ Joined(w)
    /\ worker' = [worker EXCEPT ![w] = At("wait")]
    /\ UNCHANGED <<device, queues, caller, held, closed, closer>>

PoolNext ==
    \/ \E c \in Callers : execute(c) \/ send(c) \/ Abandons(c)
    \/ \E w \in DOMAIN worker : worker_wait(w) \/ handle(w) \/ Exits(w) \/ close_joined(w)
    \/ Release

(* Threads run, and a task waiting for room on a channel is woken in turn.   *)
PoolFair ==
    /\ \A c \in Callers : WF_poolVars(send(c))
    /\ \A w \in 1..WorkerMost :
         WF_poolVars(w \in DOMAIN worker /\ (worker_wait(w) \/ handle(w) \/ Exits(w) \/ close_joined(w)))

(* A read is answered or given up: every queue a core can choose has a       *)
(* worker, whatever queues the device has and whichever of them our cores    *)
(* feed.                                                                     *)
PoolAnswers == \A c \in Callers : (caller[c].stage \in {"sending", "waiting"}) ~> (caller[c].stage = "idle")

(* Once the server has let the engine go every worker thread ends, though    *)
(* the closing may fall to one of them.                                      *)
PoolCloses == ~held ~> (\A w \in DOMAIN worker : worker[w].at = "exited")

(* Nobody waits for the pool for good: callers get their answers while it    *)
(* runs, and whoever drops it sees its threads end.                          *)
PoolSound == PoolAnswers /\ PoolCloses
=============================================================================
