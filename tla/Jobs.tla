-------------------------------- MODULE Jobs ---------------------------------
(***************************************************************************)
(* The admin's long operations: each a tracked task that can be listed and *)
(* asked to stop.  A deletion or shutdown of a room stops where it chooses *)
(* to, a purge of history at any await, a backup never.  A scheduler       *)
(* starts backups too.  The tasks work on one room and one backup          *)
(* directory; ids are never used again.                                    *)
(***************************************************************************)
EXTENDS Naturals, FiniteSets

CONSTANTS TaskIds, Callers, LocalMembers, Tables, MaxClock, Interval

VARIABLES
  tasks,                          \* the records, NoTask for an id not in use
  stamp,                          \* how many tasks finished, a task's timestamp
  caller,                         \* the requests past has_nonterminal's answer
  joined, listed, purged, room_lock,
  running,                        \* the backups on their blocking threads
  held,                           \* which of them holds RUNNING
  last_backup, last_attempt, clock,
  closest,                        \* the shortest time between two attempts so far
  focus, aborting

jobVars == <<tasks, stamp, caller, joined, listed, purged, room_lock, running, held,
             last_backup, last_attempt, closest, clock, focus, aborting>>
roomVars == <<joined, listed, purged, room_lock>>
backupVars == <<running, held, last_backup, last_attempt, closest, clock>>

Nobody == "nobody"

ASSUME JobsAssumption ==
  /\ Nobody \notin TaskIds
  /\ Tables \in Nat /\ MaxClock \in Nat /\ Interval \in Nat /\ Interval <= MaxClock

Scheduler == "scheduler"
NoTask == [action |-> "none", status |-> "none", cancel |-> "none", token |-> FALSE, at |-> "end",
           todo |-> {}, did |-> {}, broke |-> FALSE, stamp |-> 0]

\* Status::is_terminal, and a record in use.
Terminal == {"complete", "failed", "cancelled"}
Nonterminal == {"scheduled", "active"}

Cancels(action) ==
  CASE action \in {"delete", "shutdown"} -> "cooperative"
    [] action = "backup" -> "never"
    [] OTHER -> "abort"

has_nonterminal(action) ==
  \E j \in TaskIds : tasks[j].action = action /\ tasks[j].status \in Nonterminal

-----------------------------------------------------------------------------
(* Spawning.  The record is inserted under the lock the task needs to mark *)
(* itself active.                                                          *)

spawn_with(action) ==
  \E j \in TaskIds :
    /\ tasks[j].action = "none"
    /\ tasks' = [tasks EXCEPT ![j] =
         [NoTask EXCEPT !.action = action, !.status = "scheduled", !.cancel = Cancels(action),
                        !.at = "start"]]

\* The requests that refuse a second task of their kind look first and spawn
\* after: purge_history, purge_media and a backup.
Checked(c, action) ==
  /\ ~aborting /\ caller[c] = "idle" /\ ~has_nonterminal(action)
  /\ caller' = [caller EXCEPT ![c] = action]
  /\ UNCHANGED <<tasks, stamp, roomVars, backupVars, focus, aborting>>

purge_history(c) == focus = "rooms" /\ Checked(c, "purge")
backup(c) == focus = "backups" /\ Checked(c, "backup")

Spawns(c) ==
  /\ caller[c] # "idle"
  /\ spawn_with(caller[c])
  /\ caller' = [caller EXCEPT ![c] = "idle"]
  /\ UNCHANGED <<stamp, roomVars, backupVars, focus, aborting>>

\* A shutdown or deletion is started however many are running, for a room
\* the server knows.
spawn_cancellable(action) ==
  /\ focus = "rooms" /\ ~aborting /\ purged < Tables
  /\ spawn_with(action)
  /\ UNCHANGED <<stamp, caller, roomVars, backupVars, focus, aborting>>

shutdown == spawn_cancellable("shutdown")
delete_room == spawn_cancellable("delete")

-----------------------------------------------------------------------------
(* A task's life.                                                          *)

FirstStep(action) ==
  CASE action \in {"delete", "shutdown"} -> "lock"
    [] action = "backup" -> "engine"
    [] OTHER -> "purging"

set_active(j) ==
  /\ tasks[j].at = "start"
  /\ tasks' = [tasks EXCEPT ![j].status = "active", ![j].at = FirstStep(tasks[j].action)]
  /\ UNCHANGED <<stamp, caller, roomVars, backupVars, focus, aborting>>

outcome_status_asked_first(ok, cancel_requested) ==
  IF cancel_requested THEN "cancelled" ELSE IF ok THEN "complete" ELSE "failed"

outcome_status(ok, cancel_requested) ==
  IF ok THEN "complete" ELSE IF cancel_requested THEN "cancelled" ELSE "failed"

\* The record of `task` once its work has ended, and the room's lock given up
\* with the work.
finish(j, task, ok) ==
  /\ tasks' = [tasks EXCEPT ![j] =
       [task EXCEPT !.status = outcome_status(ok, task.token), !.at = "end", !.stamp = stamp]]
  /\ stamp' = stamp + 1
  /\ room_lock' = IF room_lock = j THEN Nobody ELSE room_lock

Running(j) == tasks[j].status = "active" /\ tasks[j].at # "end"

\* A panic is caught and ends the task as a failure would.
panicked_unwinds(j) ==
  /\ Running(j) /\ tasks[j].at # "thread"
  /\ tasks' = [tasks EXCEPT ![j].at = "end", ![j].broke = TRUE]
  /\ room_lock' = IF room_lock = j THEN Nobody ELSE room_lock
  /\ UNCHANGED <<stamp, caller, joined, listed, purged, backupVars, focus, aborting>>

panicked(j) ==
  /\ Running(j) /\ tasks[j].at # "thread"
  /\ finish(j, [tasks[j] EXCEPT !.broke = TRUE], FALSE)
  /\ UNCHANGED <<caller, joined, listed, purged, backupVars, focus, aborting>>

cancel(j) ==
  /\ tasks[j].status \in Nonterminal /\ tasks[j].cancel # "never" /\ ~tasks[j].token
  /\ tasks' = [tasks EXCEPT ![j].token = TRUE]
  /\ UNCHANGED <<stamp, caller, roomVars, backupVars, focus, aborting>>

\* Work spawned to be aborted is raced with its token.
Aborted(j) ==
  /\ Running(j) /\ tasks[j].cancel = "abort" /\ tasks[j].token
  /\ finish(j, tasks[j], FALSE)
  /\ UNCHANGED <<caller, joined, listed, purged, backupVars, focus, aborting>>

\* Terminal records older than some time go, the running ones never do.
prune_tasks_capped(before) ==
  tasks' = [j \in TaskIds |->
              IF tasks[j].status \in Terminal \cup {"active"} /\ tasks[j].stamp < before
              THEN [NoTask EXCEPT !.action = "pruned", !.at = tasks[j].at] ELSE tasks[j]]

prune_tasks(before) ==
  tasks' = [j \in TaskIds |->
              IF tasks[j].status \in Terminal /\ tasks[j].stamp < before
              THEN [NoTask EXCEPT !.action = "pruned", !.at = tasks[j].at] ELSE tasks[j]]

prune ==
  /\ \E before \in 1..stamp : prune_tasks(before)
  /\ tasks' # tasks
  /\ UNCHANGED <<stamp, caller, roomVars, backupVars, focus, aborting>>

\* At shutdown every task is dropped at its next await.
abort_all ==
  /\ ~aborting /\ aborting' = TRUE
  /\ UNCHANGED <<tasks, stamp, caller, roomVars, backupVars, focus>>

Dropped(j) ==
  /\ aborting /\ tasks[j].status \in Nonterminal /\ tasks[j].at # "end"
  /\ tasks' = [tasks EXCEPT ![j].at = "end"]
  /\ room_lock' = IF room_lock = j THEN Nobody ELSE room_lock
  /\ UNCHANGED <<stamp, caller, joined, listed, purged, backupVars, focus, aborting>>

-----------------------------------------------------------------------------
(* What the tasks do.                                                      *)

\* A purge of history, failing or not.
PurgesHistory(j) ==
  /\ Running(j) /\ tasks[j].at = "purging"
  /\ \E ok \in BOOLEAN : finish(j, [tasks[j] EXCEPT !.did = {"purged"}], ok)
  /\ UNCHANGED <<caller, joined, listed, purged, backupVars, focus, aborting>>

\* The room's lock, or the token, whichever comes first.
AwaitsLock(j) ==
  /\ Running(j) /\ tasks[j].at = "lock"
  /\ \/ /\ room_lock = Nobody /\ room_lock' = j
        /\ tasks' = [tasks EXCEPT ![j].at = "evict", ![j].todo = joined]
        /\ UNCHANGED stamp
     \/ tasks[j].token /\ finish(j, tasks[j], FALSE)
  /\ UNCHANGED <<caller, joined, listed, purged, backupVars, focus, aborting>>

\* One member at a time, the token looked at before each; an eviction that
\* fails is noted and passed over.
evict(j) ==
  /\ Running(j) /\ tasks[j].at = "evict" /\ tasks[j].todo # {}
  /\ \/ tasks[j].token /\ finish(j, tasks[j], FALSE) /\ UNCHANGED joined
     \/ /\ ~tasks[j].token
        /\ \E u \in tasks[j].todo, works \in BOOLEAN :
             /\ joined' = IF works THEN joined \ {u} ELSE joined
             /\ tasks' = [tasks EXCEPT ![j].todo = @ \ {u}]
        /\ UNCHANGED <<stamp, room_lock>>
  /\ UNCHANGED <<caller, listed, purged, backupVars, focus, aborting>>

\* The aliases and the listing go once every member was tried.
shutdown_room_until(j) ==
  /\ Running(j) /\ tasks[j].at = "evict" /\ tasks[j].todo = {}
  /\ listed' = FALSE
  /\ LET freed == [tasks[j] EXCEPT !.did = @ \cup {"freed"}] IN
     IF tasks[j].action = "shutdown" THEN finish(j, freed, TRUE)
     ELSE tasks' = [tasks EXCEPT ![j] = [freed EXCEPT !.at = "check"]] /\ UNCHANGED <<stamp, room_lock>>
  /\ UNCHANGED <<caller, joined, purged, backupVars, focus, aborting>>

\* The last chance to stop.
delete_room_cancellable(j) ==
  /\ Running(j) /\ tasks[j].at = "check"
  /\ IF tasks[j].token THEN finish(j, tasks[j], FALSE)
     ELSE tasks' = [tasks EXCEPT ![j].at = "purge"] /\ UNCHANGED <<stamp, room_lock>>
  /\ UNCHANGED <<caller, joined, listed, purged, backupVars, focus, aborting>>

\* Table after table, the room's number last; a room already gone is left.
purge_room(j) ==
  /\ Running(j) /\ tasks[j].at = "purge"
  /\ IF purged < Tables
     THEN /\ purged' = purged + 1 /\ joined' = {}
          /\ tasks' = [tasks EXCEPT ![j].did = @ \cup {"purged"}]
          /\ UNCHANGED <<stamp, room_lock>>
     ELSE finish(j, [tasks[j] EXCEPT !.did = @ \cup {"purged"}], TRUE) /\ UNCHANGED <<purged, joined>>
  /\ UNCHANGED <<caller, listed, backupVars, focus, aborting>>

-----------------------------------------------------------------------------
(* Backups.  The engine's own lock is tried, never waited for, and the     *)
(* blocking thread outlives a task that is dropped.                        *)

TriesLock_none(j) == TRUE
TriesLock(j) == held = Nobody

EngineStarts(j) ==
  /\ Running(j) /\ tasks[j].at = "engine"
  /\ IF TriesLock(j)
     THEN /\ held' = j /\ running' = running \cup {j}
          /\ tasks' = [tasks EXCEPT ![j].at = "thread"]
          /\ UNCHANGED <<stamp, room_lock>>
     ELSE finish(j, tasks[j], FALSE) /\ UNCHANGED <<held, running>>
  /\ UNCHANGED <<caller, joined, listed, purged, last_backup, last_attempt, closest, clock, focus,
                 aborting>>

EngineEnds(j) ==
  /\ j \in running
  /\ running' = running \ {j} /\ held' = Nobody
  /\ \E ok \in BOOLEAN :
       /\ last_backup' = IF ok THEN clock ELSE last_backup
       /\ IF tasks[j].at = "thread"
          THEN finish(j, [tasks[j] EXCEPT !.did = IF ok THEN {"saved"} ELSE {}], ok)
          ELSE UNCHANGED <<tasks, stamp, room_lock>>
  /\ UNCHANGED <<caller, joined, listed, purged, last_attempt, closest, clock, focus, aborting>>

\* 0 stands for never.
Later(a, b) == IF a > b THEN a ELSE b
Earlier(a, b) == IF a < b THEN a ELSE b
next_due_ms_backup_only(backed, attempt) == IF backed = 0 THEN clock ELSE backed + Interval
next_due_ms(backed, attempt) ==
  IF Later(backed, attempt) = 0 THEN clock ELSE Later(backed, attempt) + Interval

\* One pass of the scheduler; an attempt that is refused counts too.
tick ==
  /\ focus = "backups" /\ ~aborting /\ caller[Scheduler] = "idle"
  /\ next_due_ms(last_backup, last_attempt) <= clock
  /\ last_attempt' = clock /\ closest' = IF last_attempt = 0 THEN closest ELSE Earlier(closest, clock - last_attempt)
  /\ caller' = IF has_nonterminal("backup") THEN caller ELSE [caller EXCEPT ![Scheduler] = "backup"]
  /\ UNCHANGED <<tasks, stamp, roomVars, running, held, last_backup, clock, focus, aborting>>

Passes ==
  /\ focus = "backups" /\ clock < MaxClock /\ clock' = clock + 1
  /\ UNCHANGED <<tasks, stamp, caller, roomVars, running, held, last_backup, last_attempt, closest,
                 focus, aborting>>

-----------------------------------------------------------------------------
JobsInit ==
  /\ focus \in {"rooms", "backups"}
  /\ tasks = [j \in TaskIds |-> NoTask] /\ stamp = 0
  /\ caller = [c \in Callers \cup {Scheduler} |-> "idle"]
  /\ joined = LocalMembers /\ listed = TRUE /\ purged = 0 /\ room_lock = Nobody
  /\ running = {} /\ held = Nobody
  /\ last_backup = 0 /\ last_attempt = 0 /\ closest = MaxClock /\ clock = 1
  /\ aborting = FALSE

Works(j) ==
  \/ set_active(j) \/ Aborted(j) \/ PurgesHistory(j) \/ AwaitsLock(j) \/ evict(j)
  \/ shutdown_room_until(j) \/ delete_room_cancellable(j) \/ purge_room(j)
  \/ EngineStarts(j) \/ EngineEnds(j)

JobsNext ==
  \/ \E c \in Callers : purge_history(c) \/ backup(c)
  \/ tick \/ \E c \in Callers \cup {Scheduler} : Spawns(c)
  \/ shutdown \/ delete_room
  \/ \E j \in TaskIds : Works(j) \/ panicked(j) \/ cancel(j) \/ Dropped(j)
  \/ prune \/ abort_all \/ Passes

JobsSpec == JobsInit /\ [][JobsNext]_jobVars

-----------------------------------------------------------------------------
(* Whatever is still working has a record that says so: the requests that  *)
(* refuse a second task are answered truly, and an admin can reach every   *)
(* task to stop it (tasks.rs:466 prunes only what has ended).              *)
RunningIsListed ==
  \A j \in TaskIds : tasks[j].at # "end" => tasks[j].status \in Nonterminal

(* Two backups never write the directory at once, although the refusal of  *)
(* a second one looks before it spawns and a dropped task leaves its       *)
(* thread running (engine/backup.rs:26).                                   *)
OneBackup == \A i, j \in running : i = j

(* The record of a room's shutdown or deletion is true: complete means all *)
(* of it was done, and cancelled, unless it broke on the way, that nothing *)
(* was purged and the aliases kept while a member was still to be evicted. *)
OutcomeIsTrue ==
  \A j \in TaskIds :
    /\ tasks[j].status = "complete" =>
         /\ tasks[j].todo = {}
         /\ tasks[j].action \in {"delete", "shutdown"} => "freed" \in tasks[j].did
         /\ tasks[j].action = "delete" => "purged" \in tasks[j].did
         /\ tasks[j].action = "backup" => "saved" \in tasks[j].did
    /\ tasks[j].status = "cancelled" /\ tasks[j].cancel = "cooperative" /\ ~tasks[j].broke =>
         /\ "purged" \notin tasks[j].did
         /\ tasks[j].todo # {} => "freed" \notin tasks[j].did

(* The scheduler's own attempts are an interval apart, however many of     *)
(* them fail or are refused (backups.rs:207).                              *)
AttemptsSpaced == closest >= Interval

(* A task that started ends, by success, failure, panic or cancellation,   *)
(* unless the server stops: a record that read active for good would       *)
(* refuse every later task of its kind (tasks.rs:204).                     *)
TasksSettle ==
  \A j \in TaskIds : tasks[j].status = "active" ~> (tasks[j].status # "active" \/ aborting)

(* What the admin API tells of tasks and backups is what they did: a task  *)
(* at work is listed, its outcome is true, one backup runs at a time and   *)
(* scheduled attempts keep their distance.                                 *)
JobsSound == OutcomeIsTrue /\ RunningIsListed /\ OneBackup /\ AttemptsSpaced
=============================================================================
