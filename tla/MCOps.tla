-------------------------------- MODULE MCOps --------------------------------
(***************************************************************************)
(* The operator's side: the tracked tasks, the admin room, the list of     *)
(* refused servers and the process itself; `part` says which one a         *)
(* behaviour is of.  Two tasks are a deletion and another waiting for the  *)
(* room, or a backup by hand and one by schedule; two people and two       *)
(* requests at a time are two admins acting on each other, four requests   *)
(* long.                                                                   *)
(***************************************************************************)
EXTENDS Jobs, Administration, Lifecycle

VARIABLE part

opsVars == <<part, jobVars, adminVars, blockVars, vars>>

MCMatching == {<<"p1", "s1">>, <<"p2", "s1">>, <<"p2", "s2">>, <<"p3", "s2">>}
MCCompilable == {S \in SUBSET Patterns : Cardinality(S) <= 2}

OpsInit ==
  /\ part \in {"jobs", "admin", "blocks", "process"}
  /\ IF part = "jobs" THEN focus \in {"rooms", "backups"} ELSE focus = "rooms"
  /\ JobsInit /\ AdminInit /\ BlocksInit /\ Init

OpsNext ==
  /\ UNCHANGED part
  /\ \/ part = "jobs" /\ JobsNext /\ UNCHANGED <<adminVars, blockVars, vars>>
     \/ part = "admin" /\ AdminNext /\ UNCHANGED <<jobVars, blockVars, vars>>
     \/ part = "blocks" /\ BlocksNext /\ UNCHANGED <<jobVars, adminVars, vars>>
     \/ part = "process" /\ Next /\ UNCHANGED <<jobVars, adminVars, blockVars>>

(* The tasks at work go on, and in the process every task that can run is  *)
(* scheduled and every sleep and drain ends.                               *)
OpsSpec ==
  /\ OpsInit /\ [][OpsNext]_opsVars
  /\ \A j \in TaskIds : WF_jobVars(part = "jobs" /\ Works(j))
  /\ WF_vars(part = "process" /\ SignalSteps)
  /\ WF_vars(part = "process" /\ StartSteps)
  /\ WF_vars(part = "process" /\ ListenerSteps)
  /\ WF_vars(part = "process" /\ ManagerSteps)
  /\ WF_vars(part = "process" /\ MainSteps)
  /\ \A w \in Workers : WF_vars(part = "process" /\ WorkerSteps(w))
=============================================================================
