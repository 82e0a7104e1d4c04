----------------------------- MODULE MCDelivery -----------------------------
(***************************************************************************)
(* What is on its way out: the queue of one destination, a server or a     *)
(* pusher, and the long poll of one device.  The queues of two             *)
(* destinations meet only in the worker's channel, so that a behaviour is  *)
(* about one of them, or about the poll: `part` says which.                *)
(***************************************************************************)
EXTENDS Sending, SyncPoll

VARIABLE part

deliveryVars == <<part, vars, pollVars>>

DeliveryInit == part \in Dests \cup {"poll"} /\ Init /\ PollInit

SendingNext ==
    /\ part \in Dests /\ Next
    /\ \A d \in Dests \ {part} : accepted'[d] = {}
    /\ \A i \in 1 .. Len(chan') : chan'[i].dest = part

DeliveryNext ==
    /\ UNCHANGED part
    /\ \/ SendingNext /\ UNCHANGED pollVars
       \/ part = "poll" /\ PollNext /\ UNCHANGED vars

\* The worker polls its channel and its futures, every request times out, and
\* time passes; a stopped server is started again.
WorkerRuns ==
    /\ WF_vars(HandleRequest) /\ WF_vars(Start) /\ WF_vars(Exit)
    /\ \A d \in Dests :
          /\ WF_vars(BackoffElapses(d))
          /\ WF_vars(\E f \in futures : f.dest = d /\ (ResponseOk(f) \/ ResponseErr(f)))

\* A peer that recovers: it keeps showing signs of life, takes what it is
\* sent and does not fail every transaction; nor does the database fail every
\* time the next rows are marked after one.
PeersRecover ==
    \A d \in Federation :
       /\ WF_vars(part = d /\ FlushServer(d, TRUE))
       /\ SF_vars(\E f \in futures : f.dest = d /\ Settle(f))
       /\ SF_vars(\E f \in futures : f.dest = d /\ ResponseOk(f)
                     /\ active'[d] = Take(queued[d], DequeueLimit))

\* A poll in progress runs, its timeout included; the client polls again; a
\* writer that drew a number stores its row; a server that stops starts again.
PollRuns ==
    /\ WF_pollVars(part = "poll" /\ Request)
    /\ WF_pollVars(Arm \/ Sample \/ Build)
    /\ WF_pollVars(Woken \/ EmptyResponse) /\ WF_pollVars(Answer)
    /\ WF_pollVars(\E k \in RowKinds, n \in 1 .. MaxCount : Put(k, n))
    /\ WF_pollVars(Restart)

DeliverySpec == DeliveryInit /\ [][DeliveryNext]_deliveryVars /\ WorkerRuns /\ PeersRecover /\ PollRuns
=============================================================================
