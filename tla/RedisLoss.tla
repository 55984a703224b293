----------------------------- MODULE RedisLoss ------------------------------
(***************************************************************************)
(* The run lifecycle when Redis loses its data while the worker lives: the *)
(* queue and all thread locks are gone, the jobs that run go on without a  *)
(* lock.  Such a job notices at its end: releasing raises LockNotOwned, a  *)
(* RedisError, which takes the place of the job's own exception, so that   *)
(* execute writes no failed status and leaves the run to recovery.         *)
(*                                                                         *)
(* A second job with the id of one still running, which arq would start    *)
(* after the loss, is left out: recovery and decision jobs of the run have *)
(* ids of their own and meet the running job here as well.                 *)
(***************************************************************************)
EXTENDS RunLifecycle

VARIABLE
    torn            \* Redis was lost while a job drove a graph

lossVars == <<vars, torn>>

LossInit == Init /\ torn = FALSE

Owns(j) == lock[Lane(j)] = j

SomeoneDrives == \E j \in Jobs : job[j].stage \in Critical

(* The queue is lost with the locks; jobs waiting for a lock in the worker *)
(* and recover_runs with the rows it has read go on.                       *)
LoseRedis ==
    /\ Fault
    /\ \E inQueue \in SUBSET {j \in Jobs : At(j, "waiting")} :
           job' = [j \in Jobs |->
                       IF j \in inQueue \/ At(j, "queued")
                       THEN Bare("absent") ELSE job[j]]
    /\ lock' = [t \in Threads |-> NoJob]
    /\ torn' = (torn \/ SomeoneDrives)
    /\ UNCHANGED <<status, decision, checkpoint, scan, ledger>>

(* Only a job that still owns its lock gets to write failed.               *)
MayFail(j) == job'[j].stage = "failing" => Owns(j)

(* What raises by itself: a refusal or a conflicting decision.             *)
Raises(j) ==
    \/ At(j, "entered") /\ Refused(j)
    \/ At(j, "resume") /\ ledger[RunOf(j)] \notin {"none", job[j].arg}

(* An exception of a job without its lock ends it and writes nothing.      *)
Lapse(j) ==
    /\ ~Owns(j)
    /\ job[j].stage \in Critical
    /\ IF Raises(j) THEN UNCHANGED faults ELSE Fault
    /\ Leave(j, "absent")
    /\ UNCHANGED <<status, decision, checkpoint, lock, scan, ledger>>

LossJobStep(j) ==
    \/ JobStep(j) /\ MayFail(j)
    \/ Lapse(j) /\ UNCHANGED faults

LossNext ==
    \/ LoseRedis
    \/ /\ UNCHANGED torn
       /\ \/ \E r \in Runs : ApiStep(r) \/ Visit(r)
          \/ Select
          \/ \E j \in Jobs :
                 \/ JobStep(j) /\ MayFail(j)
                 \/ Fail(j) /\ MayFail(j)
                 \/ Lapse(j) \/ LockTimeout(j) \/ Cancel(j)
          \/ Crash
          \/ \E t \in Threads : ExpireLock(t)

LossSpec == LossInit /\ [][LossNext]_lossVars

(* The worker is restarted and runs its jobs, the scan repeats, locks      *)
(* expire, and a polling lock waiter gets a lock that is free again and    *)
(* again.  Nothing is assumed of humans, of the API or of faults.          *)
LossFairness ==
    /\ \A j \in Jobs : SF_lossVars(LossJobStep(j) /\ UNCHANGED torn)
    /\ WF_lossVars(Select /\ UNCHANGED torn)
    /\ \A r \in Runs : WF_lossVars(Visit(r) /\ UNCHANGED torn)
    /\ \A t \in Threads : WF_lossVars(ExpireLock(t) /\ UNCHANGED torn)

LossFairSpec == LossSpec /\ LossFairness

-----------------------------------------------------------------------------
(* Properties.                                                             *)

(* A claimed decision is recorded in the ledger or the run reports failure,*)
(* even if its job was never enqueued or Redis has lost it, unless Redis   *)
(* was lost under a running job.                                           *)
DecisionsSurvive ==
    \A r \in Runs : decision[r] # "none" ~>
        Settled(r) \/ status[r] = "failed" \/ torn

(* Exclusion holds until Redis is lost under a running job.                *)
ExclusionUntilTorn == torn \/ ThreadExclusion

=============================================================================
