---------------------------- MODULE RunLifecycle ----------------------------
(***************************************************************************)
(* The life of support runs: api.py creates them and claims decisions,     *)
(* arq executes their jobs in the worker, every job runs the LangGraph     *)
(* graph of a thread under a Redis lock, and a scan every 15 seconds       *)
(* enqueues recovery jobs for runs that look incomplete.                   *)
(*                                                                         *)
(* A run has at most three job ids: <run> (run_agent), <run>:decision      *)
(* (resume_agent) and <run>:recovery (recover_agent).  A job is a process  *)
(* whose stage is the statement of execute it has reached.  Refunds are    *)
(* recorded in a ledger that keeps the first decision of a run, what       *)
(* RefundContract promises and RefundLedger implements for every order.    *)
(*                                                                         *)
(* Postgres holds status, decision and checkpoint; Redis holds the queue   *)
(* and the locks; the stage of a job is memory of the worker.              *)
(***************************************************************************)
EXTENDS Naturals

CONSTANTS
    Runs,           \* run ids
    Threads,        \* conversation threads
    ThreadOf,       \* the thread of each run
    Choices,        \* what a human decides: approve or reject
    NoRun, NoJob, OrphanLock,
    MaxFaults       \* crashes, cancellations, failures and losses together

Kinds == {"run", "decision", "recovery"}

Jobs == Runs \X Kinds

ASSUME LifecycleAssumption ==
    /\ ThreadOf \in [Runs -> Threads]
    /\ "none" \notin Choices
    /\ NoRun \notin Runs
    /\ NoJob \notin Jobs
    /\ OrphanLock \notin Jobs
    /\ NoJob # OrphanLock
    /\ MaxFaults \in Nat

VARIABLES
    status,         \* support_runs.payload.status, "none" before POST /runs
    decision,       \* support_runs.decision, claimed by a human
    checkpoint,     \* the latest LangGraph checkpoint of each thread
    job,            \* the stage of each job and the decision it carries
    lock,           \* holder of thread-lock:<thread> in Redis
    scan,           \* runs recover_runs has selected and not yet visited
    ledger,         \* the decision refund_decisions holds for each run
    faults          \* faults so far

vars == <<status, decision, checkpoint, job, lock, scan, ledger, faults>>

Statuses ==
    {"none", "queued", "running", "awaiting_approval", "completed", "failed"}

(* The stages of a job:                                                    *)
(*   absent    no such job id in arq                                       *)
(*   queued    a recovery job that has not read the row                    *)
(*   waiting   in the queue or for the thread lock, arguments bound        *)
(*   entered   lock acquired          fresh     new input for the graph    *)
(*   working   extract..prepare       resume    refund, with the decision  *)
(*   settled   ledger committed       refunded  respond is next            *)
(*   report    the graph has returned                                      *)
(*   failing   lock released, status failed is written next                *)
Critical == {"entered", "fresh", "working", "resume", "settled", "refunded",
             "report"}
InMemory == Critical \cup {"waiting", "failing"}
Stages == InMemory \cup {"absent", "queued"}

(* Where a checkpoint stands: working before the refund interrupt, paused  *)
(* in it, refunded behind the refund node, done at END.                    *)
Positions == {"empty", "working", "paused", "refunded", "done"}

Checkpoints == [run : Runs \cup {NoRun}, at : Positions]

TypeOK ==
    /\ status \in [Runs -> Statuses]
    /\ decision \in [Runs -> Choices \cup {"none"}]
    /\ checkpoint \in [Threads -> Checkpoints]
    /\ job \in [Jobs -> [stage : Stages, arg : Choices \cup {"none"}]]
    /\ lock \in [Threads -> Jobs \cup {NoJob, OrphanLock}]
    /\ scan \in SUBSET Runs
    /\ ledger \in [Runs -> Choices \cup {"none"}]
    /\ faults \in 0 .. MaxFaults

-----------------------------------------------------------------------------

(* A job that carries no decision.                                         *)
Bare(stage) == [stage |-> stage, arg |-> "none"]

Init ==
    /\ status = [r \in Runs |-> "none"]
    /\ decision = [r \in Runs |-> "none"]
    /\ checkpoint = [t \in Threads |-> [run |-> NoRun, at |-> "empty"]]
    /\ job = [j \in Jobs |-> Bare("absent")]
    /\ lock = [t \in Threads |-> NoJob]
    /\ scan = {}
    /\ ledger = [r \in Runs |-> "none"]
    /\ faults = 0

Terminal(s) == s \in {"completed", "failed"}

RunOf(j) == j[1]

Lane(j) == ThreadOf[RunOf(j)]

Paused(t) == checkpoint[t].at = "paused"

SameRun(j) == checkpoint[Lane(j)].run = RunOf(j)

At(j, stage) == job[j].stage = stage

Goto(j, stage) == job' = [job EXCEPT ![j].stage = stage]

Leave(j, stage) == job' = [job EXCEPT ![j] = Bare(stage)]

(* enqueue_job does nothing while the job id is queued or runs.            *)
Enqueue(j, entry) ==
    job' = IF At(j, "absent") THEN [job EXCEPT ![j] = entry] ELSE job

Save(t, r, at) ==
    checkpoint' = [checkpoint EXCEPT ![t] = [run |-> r, at |-> at]]

(* Mutant: the lock is released without a look at who holds it.            *)
ReleaseAnyway(j) == lock' = [lock EXCEPT ![Lane(j)] = NoJob]

(* The lock is released by its holder only.                                *)
Release(j) ==
    lock' = IF lock[Lane(j)] = j
            THEN [lock EXCEPT ![Lane(j)] = NoJob] ELSE lock

Fault == faults < MaxFaults /\ faults' = faults + 1

-----------------------------------------------------------------------------
(* The API.                                                                *)

(* POST /runs saves the durable row and enqueues the job.  A job enqueued  *)
(* late is a job that waits in the queue, so the two are one step.         *)
CreateRun(r) ==
    /\ status[r] = "none"
    /\ status' = [status EXCEPT ![r] = "queued"]
    /\ Enqueue(<<r, "run">>, Bare("waiting"))
    /\ UNCHANGED <<decision, checkpoint, lock, scan, ledger, faults>>

(* The API dies, or Redis refuses, between the two.                        *)
CreateOnly(r) ==
    /\ status[r] = "none"
    /\ Fault
    /\ status' = [status EXCEPT ![r] = "queued"]
    /\ UNCHANGED <<decision, checkpoint, job, lock, scan, ledger>>

(* Mutant: a later decision of the inbox replaces the first.               *)
ClaimAgain(r, c) ==
    /\ status[r] = "awaiting_approval"
    /\ decision' = [decision EXCEPT ![r] = c]
    /\ UNCHANGED <<status, checkpoint, job, lock, scan, ledger, faults>>

(* claim_decision: the first decision of a run in the approval inbox.      *)
Claim(r, c) ==
    /\ decision[r] = "none"
    /\ status[r] = "awaiting_approval"
    /\ decision' = [decision EXCEPT ![r] = c]
    /\ UNCHANGED <<status, checkpoint, job, lock, scan, ledger, faults>>

(* The rest of decide_run, of the claim itself or of an identical replay.  *)
(* The status was read before the claim, so even a completed run may get   *)
(* a decision job; the API may also die and never enqueue it.              *)
EnqueueDecision(r) ==
    /\ decision[r] # "none"
    /\ At(<<r, "decision">>, "absent")
    /\ Enqueue(<<r, "decision">>, [stage |-> "waiting", arg |-> decision[r]])
    /\ UNCHANGED <<status, decision, checkpoint, lock, scan, ledger, faults>>

-----------------------------------------------------------------------------
(* Recovery.                                                               *)

(* Mutant: a run whose job was never enqueued is not selected.             *)
StartedOnly(r) ==
    \/ status[r] = "running"
    \/ status[r] = "awaiting_approval" /\ decision[r] # "none"

(* Mutant: a claimed decision that was never enqueued is not selected.     *)
UndecidedOnly(r) == status[r] \in {"queued", "running"}


LooksIncomplete(r) ==
    \/ status[r] \in {"queued", "running"}
    \/ status[r] = "awaiting_approval" /\ decision[r] # "none"

(* recover_runs reads all rows at once, at startup and every 15 seconds.   *)
Select ==
    /\ scan = {}
    /\ scan' = {r \in Runs : LooksIncomplete(r)}
    /\ scan' # {}
    /\ UNCHANGED <<status, decision, checkpoint, job, lock, ledger, faults>>

(* It then visits the rows one by one and skips a thread that is locked.   *)
Visit(r) ==
    /\ r \in scan
    /\ scan' = scan \ {r}
    /\ IF lock[ThreadOf[r]] = NoJob
       THEN Enqueue(<<r, "recovery">>, Bare("queued"))
       ELSE UNCHANGED job
    /\ UNCHANGED <<status, decision, checkpoint, lock, ledger, faults>>

-----------------------------------------------------------------------------
(* A job in the worker.                                                    *)

(* recover_agent reads status and decision before it waits for the lock.   *)
Start(j) ==
    /\ At(j, "queued")
    /\ IF Terminal(status[RunOf(j)])
       THEN Leave(j, "absent")
       ELSE job' = [job EXCEPT ![j] = [stage |-> "waiting",
                                       arg |-> decision[RunOf(j)]]]
    /\ UNCHANGED <<status, decision, checkpoint, lock, scan, ledger, faults>>

Acquire(j) ==
    /\ At(j, "waiting")
    /\ lock[Lane(j)] = NoJob
    /\ lock' = [lock EXCEPT ![Lane(j)] = j]
    /\ Goto(j, "entered")
    /\ UNCHANGED <<status, decision, checkpoint, scan, ledger, faults>>

(* LockError after 180 seconds is a RedisError: the job ends and the       *)
(* durable status stays as it is.                                          *)
LockTimeout(j) ==
    /\ At(j, "waiting")
    /\ lock[Lane(j)] # NoJob
    /\ Fault
    /\ Leave(j, "absent")
    /\ UNCHANGED <<status, decision, checkpoint, lock, scan, ledger>>

(* Mutant: new input may overwrite a paused checkpoint.                    *)
RefusesResumeOnly(j) == job[j].arg # "none" /\ ~SameRun(j)

(* A resume of a thread another run has taken, or new input to a paused    *)
(* thread, is refused.                                                     *)
Refused(j) ==
    \/ job[j].arg # "none" /\ ~SameRun(j)
    \/ ~SameRun(j) /\ Paused(Lane(j))

Refuse(j) ==
    /\ At(j, "entered")
    /\ Refused(j)
    /\ Leave(j, "failing")
    /\ Release(j)
    /\ UNCHANGED <<status, decision, checkpoint, scan, ledger, faults>>

(* Mutant: previous.next alone makes a paused graph continue.              *)
ContinuesPaused(j) ==
    LET at == checkpoint[Lane(j)].at IN
    IF ~SameRun(j) THEN "fresh"
    ELSE IF at = "paused"
         THEN IF job[j].arg # "none" THEN "resume" ELSE "working"
    ELSE IF at \in {"working", "refunded"} THEN at
    ELSE "report"

(* What the checkpoint read under the lock makes execute do with the graph.*)
Plan(j) ==
    LET at == checkpoint[Lane(j)].at IN
    IF ~SameRun(j) THEN "fresh"
    ELSE IF at = "paused" /\ job[j].arg # "none" THEN "resume"
    ELSE IF at \in {"working", "refunded"} THEN at
    ELSE "report"

Enter(j) ==
    /\ At(j, "entered")
    /\ ~Refused(j)
    /\ status' = [status EXCEPT ![RunOf(j)] = "running"]
    /\ Goto(j, Plan(j))
    /\ UNCHANGED <<decision, checkpoint, lock, scan, ledger, faults>>

(* The supersteps of the graph, each saved as a checkpoint of the thread.  *)
Input(j) ==
    /\ At(j, "fresh")
    /\ Save(Lane(j), RunOf(j), "working")
    /\ Goto(j, "working")
    /\ UNCHANGED <<status, decision, lock, scan, ledger, faults>>

(* The model routes the message to the refund handler, which interrupts,   *)
(* or to a handler that answers.                                           *)
Route(j) ==
    /\ At(j, "working")
    /\ \E at \in {"paused", "done"} : Save(Lane(j), RunOf(j), at)
    /\ Goto(j, "report")
    /\ UNCHANGED <<status, decision, lock, scan, ledger, faults>>

(* record_simulated_refund keeps the first decision of a run: an identical *)
(* replay returns its outcome, a different one raises.                     *)
Record(j) ==
    LET r == RunOf(j)
        accepted == ledger[r] \in {"none", job[j].arg}
    IN
    /\ At(j, "resume")
    /\ ledger' = IF accepted THEN [ledger EXCEPT ![r] = job[j].arg]
                 ELSE ledger
    /\ IF accepted
       THEN Goto(j, "settled") /\ UNCHANGED lock
       ELSE Leave(j, "failing") /\ Release(j)
    /\ UNCHANGED <<status, decision, checkpoint, scan, faults>>

(* The ledger has committed; the checkpoint follows.                       *)
SaveRefund(j) ==
    /\ At(j, "settled")
    /\ Save(Lane(j), RunOf(j), "refunded")
    /\ Goto(j, "refunded")
    /\ UNCHANGED <<status, decision, lock, scan, ledger, faults>>

Respond(j) ==
    /\ At(j, "refunded")
    /\ Save(Lane(j), RunOf(j), "done")
    /\ Goto(j, "report")
    /\ UNCHANGED <<status, decision, lock, scan, ledger, faults>>

(* The status follows the thread's checkpoint, and the lock is released.   *)
Report(j) ==
    /\ At(j, "report")
    /\ status' = [status EXCEPT ![RunOf(j)] =
                      IF Paused(Lane(j)) THEN "awaiting_approval"
                      ELSE "completed"]
    /\ Release(j)
    /\ Leave(j, "absent")
    /\ UNCHANGED <<decision, checkpoint, scan, ledger, faults>>

(* An exception under the lock: a model error, a failed statement.         *)
Fail(j) ==
    /\ job[j].stage \in Critical
    /\ Fault
    /\ Release(j)
    /\ Leave(j, "failing")
    /\ UNCHANGED <<status, decision, checkpoint, scan, ledger>>

(* The failed status is written after the lock has been released.          *)
WriteFailed(j) ==
    /\ At(j, "failing")
    /\ status' = [status EXCEPT ![RunOf(j)] = "failed"]
    /\ Leave(j, "absent")
    /\ UNCHANGED <<decision, checkpoint, lock, scan, ledger, faults>>

-----------------------------------------------------------------------------
(* Faults of the worker and of Redis.                                      *)

(* Cancellation or a Redis error ends a job without a durable write and    *)
(* releases its lock.  arq, with max_tries = 1, drops a job that has been  *)
(* started once; until then its id only swallows scans and replays, which  *)
(* is as if they had not come.                                             *)
Cancel(j) ==
    /\ job[j].stage \in InMemory
    /\ Fault
    /\ Release(j)
    /\ Leave(j, "absent")
    /\ UNCHANGED <<status, decision, checkpoint, scan, ledger>>

(* The worker dies with its jobs, except those still in the queue; their   *)
(* locks stay until they expire.                                           *)
Crash ==
    /\ Fault
    /\ \E inQueue \in SUBSET {j \in Jobs : At(j, "waiting")} :
           LET lost == {j \in Jobs \ inQueue : job[j].stage \in InMemory} IN
           /\ lost # {}
           /\ job' = [j \in Jobs |->
                          IF j \in lost THEN Bare("absent") ELSE job[j]]
    /\ lock' = [t \in Threads |->
                   IF lock[t] = NoJob THEN NoJob ELSE OrphanLock]
    /\ scan' = {}
    /\ UNCHANGED <<status, decision, checkpoint, ledger>>

(* Mutant: the lock expires before the job that holds it must end.         *)
ExpireEarly(t) ==
    /\ lock[t] # NoJob
    /\ lock' = [lock EXCEPT ![t] = NoJob]
    /\ UNCHANGED <<status, decision, checkpoint, job, scan, ledger, faults>>

(* Only the lock of a dead worker reaches its 530 seconds: a job is        *)
(* cancelled after 500.                                                    *)
ExpireLock(t) ==
    /\ lock[t] = OrphanLock
    /\ lock' = [lock EXCEPT ![t] = NoJob]
    /\ UNCHANGED <<status, decision, checkpoint, job, scan, ledger, faults>>

-----------------------------------------------------------------------------

JobStep(j) ==
    \/ Start(j)
    \/ Acquire(j)
    \/ Refuse(j)
    \/ Enter(j)
    \/ Input(j)
    \/ Route(j)
    \/ Record(j)
    \/ SaveRefund(j)
    \/ Respond(j)
    \/ Report(j)
    \/ WriteFailed(j)

ApiStep(r) ==
    \/ CreateRun(r)
    \/ CreateOnly(r)
    \/ \E c \in Choices : Claim(r, c)
    \/ EnqueueDecision(r)

Next ==
    \/ \E r \in Runs : ApiStep(r) \/ Visit(r)
    \/ Select
    \/ \E j \in Jobs : JobStep(j) \/ LockTimeout(j) \/ Fail(j) \/ Cancel(j)
    \/ Crash
    \/ \E t \in Threads : ExpireLock(t)

Spec == Init /\ [][Next]_vars

-----------------------------------------------------------------------------
(* Properties.                                                             *)

Settled(r) == ledger[r] # "none"

(* The thread lock, with its expiry behind the job timeout, keeps two jobs *)
(* from driving the graph of one thread at the same time, through crashes, *)
(* cancellations and recovery.                                             *)
ThreadExclusion ==
    \A j, k \in Jobs :
        /\ job[j].stage \in Critical
        /\ job[k].stage \in Critical
        /\ Lane(j) = Lane(k)
        => j = k

(* Whatever jobs, replays and recoveries run, the ledger records only what *)
(* a human decided for this run in the approval inbox.                     *)
LedgerFollowsHuman ==
    \A r \in Runs : Settled(r) => ledger[r] = decision[r]

(* Every run the approval inbox offers for a first decision still owns the *)
(* paused checkpoint that the decision will resume.                        *)
InboxIsResumable ==
    \A r \in Runs :
        status[r] = "awaiting_approval" /\ decision[r] = "none" =>
            checkpoint[ThreadOf[r]] = [run |-> r, at |-> "paused"]

(* "A refund case pauses in the approval inbox and finishes only after a   *)
(* human decision": no job of any run on the thread moves a paused         *)
(* checkpoint before the refund is recorded in the ledger.                 *)
PauseNeedsDecision ==
    [][\A t \in Threads :
           Paused(t) /\ checkpoint'[t] # checkpoint[t] =>
               /\ checkpoint'[t].run = checkpoint[t].run
               /\ Settled(checkpoint[t].run)]_vars

(* README: the worker "repairs incomplete durable runs".  A recovery job   *)
(* does not touch the status of a run that has completed.                  *)
RepairsOnlyIncompleteRuns ==
    [][\A r \in Runs :
           /\ status[r] = "completed"
           /\ job'[<<r, "recovery">>] # job[<<r, "recovery">>]
           => status'[r] = "completed"]_vars

(* README: "GET /runs?status=awaiting_approval lists paused runs for the   *)
(* approval inbox".  A paused run that nobody has decided is not failed:   *)
(* it could never be decided, and its thread would refuse every new run.   *)
PausedRunsStayListed ==
    \A t \in Threads : LET r == checkpoint[t].run IN
        Paused(t) /\ decision[r] = "none" => status[r] # "failed"

(* worker.py on cancellation: "preserve recoverable durable state, rather  *)
(* than losing a committed refund"; "checkpoint recovery will retry".  The *)
(* retry of an interrupted run with a recorded refund is not refused.      *)
RefundRunsRecover ==
    [][\A j \in Jobs :
           /\ At(j, "entered")
           /\ Settled(RunOf(j))
           /\ status[RunOf(j)] = "running"
           => job'[j].stage # "failing"]_vars

(* A run the API has accepted reaches the inbox or an end, even if its job *)
(* was never enqueued or its worker died.                                  *)
RunsArrive ==
    \A r \in Runs : status[r] = "queued" ~>
        status[r] \in {"awaiting_approval", "completed", "failed"}

=============================================================================
