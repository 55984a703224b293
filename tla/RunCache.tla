------------------------------ MODULE RunCache ------------------------------
(***************************************************************************)
(* The copy of a run in Redis, run:<id>, and the index of paused runs the  *)
(* customer's order list is marked from.  write_run_status saves a status  *)
(* in Postgres and then writes copy and index in one Redis transaction.    *)
(* recover_runs, every 15 seconds and only for a missing copy, and the     *)
(* lifespan of a starting API, for every run, write the same keys from     *)
(* rows they have read before, and nothing orders these writers.           *)
(*                                                                         *)
(* Two jobs of one run may both be writing: a job that raises releases the *)
(* thread's lock first and writes failed afterwards, and Redis may lose a  *)
(* lock.  Each writes what its own code says, whatever the row says now.   *)
(*                                                                         *)
(* All runs here are runs of a customer about an order, the ones the index *)
(* is for, each alone on its thread.                                       *)
(***************************************************************************)
EXTENDS Naturals

CONSTANTS
    Runs,
    None,           \* no row, no copy
    Jobs,           \* jobs the workers have room for at a time
    Restores,       \* passes there is room for at a time
    MaxFaults       \* Redis transactions and passes that fail, losses of Redis

Statuses == {"queued", "running", "awaiting_approval", "completed", "failed"}

ASSUME CacheAssumption ==
    /\ MaxFaults \in Nat
    /\ None \notin Statuses \cup Runs \cup Jobs

VARIABLES
    durable,        \* payload.status of support_runs
    cached,         \* the status in run:<id>
    index,          \* the fields of customer:<id>:awaiting-orders
    post,           \* what POST /runs, or a scan beside it, has done for a run
    lock,           \* the job that holds the lock of the run's thread
    job,            \* how far a job is, and its write_run_status under way
    restore,        \* the rows a pass has read, its run and what Redis had
    diverted,       \* runs whose copy something below has put out of step
    faults

vars == <<durable, cached, index, post, lock, job, restore, diverted,
          faults>>

RowMap == [Runs -> Statuses \cup {None}]

TypeOK ==
    /\ durable \in RowMap
    /\ cached \in RowMap
    /\ index \in SUBSET Runs
    /\ post \in [Runs -> {"new", "saved", "requeued", "done"}]
    /\ lock \in [Runs -> Jobs \cup {None}]
    /\ job \in [Jobs -> [run : Runs \cup {None},
                         stage : {"out", "locked", "working", "failing"},
                         write : {"none", "loaded", "saved"},
                         status : Statuses \cup {None},
                         waited : BOOLEAN, alone : BOOLEAN]]
    /\ restore \in [Restores -> [step : {"idle", "visiting", "reading",
                                         "writing"},
                                 of : {"recover_runs", "lifespan"},
                                 rows : RowMap, todo : SUBSET Runs,
                                 run : Runs \cup {None}, waited : BOOLEAN]]
    /\ diverted \in SUBSET Runs
    /\ faults \in 0 .. MaxFaults

-----------------------------------------------------------------------------

NoRows == [r \in Runs |-> None]

Idle == [step |-> "idle", of |-> "recover_runs", rows |-> NoRows, todo |-> {},
         run |-> None, waited |-> FALSE]

Resting == [run |-> None, stage |-> "out", write |-> "none", status |-> None,
            waited |-> FALSE, alone |-> FALSE]

Init ==
    /\ durable = NoRows
    /\ cached = NoRows
    /\ index = {}
    /\ post = [r \in Runs |-> "new"]
    /\ lock = [r \in Runs |-> None]
    /\ job = [j \in Jobs |-> Resting]
    /\ restore = [p \in Restores |-> Idle]
    /\ diverted = {}
    /\ faults = 0

Waits(s) == s = "awaiting_approval"

(* Mutant: the index forgets no run.                                       *)
Accumulate(r, waited, status) ==
    /\ cached' = [cached EXCEPT ![r] = status]
    /\ index' = IF Waits(status) THEN index \cup {r} ELSE index

(* The Redis transaction of write_run_status.                              *)
Transact(r, waited, status) ==
    /\ cached' = [cached EXCEPT ![r] = status]
    /\ index' = IF Waits(status) THEN index \cup {r}
                ELSE IF waited THEN index \ {r}
                ELSE index

(* The write_run_status calls of jobs of a run that are under way.         *)
Writers(r) == {j \in Jobs : job[j].run = r /\ job[j].write # "none"}

(* POST /runs saves the row ...                                            *)
CreateRow(r) ==
    /\ post[r] = "new"
    /\ durable' = [durable EXCEPT ![r] = "queued"]
    /\ post' = [post EXCEPT ![r] = "saved"]
    /\ UNCHANGED <<cached, index, lock, job, restore, diverted, faults>>

(* ... sets the copy and enqueues the job; the API may die before it does. *)
CreateCopy(r) ==
    /\ post[r] \in {"saved", "requeued"}
    /\ post' = [post EXCEPT ![r] = "done"]
    /\ cached' = [cached EXCEPT ![r] = "queued"]
    /\ diverted' = IF durable[r] = "queued" THEN diverted
                   ELSE diverted \cup {r}
    /\ UNCHANGED <<durable, index, lock, job, restore, faults>>

-----------------------------------------------------------------------------
(* The jobs of a run: execute.                                             *)

(* A run, resume or recovery job takes the lock.                           *)
Enter(j, r) ==
    /\ job[j].stage = "out"
    /\ post[r] \in {"requeued", "done"}
    /\ lock[r] = None
    /\ lock' = [lock EXCEPT ![r] = j]
    /\ job' = [job EXCEPT ![j] =
           [Resting EXCEPT !.run = r, !.stage = "locked"]]
    /\ UNCHANGED <<durable, cached, index, post, restore, diverted, faults>>

(* What a job writes at a stage, whatever the row says.                    *)
Writes(stage) ==
    CASE stage = "locked"  -> {"running"}
      [] stage = "working" -> {"awaiting_approval", "completed"}
      [] stage = "failing" -> {"failed"}
      [] OTHER             -> {}

(* write_run_status with the pool reads the row: whether the run was       *)
(* paused decides later what becomes of the index ...                      *)
Load(j, s) ==
    LET r == job[j].run
        others == Writers(r)
    IN
    /\ job[j].write = "none"
    /\ s \in Writes(job[j].stage)
    /\ job' = [k \in Jobs |->
           IF k = j
           THEN [job[j] EXCEPT !.write = "loaded", !.status = s,
                               !.waited = Waits(durable[r]),
                               !.alone = others = {}]
           ELSE [job[k] EXCEPT !.alone = @ /\ k \notin others]]
    /\ diverted' = IF others = {} THEN diverted ELSE diverted \cup {r}
    /\ UNCHANGED <<durable, cached, index, post, lock, restore, faults>>

(* ... and saves the new one.                                              *)
Save(j) ==
    /\ job[j].write = "loaded"
    /\ durable' = [durable EXCEPT ![job[j].run] = job[j].status]
    /\ job' = [job EXCEPT ![j].write = "saved"]
    /\ UNCHANGED <<cached, index, post, lock, restore, diverted, faults>>

(* The job is over, or goes on to write failed; it lets go of its lock.    *)
Leave(j, next) ==
    /\ lock' = [lock EXCEPT ![job[j].run] = IF @ = j THEN None ELSE @]
    /\ job' = [job EXCEPT ![j] = next]

Failing(j) == [Resting EXCEPT !.run = job[j].run, !.stage = "failing"]

(* The Redis transaction.  After running has been written the graph runs;  *)
(* every other status ends the job.  A status that pauses the run or ends  *)
(* a pause also sets the index right.                                      *)
UpdateCopy(j) ==
    LET r == job[j].run
        s == job[j].status
        waited == job[j].waited
    IN
    /\ job[j].write = "saved"
    /\ Transact(r, waited, s)
    /\ IF job[j].stage = "locked"
       THEN /\ job' = [job EXCEPT ![j] =
                   [Resting EXCEPT !.run = r, !.stage = "working"]]
            /\ UNCHANGED lock
       ELSE Leave(j, Resting)
    /\ diverted' = IF job[j].alone /\ (Waits(s) \/ waited)
                   THEN diverted \ {r} ELSE diverted
    /\ UNCHANGED <<durable, post, restore, faults>>

(* The transaction fails with the row saved, or the answer to the save is  *)
(* lost; only the second is written as a failure, unless it was one.       *)
UpdateFails(j) ==
    /\ job[j].write = "saved"
    /\ faults < MaxFaults
    /\ faults' = faults + 1
    /\ \/ Leave(j, Resting)
       \/ lock[job[j].run] = j /\ Leave(j, Failing(j))
    /\ diverted' = diverted \cup {job[j].run}
    /\ UNCHANGED <<durable, cached, index, post, restore>>

(* Anything but the loss of Redis and a cancellation, raised before a row  *)
(* is saved: another run's checkpoint, the graph, the database.  A lock    *)
(* that is no longer the job's makes its release the error that counts.    *)
Raise(j) ==
    /\ job[j].stage \in {"locked", "working"}
    /\ job[j].write # "saved"
    /\ lock[job[j].run] = j
    /\ Leave(j, Failing(j))
    /\ UNCHANGED <<durable, cached, index, post, restore, diverted, faults>>

(* Cancelled, killed, or without Redis: nothing is written.                *)
Quit(j) ==
    /\ job[j].stage # "out"
    /\ job[j].write # "saved"
    /\ Leave(j, Resting)
    /\ UNCHANGED <<durable, cached, index, post, restore, diverted, faults>>

(* Redis loses its data, the locks too.                                    *)
Lose ==
    /\ faults < MaxFaults
    /\ faults' = faults + 1
    /\ cached' = NoRows
    /\ index' = {}
    /\ lock' = [r \in Runs |-> None]
    /\ diverted' = Runs
    /\ UNCHANGED <<durable, post, job, restore>>

-----------------------------------------------------------------------------
(* recover_runs and lifespan.                                              *)

ReadRows(p, function) ==
    /\ restore[p].step = "idle"
    /\ \E r \in Runs : durable[r] # None
    /\ restore' = [restore EXCEPT ![p] =
           [Idle EXCEPT !.step = "visiting", !.of = function,
                        !.rows = durable,
                        !.todo = {r \in Runs : durable[r] # None}]]
    /\ UNCHANGED <<durable, cached, index, post, lock, job, diverted, faults>>

(* recover_runs enqueues an incomplete run once its copy is there, also    *)
(* while POST /runs is still creating it.                                  *)
Requeue(p, r) ==
    post' = IF /\ restore[p].of = "recover_runs"
               /\ restore[p].rows[r] \in {"queued", "running"}
               /\ lock[r] = None
               /\ post[r] = "saved"
            THEN [post EXCEPT ![r] = "requeued"] ELSE post

(* Mutant: only the runs still to be requeued get their copy back.         *)
TakesIncomplete(p, r) ==
    restore[p].of = "recover_runs" =>
        cached[r] = None /\ restore[p].rows[r] \in {"queued", "running"}

(* recover_runs skips a run that has a copy, lifespan takes every one.     *)
Takes(p, r) == restore[p].of = "recover_runs" => cached[r] = None

(* A pass is through with a run: it goes on to the next or is over.        *)
Past(p, r) ==
    IF restore[p].todo \subseteq {r} THEN Idle
    ELSE [restore[p] EXCEPT !.step = "visiting", !.todo = @ \ {r},
                            !.run = None, !.waited = FALSE]

Visit(p, r) ==
    /\ restore[p].step = "visiting"
    /\ r \in restore[p].todo
    /\ restore' = [restore EXCEPT ![p] =
           IF Takes(p, r) THEN [@ EXCEPT !.step = "reading", !.run = r]
           ELSE Past(p, r)]
    /\ IF Takes(p, r) THEN UNCHANGED post ELSE Requeue(p, r)
    /\ UNCHANGED <<durable, cached, index, lock, job, diverted, faults>>

(* write_run_status without the pool reads the copy ...                    *)
ReadCopy(p) ==
    /\ restore[p].step = "reading"
    /\ restore' = [restore EXCEPT ![p].step = "writing",
                                  ![p].waited = Waits(cached[restore[p].run])]
    /\ UNCHANGED <<durable, cached, index, post, lock, job, diverted, faults>>

(* ... and writes the status of the row it was given.  That of a paused    *)
(* run puts it back into the index.                                        *)
WriteCopy(p) ==
    LET r == restore[p].run
        s == restore[p].rows[r]
    IN
    /\ restore[p].step = "writing"
    /\ Transact(r, restore[p].waited, s)
    /\ restore' = [restore EXCEPT ![p] = Past(p, r)]
    /\ Requeue(p, r)
    /\ diverted' = IF s # durable[r] THEN diverted \cup {r}
                   ELSE IF Waits(s) /\ Writers(r) = {} THEN diverted \ {r}
                   ELSE diverted
    /\ UNCHANGED <<durable, lock, job, faults>>

(* Redis or Postgres fails the pass, or its process dies.                  *)
PassFails(p) ==
    /\ restore[p].step # "idle"
    /\ faults < MaxFaults
    /\ faults' = faults + 1
    /\ restore' = [restore EXCEPT ![p] = Idle]
    /\ UNCHANGED <<durable, cached, index, post, lock, job, diverted>>

-----------------------------------------------------------------------------

JobStep(j) ==
    \/ \E r \in Runs : Enter(j, r)
    \/ \E s \in Statuses : Load(j, s)
    \/ Save(j) \/ UpdateCopy(j) \/ UpdateFails(j) \/ Raise(j) \/ Quit(j)

RestoreStep(p) ==
    \/ ReadRows(p, "recover_runs") \/ ReadRows(p, "lifespan")
    \/ \E r \in Runs : Visit(p, r)
    \/ ReadCopy(p)
    \/ WriteCopy(p)

Next ==
    \/ \E r \in Runs : CreateRow(r) \/ CreateCopy(r)
    \/ \E j \in Jobs : JobStep(j)
    \/ Lose
    \/ \E p \in Restores : RestoreStep(p) \/ PassFails(p)

Spec == Init /\ [][Next]_vars

(* Passes come again and again, every 15 seconds, and go on until they end *)
(* or fail; POST /runs and the jobs need not go on.                        *)
Fairness == \A p \in Restores : WF_vars(RestoreStep(p))

FairSpec == Spec /\ Fairness

-----------------------------------------------------------------------------
(* Properties.                                                             *)

Quiet(r) == post[r] \in {"requeued", "done"} /\ Writers(r) = {}

(* Whenever no job is writing the status of a run, its copy and its place  *)
(* in the index say what the row says, unless one of these has happened    *)
(* since the run was last paused or taken out of its pause by an update    *)
(* that met no other, or put back as paused by a pass: a transaction       *)
(* failed, Redis lost its data, a pass wrote a row that was no longer      *)
(* true, POST /runs set the copy late, two updates of the run overlapped.  *)
CopyFollowsRow ==
    \A r \in Runs \ diverted :
        Quiet(r) =>
            /\ cached[r] = durable[r]
            /\ r \in index <=> Waits(durable[r])

(* Every run has a copy again and keeps it, after transactions and passes  *)
(* that failed and losses of Redis, also a run that POST /runs never       *)
(* finishes creating, one whose job has died and one that has ended:       *)
(* recover_runs rebuilds what is missing.                                  *)
CopiesReturn ==
    \A r \in Runs : <>[](durable[r] # None => cached[r] # None)

=============================================================================
