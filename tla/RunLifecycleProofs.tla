------------------------- MODULE RunLifecycleProofs -------------------------
(***************************************************************************)
(* The safety of the run lifecycle for any number of runs, threads and     *)
(* faults, while Redis keeps its data (RunLifecycle) and when it loses     *)
(* them under the worker (RedisLoss).                                      *)
(*                                                                         *)
(* None of the four safety properties is inductive.  They follow from what *)
(* a job knows while it holds the lock of its thread: that nobody else     *)
(* does, that the decision it carries is the one a human has claimed, and  *)
(* where the checkpoint it has read still stands: IInv.                    *)
(*                                                                         *)
(* Until Redis is lost under a running job IInv goes on.  Behind the loss  *)
(* two jobs may drive one graph, but what the ledger records does not      *)
(* depend on the lock: ClaimInv follows a decision from its claim through  *)
(* the job that carries it to the ledger.                                  *)
(***************************************************************************)
EXTENDS RedisLoss, TLAPS

(* A job that drives the graph holds the lock of its thread.               *)
HoldsLock(j) == job[j].stage \in Critical => lock[Lane(j)] = j

(* A decision a job carries has been claimed by a human.                   *)
CarriesClaim(j) == job[j].arg # "none" => job[j].arg = decision[RunOf(j)]

(* The checkpoint a job has read or written does not move under it.        *)
KnowsCheckpoint(j) ==
    LET r == RunOf(j)
        at == checkpoint[Lane(j)].at
        stage == job[j].stage
    IN
    /\ stage = "fresh" => at # "paused"
    /\ stage = "working" => SameRun(j) /\ at = "working"
    /\ stage \in {"resume", "settled"} =>
           SameRun(j) /\ at = "paused" /\ job[j].arg # "none"
    /\ stage = "settled" => Settled(r)
    /\ stage = "refunded" => SameRun(j) /\ at = "refunded"
    /\ stage = "report" => SameRun(j)

JobOK(j) == HoldsLock(j) /\ CarriesClaim(j) /\ KnowsCheckpoint(j)

IInv ==
    /\ TypeOK
    /\ \A j \in Jobs : JobOK(j)
    /\ LedgerFollowsHuman
    /\ InboxIsResumable

JobStates == [stage : Stages, arg : Choices \cup {"none"}]

-----------------------------------------------------------------------------
(* Facts about the helpers of the model.                                   *)

(* A job belongs to a run, and its run to a thread.                        *)
LEMMA JobFacts ==
    ASSUME NEW j \in Jobs
    PROVE  RunOf(j) \in Runs /\ Lane(j) \in Threads
  BY LifecycleAssumption DEF Jobs, RunOf, Lane

(* Goto moves one job and keeps the decision it carries.                   *)
LEMMA GotoFacts ==
    ASSUME TypeOK, NEW j \in Jobs, NEW s \in Stages, Goto(j, s)
    PROVE  /\ job' \in [Jobs -> JobStates]
           /\ job'[j].stage = s /\ job'[j].arg = job[j].arg
           /\ \A k \in Jobs \ {j} : job'[k] = job[k]
  BY DEF TypeOK, Goto, JobStates

(* Leave moves one job and drops the decision it carries.                  *)
LEMMA LeaveFacts ==
    ASSUME TypeOK, NEW j \in Jobs, NEW s \in Stages, Leave(j, s)
    PROVE  /\ job' \in [Jobs -> JobStates]
           /\ job'[j].stage = s /\ job'[j].arg = "none"
           /\ \A k \in Jobs \ {j} : job'[k] = job[k]
  BY DEF TypeOK, Leave, Bare, JobStates

(* Enqueue adds one job or does nothing.                                   *)
LEMMA EnqueueFacts ==
    ASSUME TypeOK, NEW j \in Jobs, NEW entry \in JobStates, Enqueue(j, entry)
    PROVE  /\ job' \in [Jobs -> JobStates]
           /\ job'[j] = job[j] \/ job'[j] = entry
           /\ \A k \in Jobs \ {j} : job'[k] = job[k]
  BY DEF TypeOK, Enqueue, JobStates

(* Save writes the checkpoint of one thread.                               *)
LEMMA SaveFacts ==
    ASSUME TypeOK, NEW t \in Threads, NEW r \in Runs, NEW at \in Positions,
           Save(t, r, at)
    PROVE  /\ checkpoint' \in [Threads -> Checkpoints]
           /\ checkpoint'[t].run = r /\ checkpoint'[t].at = at
           /\ checkpoint'[t] = [run |-> r, at |-> at]
           /\ \A u \in Threads \ {t} : checkpoint'[u] = checkpoint[u]
  BY DEF TypeOK, Save, Checkpoints

(* Release frees the lock of the job, and only if the job holds it.        *)
LEMMA ReleaseFacts ==
    ASSUME TypeOK, NEW j \in Jobs, Release(j)
    PROVE  /\ lock' \in [Threads -> Jobs \cup {NoJob, OrphanLock}]
           /\ lock[Lane(j)] = j \/ lock' = lock
           /\ \A t \in Threads \ {Lane(j)} : lock'[t] = lock[t]
  BY JobFacts DEF TypeOK, Release

-----------------------------------------------------------------------------

(* What a step of one job must respect for the others to be undisturbed.   *)
LEMMA OthersKept ==
    ASSUME IInv, NEW j \in Jobs,
           \A k \in Jobs \ {j} : job'[k] = job[k],
           \A t \in Threads \ {Lane(j)} :
               lock'[t] = lock[t] /\ checkpoint'[t] = checkpoint[t],
           lock' = lock \/ lock[Lane(j)] \in {j, NoJob},
           checkpoint' = checkpoint \/ lock[Lane(j)] = j,
           \A r \in Runs : decision[r] # "none" => decision'[r] = decision[r],
           \A r \in Runs : Settled(r) => ledger'[r] = ledger[r]
    PROVE  \A k \in Jobs \ {j} : JobOK(k)'
  <1> SUFFICES ASSUME NEW k \in Jobs \ {j} PROVE JobOK(k)'
    OBVIOUS
  <1>1. JobOK(k) /\ job'[k] = job[k] /\ RunOf(k) \in Runs /\ Lane(k) \in Threads
    BY JobFacts DEF IInv
  <1>2. CarriesClaim(k)'
    <2>1. job[k].arg # "none" => job[k].arg = decision[RunOf(k)]
      BY <1>1 DEF JobOK, CarriesClaim
    <2> QED
      BY <1>1, <2>1 DEF CarriesClaim
  <1>3. CASE job[k].stage \in Critical
    <2>1. lock[Lane(k)] = k /\ k # NoJob /\ k # j
      BY <1>1, <1>3, LifecycleAssumption DEF JobOK, HoldsLock
    <2>2. lock'[Lane(k)] = lock[Lane(k)]
      BY <1>1, <2>1
    <2>3. checkpoint'[Lane(k)] = checkpoint[Lane(k)]
      BY <1>1, <2>1
    <2>4. HoldsLock(k)'
      BY <1>1, <2>1, <2>2 DEF HoldsLock
    <2>5. KnowsCheckpoint(k)'
      BY <1>1, <2>3 DEF JobOK, KnowsCheckpoint, SameRun, Settled
    <2> QED
      BY <1>2, <2>4, <2>5 DEF JobOK
  <1>4. CASE job[k].stage \notin Critical
    BY <1>1, <1>2, <1>4
       DEF JobOK, HoldsLock, KnowsCheckpoint, Critical
  <1> QED
    BY <1>3, <1>4

(* A job outside the critical section has nothing to know.                 *)
LEMMA OutsideOK ==
    ASSUME NEW j \in Jobs, job'[j].stage \notin Critical,
           job'[j].arg = "none" \/ job'[j].arg = decision'[RunOf(j)]
    PROVE  JobOK(j)'
  BY DEF JobOK, HoldsLock, CarriesClaim, KnowsCheckpoint, Critical

(* Runs the inbox has offered keep their paused checkpoint as long as no   *)
(* run enters the inbox and no checkpoint moves.                           *)
LEMMA InboxKept ==
    ASSUME InboxIsResumable, checkpoint' = checkpoint,
           \A r \in Runs : decision'[r] = "none" => decision[r] = "none",
           \A r \in Runs : status'[r] = "awaiting_approval" =>
                               status[r] = "awaiting_approval"
    PROVE  InboxIsResumable'
  BY DEF InboxIsResumable

-----------------------------------------------------------------------------
(* Every action keeps the invariant.                                       *)

LEMMA CreateKeeps ==
    ASSUME IInv, NEW r \in Runs, CreateRun(r) \/ CreateOnly(r)
    PROVE  IInv'
  <1> DEFINE j == <<r, "run">>
  <1>1. TypeOK /\ j \in Jobs /\ Bare("waiting") \in JobStates
    BY DEF IInv, Jobs, Kinds, Bare, JobStates, Stages, InMemory
  <1>2. /\ job' \in [Jobs -> JobStates]
        /\ job'[j] = job[j] \/ job'[j] = Bare("waiting")
        /\ \A k \in Jobs \ {j} : job'[k] = job[k]
    <2>1. CASE CreateRun(r)
      <3>1. Enqueue(j, Bare("waiting"))
        BY <2>1 DEF CreateRun
      <3> QED
        BY <1>1, <3>1, EnqueueFacts
    <2>2. CASE CreateOnly(r)
      BY <1>1, <2>2 DEF CreateOnly, TypeOK, JobStates
    <2> QED
      BY <2>1, <2>2
  <1>3. /\ status' = [status EXCEPT ![r] = "queued"]
        /\ UNCHANGED <<decision, checkpoint, lock, scan, ledger>>
        /\ faults' = faults \/ Fault
    BY DEF CreateRun, CreateOnly
  <1>4. TypeOK'
    BY <1>1, <1>2, <1>3, LifecycleAssumption
       DEF TypeOK, JobStates, Statuses, Fault
  <1>5. \A k \in Jobs : JobOK(k)'
    <2>1. \A k \in Jobs \ {j} : JobOK(k)'
      BY <1>1, <1>2, <1>3, OthersKept
    <2>2. JobOK(j)'
      <3>1. CASE job'[j] = job[j]
        BY <1>1, <1>3, <3>1
           DEF IInv, JobOK, HoldsLock, CarriesClaim, KnowsCheckpoint,
               SameRun, Settled
      <3>2. CASE job'[j] = Bare("waiting")
        BY <1>1, <3>2, OutsideOK DEF Bare, Critical
      <3> QED
        BY <1>2, <3>1, <3>2
    <2> QED
      BY <2>1, <2>2
  <1>6. LedgerFollowsHuman'
    BY <1>3 DEF IInv, LedgerFollowsHuman, Settled
  <1>7. InboxIsResumable'
    BY <1>1, <1>3, InboxKept DEF IInv, TypeOK
  <1> QED
    BY <1>4, <1>5, <1>6, <1>7 DEF IInv

LEMMA ClaimKeeps ==
    ASSUME IInv, NEW r \in Runs, NEW c \in Choices, Claim(r, c)
    PROVE  IInv'
  <1>1. /\ TypeOK /\ decision[r] = "none"
        /\ decision' = [decision EXCEPT ![r] = c]
        /\ UNCHANGED <<status, checkpoint, job, lock, scan, ledger, faults>>
    BY DEF IInv, Claim
  <1>2. /\ \A q \in Runs : decision[q] # "none" => decision'[q] = decision[q]
        /\ \A q \in Runs : decision'[q] = "none" => decision[q] = "none"
    BY <1>1 DEF TypeOK
  <1>3. TypeOK'
    BY <1>1 DEF TypeOK
  <1>4. \A j \in Jobs : JobOK(j)'
    <2> SUFFICES ASSUME NEW j \in Jobs PROVE JobOK(j)'
      OBVIOUS
    <2>1. JobOK(j) /\ RunOf(j) \in Runs
      BY JobFacts DEF IInv
    <2>2. CarriesClaim(j)'
      BY <1>1, <1>2, <2>1 DEF JobOK, CarriesClaim
    <2>3. HoldsLock(j)' /\ KnowsCheckpoint(j)'
      BY <1>1, <2>1 DEF JobOK, HoldsLock, KnowsCheckpoint, SameRun, Settled
    <2> QED
      BY <2>2, <2>3 DEF JobOK
  <1>5. LedgerFollowsHuman'
    BY <1>1, <1>2 DEF IInv, LedgerFollowsHuman, Settled
  <1>6. InboxIsResumable'
    BY <1>1, <1>2, InboxKept DEF IInv
  <1> QED
    BY <1>3, <1>4, <1>5, <1>6 DEF IInv

LEMMA EnqueueDecisionKeeps ==
    ASSUME IInv, NEW r \in Runs, EnqueueDecision(r)
    PROVE  IInv'
  <1> DEFINE j == <<r, "decision">>
             entry == [stage |-> "waiting", arg |-> decision[r]]
  <1>1. /\ TypeOK /\ j \in Jobs /\ entry \in JobStates
        /\ RunOf(j) = r
    BY DEF IInv, TypeOK, Jobs, Kinds, JobStates, Stages, InMemory, RunOf
  <1>2. /\ Enqueue(j, entry)
        /\ UNCHANGED <<status, decision, checkpoint, lock, scan, ledger, faults>>
    BY DEF EnqueueDecision
  <1>3. /\ job' \in [Jobs -> JobStates]
        /\ job'[j] = entry
        /\ \A k \in Jobs \ {j} : job'[k] = job[k]
    <2>1. At(j, "absent")
      BY DEF EnqueueDecision
    <2> QED
      BY <1>1, <1>2, <2>1 DEF Enqueue, TypeOK, JobStates
  <1>4. TypeOK'
    BY <1>1, <1>2, <1>3 DEF TypeOK, JobStates
  <1>5. \A k \in Jobs : JobOK(k)'
    <2>1. \A k \in Jobs \ {j} : JobOK(k)'
      BY <1>1, <1>2, <1>3, OthersKept
    <2>2. JobOK(j)'
      BY <1>1, <1>2, <1>3, OutsideOK DEF Critical
    <2> QED
      BY <2>1, <2>2
  <1>6. LedgerFollowsHuman' /\ InboxIsResumable'
    BY <1>2, InboxKept DEF IInv, LedgerFollowsHuman, Settled
  <1> QED
    BY <1>4, <1>5, <1>6 DEF IInv

LEMMA SelectKeeps ==
    ASSUME IInv, Select
    PROVE  IInv'
  <1>1. /\ scan' \in SUBSET Runs
        /\ UNCHANGED <<status, decision, checkpoint, job, lock, ledger, faults>>
    BY DEF Select
  <1>2. TypeOK'
    BY <1>1 DEF IInv, TypeOK
  <1>3. \A j \in Jobs : JobOK(j)'
    BY <1>1 DEF IInv, JobOK, HoldsLock, CarriesClaim, KnowsCheckpoint,
                SameRun, Settled
  <1>4. LedgerFollowsHuman' /\ InboxIsResumable'
    BY <1>1, InboxKept DEF IInv, LedgerFollowsHuman, Settled
  <1> QED
    BY <1>2, <1>3, <1>4 DEF IInv

LEMMA VisitKeeps ==
    ASSUME IInv, NEW r \in Runs, Visit(r)
    PROVE  IInv'
  <1> DEFINE j == <<r, "recovery">>
  <1>1. TypeOK /\ j \in Jobs /\ Bare("queued") \in JobStates
    BY DEF IInv, Jobs, Kinds, Bare, JobStates, Stages, InMemory
  <1>2. /\ Enqueue(j, Bare("queued")) \/ job' = job
        /\ scan' = scan \ {r}
        /\ UNCHANGED <<status, decision, checkpoint, lock, ledger, faults>>
    BY DEF Visit
  <1>3. /\ job' \in [Jobs -> JobStates]
        /\ job'[j] = job[j] \/ job'[j] = Bare("queued")
        /\ \A k \in Jobs \ {j} : job'[k] = job[k]
    BY <1>1, <1>2, EnqueueFacts DEF TypeOK, JobStates
  <1>4. TypeOK'
    BY <1>1, <1>2, <1>3 DEF TypeOK, JobStates
  <1>5. \A k \in Jobs : JobOK(k)'
    <2>1. \A k \in Jobs \ {j} : JobOK(k)'
      BY <1>1, <1>2, <1>3, OthersKept
    <2>2. JobOK(j)'
      <3>1. CASE job'[j] = job[j]
        BY <1>1, <1>2, <3>1
           DEF IInv, JobOK, HoldsLock, CarriesClaim, KnowsCheckpoint,
               SameRun, Settled
      <3>2. CASE job'[j] = Bare("queued")
        BY <1>1, <3>2, OutsideOK DEF Bare, Critical
      <3> QED
        BY <1>3, <3>1, <3>2
    <2> QED
      BY <2>1, <2>2
  <1>6. LedgerFollowsHuman' /\ InboxIsResumable'
    BY <1>2, InboxKept DEF IInv, LedgerFollowsHuman, Settled
  <1> QED
    BY <1>4, <1>5, <1>6 DEF IInv

(* A step of a job that leaves it outside the critical section, writes no  *)
(* durable state but a status that is not the inbox's, and frees at most   *)
(* its own lock: Start, LockTimeout, Refuse, Fail, WriteFailed, Cancel.    *)
LEMMA OutsideKeeps ==
    ASSUME IInv, NEW j \in Jobs,
           job' \in [Jobs -> JobStates],
           job'[j].stage \notin Critical,
           job'[j].arg \in {"none", decision[RunOf(j)]},
           \A k \in Jobs \ {j} : job'[k] = job[k],
           Release(j) \/ lock' = lock,
           faults' = faults \/ Fault,
           status' \in [Runs -> Statuses],
           \A r \in Runs : status'[r] = "awaiting_approval" =>
                               status[r] = "awaiting_approval",
           UNCHANGED <<decision, checkpoint, scan, ledger>>
    PROVE  IInv'
  <1>1. TypeOK /\ RunOf(j) \in Runs /\ Lane(j) \in Threads
    BY JobFacts DEF IInv
  <1>2. /\ lock' \in [Threads -> Jobs \cup {NoJob, OrphanLock}]
        /\ lock' = lock \/ lock[Lane(j)] = j
        /\ \A t \in Threads \ {Lane(j)} : lock'[t] = lock[t]
    BY <1>1, ReleaseFacts DEF TypeOK
  <1>3. TypeOK'
    BY <1>1, <1>2, LifecycleAssumption DEF TypeOK, JobStates, Fault
  <1>4. \A k \in Jobs : JobOK(k)'
    <2>1. \A k \in Jobs \ {j} : JobOK(k)'
      BY <1>2, OthersKept
    <2>2. JobOK(j)'
      BY OutsideOK
    <2> QED
      BY <2>1, <2>2
  <1>5. LedgerFollowsHuman' /\ InboxIsResumable'
    BY InboxKept DEF IInv, LedgerFollowsHuman, Settled
  <1> QED
    BY <1>3, <1>4, <1>5 DEF IInv

LEMMA StartKeeps ==
    ASSUME IInv, NEW j \in Jobs, Start(j)
    PROVE  IInv'
  <1>1. TypeOK /\ RunOf(j) \in Runs
    BY JobFacts DEF IInv
  <1>2. /\ job' \in [Jobs -> JobStates]
        /\ job'[j].stage \in {"absent", "waiting"}
        /\ job'[j].arg \in {"none", decision[RunOf(j)]}
        /\ \A k \in Jobs \ {j} : job'[k] = job[k]
    <2>1. CASE Leave(j, "absent")
      BY <1>1, <2>1, LeaveFacts DEF Stages
    <2>2. CASE job' = [job EXCEPT ![j] = [stage |-> "waiting",
                                          arg |-> decision[RunOf(j)]]]
      BY <1>1, <2>2 DEF TypeOK, JobStates, Stages, InMemory
    <2> QED
      BY <2>1, <2>2 DEF Start
  <1>3. /\ job'[j].stage \notin Critical
        /\ lock' = lock /\ faults' = faults /\ status' = status
        /\ UNCHANGED <<decision, checkpoint, scan, ledger>>
    BY <1>2 DEF Start, Critical
  <1> QED
    BY <1>1, <1>2, <1>3, OutsideKeeps DEF TypeOK

(* Refuse, LockTimeout, Fail and Cancel end a job without a durable write. *)
LEMMA EndKeeps ==
    ASSUME IInv, NEW j \in Jobs,
           Refuse(j) \/ LockTimeout(j) \/ Fail(j) \/ Cancel(j)
    PROVE  IInv'
  <1>1. TypeOK
    BY DEF IInv
  <1>2. /\ Leave(j, "failing") \/ Leave(j, "absent")
        /\ Release(j) \/ lock' = lock
        /\ faults' = faults \/ Fault
        /\ UNCHANGED <<status, decision, checkpoint, scan, ledger>>
    BY DEF Refuse, LockTimeout, Fail, Cancel
  <1>3. /\ job' \in [Jobs -> JobStates]
        /\ job'[j].stage \in {"failing", "absent"} /\ job'[j].arg = "none"
        /\ \A k \in Jobs \ {j} : job'[k] = job[k]
    BY <1>1, <1>2, LeaveFacts DEF Stages, InMemory
  <1>4. job'[j].stage \notin Critical
    BY <1>3 DEF Critical
  <1> QED
    BY <1>1, <1>2, <1>3, <1>4, OutsideKeeps DEF TypeOK

LEMMA WriteFailedKeeps ==
    ASSUME IInv, NEW j \in Jobs, WriteFailed(j)
    PROVE  IInv'
  <1>1. TypeOK /\ RunOf(j) \in Runs
    BY JobFacts DEF IInv
  <1>2. /\ job' \in [Jobs -> JobStates]
        /\ job'[j].stage = "absent" /\ job'[j].arg = "none"
        /\ \A k \in Jobs \ {j} : job'[k] = job[k]
    BY <1>1, LeaveFacts DEF WriteFailed, Stages
  <1>3. /\ status' \in [Runs -> Statuses]
        /\ \A r \in Runs : status'[r] = "awaiting_approval" =>
                               status[r] = "awaiting_approval"
    BY <1>1 DEF WriteFailed, TypeOK, Statuses
  <1>4. /\ job'[j].stage \notin Critical
        /\ lock' = lock /\ faults' = faults
        /\ UNCHANGED <<decision, checkpoint, scan, ledger>>
    BY <1>2 DEF WriteFailed, Critical
  <1> QED
    BY <1>1, <1>2, <1>3, <1>4, OutsideKeeps

LEMMA AcquireKeeps ==
    ASSUME IInv, NEW j \in Jobs, Acquire(j)
    PROVE  IInv'
  <1>1. TypeOK /\ RunOf(j) \in Runs /\ Lane(j) \in Threads /\ JobOK(j)
    BY JobFacts DEF IInv
  <1>2. /\ lock[Lane(j)] = NoJob
        /\ lock' = [lock EXCEPT ![Lane(j)] = j]
        /\ UNCHANGED <<status, decision, checkpoint, scan, ledger, faults>>
    BY DEF Acquire
  <1>3. /\ job' \in [Jobs -> JobStates]
        /\ job'[j].stage = "entered" /\ job'[j].arg = job[j].arg
        /\ \A k \in Jobs \ {j} : job'[k] = job[k]
    BY <1>1, GotoFacts DEF Acquire, Stages, InMemory, Critical
  <1>4. TypeOK'
    BY <1>1, <1>2, <1>3 DEF TypeOK, JobStates
  <1>5. \A k \in Jobs : JobOK(k)'
    <2>1. \A t \in Threads \ {Lane(j)} :
              lock'[t] = lock[t] /\ checkpoint'[t] = checkpoint[t]
      BY <1>1, <1>2 DEF TypeOK
    <2>2. \A k \in Jobs \ {j} : JobOK(k)'
      BY <1>2, <1>3, <2>1, OthersKept
    <2>3. HoldsLock(j)'
      BY <1>1, <1>2 DEF HoldsLock, TypeOK
    <2>4. CarriesClaim(j)'
      BY <1>1, <1>2, <1>3 DEF JobOK, CarriesClaim
    <2>5. KnowsCheckpoint(j)'
      BY <1>3 DEF KnowsCheckpoint
    <2> QED
      BY <2>2, <2>3, <2>4, <2>5 DEF JobOK
  <1>6. LedgerFollowsHuman' /\ InboxIsResumable'
    BY <1>2, InboxKept DEF IInv, LedgerFollowsHuman, Settled
  <1> QED
    BY <1>4, <1>5, <1>6 DEF IInv

(* What the job reads under the lock, Plan, is what it knows from then on. *)
LEMMA EnterKeeps ==
    ASSUME IInv, NEW j \in Jobs, Enter(j)
    PROVE  IInv'
  <1>1. TypeOK /\ RunOf(j) \in Runs /\ Lane(j) \in Threads /\ JobOK(j)
    BY JobFacts DEF IInv
  <1>2. /\ At(j, "entered") /\ ~Refused(j)
        /\ status' = [status EXCEPT ![RunOf(j)] = "running"]
        /\ Goto(j, Plan(j))
        /\ UNCHANGED <<decision, checkpoint, lock, scan, ledger, faults>>
    BY DEF Enter
  <1>3. Plan(j) \in {"fresh", "resume", "working", "refunded", "report"}
    BY DEF Plan
  <1>4. /\ job' \in [Jobs -> JobStates]
        /\ job'[j].stage = Plan(j) /\ job'[j].arg = job[j].arg
        /\ \A k \in Jobs \ {j} : job'[k] = job[k]
    BY <1>1, <1>2, <1>3, GotoFacts DEF Stages, InMemory, Critical
  <1>5. TypeOK'
    BY <1>1, <1>2, <1>4 DEF TypeOK, JobStates, Statuses
  <1>6. \A k \in Jobs : JobOK(k)'
    <2>1. \A k \in Jobs \ {j} : JobOK(k)'
      BY <1>2, <1>4, OthersKept
    <2>2. HoldsLock(j)'
      BY <1>1, <1>2, <1>4 DEF JobOK, HoldsLock, At, Critical
    <2>3. CarriesClaim(j)'
      BY <1>1, <1>2, <1>4 DEF JobOK, CarriesClaim
    <2>4. KnowsCheckpoint(j)'
      BY <1>2, <1>4 DEF KnowsCheckpoint, Plan, Refused, Paused, SameRun
    <2> QED
      BY <2>1, <2>2, <2>3, <2>4 DEF JobOK
  <1>7. \A r \in Runs : status'[r] = "awaiting_approval" =>
                            status[r] = "awaiting_approval"
    BY <1>1, <1>2 DEF TypeOK
  <1>8. LedgerFollowsHuman' /\ InboxIsResumable'
    BY <1>2, <1>7, InboxKept DEF IInv, LedgerFollowsHuman, Settled
  <1> QED
    BY <1>5, <1>6, <1>8 DEF IInv

(* A superstep moves a checkpoint that the inbox does not offer: it is not *)
(* paused, or a human has decided its run.                                 *)
LEMMA SuperstepKeeps ==
    ASSUME IInv, NEW j \in Jobs, NEW at \in Positions, NEW s \in Critical,
           job[j].stage \in Critical,
           Save(Lane(j), RunOf(j), at),
           Goto(j, s),
           KnowsCheckpoint(j)',
           \/ checkpoint[Lane(j)].at # "paused"
           \/ SameRun(j) /\ decision[RunOf(j)] # "none",
           UNCHANGED <<status, decision, lock, scan, ledger, faults>>
    PROVE  IInv'
  <1>1. /\ TypeOK /\ RunOf(j) \in Runs /\ Lane(j) \in Threads /\ JobOK(j)
        /\ s \in Stages
    BY JobFacts DEF IInv, Stages, InMemory
  <1>2. /\ checkpoint' \in [Threads -> Checkpoints]
        /\ \A t \in Threads \ {Lane(j)} : checkpoint'[t] = checkpoint[t]
    BY <1>1, SaveFacts
  <1>3. /\ job' \in [Jobs -> JobStates]
        /\ job'[j].stage = s /\ job'[j].arg = job[j].arg
        /\ \A k \in Jobs \ {j} : job'[k] = job[k]
    BY <1>1, GotoFacts
  <1>4. lock[Lane(j)] = j
    BY <1>1 DEF JobOK, HoldsLock
  <1>5. TypeOK'
    BY <1>1, <1>2, <1>3 DEF TypeOK, JobStates
  <1>6. \A k \in Jobs : JobOK(k)'
    <2>1. \A k \in Jobs \ {j} : JobOK(k)'
      BY <1>2, <1>3, <1>4, OthersKept
    <2>2. HoldsLock(j)'
      BY <1>4 DEF HoldsLock
    <2>3. CarriesClaim(j)'
      BY <1>1, <1>3 DEF JobOK, CarriesClaim
    <2> QED
      BY <2>1, <2>2, <2>3 DEF JobOK
  <1>7. LedgerFollowsHuman'
    BY DEF IInv, LedgerFollowsHuman, Settled
  <1>8. InboxIsResumable'
    <2> SUFFICES ASSUME NEW r \in Runs,
                        status[r] = "awaiting_approval", decision[r] = "none"
                 PROVE  checkpoint'[ThreadOf[r]] = [run |-> r, at |-> "paused"]
      BY DEF InboxIsResumable
    <2>1. /\ checkpoint[ThreadOf[r]] = [run |-> r, at |-> "paused"]
          /\ ThreadOf[r] \in Threads
      BY LifecycleAssumption DEF IInv, InboxIsResumable
    <2>2. ThreadOf[r] # Lane(j)
      BY <2>1 DEF SameRun
    <2> QED
      BY <1>2, <2>1, <2>2
  <1> QED
    BY <1>5, <1>6, <1>7, <1>8 DEF IInv

LEMMA InputKeeps ==
    ASSUME IInv, NEW j \in Jobs, Input(j)
    PROVE  IInv'
  <1>1. TypeOK /\ RunOf(j) \in Runs /\ Lane(j) \in Threads /\ JobOK(j)
    BY JobFacts DEF IInv
  <1>2. /\ job[j].stage = "fresh"
        /\ Save(Lane(j), RunOf(j), "working") /\ Goto(j, "working")
        /\ UNCHANGED <<status, decision, lock, scan, ledger, faults>>
    BY DEF Input, At
  <1>3. checkpoint[Lane(j)].at # "paused"
    BY <1>1, <1>2 DEF JobOK, KnowsCheckpoint
  <1>4. KnowsCheckpoint(j)'
    <2>1. /\ checkpoint'[Lane(j)].run = RunOf(j)
          /\ checkpoint'[Lane(j)].at = "working"
      BY <1>1, <1>2, SaveFacts DEF Positions
    <2>2. job'[j].stage = "working"
      BY <1>1, <1>2, GotoFacts DEF Stages, InMemory, Critical
    <2> QED
      BY <2>1, <2>2 DEF KnowsCheckpoint, SameRun
  <1> QED
    BY <1>1, <1>2, <1>3, <1>4, SuperstepKeeps DEF Positions, Critical

LEMMA RouteKeeps ==
    ASSUME IInv, NEW j \in Jobs, Route(j)
    PROVE  IInv'
  <1>1. TypeOK /\ RunOf(j) \in Runs /\ Lane(j) \in Threads /\ JobOK(j)
    BY JobFacts DEF IInv
  <1>2. PICK at \in {"paused", "done"} : Save(Lane(j), RunOf(j), at)
    BY DEF Route
  <1>3. /\ job[j].stage = "working" /\ Goto(j, "report")
        /\ UNCHANGED <<status, decision, lock, scan, ledger, faults>>
    BY DEF Route, At
  <1>4. checkpoint[Lane(j)].at # "paused"
    BY <1>1, <1>3 DEF JobOK, KnowsCheckpoint
  <1>5. at \in Positions /\ "report" \in Stages
    BY DEF Positions, Stages, InMemory, Critical
  <1>6. KnowsCheckpoint(j)'
    <2>1. checkpoint'[Lane(j)].run = RunOf(j)
      BY <1>1, <1>2, <1>5, SaveFacts
    <2>2. job'[j].stage = "report"
      BY <1>1, <1>3, <1>5, GotoFacts
    <2> QED
      BY <2>1, <2>2 DEF KnowsCheckpoint, SameRun
  <1> QED
    BY <1>2, <1>3, <1>4, <1>5, <1>6, SuperstepKeeps DEF Critical

(* The ledger takes the decision the job carries, which a human claimed,   *)
(* and never drops one it has.                                             *)
LEMMA RecordKeeps ==
    ASSUME IInv, NEW j \in Jobs, Record(j)
    PROVE  IInv'
  <1> DEFINE r == RunOf(j)
             accepted == ledger[r] \in {"none", job[j].arg}
  <1>1. TypeOK /\ r \in Runs /\ Lane(j) \in Threads /\ JobOK(j)
    BY JobFacts DEF IInv
  <1>2. /\ job[j].stage = "resume"
        /\ UNCHANGED <<status, decision, checkpoint, scan, faults>>
    BY DEF Record, At
  <1>3. CASE ~accepted
    <2>1. ledger' = ledger /\ Leave(j, "failing") /\ Release(j)
      BY <1>3 DEF Record
    <2>2. /\ job' \in [Jobs -> JobStates]
          /\ job'[j].stage = "failing" /\ job'[j].arg = "none"
          /\ \A k \in Jobs \ {j} : job'[k] = job[k]
      BY <1>1, <2>1, LeaveFacts DEF Stages, InMemory
    <2>3. job'[j].stage \notin Critical
      BY <2>2 DEF Critical
    <2> QED
      BY <1>1, <1>2, <2>1, <2>2, <2>3, OutsideKeeps DEF TypeOK
  <1>4. CASE accepted
    <2>1. /\ ledger' = [ledger EXCEPT ![r] = job[j].arg]
          /\ Goto(j, "settled") /\ lock' = lock
      BY <1>4 DEF Record
    <2>2. /\ job' \in [Jobs -> JobStates]
          /\ job'[j].stage = "settled" /\ job'[j].arg = job[j].arg
          /\ \A k \in Jobs \ {j} : job'[k] = job[k]
      BY <1>1, <2>1, GotoFacts DEF Stages, InMemory, Critical
    <2>3. /\ job[j].arg # "none" /\ job[j].arg = decision[r]
          /\ SameRun(j) /\ checkpoint[Lane(j)].at = "paused"
      BY <1>1, <1>2 DEF JobOK, CarriesClaim, KnowsCheckpoint
    <2>4. /\ ledger' \in [Runs -> Choices \cup {"none"}]
          /\ \A q \in Runs : Settled(q) => ledger'[q] = ledger[q]
          /\ ledger'[r] = decision[r]
          /\ \A q \in Runs \ {r} : ledger'[q] = ledger[q]
      BY <1>1, <1>4, <2>1, <2>3 DEF TypeOK, JobStates, Settled
    <2>5. TypeOK'
      BY <1>1, <1>2, <2>1, <2>2, <2>4 DEF TypeOK, JobStates
    <2>6. \A k \in Jobs : JobOK(k)'
      <3>1. \A k \in Jobs \ {j} : JobOK(k)'
        BY <1>2, <2>1, <2>2, <2>4, OthersKept
      <3>2. HoldsLock(j)'
        BY <1>1, <1>2, <2>1 DEF JobOK, HoldsLock, Critical
      <3>3. CarriesClaim(j)'
        BY <1>2, <2>2, <2>3 DEF CarriesClaim
      <3>4. KnowsCheckpoint(j)'
        BY <1>2, <2>2, <2>3, <2>4 DEF KnowsCheckpoint, SameRun, Settled
      <3> QED
        BY <3>1, <3>2, <3>3, <3>4 DEF JobOK
    <2>7. LedgerFollowsHuman'
      BY <1>2, <2>4 DEF IInv, LedgerFollowsHuman, Settled
    <2>8. InboxIsResumable'
      BY <1>2, InboxKept DEF IInv
    <2> QED
      BY <2>5, <2>6, <2>7, <2>8 DEF IInv
  <1> QED
    BY <1>3, <1>4

LEMMA SaveRefundKeeps ==
    ASSUME IInv, NEW j \in Jobs, SaveRefund(j)
    PROVE  IInv'
  <1>1. TypeOK /\ RunOf(j) \in Runs /\ Lane(j) \in Threads /\ JobOK(j)
    BY JobFacts DEF IInv
  <1>2. /\ job[j].stage = "settled"
        /\ Save(Lane(j), RunOf(j), "refunded") /\ Goto(j, "refunded")
        /\ UNCHANGED <<status, decision, lock, scan, ledger, faults>>
    BY DEF SaveRefund, At
  <1>3. SameRun(j) /\ decision[RunOf(j)] # "none"
    BY <1>1, <1>2 DEF JobOK, CarriesClaim, KnowsCheckpoint
  <1>4. KnowsCheckpoint(j)'
    <2>1. /\ checkpoint'[Lane(j)].run = RunOf(j)
          /\ checkpoint'[Lane(j)].at = "refunded"
      BY <1>1, <1>2, SaveFacts DEF Positions
    <2>2. job'[j].stage = "refunded"
      BY <1>1, <1>2, GotoFacts DEF Stages, InMemory, Critical
    <2> QED
      BY <2>1, <2>2 DEF KnowsCheckpoint, SameRun
  <1> QED
    BY <1>1, <1>2, <1>3, <1>4, SuperstepKeeps DEF Positions, Critical

LEMMA RespondKeeps ==
    ASSUME IInv, NEW j \in Jobs, Respond(j)
    PROVE  IInv'
  <1>1. TypeOK /\ RunOf(j) \in Runs /\ Lane(j) \in Threads /\ JobOK(j)
    BY JobFacts DEF IInv
  <1>2. /\ job[j].stage = "refunded"
        /\ Save(Lane(j), RunOf(j), "done") /\ Goto(j, "report")
        /\ UNCHANGED <<status, decision, lock, scan, ledger, faults>>
    BY DEF Respond, At
  <1>3. checkpoint[Lane(j)].at # "paused"
    BY <1>1, <1>2 DEF JobOK, KnowsCheckpoint
  <1>4. KnowsCheckpoint(j)'
    <2>1. /\ checkpoint'[Lane(j)].run = RunOf(j)
          /\ checkpoint'[Lane(j)].at = "done"
      BY <1>1, <1>2, SaveFacts DEF Positions
    <2>2. job'[j].stage = "report"
      BY <1>1, <1>2, GotoFacts DEF Stages, InMemory, Critical
    <2> QED
      BY <2>1, <2>2 DEF KnowsCheckpoint, SameRun
  <1> QED
    BY <1>1, <1>2, <1>3, <1>4, SuperstepKeeps DEF Positions, Critical

(* A run enters the inbox with the paused checkpoint it has just read.     *)
LEMMA ReportKeeps ==
    ASSUME IInv, NEW j \in Jobs, Report(j)
    PROVE  IInv'
  <1> DEFINE r == RunOf(j)
  <1>1. TypeOK /\ r \in Runs /\ Lane(j) \in Threads /\ JobOK(j)
    BY JobFacts DEF IInv
  <1>2. /\ job[j].stage = "report"
        /\ status' = [status EXCEPT ![r] = IF Paused(Lane(j))
                                           THEN "awaiting_approval"
                                           ELSE "completed"]
        /\ Release(j) /\ Leave(j, "absent")
        /\ UNCHANGED <<decision, checkpoint, scan, ledger, faults>>
    BY DEF Report, At
  <1>3. /\ job' \in [Jobs -> JobStates]
        /\ job'[j].stage = "absent" /\ job'[j].arg = "none"
        /\ \A k \in Jobs \ {j} : job'[k] = job[k]
    BY <1>1, <1>2, LeaveFacts DEF Stages
  <1>4. /\ lock' \in [Threads -> Jobs \cup {NoJob, OrphanLock}]
        /\ lock' = lock \/ lock[Lane(j)] = j
        /\ \A t \in Threads \ {Lane(j)} : lock'[t] = lock[t]
    BY <1>1, <1>2, ReleaseFacts
  <1>5. TypeOK'
    BY <1>1, <1>2, <1>3, <1>4 DEF TypeOK, JobStates, Statuses
  <1>6. \A k \in Jobs : JobOK(k)'
    <2>1. \A k \in Jobs \ {j} : JobOK(k)'
      BY <1>2, <1>3, <1>4, OthersKept
    <2>2. JobOK(j)'
      BY <1>3, OutsideOK DEF Critical
    <2> QED
      BY <2>1, <2>2
  <1>7. LedgerFollowsHuman'
    BY <1>2 DEF IInv, LedgerFollowsHuman, Settled
  <1>8. InboxIsResumable'
    <2> SUFFICES ASSUME NEW q \in Runs,
                        status'[q] = "awaiting_approval", decision[q] = "none"
                 PROVE  checkpoint[ThreadOf[q]] = [run |-> q, at |-> "paused"]
      BY <1>2 DEF InboxIsResumable
    <2>1. CASE q # r
      BY <1>1, <1>2, <2>1 DEF IInv, InboxIsResumable, TypeOK
    <2>2. CASE q = r
      <3>1. checkpoint[Lane(j)].run = r
        BY <1>1, <1>2 DEF JobOK, KnowsCheckpoint, SameRun
      <3>2. checkpoint[Lane(j)].at = "paused"
        BY <1>1, <1>2, <2>2 DEF TypeOK, Paused
      <3>3. checkpoint[Lane(j)] \in [run : Runs \cup {NoRun}, at : Positions]
        BY <1>1 DEF TypeOK, Checkpoints
      <3> QED
        BY <2>2, <3>1, <3>2, <3>3 DEF Lane
    <2> QED
      BY <2>1, <2>2
  <1> QED
    BY <1>5, <1>6, <1>7, <1>8 DEF IInv

(* A bare job carries nothing and is at no refund node.                    *)
LEMMA BareJob ==
    ASSUME NEW stage \in {"absent", "queued", "waiting", "failing"}
    PROVE  /\ Bare(stage) \in JobStates
           /\ Bare(stage).arg = "none" /\ Bare(stage).stage = stage
  BY DEF Bare, JobStates, Stages, InMemory, Critical

(* Some jobs are gone, the others as they were.                            *)
JobsDropped ==
    /\ job' \in [Jobs -> JobStates]
    /\ \A j \in Jobs : job'[j] \in {Bare("absent"), job[j]}

LEMMA DroppedFacts ==
    ASSUME TypeOK, NEW lost \in SUBSET Jobs,
           job' = [j \in Jobs |->
                       IF j \in lost THEN Bare("absent") ELSE job[j]]
    PROVE  JobsDropped
  <1>1. job \in [Jobs -> JobStates] /\ Bare("absent") \in JobStates
    BY BareJob DEF TypeOK, JobStates
  <1> QED
    BY <1>1 DEF JobsDropped

(* Jobs, queue and locks may go, and scans come, as long as no job that    *)
(* drives a graph is left.                                                 *)
LEMMA DropKeeps ==
    ASSUME IInv, JobsDropped,
           \A j \in Jobs : job'[j].stage \notin Critical,
           lock' \in [Threads -> Jobs \cup {NoJob, OrphanLock}],
           scan' \in SUBSET Runs,
           faults' \in 0 .. MaxFaults,
           UNCHANGED <<status, decision, checkpoint, ledger>>
    PROVE  IInv'
  <1>1. TypeOK'
    BY DEF IInv, TypeOK, JobsDropped, JobStates
  <1>2. \A j \in Jobs : JobOK(j)'
    <2> SUFFICES ASSUME NEW j \in Jobs PROVE JobOK(j)'
      OBVIOUS
    <2>1. CarriesClaim(j)
      BY DEF IInv, JobOK
    <2>2. job'[j].arg = "none" \/ job'[j].arg = decision'[RunOf(j)]
      BY <2>1, BareJob DEF CarriesClaim, JobsDropped
    <2> QED
      BY <2>2, OutsideOK
  <1>3. LedgerFollowsHuman' /\ InboxIsResumable'
    BY InboxKept DEF IInv, LedgerFollowsHuman, Settled
  <1> QED
    BY <1>1, <1>2, <1>3 DEF IInv

(* The worker takes every critical job with it; the locks it held belong   *)
(* to nobody.                                                              *)
LEMMA CrashDrops ==
    ASSUME TypeOK, Crash
    PROVE  /\ JobsDropped
           /\ \A j \in Jobs : job'[j].stage \notin Critical
  <1>1. PICK inQueue \in SUBSET {j \in Jobs : At(j, "waiting")} :
            job' = [j \in Jobs |->
                       IF j \in {k \in Jobs \ inQueue :
                                     job[k].stage \in InMemory}
                       THEN Bare("absent") ELSE job[j]]
    BY DEF Crash
  <1>2. JobsDropped
    BY <1>1, DroppedFacts
  <1>3. ASSUME NEW j \in Jobs PROVE job'[j].stage \notin Critical
    <2>1. CASE j \in inQueue
      BY <1>1, <2>1 DEF At, Critical
    <2>2. CASE j \notin inQueue
      BY <1>1, <2>2 DEF InMemory, Bare, Critical
    <2> QED
      BY <2>1, <2>2
  <1> QED
    BY <1>2, <1>3

LEMMA CrashKeeps ==
    ASSUME IInv, Crash
    PROVE  IInv'
  <1>1. TypeOK
    BY DEF IInv
  <1>2. /\ lock' \in [Threads -> Jobs \cup {NoJob, OrphanLock}]
        /\ scan' \in SUBSET Runs
        /\ faults' \in 0 .. MaxFaults
        /\ UNCHANGED <<status, decision, checkpoint, ledger>>
    BY <1>1, LifecycleAssumption DEF Crash, Fault, TypeOK
  <1> QED
    BY <1>1, <1>2, CrashDrops, DropKeeps

(* A lock that expires is no job's: whoever is critical holds another.     *)
LEMMA ExpireLockKeeps ==
    ASSUME IInv, NEW t \in Threads, ExpireLock(t)
    PROVE  IInv'
  <1>1. /\ TypeOK /\ lock[t] = OrphanLock
        /\ lock' = [lock EXCEPT ![t] = NoJob]
        /\ UNCHANGED <<status, decision, checkpoint, job, scan, ledger, faults>>
    BY DEF IInv, ExpireLock
  <1>2. TypeOK'
    BY <1>1 DEF TypeOK
  <1>3. \A j \in Jobs : JobOK(j)'
    <2> SUFFICES ASSUME NEW j \in Jobs PROVE JobOK(j)'
      OBVIOUS
    <2>1. JobOK(j) /\ Lane(j) \in Threads
      BY JobFacts DEF IInv
    <2>2. HoldsLock(j)'
      BY <1>1, <2>1, LifecycleAssumption DEF JobOK, HoldsLock, TypeOK
    <2>3. CarriesClaim(j)' /\ KnowsCheckpoint(j)'
      BY <1>1, <2>1 DEF JobOK, CarriesClaim, KnowsCheckpoint, SameRun, Settled
    <2> QED
      BY <2>2, <2>3 DEF JobOK
  <1>4. LedgerFollowsHuman' /\ InboxIsResumable'
    BY <1>1, InboxKept DEF IInv, LedgerFollowsHuman, Settled
  <1> QED
    BY <1>2, <1>3, <1>4 DEF IInv

-----------------------------------------------------------------------------

LEMMA LifecycleInit == Init => IInv
  <1> SUFFICES ASSUME Init PROVE IInv
    OBVIOUS
  <1>1. TypeOK
    BY LifecycleAssumption
       DEF Init, TypeOK, Statuses, Checkpoints, Positions, Bare, Stages
  <1>2. \A j \in Jobs : JobOK(j)
    BY DEF Init, Bare, JobOK, HoldsLock, CarriesClaim, KnowsCheckpoint,
           Critical
  <1>3. LedgerFollowsHuman /\ InboxIsResumable
    BY DEF Init, LedgerFollowsHuman, InboxIsResumable, Settled
  <1> QED
    BY <1>1, <1>2, <1>3 DEF IInv

LEMMA LifecycleStep == IInv /\ [Next]_vars => IInv'
  <1> SUFFICES ASSUME IInv, [Next]_vars PROVE IInv'
    OBVIOUS
  <1>1. CASE UNCHANGED vars
    BY <1>1 DEF vars, IInv, TypeOK, JobOK, HoldsLock, CarriesClaim,
                KnowsCheckpoint, SameRun, Settled, LedgerFollowsHuman,
                InboxIsResumable
  <1>2. ASSUME NEW r \in Runs, ApiStep(r) \/ Visit(r) PROVE IInv'
    BY <1>2, CreateKeeps, ClaimKeeps, EnqueueDecisionKeeps, VisitKeeps
       DEF ApiStep
  <1>3. ASSUME NEW j \in Jobs, JobStep(j) PROVE IInv'
    BY <1>3, StartKeeps, AcquireKeeps, EndKeeps, EnterKeeps, InputKeeps,
       RouteKeeps, RecordKeeps, SaveRefundKeeps, RespondKeeps, ReportKeeps,
       WriteFailedKeeps
       DEF JobStep
  <1>4. ASSUME NEW j \in Jobs, LockTimeout(j) \/ Fail(j) \/ Cancel(j)
        PROVE  IInv'
    BY <1>4, EndKeeps
  <1> QED
    BY <1>1, <1>2, <1>3, <1>4, SelectKeeps, CrashKeeps, ExpireLockKeeps
       DEF Next

(* The invariant of the run lifecycle, for any runs, threads and faults.   *)
THEOREM LifecycleInvariant == Spec => []IInv
  BY LifecycleInit, LifecycleStep, PTL DEF Spec

(* Every reachable state of the lifecycle has its types.                   *)
THEOREM LifecycleTypes == Spec => []TypeOK
  <1>1. IInv => TypeOK
    BY DEF IInv
  <1> QED
    BY LifecycleInvariant, <1>1, PTL

(* The thread lock of execute excludes: two jobs never drive the graph of  *)
(* one thread, through crashes, cancellations and recovery.                *)
THEOREM LifecycleExcludes == Spec => []ThreadExclusion
  <1>1. IInv => ThreadExclusion
    BY DEF IInv, JobOK, HoldsLock, ThreadExclusion
  <1> QED
    BY LifecycleInvariant, <1>1, PTL

(* The refund ledger records only what a human decided in the inbox,       *)
(* whatever jobs, replays and recoveries run.                              *)
THEOREM LifecycleRefunds == Spec => []LedgerFollowsHuman
  <1>1. IInv => LedgerFollowsHuman
    BY DEF IInv
  <1> QED
    BY LifecycleInvariant, <1>1, PTL

(* Every run the inbox offers owns the paused checkpoint that its decision *)
(* will resume.                                                            *)
THEOREM LifecycleInbox == Spec => []InboxIsResumable
  <1>1. IInv => InboxIsResumable
    BY DEF IInv
  <1> QED
    BY LifecycleInvariant, <1>1, PTL

(* Only the refund node moves a paused checkpoint, behind its ledger row.  *)
LEMMA PauseStep ==
    ASSUME IInv, Next, NEW t \in Threads, Paused(t),
           checkpoint'[t] # checkpoint[t]
    PROVE  /\ checkpoint'[t].run = checkpoint[t].run
           /\ Settled(checkpoint[t].run)
  <1>1. PICK j \in Jobs :
            Input(j) \/ Route(j) \/ SaveRefund(j) \/ Respond(j)
    BY DEF Next, ApiStep, CreateRun, CreateOnly, Claim, EnqueueDecision,
           Visit, Select, JobStep, Start, Acquire, Refuse, Enter, Record,
           Report, WriteFailed, LockTimeout, Fail, Cancel, Crash, ExpireLock
  <1>2. TypeOK /\ RunOf(j) \in Runs /\ Lane(j) \in Threads
    BY JobFacts DEF IInv
  <1>3. KnowsCheckpoint(j)
    BY DEF IInv, JobOK
  <1>4. t = Lane(j)
    BY <1>1, <1>2 DEF Input, Route, SaveRefund, Respond, Save, TypeOK
  <1>5. SaveRefund(j)
    BY <1>1, <1>3, <1>4
       DEF Input, Route, Respond, At, KnowsCheckpoint, Paused
  <1>6. SameRun(j) /\ Settled(RunOf(j))
    BY <1>3, <1>5 DEF SaveRefund, At, KnowsCheckpoint
  <1>7. checkpoint'[t].run = RunOf(j)
    BY <1>2, <1>4, <1>5, SaveFacts DEF SaveRefund, Positions
  <1> QED
    BY <1>4, <1>6, <1>7 DEF SameRun

(* A refund case moves past its pause only after the human's decision is   *)
(* in the ledger; no other run of the thread takes the checkpoint away.    *)
THEOREM LifecyclePause == Spec => PauseNeedsDecision
  <1>1. IInv /\ [Next]_vars =>
            [\A t \in Threads :
                 Paused(t) /\ checkpoint'[t] # checkpoint[t] =>
                     /\ checkpoint'[t].run = checkpoint[t].run
                     /\ Settled(checkpoint[t].run)]_vars
    BY PauseStep
  <1> QED
    BY LifecycleInvariant, <1>1, PTL DEF Spec, PauseNeedsDecision

-----------------------------------------------------------------------------
(* ClaimInv: what needs no lock.                                           *)

(* A job at the refund node has brought a decision with it.                *)
Resumes(j) == At(j, "resume") => job[j].arg # "none"

(* What a job carries is a human's, with a lock or without.                *)
Honest(j) == CarriesClaim(j) /\ Resumes(j)

ClaimInv ==
    /\ TypeOK
    /\ \A j \in Jobs : Honest(j)
    /\ LedgerFollowsHuman

(* A job of the list of three belongs to its run.                          *)
LEMMA JobOfRun ==
    ASSUME NEW r \in Runs, NEW kind \in Kinds
    PROVE  <<r, kind>> \in Jobs /\ RunOf(<<r, kind>>) = r
  BY DEF Jobs, RunOf

(* A job of the queue with the decision of its run.                        *)
Bound(entry, c) == entry.stage = "waiting" /\ entry.arg = c

(* What a step that concerns one job may do to it: nothing, drop its       *)
(* decision, bind the decision of its run, or move it on with what it      *)
(* carries, to the refund node only with a decision.                       *)
Moves(j) ==
    /\ job' \in [Jobs -> JobStates]
    /\ \A k \in Jobs \ {j} : job'[k] = job[k]
    /\ \/ job'[j] = job[j]
       \/ job'[j].arg = "none" /\ job'[j].stage # "resume"
       \/ Bound(job'[j], decision[RunOf(j)])
       \/ /\ job'[j].arg = job[j].arg
          /\ job'[j].stage = "resume" => job[j].arg # "none"

(* The steps of a job, but for its lock and its durable writes.            *)
LEMMA JobStepMoves ==
    ASSUME TypeOK, NEW j \in Jobs,
           JobStep(j) \/ LockTimeout(j) \/ Fail(j) \/ Cancel(j)
    PROVE  Moves(j)
  <1>1. TypeOK /\ RunOf(j) \in Runs
    BY JobFacts
  <1>2. ASSUME NEW s \in {"absent", "failing"}, Leave(j, s)
        PROVE  Moves(j)
    BY <1>1, <1>2, LeaveFacts DEF Moves, Stages, InMemory
  <1>3. ASSUME NEW s \in Critical, Goto(j, s),
               s = "resume" => job[j].arg # "none"
        PROVE  Moves(j)
    BY <1>1, <1>3, GotoFacts DEF Moves, Stages, InMemory
  <1>4. CASE Start(j)
    <2>1. CASE Leave(j, "absent")
      BY <1>2, <2>1
    <2>2. CASE job' = [job EXCEPT ![j] = [stage |-> "waiting",
                                          arg |-> decision[RunOf(j)]]]
      BY <1>1, <2>2 DEF Moves, Bound, TypeOK, JobStates, Stages, InMemory
    <2> QED
      BY <1>4, <2>1, <2>2 DEF Start
  <1>5. CASE Enter(j)
    <2>1. /\ Plan(j) \in Critical
          /\ Plan(j) = "resume" => job[j].arg # "none"
      BY DEF Plan, Critical
    <2> QED
      BY <1>3, <1>5, <2>1 DEF Enter
  <1>6. CASE Acquire(j) \/ Input(j) \/ Route(j) \/ SaveRefund(j) \/ Respond(j)
    <2>1. PICK s \in Critical \ {"resume"} : Goto(j, s)
      BY <1>6 DEF Acquire, Input, Route, SaveRefund, Respond, Critical
    <2> QED
      BY <1>3, <2>1
  <1>7. CASE Record(j)
    <2>1. Goto(j, "settled") \/ Leave(j, "failing")
      BY <1>7 DEF Record
    <2> QED
      BY <1>2, <1>3, <2>1 DEF Critical
  <1>8. CASE \/ Refuse(j) \/ Report(j) \/ WriteFailed(j)
             \/ LockTimeout(j) \/ Fail(j) \/ Cancel(j)
    <2>1. Leave(j, "absent") \/ Leave(j, "failing")
      BY <1>8 DEF Refuse, Report, WriteFailed, LockTimeout, Fail, Cancel
    <2> QED
      BY <1>2, <2>1
  <1> QED
    BY <1>4, <1>5, <1>6, <1>7, <1>8 DEF JobStep

(* The API and the scan enqueue a bare job or one with a claimed decision. *)
LEMMA EnqueueMoves ==
    ASSUME TypeOK, NEW r \in Runs, ApiStep(r) \/ Visit(r)
    PROVE  \E j \in Jobs : Moves(j)
  <1>1. job \in [Jobs -> JobStates]
    BY DEF TypeOK, JobStates
  <1>2. ASSUME UNCHANGED job
        PROVE  Moves(<<r, "run">>)
    BY <1>1, <1>2 DEF Moves
  <1>3. ASSUME NEW kind \in Kinds, NEW entry \in JobStates,
               Enqueue(<<r, kind>>, entry), entry.stage # "resume",
               entry.arg = "none" \/ Bound(entry, decision[r])
        PROVE  Moves(<<r, kind>>)
    BY <1>3, EnqueueFacts, JobOfRun DEF Moves, Bound
  <1>4. CASE CreateRun(r)
    <2> DEFINE entry == Bare("waiting")
    <2>1. entry \in JobStates /\ entry.stage # "resume" /\ entry.arg = "none"
      BY BareJob
    <2>2. Enqueue(<<r, "run">>, entry) /\ "run" \in Kinds
      BY <1>4 DEF CreateRun, Kinds
    <2> HIDE DEF entry
    <2>3. Moves(<<r, "run">>)
      BY <1>3, <2>1, <2>2
    <2> QED
      BY <2>2, <2>3, JobOfRun
  <1>5. CASE Visit(r)
    <2> DEFINE entry == Bare("queued")
    <2>1. entry \in JobStates /\ entry.stage # "resume" /\ entry.arg = "none"
      BY BareJob
    <2>2. /\ Enqueue(<<r, "recovery">>, entry) \/ UNCHANGED job
          /\ "run" \in Kinds /\ "recovery" \in Kinds
      BY <1>5 DEF Visit, Kinds
    <2> HIDE DEF entry
    <2>3. CASE UNCHANGED job
      BY <1>2, <2>2, <2>3, JobOfRun
    <2>4. CASE Enqueue(<<r, "recovery">>, entry)
      <3>1. Moves(<<r, "recovery">>)
        BY <1>3, <2>1, <2>2, <2>4
      <3> QED
        BY <2>2, <3>1, JobOfRun
    <2> QED
      BY <2>2, <2>3, <2>4
  <1>6. CASE EnqueueDecision(r)
    <2> DEFINE entry == [stage |-> "waiting", arg |-> decision[r]]
    <2>1. /\ entry \in JobStates /\ entry.stage # "resume"
          /\ Bound(entry, decision[r])
      BY DEF Bound, TypeOK, JobStates, Stages, InMemory
    <2>2. Enqueue(<<r, "decision">>, entry) /\ "decision" \in Kinds
      BY <1>6 DEF EnqueueDecision, Kinds
    <2> HIDE DEF entry
    <2> QED
      BY <1>3, <2>1, <2>2, JobOfRun
  <1>7. CASE CreateOnly(r) \/ \E c \in Choices : Claim(r, c)
    BY <1>2, <1>7, JobOfRun DEF CreateOnly, Claim, Kinds
  <1> QED
    BY <1>4, <1>5, <1>6, <1>7 DEF ApiStep

-----------------------------------------------------------------------------
(* Every step of the lifecycle keeps ClaimInv.                             *)

JobsMove == JobsDropped \/ \E j \in Jobs : Moves(j)

(* Every step moves one job or ends some.                                  *)
LEMMA StepMoves == TypeOK /\ Next => JobsMove
  <1> SUFFICES ASSUME TypeOK, Next PROVE JobsMove
    OBVIOUS
  <1>1. CASE \E r \in Runs : ApiStep(r) \/ Visit(r)
    BY <1>1, EnqueueMoves DEF JobsMove
  <1>2. CASE \E j \in Jobs : JobStep(j) \/ LockTimeout(j) \/ Fail(j) \/ Cancel(j)
    BY <1>2, JobStepMoves DEF JobsMove
  <1>3. CASE Select \/ \E t \in Threads : ExpireLock(t)
    BY <1>3 DEF Select, ExpireLock, JobsMove, JobsDropped, TypeOK, JobStates
  <1>4. CASE Crash
    BY <1>4, CrashDrops DEF JobsMove
  <1> QED
    BY <1>1, <1>2, <1>3, <1>4 DEF Next

(* Who writes what.                                                        *)
LEMMA StepWrites ==
    ASSUME Next
    PROVE  /\ UNCHANGED decision \/ \E r \in Runs, c \in Choices : Claim(r, c)
           /\ UNCHANGED ledger \/ \E j \in Jobs : Record(j)
           /\ \/ UNCHANGED status
              \/ \E r \in Runs, s \in Statuses :
                     status' = [status EXCEPT ![r] = s]
           /\ \/ UNCHANGED checkpoint
              \/ \E j \in Jobs, at \in Positions : Save(Lane(j), RunOf(j), at)
           /\ \/ UNCHANGED lock
              \/ \E j \in Jobs : Release(j)
              \/ \E t \in Threads, holder \in Jobs \cup {NoJob} :
                     lock' = [lock EXCEPT ![t] = holder]
              \/ lock' = [t \in Threads |->
                              IF lock[t] = NoJob THEN NoJob ELSE OrphanLock]
           /\ UNCHANGED scan \/ scan' \in SUBSET Runs \/ scan' \subseteq scan
           /\ UNCHANGED faults \/ Fault
  <1> USE JobFacts
      DEF Next, ApiStep, CreateRun, CreateOnly, EnqueueDecision,
          Visit, Select, JobStep, Start, Acquire, Refuse, Enter, Input, Route,
          SaveRefund, Respond, Report, WriteFailed, LockTimeout, Fail, Cancel,
          Crash, ExpireLock
  <1>1. UNCHANGED decision \/ \E r \in Runs, c \in Choices : Claim(r, c)
    BY DEF Record
  <1>2. UNCHANGED ledger \/ \E j \in Jobs : Record(j)
    BY DEF Claim
  <1>3. \/ UNCHANGED status
        \/ \E r \in Runs, s \in Statuses : status' = [status EXCEPT ![r] = s]
    BY DEF Claim, Record, Statuses
  <1>4. \/ UNCHANGED checkpoint
        \/ \E j \in Jobs, at \in Positions : Save(Lane(j), RunOf(j), at)
    BY DEF Claim, Record, Positions
  <1>5. \/ UNCHANGED lock
        \/ \E j \in Jobs : Release(j)
        \/ \E t \in Threads, holder \in Jobs \cup {NoJob} :
               lock' = [lock EXCEPT ![t] = holder]
        \/ lock' = [t \in Threads |->
                        IF lock[t] = NoJob THEN NoJob ELSE OrphanLock]
    BY DEF Claim, Record
  <1>6. UNCHANGED scan \/ scan' \in SUBSET Runs \/ scan' \subseteq scan
    BY DEF Claim, Record
  <1>7. UNCHANGED faults \/ Fault
    BY DEF Claim, Record
  <1> QED
    BY <1>1, <1>2, <1>3, <1>4, <1>5, <1>6, <1>7

(* Only Claim writes decisions, and it never replaces one.                 *)
LEMMA ClaimsAreFinal ==
    ASSUME TypeOK, Next
    PROVE  /\ decision' \in [Runs -> Choices \cup {"none"}]
           /\ \A r \in Runs : decision[r] # "none" => decision'[r] = decision[r]
  BY StepWrites DEF Claim, TypeOK

(* What jobs carry stays a human's as long as decisions are final.         *)
LEMMA HonestKept ==
    ASSUME ClaimInv, JobsMove,
           \A r \in Runs : decision[r] # "none" => decision'[r] = decision[r]
    PROVE  \A j \in Jobs : Honest(j)'
  <1> SUFFICES ASSUME NEW j \in Jobs PROVE Honest(j)'
    OBVIOUS
  <1>1. Honest(j) /\ RunOf(j) \in Runs
    BY JobFacts DEF ClaimInv
  <1>2. \/ job'[j] = job[j]
        \/ job'[j].arg = "none" /\ job'[j].stage # "resume"
        \/ Bound(job'[j], decision[RunOf(j)])
        \/ /\ job'[j].arg = job[j].arg
           /\ job'[j].stage = "resume" => job[j].arg # "none"
    BY BareJob DEF JobsMove, JobsDropped, Moves
  <1> QED
    BY <1>1, <1>2 DEF Honest, CarriesClaim, Resumes, At, Bound

(* The ledger takes what an honest job brings to the refund node.          *)
LEMMA LedgerStep ==
    ASSUME ClaimInv, Next
    PROVE  /\ ledger' \in [Runs -> Choices \cup {"none"}]
           /\ LedgerFollowsHuman'
  <1>1. TypeOK /\ LedgerFollowsHuman
    BY DEF ClaimInv
  <1>2. \A r \in Runs : decision[r] # "none" => decision'[r] = decision[r]
    BY <1>1, ClaimsAreFinal
  <1>3. CASE UNCHANGED ledger
    BY <1>1, <1>2, <1>3, LifecycleAssumption
       DEF LedgerFollowsHuman, Settled, TypeOK
  <1>4. ASSUME NEW j \in Jobs, Record(j)
        PROVE  /\ ledger' \in [Runs -> Choices \cup {"none"}]
               /\ LedgerFollowsHuman'
    <2>1. /\ RunOf(j) \in Runs /\ job[j] \in JobStates
          /\ job[j].arg # "none" /\ job[j].arg = decision[RunOf(j)]
      BY <1>1, <1>4, JobFacts
         DEF ClaimInv, Honest, Resumes, CarriesClaim, Record, TypeOK, JobStates
    <2>2. CASE ledger' = [ledger EXCEPT ![RunOf(j)] = job[j].arg]
      BY <1>1, <1>2, <2>1, <2>2
         DEF LedgerFollowsHuman, Settled, TypeOK, JobStates
    <2> QED
      BY <1>3, <1>4, <2>2 DEF Record
  <1> QED
    BY <1>3, <1>4, StepWrites

LEMMA TypeStep ==
    ASSUME ClaimInv, Next
    PROVE  TypeOK'
  <1>1. TypeOK
    BY DEF ClaimInv
  <1>2. job' \in [Jobs -> JobStates]
    BY <1>1, StepMoves DEF JobsMove, JobsDropped, Moves
  <1>3. /\ decision' \in [Runs -> Choices \cup {"none"}]
        /\ ledger' \in [Runs -> Choices \cup {"none"}]
    BY <1>1, ClaimsAreFinal, LedgerStep
  <1>4. status' \in [Runs -> Statuses]
    BY <1>1, StepWrites DEF TypeOK
  <1>5. checkpoint' \in [Threads -> Checkpoints]
    BY <1>1, StepWrites, SaveFacts, JobFacts DEF TypeOK
  <1>6. lock' \in [Threads -> Jobs \cup {NoJob, OrphanLock}]
    BY <1>1, StepWrites, ReleaseFacts DEF TypeOK
  <1>7. scan' \in SUBSET Runs /\ faults' \in 0 .. MaxFaults
    BY <1>1, StepWrites, LifecycleAssumption DEF TypeOK, Fault
  <1> QED
    BY <1>2, <1>3, <1>4, <1>5, <1>6, <1>7 DEF TypeOK, JobStates

LEMMA ClaimStep == ClaimInv /\ [Next]_vars => ClaimInv'
  <1> SUFFICES ASSUME ClaimInv, [Next]_vars PROVE ClaimInv'
    OBVIOUS
  <1>1. CASE UNCHANGED vars
    BY <1>1
       DEF vars, ClaimInv, TypeOK, CarriesClaim, Settled, Honest, Resumes, At,
           LedgerFollowsHuman
  <1>2. CASE Next
    <2>1. TypeOK
      BY DEF ClaimInv
    <2>2. \A j \in Jobs : Honest(j)'
      BY <1>2, <2>1, StepMoves, ClaimsAreFinal, HonestKept
    <2> QED
      BY <1>2, <2>2, TypeStep, LedgerStep DEF ClaimInv
  <1> QED
    BY <1>1, <1>2

(* So does the end of jobs, whatever becomes of locks, scans and statuses. *)
LEMMA DropKeepsClaims ==
    ASSUME ClaimInv, JobsDropped,
           lock' \in [Threads -> Jobs \cup {NoJob, OrphanLock}],
           scan' \in SUBSET Runs,
           faults' \in 0 .. MaxFaults,
           UNCHANGED <<status, decision, checkpoint, ledger>>
    PROVE  ClaimInv'
  <1>1. TypeOK'
    BY DEF ClaimInv, TypeOK, JobsDropped, JobStates
  <1>2. \A j \in Jobs : Honest(j)'
    BY HonestKept DEF JobsMove
  <1>3. LedgerFollowsHuman'
    BY DEF ClaimInv, LedgerFollowsHuman, Settled
  <1> QED
    BY <1>1, <1>2, <1>3 DEF ClaimInv

(* As long as the locks hold, ClaimInv is part of the invariant.           *)
LEMMA LockedClaims == IInv => ClaimInv
  BY DEF IInv, ClaimInv, JobOK, KnowsCheckpoint, Honest, Resumes, At

-----------------------------------------------------------------------------
(* The loss of Redis.                                                      *)

LossInv ==
    /\ torn \in BOOLEAN
    /\ ClaimInv
    /\ torn \/ IInv

(* The loss takes jobs of the queue and all locks, a lapse one job.        *)
LEMMA LossDrops ==
    ASSUME TypeOK, LoseRedis \/ \E j \in Jobs : Lapse(j)
    PROVE  /\ JobsDropped
           /\ lock' \in [Threads -> Jobs \cup {NoJob, OrphanLock}]
           /\ scan' \in SUBSET Runs
           /\ faults' \in 0 .. MaxFaults
           /\ UNCHANGED <<status, decision, checkpoint, ledger>>
  <1>1. CASE LoseRedis
    <2>1. PICK inQueue \in SUBSET {j \in Jobs : At(j, "waiting")} :
              job' = [j \in Jobs |-> IF j \in inQueue \/ At(j, "queued")
                                     THEN Bare("absent") ELSE job[j]]
      BY <1>1 DEF LoseRedis
    <2>2. job' = [j \in Jobs |->
                      IF j \in inQueue \cup {k \in Jobs : At(k, "queued")}
                      THEN Bare("absent") ELSE job[j]]
      BY <2>1
    <2>3. JobsDropped
      BY <2>2, DroppedFacts
    <2> QED
      BY <1>1, <2>3, LifecycleAssumption DEF LoseRedis, Fault, TypeOK
  <1>2. ASSUME NEW j \in Jobs, Lapse(j)
        PROVE  /\ JobsDropped
               /\ lock' \in [Threads -> Jobs \cup {NoJob, OrphanLock}]
               /\ scan' \in SUBSET Runs
               /\ faults' \in 0 .. MaxFaults
               /\ UNCHANGED <<status, decision, checkpoint, ledger>>
    <2>1. JobsDropped
      <3>1. job' = [job EXCEPT ![j] = Bare("absent")]
        BY <1>2 DEF Lapse, Leave
      <3>2. Bare("absent") \in JobStates
        BY BareJob
      <3> QED
        BY <3>1, <3>2 DEF TypeOK, JobStates, JobsDropped
    <2>2. faults' = faults \/ Fault
      BY <1>2 DEF Lapse
    <2> QED
      BY <1>2, <2>1, <2>2, LifecycleAssumption DEF Lapse, Fault, TypeOK
  <1> QED
    BY <1>1, <1>2

(* As long as Redis keeps its locks, a job that drives a graph owns its    *)
(* lock and does not lapse: every other step is one of the lifecycle.      *)
LEMMA NobodyLapses == IInv /\ LossNext => LoseRedis \/ Next
  <1> SUFFICES ASSUME IInv, LossNext, ~LoseRedis PROVE Next
    OBVIOUS
  <1>1. \A j \in Jobs : ~Lapse(j)
    BY DEF IInv, JobOK, HoldsLock, Lapse, Owns
  <1> QED
    BY <1>1 DEF LossNext, Next

(* A loss that hits no running job takes queue and locks that nobody who   *)
(* drives a graph relies on.                                               *)
LEMMA UntilTornStep ==
    ASSUME LossInv, LossNext, ~torn'
    PROVE  IInv'
  <1>1. TypeOK
    BY DEF LossInv, ClaimInv
  <1>2. CASE LoseRedis
    <2>1. IInv /\ ~SomeoneDrives
      BY <1>2 DEF LoseRedis, LossInv, SomeoneDrives
    <2>2. JobsDropped
      BY <1>1, <1>2, LossDrops
    <2>3. \A j \in Jobs : job'[j].stage \notin Critical
      BY <2>1, <2>2, BareJob DEF JobsDropped, SomeoneDrives, Critical
    <2> QED
      BY <1>1, <1>2, <2>1, <2>3, LossDrops, DropKeeps
  <1>3. CASE ~LoseRedis
    <2>1. IInv
      BY <1>3 DEF LossNext, LossInv
    <2> QED
      BY <1>3, <2>1, NobodyLapses, LifecycleStep
  <1> QED
    BY <1>2, <1>3

LEMMA LossStart == LossInit => LossInv
  <1>1. LossInit => IInv
    BY LifecycleInit DEF LossInit
  <1> QED
    BY <1>1, LockedClaims DEF LossInit, LossInv

LEMMA LossStep == LossInv /\ [LossNext]_lossVars => LossInv'
  <1> SUFFICES ASSUME LossInv, [LossNext]_lossVars PROVE LossInv'
    OBVIOUS
  <1>1. CASE UNCHANGED lossVars
    <2>1. UNCHANGED vars /\ UNCHANGED torn
      BY <1>1 DEF lossVars
    <2>2. IInv => IInv'
      BY <2>1, LifecycleStep
    <2>3. ClaimInv'
      BY <2>1, ClaimStep DEF LossInv
    <2> QED
      BY <2>1, <2>2, <2>3 DEF LossInv
  <1>2. CASE LossNext
    <2>1. TypeOK /\ ClaimInv
      BY DEF LossInv, ClaimInv
    <2>2. ASSUME LoseRedis \/ \E j \in Jobs : Lapse(j)
          PROVE  ClaimInv'
      <3>1. /\ JobsDropped
            /\ lock' \in [Threads -> Jobs \cup {NoJob, OrphanLock}]
            /\ scan' \in SUBSET Runs
            /\ faults' \in 0 .. MaxFaults
            /\ UNCHANGED <<status, decision, checkpoint, ledger>>
        BY <2>1, <2>2, LossDrops
      <3> QED
        BY <2>1, <3>1, DropKeepsClaims
    <2>3. ASSUME ~(LoseRedis \/ \E j \in Jobs : Lapse(j))
          PROVE  ClaimInv'
      <3>1. Next
        BY <1>2, <2>3 DEF LossNext, Next
      <3> QED
        BY <2>1, <3>1, ClaimStep
    <2>4. torn' \in BOOLEAN
      BY <1>2 DEF LossInv, LossNext, LoseRedis, SomeoneDrives
    <2>5. torn' \/ IInv'
      BY <1>2, UntilTornStep
    <2>6. ClaimInv'
      BY <2>2, <2>3
    <2> QED
      BY <2>4, <2>5, <2>6 DEF LossInv
  <1> QED
    BY <1>1, <1>2

(* What holds of the lifecycle when Redis may be lost at any time.         *)
THEOREM LossInvariant == LossSpec => []LossInv
  BY LossStart, LossStep, PTL DEF LossSpec

(* Every reachable state has its types, before a loss of Redis and after.  *)
THEOREM LossTypes == LossSpec => []TypeOK
  <1>1. LossInv => TypeOK
    BY DEF LossInv, ClaimInv
  <1> QED
    BY LossInvariant, <1>1, PTL

(* The ledger records only what a human decided, even when two jobs drive  *)
(* one graph because Redis has lost their locks.                           *)
THEOREM LossRefunds == LossSpec => []LedgerFollowsHuman
  <1>1. LossInv => LedgerFollowsHuman
    BY DEF LossInv, ClaimInv
  <1> QED
    BY LossInvariant, <1>1, PTL

(* Two jobs drive the graph of one thread only after Redis was lost under  *)
(* a running job; a loss at any other time costs no exclusion.             *)
THEOREM LossExcludes == LossSpec => []ExclusionUntilTorn
  <1>1. LossInv => ExclusionUntilTorn
    BY DEF LossInv, IInv, JobOK, HoldsLock, ThreadExclusion,
           ExclusionUntilTorn
  <1> QED
    BY LossInvariant, <1>1, PTL

(* Until then, too, every run the inbox offers can be resumed.             *)
THEOREM LossInbox == LossSpec => [](torn \/ InboxIsResumable)
  <1>1. LossInv => torn \/ InboxIsResumable
    BY DEF LossInv, IInv
  <1> QED
    BY LossInvariant, <1>1, PTL

(* Until then a refund case moves past its pause only behind its ledger    *)
(* row, which a second job on the thread could otherwise overtake.         *)
THEOREM LossPause ==
    LossSpec =>
        [][\A t \in Threads :
               Paused(t) /\ checkpoint'[t] # checkpoint[t] =>
                   \/ torn
                   \/ /\ checkpoint'[t].run = checkpoint[t].run
                      /\ Settled(checkpoint[t].run)]_lossVars
  <1>1. ASSUME LossInv, LossNext, NEW t \in Threads,
               Paused(t), checkpoint'[t] # checkpoint[t], ~torn
        PROVE  /\ checkpoint'[t].run = checkpoint[t].run
               /\ Settled(checkpoint[t].run)
    <2>1. Next
      BY <1>1, NobodyLapses DEF LossInv, LoseRedis
    <2> QED
      BY <1>1, <2>1, PauseStep DEF LossInv
  <1>2. LossInv /\ [LossNext]_lossVars =>
            [\A t \in Threads :
                 Paused(t) /\ checkpoint'[t] # checkpoint[t] =>
                     \/ torn
                     \/ /\ checkpoint'[t].run = checkpoint[t].run
                        /\ Settled(checkpoint[t].run)]_lossVars
    BY <1>1
  <1> QED
    BY LossInvariant, <1>2, PTL DEF LossSpec

=============================================================================
