----------------------------- MODULE CrashDrill -----------------------------
(***************************************************************************)
(* The offline evaluation: evaluate_conversations.py plays its cases one   *)
(* after the other against the API and the worker of RunLifecycle, loses   *)
(* Redis, restarts or kills processes in the middle of a case, and checks  *)
(* orders and ledger against what build_conversation_suite.py expects.     *)
(* evaluation_worker.py holds an armed run between the commit of its       *)
(* refund and the next checkpoint, where the evaluator kills it.           *)
(*                                                                         *)
(* No other fault happens here, the fixture provider routes every message  *)
(* as its case says, and orders do not share state, so a suite is made of  *)
(* the cases about one order.                                              *)
(***************************************************************************)
EXTENDS RunLifecycle, Sequences, FiniteSets

CONSTANTS
    NoOutcome,
    MaxScans        \* scans of the cron job beside the jobs of a case

(* The runs 2 n - 1 and 2 n are those of case n, on a thread of their own. *)
ASSUME DrillAssumption ==
    /\ 1 .. 4 \subseteq Runs /\ Runs \subseteq Nat
    /\ \A n \in 1 .. 2 :
           /\ ThreadOf[2 * n - 1] = ThreadOf[2 * n]
           /\ \A r \in Runs \ {2 * n - 1, 2 * n} : ThreadOf[r] # ThreadOf[2 * n]
    /\ {"approve", "reject"} \subseteq Choices
    /\ MaxScans \in Nat

Refund(number, choice, expected, word, event) ==
    [kind |-> "refund", number |-> number, choice |-> choice,
     expected |-> expected, word |-> word, event |-> event]

Question ==
    [kind |-> "question", number |-> "none", choice |-> "none",
     expected |-> "absent", word |-> "none", event |-> "none"]

(* number.startswith("ORD-30")                                             *)
Created(scenario) == scenario.number \notin {"ORD-99991", "ORD-99992", "none"}

(* The cases that have their order for themselves.                         *)
Alone == {
    Refund("ORD-3015", "approve", "none", "amount_changed", "amount-changed"),
    Refund("ORD-3003", "approve", "approved", "approved", "replay"),
    Refund("ORD-3004", "reject", "rejected", "rejected", "replay"),
    Refund("ORD-3005", "approve", "approved", "approved", "conflict"),
    Refund("ORD-3006", "reject", "rejected", "rejected", "conflict"),
    Refund("ORD-3007", "approve", "approved", "approved", "redis-loss-paused"),
    Refund("ORD-3008", "reject", "rejected", "rejected", "redis-loss-paused"),
    Refund("ORD-3009", "approve", "approved", "approved", "worker-restart-paused"),
    Refund("ORD-3010", "reject", "rejected", "rejected", "worker-restart-paused"),
    Refund("ORD-3011", "approve", "approved", "approved", "restart-completed"),
    Refund("ORD-3012", "approve", "approved", "approved", "crash-after-action"),
    Refund("ORD-3013", "reject", "rejected", "rejected", "crash-after-action"),
    Refund("ORD-99991", "approve", "absent", "not_found", "none"),
    Refund("ORD-99992", "reject", "absent", "not_found", "none")}

(* Two cases about one order, in the order of the suite.                   *)
Pairs == {
    <<Refund("ORD-3001", "approve", "approved", "approved", "none"),
      Refund("ORD-3001", "reject", "approved", "already", "none")>>,
    <<Refund("ORD-3002", "reject", "rejected", "rejected", "none"),
      Refund("ORD-3002", "approve", "approved", "approved", "none")>>,
    <<Refund("none", "approve", "absent", "required", "none"),
      Refund("none", "reject", "absent", "required", "none")>>,
    <<Refund("ORD-3014", "approve", "approved", "approved", "multi-turn"),
      Refund("ORD-3014", "reject", "approved", "already", "multi-turn")>>}

(* A suite is all cases about one order, or one question.                  *)
Suites == {<<Question>>} \cup {<<s>> : s \in Alone} \cup Pairs

VARIABLES
    suite,          \* the cases
    case,           \* how many have been started
    step,           \* where the evaluator is
    order,          \* the order's refund_status, "absent" without a row
    quantity,       \* and its quantity
    actions,        \* the runs that hold an approved action of the order
    outcome,        \* the outcome refund_decisions keeps for each run
    proposed,       \* the quantity each run's proposal was computed from
    armed,          \* eval:arm-crash:<run>
    committed,      \* eval:committed:<run>, while the worker sleeps
    worker,         \* the worker's container
    scans,          \* scans of the cron job beside jobs, in this case
    before,         \* the evaluator's last snapshot of the database
    failed          \* checks that were false

evaluator == <<suite, case, step, before, failed>>
database == <<order, quantity, actions, outcome, proposed>>
drill == <<armed, committed, worker, scans>>

drillVars == <<vars, evaluator, database, drill>>

Snapshot == [order |-> order, quantity |-> quantity, actions |-> actions,
             ledger |-> ledger, outcome |-> outcome]

DrillInit ==
    /\ Init
    /\ suite \in Suites
    /\ case = 0
    /\ step = "next"
    /\ order = "absent"
    /\ quantity = 1
    /\ actions = {}
    /\ outcome = [r \in Runs |-> NoOutcome]
    /\ proposed = [r \in Runs |-> 0]
    /\ armed = NoRun
    /\ committed = NoRun
    /\ worker = "up"
    /\ scans = 0
    /\ before = Snapshot
    /\ failed = {}

(* A case has a thread with a first run and perhaps a follow-up.           *)
First == 2 * case - 1
FollowUp == 2 * case
Case == suite[case]
CaseOf(r) == suite[(r + 1) \div 2]
IsRefund(r) == r % 2 = 1 /\ CaseOf(r).kind = "refund"

-----------------------------------------------------------------------------
(* The worker.                                                             *)

(* Mutant: the worker goes on after the commit.                            *)
NeverHeld(r) == FALSE

(* FaultRepository sleeps behind the commit of an armed run.               *)
Held(r) == r \in {armed, committed}

(* Mutant: the amount is not compared.                                     *)
OutcomeAnyAmount(r, choice) ==
    CASE order = "absent" -> "not_found"
      [] order = "approved" -> "already"
      [] OTHER -> IF choice = "approve" THEN "approved" ELSE "rejected"

Outcome(r, choice) ==
    CASE order = "absent" -> "not_found"
      [] order = "approved" -> "already"
      [] order \in {"none", "rejected"} /\ proposed[r] # quantity -> "amount_changed"
      [] OTHER -> IF choice = "approve" THEN "approved" ELSE "rejected"

(* What the refund node commits for the first decision of a run.           *)
Settle(r, choice) ==
    LET o == Outcome(r, choice) IN
    /\ order' = IF o \in {"approved", "rejected"} THEN o ELSE order
    /\ actions' = IF o = "approved" THEN actions \cup {r} ELSE actions
    /\ outcome' = [outcome EXCEPT ![r] = o]

WorkerStep(j) ==
    LET r == RunOf(j) IN
    /\ worker = "up"
    /\ At(j, "settled") => ~Held(r)
    /\ JobStep(j)
    /\ At(j, "working") => (checkpoint'[Lane(j)].at = "paused" <=> IsRefund(r))
    /\ IF ledger'[r] # ledger[r] THEN Settle(r, job[j].arg)
       ELSE UNCHANGED <<order, actions, outcome>>
    /\ proposed' = IF At(j, "working") THEN [proposed EXCEPT ![r] = quantity]
                   ELSE proposed
    /\ UNCHANGED <<quantity, evaluator, drill>>

(* The barrier has taken the key and tells the evaluator.                  *)
Hold(j) ==
    /\ worker = "up"
    /\ At(j, "settled")
    /\ armed = RunOf(j)
    /\ armed' = NoRun
    /\ committed' = RunOf(j)
    /\ UNCHANGED <<vars, evaluator, database, worker, scans>>

(* startup runs recover_runs once before any job, then it is the cron's.   *)
Startup ==
    /\ worker = "booting"
    /\ scan' = {r \in Runs : LooksIncomplete(r)}
    /\ worker' = "recovering"
    /\ UNCHANGED <<status, decision, checkpoint, job, lock, ledger, faults,
                   evaluator, database, armed, committed, scans>>

Started ==
    /\ worker = "recovering"
    /\ scan = {}
    /\ worker' = "up"
    /\ UNCHANGED <<vars, evaluator, database, armed, committed, scans>>

Scan ==
    /\ \/ /\ worker = "up"
          /\ Select
          /\ IF \A j \in Jobs : At(j, "absent") THEN UNCHANGED scans
             ELSE scans < MaxScans /\ scans' = scans + 1
       \/ /\ worker \in {"up", "recovering"}
          /\ \E r \in Runs : Visit(r)
          /\ UNCHANGED scans
    /\ UNCHANGED <<evaluator, database, armed, committed, worker>>

(* Which waiting jobs may still be in the queue: one of a worker that runs *)
(* may wait for the lock, and a recovery job has its arguments from there. *)
InQueue ==
    LET waiting == {j \in Jobs : At(j, "waiting")} IN
    IF worker = "up" THEN SUBSET {j \in waiting : j[2] # "recovery"}
    ELSE {waiting}

(* The container stops: of its jobs those still in the queue remain.       *)
Stop(freed) ==
    /\ \E inQueue \in InQueue :
           job' = [j \in Jobs |->
               IF job[j].stage \in InMemory /\ j \notin inQueue
               THEN Bare("absent") ELSE job[j]]
    /\ lock' = [t \in Threads |-> IF lock[t] = NoJob \/ freed THEN NoJob
                                  ELSE OrphanLock]
    /\ scan' = {}
    /\ UNCHANGED <<status, decision, checkpoint, ledger, faults>>

(* Mutant: the lock of the dead worker is not in Redis.                    *)
FlushKeepsLocks ==
    /\ \E inQueue \in InQueue :
           job' = [j \in Jobs |-> IF At(j, "queued") \/ j \in inQueue
                                  THEN Bare("absent") ELSE job[j]]
    /\ armed' = NoRun
    /\ committed' = NoRun
    /\ UNCHANGED <<status, decision, checkpoint, lock, scan, ledger, faults>>

(* FLUSHDB: the queue, the locks and the keys of the drill are gone.       *)
Flush ==
    /\ \E inQueue \in InQueue :
           job' = [j \in Jobs |-> IF At(j, "queued") \/ j \in inQueue
                                  THEN Bare("absent") ELSE job[j]]
    /\ lock' = [t \in Threads |-> NoJob]
    /\ armed' = NoRun
    /\ committed' = NoRun
    /\ UNCHANGED <<status, decision, checkpoint, scan, ledger, faults>>

-----------------------------------------------------------------------------
(* The evaluator.                                                          *)

Then(s, checks) ==
    /\ step' = s
    /\ failed' = failed \cup checks
    /\ UNCHANGED <<suite, case>>

Check(name, holds) == IF holds THEN {} ELSE {name}

(* The fixture order and the snapshot of a new case.                       *)
Begin ==
    /\ step = "next"
    /\ case < Len(suite)
    /\ case' = case + 1
    /\ step' = "post"
    /\ order' = IF order = "absent" /\ Created(suite[case + 1]) THEN "none"
                ELSE order
    /\ before' = [Snapshot EXCEPT !.order = order']
    /\ scans' = 0
    /\ UNCHANGED <<vars, suite, failed, quantity, actions, outcome, proposed,
                   armed, committed, worker>>

Post ==
    /\ step = "post"
    /\ CreateRun(First)
    /\ Then("poll", {})
    /\ UNCHANGED <<before, database, drill>>

(* poll returns a completed or paused run.                                 *)
Poll ==
    /\ step = "poll"
    /\ status[First] \in {"completed", "awaiting_approval"}
    /\ IF Case.kind = "question"
       THEN Then("score", Check("completed", status[First] = "completed"))
       ELSE Then("event",
                 Check("approval_required", status[First] = "awaiting_approval")
                 \cup Check("no_write_before_decision", Snapshot = before))
    /\ UNCHANGED <<vars, before, database, drill>>

FlushPaused ==
    /\ step = "event"
    /\ Case.event = "redis-loss-paused"
    /\ Flush
    /\ Then("decide", Check("redis_status_recovery",
                            status[First] = "awaiting_approval"))
    /\ UNCHANGED <<before, database, worker, scans>>

RestartWorker ==
    /\ step = "event"
    /\ Case.event = "worker-restart-paused"
    /\ Stop(TRUE)
    /\ worker' = "booting"
    /\ Then("decide", {})
    /\ UNCHANGED <<before, database, armed, committed, scans>>

(* Another event, or none, before the decision.                            *)
OtherEvent ==
    /\ step = "event"
    /\ Case.event \notin {"redis-loss-paused", "worker-restart-paused"}
    /\ quantity' = IF Case.event = "amount-changed" THEN 2 ELSE quantity
    /\ armed' = IF Case.event = "crash-after-action" THEN First ELSE armed
    /\ Then("decide", {})
    /\ UNCHANGED <<vars, before, order, actions, outcome, proposed, committed,
                   worker, scans>>

(* claim_decision and the job; the claim comes first.                      *)
Decide ==
    /\ step = "decide"
    /\ IF decision[First] = "none" /\ status[First] = "awaiting_approval"
       THEN Claim(First, Case.choice) /\ Then("enqueue", {})
       ELSE UNCHANGED vars /\ Then("wait", {"decision_accepted"})
    /\ UNCHANGED <<before, database, drill>>

EnqueueJob ==
    /\ step = "enqueue"
    /\ EnqueueDecision(First)
    /\ Then(IF Case.event = "crash-after-action" THEN "commit" ELSE "wait", {})
    /\ UNCHANGED <<before, database, drill>>

AwaitBarrier ==
    /\ \/ step = "commit" /\ ledger[First] # "none" /\ Then("barrier", {})
       \/ step = "barrier" /\ committed = First /\ Then("kill", {})
    /\ UNCHANGED <<vars, before, database, drill>>

KillWorker ==
    /\ step = "kill"
    /\ Stop(FALSE)
    /\ worker' = "killed"
    /\ Then("flush", {})
    /\ UNCHANGED <<before, database, armed, committed, scans>>

FlushRedis ==
    /\ step = "flush"
    /\ Flush
    /\ Then("up", {})
    /\ UNCHANGED <<before, database, worker, scans>>

StartWorker ==
    /\ step = "up"
    /\ worker' = "booting"
    /\ Then("wait", {})
    /\ UNCHANGED <<vars, before, database, armed, committed, scans>>

(* poll(..., "completed"), which gives up on a run nobody decided and      *)
(* raises for one that failed.                                             *)
Await ==
    /\ step = "wait"
    /\ \/ /\ status[First] = "completed"
          /\ Then(CASE Case.event \in {"replay", "conflict"} -> "replay"
                    [] Case.event = "restart-completed" -> "restart"
                    [] OTHER -> "score", {})
       \/ /\ decision[First] = "none" \/ status[First] = "failed"
          /\ Then("next", {"error"})
    /\ UNCHANGED <<vars, before, database, drill>>

RestartAll ==
    /\ step = "restart"
    /\ Stop(TRUE)
    /\ worker' = "booting"
    /\ Then("replay", {})
    /\ UNCHANGED <<before, database, armed, committed, scans>>

(* The same decision is accepted and enqueued again while the run is not   *)
(* completed, another one conflicts.                                       *)
Replay ==
    /\ step = "replay"
    /\ IF /\ Case.event # "conflict"
          /\ status[First] # "completed"
          /\ At(<<First, "decision">>, "absent")
       THEN EnqueueDecision(First) ELSE UNCHANGED vars
    /\ Then("score", Check("replay_http", decision[First] = Case.choice))
    /\ UNCHANGED <<before, database, drill>>

(* The words of the outcome that is the answer.                            *)
Says(o) ==
    CASE o = "not_found" -> {"not_found", "required"}
      [] o = "already" -> {"already", "approved"}
      [] OTHER -> {o}

RefundChecks ==
    LET approves == Case.expected = "approved" IN
    Check("order_status", order = Case.expected)
    \cup Check("order_action_count",
               Cardinality(actions) = IF approves THEN 1 ELSE 0)
    \cup Check("one_decision", ledger[First] # "none")
    \cup Check("prior_actions_immutable", before.actions \subseteq actions)
    \cup Check("prior_decisions_immutable", \A r \in Runs \ {First} :
               ledger[r] = before.ledger[r] /\ outcome[r] = before.outcome[r])
    \cup Check("exact_new_action_count",
               Cardinality(actions) = Cardinality(before.actions)
                   + IF approves /\ before.actions = {} THEN 1 ELSE 0)
    \cup Check("answer", Case.word \in Says(outcome[First]))

(* The snapshot that is scored is also what the follow-up must not change. *)
Score ==
    /\ step = "score"
    /\ \/ /\ Case.kind = "question"
          /\ Then("next", Check("database_unchanged", Snapshot = before))
          /\ UNCHANGED before
       \/ /\ Case.kind # "question" /\ Case.event # "multi-turn"
          /\ Then("next", RefundChecks)
          /\ UNCHANGED before
       \/ /\ Case.kind # "question" /\ Case.event = "multi-turn"
          /\ Then("follow", RefundChecks)
          /\ before' = Snapshot
    /\ UNCHANGED <<vars, database, drill>>

(* A question in the same thread, which must write nothing.                *)
Follow ==
    /\ step = "follow"
    /\ CreateRun(FollowUp)
    /\ Then("followed", {})
    /\ UNCHANGED <<before, database, drill>>

Followed ==
    /\ step = "followed"
    /\ \/ /\ status[FollowUp] = "completed"
          /\ Then("next", Check("followup_no_write", Snapshot = before))
       \/ status[FollowUp] = "failed" /\ Then("next", {"error"})
    /\ UNCHANGED <<vars, before, database, drill>>

-----------------------------------------------------------------------------

Evaluate ==
    \/ Begin
    \/ Post
    \/ Poll
    \/ FlushPaused
    \/ RestartWorker
    \/ OtherEvent
    \/ Decide
    \/ EnqueueJob
    \/ AwaitBarrier
    \/ KillWorker
    \/ FlushRedis
    \/ StartWorker
    \/ Await
    \/ RestartAll
    \/ Replay
    \/ Score
    \/ Follow
    \/ Followed

Work == \E j \in Jobs : WorkerStep(j) \/ Hold(j)

Boot == Startup \/ Started

DrillNext ==
    \/ Evaluate
    \/ Work
    \/ Boot
    \/ Scan

DrillSpec == DrillInit /\ [][DrillNext]_drillVars

(* The worker goes on with some job, scans are repeated, and polling ten   *)
(* times a second meets a status that comes again and again.               *)
DrillFairSpec ==
    /\ DrillSpec
    /\ SF_drillVars(Evaluate)
    /\ WF_drillVars(Work)
    /\ WF_drillVars(Boot)
    /\ WF_drillVars(Scan)

-----------------------------------------------------------------------------
(* Properties.                                                             *)

(* evaluation_worker.py, "isolated post-commit/pre-checkpoint barrier":    *)
(* when the worker is killed the decision is in the ledger and the thread  *)
(* is still paused where the decision found it.                            *)
KilledInWindow ==
    step = "flush" =>
        /\ ledger[First] = Case.choice
        /\ checkpoint[ThreadOf[First]] = [run |-> First, at |-> "paused"]

(* The checks about orders, actions and decisions never raise a false      *)
(* alarm: whatever recovery does beside the cases, all of them hold, once  *)
(* the decisions have been accepted.                                       *)
ChecksHold ==
    \/ "decision_accepted" \in failed
    \/ failed \subseteq {"redis_status_recovery", "completed", "error"}

(* The drill comes to its end: after every loss of Redis, restart and      *)
(* crash it plays, recovery takes the run to its answer.                   *)
DrillEnds == <>(step = "next" /\ case = Len(suite))

=============================================================================
