--------------------------- MODULE CrashDrillProofs ---------------------------
(***************************************************************************)
(* The drill kills the worker where it means to, and its checks raise no   *)
(* false alarm, for any number of recovery scans beside the cases.         *)
(*                                                                         *)
(* The invariant says, for each case that has been started, what its runs, *)
(* the tables and the snapshot have come to when the evaluator is where it *)
(* is.  It stands on the invariants of the lifecycle: IInv, until the case *)
(* that loses Redis under running jobs, and ClaimInv from there on.        *)
(***************************************************************************)
EXTENDS CrashDrill, RunLifecycleProofs, FiniteSetTheorems

-----------------------------------------------------------------------------
(* What a suite expects.                                                   *)

(* The order's refund status when a case begins.                           *)
Initially(s, n) ==
    IF n = 1 THEN IF Created(s[1]) THEN "none" ELSE "absent"
    ELSE s[n - 1].expected

(* What the ledger answers to a case on an order of that status.           *)
VerdictOn(found, c) ==
    CASE found = "absent" -> "not_found"
      [] found = "approved" -> "already"
      [] found \in {"none", "rejected"} /\ c.event = "amount-changed" ->
             "amount_changed"
      [] OTHER -> IF c.choice = "approve" THEN "approved" ELSE "rejected"

Verdict(s, n) == VerdictOn(Initially(s, n), s[n])

Singles ==
    {"amount-changed", "redis-loss-paused", "worker-restart-paused",
     "restart-completed", "crash-after-action", "replay", "conflict"}

Events == Singles \cup {"none", "multi-turn"}

(* The case expects what comes of it.                                      *)
RightOn(found, c) ==
    /\ found \in {"absent", "none", "approved", "rejected"}
    /\ c.kind = "refund"
    /\ c.choice \in {"approve", "reject"}
    /\ c.event \in Events
    /\ c.word \in Says(VerdictOn(found, c))
    /\ c.expected = IF VerdictOn(found, c) \in {"approved", "rejected"}
                    THEN VerdictOn(found, c) ELSE found

(* A suite is one question, or cases that expect what comes of them; an    *)
(* event that loses or restarts something is played in a suite of one.     *)
SuiteIsRight(s) ==
    \/ s = <<Question>>
    \/ /\ Len(s) \in 1 .. 2
       /\ \A n \in 1 .. Len(s) :
              /\ RightOn(Initially(s, n), s[n])
              /\ s[n].event \in Singles => Len(s) = 1
              /\ n > 1 /\ Initially(s, n) = "absent" => ~Created(s[n])

LEMMA VerdictFacts ==
    ASSUME NEW found, NEW c
    PROVE  /\ found = "absent" => VerdictOn(found, c) = "not_found"
           /\ found = "approved" => VerdictOn(found, c) = "already"
           /\ found \in {"none", "rejected"} /\ c.event = "amount-changed" =>
                  VerdictOn(found, c) = "amount_changed"
           /\ found \in {"none", "rejected"} /\ c.event # "amount-changed" =>
                  VerdictOn(found, c) = IF c.choice = "approve" THEN "approved"
                                        ELSE "rejected"
  BY DEF VerdictOn

(* The order of a suite's first case is new or does not exist.              *)
Fresh(c) == IF Created(c) THEN "none" ELSE "absent"

LEMMA AloneIsRight == \A c \in Alone : RightOn(Fresh(c), c)
  <1> SUFFICES ASSUME NEW c \in Alone PROVE RightOn(Fresh(c), c)
    OBVIOUS
  <1>1. /\ c.kind = "refund" /\ c.event \in Events
        /\ c.choice \in {"approve", "reject"}
    BY DEF Alone, Refund, Events, Singles
  <1>2. Fresh(c) = IF c.expected = "absent" THEN "absent" ELSE "none"
    BY DEF Alone, Refund, Fresh, Created
  <1>3. VerdictOn(Fresh(c), c) =
            CASE c.expected = "absent" -> "not_found"
              [] c.expected = "none" -> "amount_changed"
              [] OTHER -> c.expected
    BY <1>2, VerdictFacts DEF Alone, Refund
  <1>4. c.word \in Says(VerdictOn(Fresh(c), c))
    BY <1>3 DEF Alone, Refund, Says
  <1>5. c.expected \in {"absent", "none", "approved", "rejected"}
    BY DEF Alone, Refund
  <1> QED
    BY <1>1, <1>2, <1>3, <1>4, <1>5 DEF RightOn

LEMMA PairIsRight ==
    ASSUME NEW c, NEW d, <<c, d>> \in Pairs
    PROVE  /\ RightOn(Fresh(c), c) /\ RightOn(c.expected, d)
           /\ c.event \notin Singles /\ d.event \notin Singles
           /\ c.expected = "absent" => ~Created(d)
  <1>1. PICK p \in Pairs : p = <<c, d>>
    OBVIOUS
  <1>2. c = p[1] /\ d = p[2]
    BY <1>1
  <1>3. /\ c.kind = "refund" /\ d.kind = "refund"
        /\ c.event \in {"none", "multi-turn"} /\ d.event \in {"none", "multi-turn"}
        /\ c.choice \in {"approve", "reject"} /\ d.choice \in {"approve", "reject"}
        /\ c.expected \in {"absent", "rejected", "approved"}
    BY <1>2 DEF Pairs, Refund
  <1>4. Fresh(c) = (IF c.expected = "absent" THEN "absent" ELSE "none")
    BY <1>2 DEF Pairs, Refund, Fresh, Created
  <1>5. RightOn(Fresh(c), c)
    <2>1. VerdictOn(Fresh(c), c) = IF c.expected = "absent" THEN "not_found"
                                   ELSE c.expected
      BY <1>2, <1>4, VerdictFacts DEF Pairs, Refund
    <2>2. c.word \in Says(VerdictOn(Fresh(c), c))
      BY <1>2, <2>1 DEF Pairs, Refund, Says
    <2> QED
      BY <1>3, <1>4, <2>1, <2>2 DEF RightOn, Events
  <1>6. RightOn(c.expected, d)
    <2>1. VerdictOn(c.expected, d) =
              CASE c.expected = "absent" -> "not_found"
                [] c.expected = "approved" -> "already"
                [] OTHER -> "approved"
      BY <1>2, VerdictFacts DEF Pairs, Refund
    <2>2. d.word \in Says(VerdictOn(c.expected, d))
      BY <1>2, <2>1 DEF Pairs, Refund, Says
    <2>3. d.expected = IF c.expected = "absent" THEN "absent" ELSE "approved"
      BY <1>2 DEF Pairs, Refund
    <2> QED
      BY <1>3, <2>1, <2>2, <2>3 DEF RightOn, Events
  <1>7. c.expected = "absent" => ~Created(d)
    BY <1>2 DEF Pairs, Refund, Created
  <1> QED
    BY <1>3, <1>5, <1>6, <1>7 DEF Singles

LEMMA SuitesAreRight == \A s \in Suites : SuiteIsRight(s)
  <1> SUFFICES ASSUME NEW s \in Suites PROVE SuiteIsRight(s)
    OBVIOUS
  <1>1. CASE s = <<Question>>
    BY <1>1 DEF SuiteIsRight
  <1>2. ASSUME NEW c \in Alone, s = <<c>> PROVE SuiteIsRight(s)
    BY <1>2, AloneIsRight DEF SuiteIsRight, Initially, Fresh
  <1>3. ASSUME s \in Pairs PROVE SuiteIsRight(s)
    <2>1. PICK c, d : s = <<c, d>>
      BY <1>3 DEF Pairs
    <2>2. RightOn(Fresh(s[1]), s[1]) /\ RightOn(s[1].expected, s[2])
      BY <1>3, <2>1, PairIsRight
    <2>3. /\ s[1].event \notin Singles /\ s[2].event \notin Singles
          /\ s[1].expected = "absent" => ~Created(s[2])
      BY <1>3, <2>1, PairIsRight
    <2>4. Len(s) = 2
      BY <2>1
    <2> QED
      BY <2>2, <2>3, <2>4 DEF SuiteIsRight, Initially, Fresh
  <1> QED
    BY <1>1, <1>2, <1>3 DEF Suites

-----------------------------------------------------------------------------
(* The invariant.                                                          *)

EvaluatorSteps ==
    {"next", "post", "poll", "event", "decide", "enqueue", "commit", "barrier",
     "kill", "flush", "up", "wait", "restart", "replay", "score", "follow",
     "followed"}

(* Where the evaluator is behind the first run's POST, its pause, its      *)
(* decision and its end, and behind the POST of the follow-up.             *)
Posting == EvaluatorSteps \ {"post"}
Found == Posting \ {"poll"}
Behind == Found \ {"event", "decide"}
Answered == {"restart", "replay", "score", "follow", "followed", "next"}
Following == {"followed", "next"}

CrashSteps == {"commit", "barrier", "kill", "flush", "up"}

RunIs(n) == 2 * n - 1
FollowUpOf(n) == 2 * n
Thread(n) == ThreadOf[RunIs(n)]
Asks(n) == suite[n].kind = "refund"
Done(n) == Settled(RunIs(n))
Past(n, steps) == n < case \/ (n = case /\ step \in steps)

DrillTypes ==
    /\ suite \in Suites
    /\ case \in 0 .. Len(suite)
    /\ step \in EvaluatorSteps
    /\ case = 0 => step = "next"
    /\ outcome \in [Runs -> {"not_found", "already", "amount_changed", "approved",
                             "rejected", NoOutcome}]
    /\ quantity \in 1 .. 2
    /\ proposed \in [Runs -> 0 .. 2]
    /\ worker \in {"up", "booting", "recovering", "killed"}

(* The evaluator takes the steps of its case.                              *)
StepFits ==
    /\ step \in {"event", "decide", "enqueue", "wait"} => Asks(case)
    /\ step \in CrashSteps => Case.event = "crash-after-action"
    /\ step \in {"restart", "replay"} =>
           Case.event \in {"replay", "conflict", "restart-completed"}
    /\ step \in {"follow", "followed"} => Case.event = "multi-turn"

(* A decision that was not accepted keeps the drill from its faults.       *)
GaveUp == "decision_accepted" \in failed

StoppedShort ==
    GaveUp => case > 0 /\ (case = 1 => step \in Answered \cup {"wait"})

(* The runs that have a row; nothing is known of the others.               *)
Posted(r) ==
    \E n \in 1 .. 2 :
        \/ r = RunIs(n) /\ Past(n, Posting)
        \/ r = FollowUpOf(n) /\ Past(n, Following) /\ suite[n].event = "multi-turn"

Unknown(r) ==
    /\ status[r] = "none" /\ decision[r] = "none" /\ r \notin scan
    /\ \A j \in Jobs : RunOf(j) = r => job[j] = Bare("absent")

PostedOnly == \A r \in Runs : Posted(r) \/ Unknown(r)

(* The decisions are those of the cases, and each in its place.            *)
DecidedAsSaid ==
    /\ \A n \in 1 .. 2 : Past(n, Behind) /\ Asks(n) =>
           decision[RunIs(n)] = suite[n].choice
    /\ \A r \in Runs : decision[r] # "none" =>
           \E n \in 1 .. 2 : r = RunIs(n) /\ Past(n, Behind) /\ Asks(n)

(* A refund run that is not settled ends nowhere but in its pause.         *)
WaitsAt(r, t) ==
    /\ checkpoint[t] \in {[run |-> NoRun, at |-> "empty"],
                          [run |-> r, at |-> "working"],
                          [run |-> r, at |-> "paused"]}
    /\ \A j \in Jobs : RunOf(j) = r =>
           /\ job[j].stage \notin {"settled", "refunded", "failing"}
           /\ job[j].stage = "report" => checkpoint[t].at = "paused"
    /\ status[r] \notin {"completed", "failed"}
    /\ checkpoint[t].at = "paused" => proposed[r] = 1

(* Once the evaluator has found it there it stays.                         *)
StaysAt(r, t) ==
    /\ checkpoint[t] = [run |-> r, at |-> "paused"]
    /\ \A j \in Jobs : RunOf(j) = r => job[j].stage \notin {"fresh", "working"}

Waiting ==
    \A n \in 1 .. 2 : n <= Len(suite) /\ Asks(n) /\ ~Done(n) =>
        /\ WaitsAt(RunIs(n), Thread(n))
        /\ Past(n, Found) => StaysAt(RunIs(n), Thread(n))

(* The tables as the cases so far have left them.                          *)
OrderFollows ==
    order = IF case = 0 THEN "absent"
            ELSE IF Done(case) THEN suite[case].expected
            ELSE Initially(suite, case)

ActionsFollow ==
    actions = {r \in Runs : \E n \in 1 .. 2 :
                   n <= case /\ r = RunIs(n) /\ Done(n)
                   /\ Verdict(suite, n) = "approved"}

QuantityFollows ==
    quantity = IF /\ case = 1 /\ suite[1].event = "amount-changed"
                  /\ step \in Found \ {"event"} THEN 2 ELSE 1

TablesFollow ==
    /\ \A n \in 1 .. 2 : Past(n, Answered) /\ Asks(n) => Done(n)
    /\ OrderFollows
    /\ ActionsFollow
    /\ \A n \in 1 .. 2 : n <= case /\ Done(n) =>
           outcome[RunIs(n)] = Verdict(suite, n)
    /\ QuantityFollows

(* The snapshot says what the tables said.                                 *)
Remembered ==
    /\ \/ step \in {"post", "poll", "follow", "followed"}
       \/ step = "score" /\ ~Asks(case)
       => before = Snapshot
    /\ step \notin {"next", "follow", "followed"} =>
           /\ before.actions = actions \ {First}
           /\ \A r \in Runs \ {First} :
                  before.ledger[r] = ledger[r] /\ before.outcome[r] = outcome[r]

(* An armed run is held from its commit on until the evaluator has killed  *)
(* the worker.                                                             *)
Armed == case = 1 /\ suite[1].event = "crash-after-action"

HeldFast ==
    /\ armed \in {RunIs(1), NoRun} /\ committed \in {RunIs(1), NoRun}
    /\ {armed, committed} # {NoRun} => Armed
    /\ Armed =>
           /\ step \in {"decide", "enqueue", "commit", "barrier", "kill"} =>
                  Held(RunIs(1))
           /\ step \in {"decide", "enqueue", "commit", "barrier", "kill", "flush"} =>
                  checkpoint[Thread(1)] = [run |-> RunIs(1), at |-> "paused"]
           /\ step \in {"barrier", "kill", "flush"} => Done(1)
           /\ step \in {"flush", "up"} => worker = "killed"

(* A worker that does not run has no job in its memory.                    *)
MemoryLost ==
    worker # "up" =>
        \A j \in Jobs : job[j].stage \in {"absent", "queued", "waiting"}

(* Redis may have been lost under a running job.                           *)
Torn ==
    /\ case = 1 /\ suite[1].event = "redis-loss-paused"
    /\ step \in Found \ {"event"}

Quiet == failed \subseteq {"redis_status_recovery", "completed", "error"}

Good ==
    /\ PostedOnly
    /\ DecidedAsSaid
    /\ Waiting
    /\ TablesFollow
    /\ Remembered
    /\ HeldFast
    /\ MemoryLost
    /\ ClaimInv
    /\ Torn \/ IInv
    /\ Quiet

DInv ==
    /\ DrillTypes
    /\ StepFits
    /\ StoppedShort
    /\ GaveUp \/ Good

-----------------------------------------------------------------------------
(* Runs, threads and cases.                                                *)

LEMMA RunFacts ==
    ASSUME NEW n \in 1 .. 2
    PROVE  /\ RunIs(n) \in Runs /\ FollowUpOf(n) \in Runs /\ Thread(n) \in Threads
           /\ ThreadOf[RunIs(n)] = Thread(n) /\ ThreadOf[FollowUpOf(n)] = Thread(n)
           /\ \A r \in Runs : ThreadOf[r] = Thread(n) =>
                  r = RunIs(n) \/ r = FollowUpOf(n)
           /\ \A m \in 1 .. 2 : /\ RunIs(m) # FollowUpOf(n)
                                /\ RunIs(m) = RunIs(n) => m = n
                                /\ Thread(m) = Thread(n) => m = n
  <1>1. RunIs(n) \in Runs /\ FollowUpOf(n) \in Runs
    BY DrillAssumption DEF RunIs, FollowUpOf
  <1>2. ThreadOf[FollowUpOf(n)] = Thread(n) /\ Thread(n) \in Threads
    BY <1>1, DrillAssumption, LifecycleAssumption DEF RunIs, FollowUpOf, Thread
  <1>3. \A r \in Runs : ThreadOf[r] = Thread(n) => r = RunIs(n) \/ r = FollowUpOf(n)
    BY <1>2, DrillAssumption DEF RunIs, FollowUpOf
  <1>4. \A m \in 1 .. 2 : /\ RunIs(m) # FollowUpOf(n)
                          /\ RunIs(m) = RunIs(n) => m = n
    BY DEF RunIs, FollowUpOf
  <1>5. \A m \in 1 .. 2 : RunIs(m) \in Runs
    BY DrillAssumption DEF RunIs
  <1> QED
    BY <1>1, <1>2, <1>3, <1>4, <1>5 DEF Thread

LEMMA RefundRuns ==
    ASSUME NEW n \in 1 .. 2
    PROVE  IsRefund(RunIs(n)) <=> Asks(n)
  <1>1. CASE n = 1
    BY <1>1 DEF RunIs, IsRefund, CaseOf, Asks
  <1>2. CASE n = 2
    BY <1>2 DEF RunIs, IsRefund, CaseOf, Asks
  <1> QED
    BY <1>1, <1>2

LEMMA CaseFacts ==
    ASSUME DrillTypes
    PROVE  /\ case \in 0 .. 2 /\ Len(suite) \in 1 .. 2 /\ case <= Len(suite)
           /\ First = RunIs(case) /\ FollowUp = FollowUpOf(case)
           /\ Case = suite[case]
           /\ step # "next" => case \in 1 .. Len(suite)
  <1>1. suite \in Suites /\ case \in 0 .. Len(suite) /\ (case = 0 => step = "next")
    BY DEF DrillTypes
  <1>2. Len(suite) \in 1 .. 2
    <2>1. SuiteIsRight(suite)
      BY <1>1, SuitesAreRight
    <2>2. CASE suite = <<Question>>
      BY <2>2
    <2> QED
      BY <2>1, <2>2 DEF SuiteIsRight
  <1>3. ASSUME NEW len \in 1 .. 2, case \in 0 .. len
        PROVE  case \in 0 .. 2 /\ case <= len /\ (case # 0 => case \in 1 .. len)
    BY <1>3
  <1>4. /\ case \in 0 .. 2 /\ case <= Len(suite)
        /\ step # "next" => case \in 1 .. Len(suite)
    BY <1>1, <1>2, <1>3
  <1> QED
    BY <1>2, <1>4 DEF First, FollowUp, Case, RunIs, FollowUpOf

(* What the suite promises of its cases.                                   *)
LEMMA SuiteFacts ==
    ASSUME DrillTypes, NEW n \in 1 .. Len(suite)
    PROVE  /\ Asks(n) => RightOn(Initially(suite, n), suite[n])
           /\ ~Asks(n) => /\ suite[n].kind = "question"
                          /\ suite[n].event = "none" /\ Len(suite) = 1
           /\ suite[n].event \in Singles => Len(suite) = 1 /\ n = 1
           /\ n > 1 /\ Initially(suite, n) = "absent" => ~Created(suite[n])
  <1>1. SuiteIsRight(suite)
    BY SuitesAreRight DEF DrillTypes
  <1>2. CASE suite = <<Question>>
    <2>1. Len(suite) = 1 /\ n = 1 /\ suite[n] = Question
      BY <1>2
    <2>2. suite[n].kind = "question" /\ suite[n].event = "none"
      BY <2>1 DEF Question
    <2> QED
      BY <2>1, <2>2 DEF Asks, Singles
  <1>3. CASE suite # <<Question>>
    BY <1>1, <1>3 DEF SuiteIsRight, RightOn, Asks
  <1> QED
    BY <1>2, <1>3

-----------------------------------------------------------------------------
(* How the evaluator gets on.                                              *)

(* A step of the drill is one of the evaluator, or one beside it: of a job,*)
(* or one that writes nothing durable.                                     *)
Aside == Boot \/ Scan \/ (\E j \in Jobs : Hold(j)) \/ UNCHANGED drillVars

Beside == Aside \/ \E j \in Jobs : WorkerStep(j)

LEMMA BesideFrame ==
    ASSUME Beside
    PROVE  UNCHANGED <<suite, case, step, before, failed, quantity, decision>>
  <1>1. ASSUME NEW j \in Jobs, WorkerStep(j)
        PROVE  UNCHANGED <<suite, case, step, before, failed, quantity, decision>>
    BY <1>1 DEF WorkerStep, evaluator, JobStep, Start, Acquire, Refuse, Enter,
                Input, Route, Record, SaveRefund, Respond, Report, WriteFailed
  <1>2. ASSUME NEW j \in Jobs, Hold(j)
        PROVE  UNCHANGED <<suite, case, step, before, failed, quantity, decision>>
    BY <1>2 DEF Hold, evaluator, database, vars
  <1>3. CASE Boot
    BY <1>3 DEF Boot, Startup, Started, evaluator, database, vars
  <1>4. CASE Scan
    BY <1>4 DEF Scan, Select, Visit, evaluator, database
  <1>5. CASE UNCHANGED drillVars
    BY <1>5 DEF drillVars, evaluator, database, vars
  <1> QED
    BY <1>1, <1>2, <1>3, <1>4, <1>5 DEF Beside, Aside

LEMMA EvaluateFrame ==
    ASSUME Evaluate
    PROVE  /\ UNCHANGED <<suite, checkpoint, ledger, actions, outcome, proposed,
                          faults>>
           /\ failed \subseteq failed'
           /\ scan' \in {scan, {}}
  BY DEF Evaluate, Begin, Post, Poll, FlushPaused, RestartWorker, OtherEvent,
         Decide, EnqueueJob, AwaitBarrier, KillWorker, FlushRedis, StartWorker,
         Await, RestartAll, Replay, Score, Follow, Followed, Then, Stop, Flush,
         CreateRun, Claim, EnqueueDecision, vars, database


(* Where each step of the evaluator leads.                                 *)
LEMMA Stride ==
    ASSUME DrillTypes, StepFits, Evaluate
    PROVE  \/ /\ Begin /\ step = "next" /\ step' = "post" /\ case' = case + 1
              /\ case' \in 1 .. Len(suite)
           \/ /\ step # "next" /\ case' = case
              /\ step' \in Posting
              /\ step = "post" => Post
              /\ step' = "event" => Poll
              /\ step \in Found => step' \in Found
              /\ step' \in Found /\ step \notin Found => Poll
              /\ step \in Behind => step' \in Behind
              /\ step' \in Behind /\ step \notin Behind =>
                     Decide \/ (Poll /\ ~Asks(case) /\ step' = "score")
              /\ step \in Answered => step' \in Answered
              /\ step' \in Answered /\ step \notin Answered =>
                     \/ Await /\ step = "wait"
                     \/ (Poll /\ ~Asks(case) /\ step' = "score")
              /\ step \in Following => step' \in Following
  <1> USE CaseFacts DEF Posting, Found, Behind, Answered, Following, EvaluatorSteps,
                        Then
  <1>1. CASE Begin
    <2>1. case \in 0 .. Len(suite) /\ case < Len(suite) /\ case' = case + 1
          /\ step = "next" /\ step' = "post"
      BY <1>1 DEF Begin, DrillTypes
    <2>2. ASSUME NEW len \in 1 .. 2, case \in 0 .. len, case < len
          PROVE  case + 1 \in 1 .. len
      BY <2>2
    <2> QED
      BY <1>1, <2>1, <2>2
  <1>2. CASE Post
    BY <1>2 DEF Post
  <1>3. CASE Poll
    <2>1. step = "poll" /\ case' = case
          /\ IF Case.kind = "question" THEN step' = "score" ELSE step' = "event"
      BY <1>3 DEF Poll
    <2>2. Case.kind = "question" => ~Asks(case)
      BY DEF Asks
    <2> QED
      BY <1>3, <2>1, <2>2
  <1>4. CASE FlushPaused \/ RestartWorker \/ OtherEvent
    BY <1>4 DEF FlushPaused, RestartWorker, OtherEvent
  <1>5. CASE Decide
    BY <1>5 DEF Decide
  <1>6. CASE EnqueueJob \/ AwaitBarrier \/ KillWorker \/ FlushRedis \/ StartWorker
    BY <1>6 DEF EnqueueJob, AwaitBarrier, KillWorker, FlushRedis, StartWorker
  <1>7. CASE Await
    BY <1>7 DEF Await
  <1>8. CASE RestartAll \/ Replay
    BY <1>8 DEF RestartAll, Replay
  <1>9. CASE Score \/ Follow \/ Followed
    BY <1>9 DEF Score, Follow, Followed
  <1> QED
    BY <1>1, <1>2, <1>3, <1>4, <1>5, <1>6, <1>7, <1>8, <1>9 DEF Evaluate

(* What is behind a case stays behind it, and only its own steps get there.*)
LEMMA PastGrows ==
    ASSUME DrillTypes, StepFits, Evaluate, NEW n \in 1 .. 2
    PROVE  /\ Past(n, Posting) => Past(n, Posting)'
           /\ Past(n, Found) => Past(n, Found)'
           /\ Past(n, Behind) => Past(n, Behind)'
           /\ Past(n, Answered) => Past(n, Answered)'
           /\ Past(n, Following) => Past(n, Following)'
           /\ Past(n, Found)' /\ ~Past(n, Found) => n = case /\ Poll
           /\ Past(n, Behind)' /\ ~Past(n, Behind) =>
                  n = case /\ (Decide \/ ~Asks(n))
           /\ Past(n, Answered)' /\ ~Past(n, Answered) =>
                  n = case /\ (Await \/ ~Asks(n))
  <1>1. case \in 0 .. 2
    BY CaseFacts
  <1>2. CASE Begin
    <2>1. step = "next" /\ step' = "post" /\ case' = case + 1
      BY <1>2 DEF Begin
    <2>2. /\ "next" \in Posting /\ "next" \in Found /\ "next" \in Behind
          /\ "next" \in Answered /\ "next" \in Following
          /\ "post" \notin Posting /\ "post" \notin Found /\ "post" \notin Behind
          /\ "post" \notin Answered /\ "post" \notin Following
      BY DEF Posting, Found, Behind, Answered, Following, EvaluatorSteps
    <2> QED
      BY <1>1, <2>1, <2>2 DEF Past
  <1>3. CASE step # "next"
    BY <1>1, <1>3, Stride DEF Past, Posting, Found, Behind, Answered, Following,
                              Post
  <1> QED
    BY <1>2, <1>3, Stride

-----------------------------------------------------------------------------
(* What a step of the worker may do.                                       *)

(* Whatever the job does, only its run, its thread and itself change, and  *)
(* the ledger takes nothing but a first decision, from the refund node.    *)
LEMMA JobEffects ==
    ASSUME ClaimInv, NEW j \in Jobs, JobStep(j)
    PROVE  /\ RunOf(j) \in Runs /\ Lane(j) \in Threads
           /\ job[j] # Bare("absent")
           /\ \A k \in Jobs \ {j} : job'[k] = job[k]
           /\ \A q \in Runs \ {RunOf(j)} :
                  status'[q] = status[q] /\ ledger'[q] = ledger[q]
           /\ \A t \in Threads \ {Lane(j)} : checkpoint'[t] = checkpoint[t]
           /\ UNCHANGED <<decision, scan>>
           /\ \A q \in Runs : Settled(q) => ledger'[q] = ledger[q]
           /\ ledger'[RunOf(j)] # ledger[RunOf(j)] =>
                  /\ At(j, "resume") /\ ~Settled(RunOf(j))
                  /\ job[j].arg = decision[RunOf(j)] /\ job[j].arg # "none"
                  /\ ledger'[RunOf(j)] = job[j].arg
                  /\ checkpoint' = checkpoint
  <1> USE JobFacts
  <1>1. TypeOK /\ Honest(j)
    BY DEF ClaimInv
  <1>2. \A k \in Jobs \ {j} : job'[k] = job[k]
    BY <1>1, JobStepMoves DEF Moves
  <1>3. job[j] # Bare("absent")
    BY BareJob DEF JobStep, Start, Acquire, Refuse, Enter, Input, Route, Record,
           SaveRefund, Respond, Report, WriteFailed, At
  <1>4. UNCHANGED <<decision, scan>>
    BY DEF JobStep, Start, Acquire, Refuse, Enter, Input, Route, Record,
           SaveRefund, Respond, Report, WriteFailed
  <1>5. \A q \in Runs \ {RunOf(j)} : status'[q] = status[q]
    BY <1>1
       DEF TypeOK, JobStep, Start, Acquire, Refuse, Enter, Input, Route, Record,
           SaveRefund, Respond, Report, WriteFailed
  <1>6. \A t \in Threads \ {Lane(j)} : checkpoint'[t] = checkpoint[t]
    BY <1>1
       DEF TypeOK, JobStep, Start, Acquire, Refuse, Enter, Input, Route, Record,
           SaveRefund, Respond, Report, WriteFailed, Save
  <1>7. CASE Record(j)
    <2>1. At(j, "resume") /\ checkpoint' = checkpoint
      BY <1>7 DEF Record
    <2>2. job[j].arg = decision[RunOf(j)] /\ job[j].arg # "none"
      BY <1>1, <2>1 DEF Honest, CarriesClaim, Resumes
    <2>3. ledger' = IF ledger[RunOf(j)] \in {"none", job[j].arg}
                    THEN [ledger EXCEPT ![RunOf(j)] = job[j].arg] ELSE ledger
      BY <1>7 DEF Record
    <2>4. /\ \A q \in Runs \ {RunOf(j)} : ledger'[q] = ledger[q]
          /\ ledger[RunOf(j)] \notin {"none", job[j].arg} => ledger' = ledger
          /\ ledger[RunOf(j)] \in {"none", job[j].arg} =>
                 ledger'[RunOf(j)] = job[j].arg
      BY <1>1, <2>3 DEF TypeOK
    <2> QED
      BY <1>2, <1>3, <1>4, <1>5, <1>6, <2>1, <2>2, <2>4 DEF Settled
  <1>8. CASE ~Record(j)
    <2>1. ledger' = ledger
      BY <1>8 DEF JobStep, Start, Acquire, Refuse, Enter, Input, Route,
             SaveRefund, Respond, Report, WriteFailed
    <2> QED
      BY <1>2, <1>3, <1>4, <1>5, <1>6, <2>1
  <1> QED
    BY <1>7, <1>8

(* The ledger holds the decisions of cases that have been decided.         *)
LEMMA DoneFacts ==
    ASSUME DrillTypes, Good, NEW n \in 1 .. 2
    PROVE  /\ Done(n) => Past(n, Behind) /\ Asks(n)
           /\ Past(n, Answered) /\ Asks(n) => Done(n)
           /\ decision[RunIs(n)] # "none" => Past(n, Behind) /\ Asks(n)
           /\ decision[RunIs(n)] # "none" => decision[RunIs(n)] = suite[n].choice
           /\ decision[FollowUpOf(n)] = "none" /\ ~Settled(FollowUpOf(n))
  <1>1. /\ RunIs(n) \in Runs /\ FollowUpOf(n) \in Runs
        /\ \A m \in 1 .. 2 : RunIs(m) = RunIs(n) => m = n
        /\ \A m \in 1 .. 2 : RunIs(m) # FollowUpOf(n)
    BY RunFacts
  <1>2. LedgerFollowsHuman /\ DecidedAsSaid /\ TablesFollow
    BY DEF Good, ClaimInv
  <1>3. \A r \in Runs : decision[r] # "none" =>
            \E m \in 1 .. 2 : r = RunIs(m) /\ Past(m, Behind) /\ Asks(m)
    BY <1>2 DEF DecidedAsSaid
  <1>4. decision[RunIs(n)] # "none" => Past(n, Behind) /\ Asks(n)
    BY <1>1, <1>3
  <1>5. decision[FollowUpOf(n)] = "none"
    BY <1>1, <1>3
  <1>6. Past(n, Behind) /\ Asks(n) => decision[RunIs(n)] = suite[n].choice
    BY <1>2 DEF DecidedAsSaid
  <1>7. \A r \in Runs : Settled(r) => decision[r] # "none"
    BY <1>2 DEF LedgerFollowsHuman, Settled
  <1> QED
    BY <1>1, <1>2, <1>4, <1>5, <1>6, <1>7 DEF TablesFollow, Done

(* The follow-up has no row before the refund of its thread is settled.    *)
LEMMA FollowUpUnknown ==
    ASSUME DrillTypes, Good, NEW n \in 1 .. 2, Asks(n),
           ~Done(n) \/ suite[n].event # "multi-turn"
    PROVE  Unknown(FollowUpOf(n))
  <1>1. FollowUpOf(n) \in Runs /\ (\A m \in 1 .. 2 : RunIs(m) # FollowUpOf(n))
    BY RunFacts
  <1>2. Past(n, Following) => Past(n, Answered)
    BY DEF Past, Following, Answered
  <1>3. Past(n, Following) /\ suite[n].event = "multi-turn" => Done(n)
    BY <1>2, DoneFacts
  <1>4. \A m \in 1 .. 2 : FollowUpOf(n) = FollowUpOf(m) => m = n
    BY DEF FollowUpOf
  <1>5. ~Posted(FollowUpOf(n))
    BY <1>1, <1>3, <1>4 DEF Posted
  <1> QED
    BY <1>1, <1>5 DEF Good, PostedOnly

(* Until then every job of the thread is of its first run.                 *)
LEMMA JobOfFirst ==
    ASSUME DrillTypes, Good, NEW n \in 1 .. 2, Asks(n),
           ~Done(n) \/ suite[n].event # "multi-turn",
           NEW j \in Jobs, job[j] # Bare("absent"), Lane(j) = Thread(n)
    PROVE  RunOf(j) = RunIs(n)
  <1>1. RunOf(j) \in Runs
    BY JobFacts
  <1>2. RunOf(j) = RunIs(n) \/ RunOf(j) = FollowUpOf(n)
    BY <1>1, RunFacts DEF Lane
  <1>3. RunOf(j) # FollowUpOf(n)
    BY FollowUpUnknown DEF Unknown
  <1> QED
    BY <1>2, <1>3

(* A job that moves is of a run that has a row.                            *)
LEMMA JobIsPosted ==
    ASSUME DrillTypes, Good, NEW j \in Jobs, job[j] # Bare("absent")
    PROVE  Posted(RunOf(j))
  BY JobFacts DEF Good, PostedOnly, Unknown

(* What is recorded is the case's decision, and the ledger answers what    *)
(* the case expects.                                                       *)
LEMMA RecordIsSaid ==
    ASSUME DrillTypes, Good, NEW j \in Jobs, WorkerStep(j),
           ledger'[RunOf(j)] # ledger[RunOf(j)]
    PROVE  /\ case \in 1 .. Len(suite) /\ case \in 1 .. 2
           /\ RunOf(j) = RunIs(case) /\ Asks(case)
           /\ ~Done(case) /\ Done(case)'
           /\ step \in Behind \ Answered
           /\ Outcome(RunOf(j), job[j].arg) = Verdict(suite, case)
  <1> DEFINE r == RunOf(j)
  <1>1. JobStep(j) /\ ClaimInv
    BY DEF WorkerStep, Good
  <1>2. /\ r \in Runs /\ ~Settled(r) /\ ledger'[r] # "none"
        /\ job[j].arg = decision[r] /\ decision[r] # "none"
    BY <1>1, JobEffects
  <1>3. PICK m \in 1 .. 2 : r = RunIs(m) /\ Past(m, Behind) /\ Asks(m)
    BY <1>2 DEF Good, DecidedAsSaid
  <1>4. ~Done(m) /\ ~Past(m, Answered)
    BY <1>2, <1>3, DoneFacts DEF Done
  <1>5. m = case /\ step \in Behind \ Answered
    BY <1>3, <1>4 DEF Past
  <1>6. case \in 1 .. Len(suite)
    BY <1>5, CaseFacts DEF Answered
  <1>7. order = Initially(suite, case)
    BY <1>3, <1>4, <1>5 DEF Good, TablesFollow, OrderFollows
  <1>8. job[j].arg = suite[case].choice
    BY <1>2, <1>3, <1>5, DoneFacts
  <1>9. proposed[r] = 1
    <2>1. Past(case, Found)
      BY <1>5 DEF Past, Behind
    <2>2. case <= Len(suite)
      BY CaseFacts
    <2> QED
      BY <1>3, <1>4, <1>5, <2>1, <2>2 DEF Good, Waiting, WaitsAt, StaysAt
  <1>10. RightOn(Initially(suite, case), suite[case])
         /\ (suite[case].event = "amount-changed" => case = 1)
    BY <1>3, <1>5, <1>6, SuiteFacts DEF Singles
  <1>11. quantity = IF suite[case].event = "amount-changed" THEN 2 ELSE 1
    BY <1>5, <1>10 DEF Good, TablesFollow, QuantityFollows, Behind
  <1>12. Outcome(r, job[j].arg) = Verdict(suite, case)
    BY <1>7, <1>8, <1>9, <1>10, <1>11 DEF Outcome, Verdict, VerdictOn, RightOn
  <1>13. Done(case)'
    BY <1>2, <1>3, <1>5 DEF Done, Settled, WorkerStep, evaluator, RunIs
  <1>14. case \in 1 .. 2
    BY <1>5
  <1> QED
    BY <1>3, <1>4, <1>5, <1>6, <1>12, <1>13, <1>14

(* The tables after a step of the worker.                                  *)
LEMMA TablesStep ==
    ASSUME DrillTypes, Good, NEW j \in Jobs, WorkerStep(j)
    PROVE  \/ UNCHANGED <<ledger, order, actions, outcome>>
           \/ /\ case \in 1 .. Len(suite) /\ case \in 1 .. 2 /\ Asks(case)
              /\ ~Done(case) /\ Done(case)'
              /\ step \in Behind \ Answered
              /\ \A q \in Runs \ {RunIs(case)} :
                     ledger'[q] = ledger[q] /\ outcome'[q] = outcome[q]
              /\ outcome'[RunIs(case)] = Verdict(suite, case)
              /\ order' = suite[case].expected
              /\ actions' = IF Verdict(suite, case) = "approved"
                            THEN actions \cup {RunIs(case)} ELSE actions
  <1>1. JobStep(j) /\ ClaimInv
    BY DEF WorkerStep, Good
  <1>2. CASE ledger'[RunOf(j)] = ledger[RunOf(j)]
    <2>1. ledger' = ledger
      <3>1. \A q \in Runs : ledger'[q] = ledger[q]
        BY <1>1, <1>2, JobEffects
      <3>2. ledger \in [Runs -> Choices \cup {"none"}]
            /\ ledger' \in [Runs -> Choices \cup {"none"}]
        BY <1>1, ClaimStep DEF ClaimInv, TypeOK, Next
      <3> QED
        BY <3>1, <3>2
    <2> QED
      BY <1>2, <2>1 DEF WorkerStep
  <1>3. CASE ledger'[RunOf(j)] # ledger[RunOf(j)]
    <2> DEFINE r == RunOf(j)
               o == Outcome(r, job[j].arg)
    <2>1. /\ case \in 1 .. Len(suite) /\ case \in 1 .. 2 /\ Asks(case)
          /\ r = RunIs(case) /\ ~Done(case) /\ Done(case)'
          /\ step \in Behind \ Answered
          /\ o = Verdict(suite, case)
      BY <1>3, RecordIsSaid
    <2>2. Settle(r, job[j].arg)
      BY <1>3 DEF WorkerStep
    <2>3. /\ \A q \in Runs \ {r} : ledger'[q] = ledger[q]
      BY <1>1, JobEffects
    <2>4. outcome'[r] = o /\ \A q \in Runs \ {r} : outcome'[q] = outcome[q]
      BY <2>2, <1>1, JobEffects DEF Settle, DrillTypes
    <2>5. order' = suite[case].expected
      <3>1. order' = IF o \in {"approved", "rejected"} THEN o ELSE order
        BY <2>2 DEF Settle
      <3>2. order = Initially(suite, case)
        BY <2>1 DEF Good, TablesFollow, OrderFollows
      <3>3. RightOn(Initially(suite, case), suite[case])
        BY <2>1, SuiteFacts
      <3> QED
        BY <2>1, <3>1, <3>2, <3>3 DEF RightOn, Verdict
    <2>6. actions' = IF o = "approved" THEN actions \cup {r} ELSE actions
      BY <2>2 DEF Settle
    <2> QED
      BY <2>1, <2>3, <2>4, <2>5, <2>6
  <1> QED
    BY <1>2, <1>3

-----------------------------------------------------------------------------
(* What happens beside the evaluator keeps the invariant.                  *)

(* Barrier, startup and scans write nothing durable; they take and visit   *)
(* runs that look incomplete.                                              *)
LEMMA QuietBeside ==
    ASSUME TypeOK, Aside
    PROVE  /\ UNCHANGED <<status, decision, checkpoint, lock, ledger, faults>>
           /\ UNCHANGED database
           /\ job' \in [Jobs -> JobStates]
           /\ \A j \in Jobs : \/ job'[j] = job[j]
                              \/ job'[j] = Bare("queued") /\ RunOf(j) \in scan
           /\ scan' \in SUBSET Runs
           /\ \A r \in scan' : r \in scan \/ LooksIncomplete(r)
  <1>1. job \in [Jobs -> JobStates] /\ scan \in SUBSET Runs
    BY DEF TypeOK, JobStates
  <1>2. ASSUME NEW j \in Jobs, Hold(j) PROVE UNCHANGED <<vars, database>>
    BY <1>2 DEF Hold
  <1>3. CASE Started
    BY <1>1, <1>3 DEF Started, vars
  <1>4. CASE Startup
    BY <1>1, <1>4 DEF Startup
  <1>5. CASE Scan
    <2>1. CASE Select
      BY <1>1, <1>5, <2>1 DEF Scan, Select, evaluator, database
    <2>2. ASSUME NEW r \in Runs, Visit(r)
          PROVE  /\ UNCHANGED <<status, decision, checkpoint, lock, ledger, faults>>
                 /\ job' \in [Jobs -> JobStates]
                 /\ \A j \in Jobs : \/ job'[j] = job[j]
                                    \/ job'[j] = Bare("queued") /\ RunOf(j) \in scan
                 /\ scan' \subseteq scan
      <3>1. <<r, "recovery">> \in Jobs /\ RunOf(<<r, "recovery">>) = r
        BY JobOfRun DEF Kinds
      <3>2. Bare("queued") \in JobStates
        BY BareJob
      <3>3. job' = job \/ Enqueue(<<r, "recovery">>, Bare("queued"))
        BY <2>2 DEF Visit
      <3>4. /\ job' \in [Jobs -> JobStates]
            /\ \A j \in Jobs \ {<<r, "recovery">>} : job'[j] = job[j]
            /\ job'[<<r, "recovery">>] \in {job[<<r, "recovery">>], Bare("queued")}
        BY <1>1, <3>1, <3>2, <3>3, EnqueueFacts
      <3> QED
        BY <2>2, <3>1, <3>4 DEF Visit
    <2> QED
      BY <1>1, <1>5, <2>1, <2>2 DEF Scan
  <1>6. CASE UNCHANGED drillVars
    BY <1>1, <1>6 DEF drillVars, vars
  <1> QED
    BY <1>1, <1>2, <1>3, <1>4, <1>5, <1>6 DEF Aside, Boot, vars

(* The evaluator's state and the tables keep their types.                  *)
LEMMA BesideTypes ==
    ASSUME DrillTypes, Beside
    PROVE  DrillTypes'
  <1>1. UNCHANGED <<suite, case, step, quantity>>
    BY BesideFrame
  <1>2. CASE Aside
    <2>1. UNCHANGED database
      BY <1>2 DEF Aside, Boot, Startup, Started, Scan, Hold, drillVars
    <2>2. worker' \in {"up", "booting", "recovering", "killed"}
      BY <1>2
         DEF DrillTypes, Aside, Boot, Startup, Started, Scan, Hold, drillVars,
             drill
    <2> QED
      BY <1>1, <2>1, <2>2 DEF DrillTypes, database
  <1>3. ASSUME NEW j \in Jobs, WorkerStep(j) PROVE DrillTypes'
    <2>1. RunOf(j) \in Runs
      BY JobFacts
    <2>2. Outcome(RunOf(j), job[j].arg) \in
              {"not_found", "already", "amount_changed", "approved", "rejected"}
      BY DEF Outcome
    <2>3. /\ outcome' = outcome
             \/ outcome' = [outcome EXCEPT ![RunOf(j)] =
                                 Outcome(RunOf(j), job[j].arg)]
          /\ proposed' = proposed
             \/ proposed' = [proposed EXCEPT ![RunOf(j)] = quantity]
          /\ worker' = worker
      BY <1>3 DEF WorkerStep, Settle, drill
    <2>4. /\ outcome' \in [Runs -> {"not_found", "already", "amount_changed",
                                    "approved", "rejected", NoOutcome}]
          /\ proposed' \in [Runs -> 0 .. 2]
      BY <2>1, <2>2, <2>3 DEF DrillTypes
    <2> QED
      BY <1>1, <2>3, <2>4 DEF DrillTypes
  <1> QED
    BY <1>2, <1>3 DEF Beside

(* Where the evaluator is says the same of every case.                     *)
LEMMA BesidePast ==
    ASSUME Beside
    PROVE  /\ \A n, steps : Past(n, steps)' <=> Past(n, steps)
           /\ \A n : Asks(n)' <=> Asks(n)
           /\ \A r : Posted(r)' <=> Posted(r)
           /\ Torn' <=> Torn
           /\ Initially(suite, case)' = Initially(suite, case)
  BY BesideFrame
     DEF Past, Asks, Posted, Torn, Initially, Posting, Following, Found,
         EvaluatorSteps

(* Only runs with a row are scanned and worked on.                         *)
LEMMA BesidePosted ==
    ASSUME DrillTypes, Good, Beside
    PROVE  PostedOnly'
  <1> SUFFICES ASSUME NEW r \in Runs, ~Posted(r)
               PROVE  Unknown(r)'
    BY BesidePast DEF PostedOnly
  <1>1. Unknown(r) /\ TypeOK
    BY DEF Good, PostedOnly, ClaimInv
  <1>2. CASE Aside
    <2>1. r \notin scan'
      BY <1>1, <1>2, QuietBeside DEF Unknown, LooksIncomplete
    <2>2. \A j \in Jobs : RunOf(j) = r => job'[j] = Bare("absent")
      BY <1>1, <1>2, QuietBeside DEF Unknown
    <2> QED
      BY <1>1, <1>2, <2>1, <2>2, QuietBeside DEF Unknown
  <1>3. ASSUME NEW j \in Jobs, WorkerStep(j) PROVE Unknown(r)'
    <2>1. JobStep(j) /\ ClaimInv
      BY <1>3 DEF WorkerStep, Good
    <2>2. job[j] # Bare("absent")
      BY <2>1, JobEffects
    <2>3. RunOf(j) # r
      BY <1>1, <2>2 DEF Unknown
    <2>4. status'[r] = status[r] /\ UNCHANGED <<decision, scan>>
      BY <2>1, <2>3, JobEffects
    <2>5. \A k \in Jobs : RunOf(k) = r => job'[k] = job[k]
      BY <2>1, <2>3, JobEffects
    <2> QED
      BY <1>1, <2>4, <2>5 DEF Unknown
  <1> QED
    BY <1>2, <1>3 DEF Beside

(* A refund that nobody has recorded is on its way to its pause, and stays *)
(* there: no job of the thread gets past it without the ledger.            *)
LEMMA JobWaits ==
    ASSUME DrillTypes, Good, NEW j \in Jobs, WorkerStep(j),
           NEW n \in 1 .. 2, n <= Len(suite), Asks(n), ~Done(n), ~Done(n)'
    PROVE  /\ WaitsAt(RunIs(n), Thread(n))'
           /\ Past(n, Found) => StaysAt(RunIs(n), Thread(n))'
  <1> DEFINE r == RunIs(n)
             t == Thread(n)
  <1>1. /\ r \in Runs /\ t \in Threads /\ ThreadOf[r] = t
        /\ RunOf(j) \in Runs /\ Lane(j) \in Threads
    BY RunFacts, JobFacts
  <1>2. JobStep(j) /\ ClaimInv /\ TypeOK /\ Honest(j)
    BY DEF WorkerStep, Good, ClaimInv
  <1>3. job[j] # Bare("absent") /\ \A k \in Jobs \ {j} : job'[k] = job[k]
    BY <1>2, JobEffects
  <1>4. WaitsAt(r, t) /\ (Past(n, Found) => StaysAt(r, t))
    BY DEF Good, Waiting
  <1>5. r' = r /\ t' = t
    BY DEF RunIs, Thread
  <1>6. CASE Lane(j) # t
    <2>1. RunOf(j) # r
      BY <1>1, <1>6 DEF Lane
    <2>2. checkpoint'[t] = checkpoint[t] /\ status'[r] = status[r]
      BY <1>1, <1>2, <1>6, <2>1, JobEffects
    <2>3. proposed'[r] = proposed[r]
      BY <1>1, <2>1 DEF WorkerStep, DrillTypes
    <2>4. \A k \in Jobs : RunOf(k) = r => job'[k] = job[k]
      BY <1>3, <2>1
    <2> QED
      BY <1>4, <1>5, <2>2, <2>3, <2>4 DEF WaitsAt, StaysAt
  <1>7. CASE Lane(j) = t
    <2>1. RunOf(j) = r
      BY <1>3, <1>7, JobOfFirst
    <2>2. checkpoint[t] \in {[run |-> NoRun, at |-> "empty"],
                             [run |-> r, at |-> "working"],
                             [run |-> r, at |-> "paused"]}
          /\ NoRun # r
      BY <1>1, <1>4, LifecycleAssumption DEF WaitsAt
    <2>3. /\ job[j].stage \notin {"settled", "refunded", "failing"}
          /\ job[j].stage = "report" => checkpoint[t].at = "paused"
      BY <1>4, <2>1 DEF WaitsAt
    <2>4. job[j].arg # "none" => StaysAt(r, t)
      <3>1. job[j].arg # "none" => decision[r] # "none"
        BY <1>2, <2>1 DEF Honest, CarriesClaim
      <3>2. Past(n, Behind) => Past(n, Found)
        BY DEF Past, Behind
      <3> QED
        BY <1>4, <3>1, <3>2, DoneFacts
    <2>5. checkpoint[t].at = "paused" => SameRun(j)
      BY <1>7, <2>1, <2>2 DEF SameRun
    <2>6. ~Refused(j)
      BY <1>7, <2>1, <2>4, <2>5 DEF Refused, StaysAt, SameRun, Paused
    <2>7. ~Record(j)
      <3>1. At(j, "resume") => job[j].arg # "none"
        BY <1>2 DEF Honest, Resumes
      <3>2. Record(j) => ledger' = [ledger EXCEPT ![r] = job[j].arg]
        BY <2>1 DEF Record, Done, Settled
      <3>3. ledger'[r] = "none"
        BY DEF Done, Settled, RunIs
      <3> QED
        BY <1>1, <1>2, <3>1, <3>2, <3>3 DEF TypeOK, Record
    <2>8. /\ JobStep(j) => \/ Start(j) \/ Acquire(j) \/ Enter(j) \/ Input(j)
                            \/ Route(j) \/ Report(j)
          /\ \A k \in Jobs : RunOf(k) = r =>
                 /\ job[k].stage \notin {"settled", "refunded", "failing"}
                 /\ job[k].stage = "report" => checkpoint[t].at = "paused"
      BY <1>4, <2>3, <2>6, <2>7 DEF JobStep, Refuse, SaveRefund, Respond,
                                    WriteFailed, At, WaitsAt
    <2>9. CASE Start(j) \/ Acquire(j) \/ Enter(j) \/ Report(j)
      <3>1. checkpoint' = checkpoint
        BY <2>9 DEF Start, Acquire, Enter, Report
      <3>2. proposed' = proposed
        BY <2>9 DEF WorkerStep, Start, Acquire, Enter, Report, At
      <3>3. /\ job'[j].stage \notin {"fresh", "working", "settled", "refunded",
                                     "failing", "report"}
            \/ /\ Enter(j) /\ job'[j].stage = Plan(j)
        BY <1>2, <2>9
           DEF Start, Acquire, Enter, Report, Leave, Goto, Bare, TypeOK
      <3>4. /\ Plan(j) \notin {"settled", "refunded", "failing"}
            /\ Plan(j) = "report" => checkpoint[t].at = "paused"
            /\ StaysAt(r, t) => Plan(j) \notin {"fresh", "working"}
        BY <1>7, <2>1, <2>2, <2>5 DEF Plan, SameRun, StaysAt
      <3>5. status'[r] \notin {"completed", "failed"}
        <4>1. Report(j) => status'[r] = "awaiting_approval"
          BY <1>1, <1>2, <1>7, <2>1, <2>3 DEF Report, Paused, At, TypeOK
        <4>2. Enter(j) => status'[r] = "running"
          BY <1>1, <1>2, <2>1 DEF Enter, TypeOK
        <4> QED
          BY <1>4, <2>9, <4>1, <4>2 DEF Start, Acquire, WaitsAt
      <3>6. \A k \in Jobs : RunOf(k) = r =>
                /\ job'[k].stage \notin {"settled", "refunded", "failing"}
                /\ job'[k].stage = "report" => checkpoint[t].at = "paused"
                /\ StaysAt(r, t) => job'[k].stage \notin {"fresh", "working"}
        BY <1>3, <2>8, <3>3, <3>4 DEF StaysAt
      <3> QED
        BY <1>4, <1>5, <3>1, <3>2, <3>5, <3>6 DEF WaitsAt, StaysAt
    <2>10. CASE Input(j) \/ Route(j)
      <3>1. job[j].stage \in {"fresh", "working"} /\ ~Past(n, Found)
        BY <1>4, <2>1, <2>10 DEF Input, Route, At, StaysAt
      <3>2. ~Torn /\ quantity = 1
        <4>1. ~(/\ case = 1 /\ suite[1].event \in Singles
                /\ step \in Found \ {"event"})
          <5>1. case = 1 /\ suite[1].event \in Singles => n = 1
            BY CaseFacts, SuiteFacts
          <5> QED
            BY <3>1, <5>1 DEF Past
        <4> QED
          BY <4>1 DEF Torn, Good, TablesFollow, QuantityFollows, Singles
      <3>3. KnowsCheckpoint(j)
        BY <3>2 DEF Good, IInv, JobOK
      <3>4. checkpoint[t].at # "paused"
        BY <1>7, <3>1, <3>3 DEF KnowsCheckpoint
      <3>5. \A k \in Jobs : RunOf(k) = r => job[k].stage # "report"
        BY <2>8, <3>4
      <3>6. status' = status
        BY <2>10 DEF Input, Route
      <3>7. CASE Input(j)
        <4>1. checkpoint'[t] = [run |-> r, at |-> "working"]
          BY <1>1, <1>2, <1>7, <2>1, <3>7 DEF Input, Save, TypeOK
        <4>2. job'[j].stage = "working"
          BY <1>2, <3>7 DEF Input, Goto, TypeOK
        <4>3. \A k \in Jobs : RunOf(k) = r =>
                  job'[k].stage \notin {"settled", "refunded", "failing", "report"}
          BY <1>3, <2>8, <3>5, <4>2
        <4> QED
          BY <1>4, <1>5, <3>1, <3>6, <4>1, <4>3 DEF WaitsAt
      <3>8. CASE Route(j)
        <4>1. \E at \in {"paused", "done"} : checkpoint'[t] = [run |-> r, at |-> at]
          BY <1>1, <1>2, <1>7, <2>1, <3>8 DEF Route, Save, TypeOK
        <4>2. checkpoint'[t].at = "paused"
          BY <1>7, <2>1, <3>8, RefundRuns DEF WorkerStep, Route, At
        <4>3. checkpoint'[t] = [run |-> r, at |-> "paused"]
          BY <4>1, <4>2
        <4>4. proposed'[r] = 1
          BY <1>1, <2>1, <3>2, <3>8 DEF WorkerStep, Route, DrillTypes
        <4>5. job'[j].stage = "report"
          BY <1>2, <3>8 DEF Route, Goto, TypeOK
        <4>6. \A k \in Jobs : RunOf(k) = r =>
                  job'[k].stage \notin {"settled", "refunded", "failing"}
          BY <1>3, <2>8, <4>5
        <4> QED
          BY <1>4, <1>5, <3>1, <3>6, <4>3, <4>4, <4>6 DEF WaitsAt
      <3> QED
        BY <2>10, <3>7, <3>8
    <2> QED
      BY <1>2, <2>8, <2>9, <2>10
  <1> QED
    BY <1>6, <1>7

LEMMA BesideWaits ==
    ASSUME DrillTypes, Good, Beside
    PROVE  Waiting'
  <1>1. UNCHANGED <<suite, case, step>> /\ TypeOK
    BY BesideFrame DEF Good, ClaimInv
  <1> SUFFICES ASSUME NEW n \in 1 .. 2, n <= Len(suite), Asks(n), ~Done(n)'
               PROVE  /\ WaitsAt(RunIs(n), Thread(n))'
                      /\ Past(n, Found) => StaysAt(RunIs(n), Thread(n))'
    BY <1>1, BesidePast DEF Waiting
  <1>2. CASE Aside
    <2>1. UNCHANGED <<status, checkpoint, ledger, database>>
      BY <1>1, <1>2, QuietBeside
    <2>2. \A j \in Jobs : job'[j] = job[j] \/ job'[j].stage = "queued"
      BY <1>1, <1>2, QuietBeside, BareJob
    <2>3. ~Done(n)
      BY <2>1 DEF Done, Settled, RunIs
    <2>4. /\ WaitsAt(RunIs(n), Thread(n))
          /\ Past(n, Found) => StaysAt(RunIs(n), Thread(n))
      BY <2>3 DEF Good, Waiting
    <2> QED
      BY <2>1, <2>2, <2>4 DEF WaitsAt, StaysAt, RunIs, Thread, database
  <1>3. ASSUME NEW j \in Jobs, WorkerStep(j)
        PROVE  /\ WaitsAt(RunIs(n), Thread(n))'
               /\ Past(n, Found) => StaysAt(RunIs(n), Thread(n))'
    <2>1. JobStep(j) /\ ClaimInv /\ RunIs(n) \in Runs
      BY <1>3, RunFacts DEF WorkerStep, Good
    <2>2. ~Done(n)
      BY <2>1, JobEffects DEF Done, Settled, RunIs
    <2> QED
      BY <1>3, <2>2, JobWaits
  <1> QED
    BY <1>2, <1>3 DEF Beside

LEMMA BesideTables ==
    ASSUME DrillTypes, Good, Beside
    PROVE  TablesFollow' /\ Remembered'
  <1>1. UNCHANGED <<suite, case, step, before, quantity>> /\ TypeOK
        /\ case \in 0 .. 2
    BY BesideFrame, CaseFacts DEF Good, ClaimInv
  <1>2. QuantityFollows'
    BY <1>1
       DEF Good, TablesFollow, QuantityFollows, Found, Posting, EvaluatorSteps
  <1>3. CASE UNCHANGED <<ledger, order, actions, outcome>>
    <2>1. \A n \in 1 .. 2 : /\ Done(n)' <=> Done(n)
                            /\ Verdict(suite, n)' = Verdict(suite, n)
      BY <1>1, <1>3 DEF Done, Settled, RunIs, Verdict, VerdictOn, Initially
    <2>2. OrderFollows'
      BY <1>1, <1>3, BesidePast
         DEF Good, TablesFollow, OrderFollows, Done, Settled, RunIs
    <2>3. ActionsFollow'
      BY <1>1, <1>3, <2>1 DEF Good, TablesFollow, ActionsFollow, RunIs
    <2>4. TablesFollow'
      BY <1>1, <1>2, <1>3, <2>1, <2>2, <2>3, BesidePast
         DEF Good, TablesFollow, RunIs
    <2>5. Snapshot' = Snapshot
      BY <1>1, <1>3 DEF Snapshot
    <2> QED
      BY <1>1, <1>3, <2>4, <2>5, BesidePast DEF Good, Remembered, First
  <1>4. ASSUME NEW j \in Jobs, WorkerStep(j),
               ~UNCHANGED <<ledger, order, actions, outcome>>
        PROVE  TablesFollow' /\ Remembered'
    <2>1. /\ case \in 1 .. Len(suite) /\ case \in 1 .. 2 /\ Asks(case)
          /\ ~Done(case) /\ Done(case)'
          /\ step \in Behind \ Answered
          /\ \A q \in Runs \ {RunIs(case)} :
                 ledger'[q] = ledger[q] /\ outcome'[q] = outcome[q]
          /\ outcome'[RunIs(case)] = Verdict(suite, case)
          /\ order' = suite[case].expected
          /\ actions' = IF Verdict(suite, case) = "approved"
                        THEN actions \cup {RunIs(case)} ELSE actions
      BY <1>4, TablesStep
    <2>2. \A n \in 1 .. 2 : /\ RunIs(n)' = RunIs(n)
                            /\ Verdict(suite, n)' = Verdict(suite, n)
                            /\ n # case => (Done(n)' <=> Done(n))
      <3>1. \A n \in 1 .. 2 : n # case => RunIs(n) \in Runs \ {RunIs(case)}
        BY <2>1, RunFacts
      <3> QED
        BY <1>1, <2>1, <3>1
           DEF RunIs, Verdict, VerdictOn, Initially, Done, Settled
    <2>3. OrderFollows'
      BY <1>1, <2>1 DEF OrderFollows
    <2>4. ActionsFollow'
      BY <1>1, <2>1, <2>2, RunFacts DEF Good, TablesFollow, ActionsFollow
    <2>5. \A n \in 1 .. 2 : n <= case /\ Done(n)' =>
                                outcome'[RunIs(n)] = Verdict(suite, n)
      BY <2>1, <2>2, RunFacts DEF Good, TablesFollow
    <2>6. \A n \in 1 .. 2 : Past(n, Answered)' /\ Asks(n)' => Done(n)'
      BY <2>1, <2>2, BesidePast DEF Good, TablesFollow
    <2>7. TablesFollow'
      BY <1>1, <1>2, <2>2, <2>3, <2>4, <2>5, <2>6 DEF TablesFollow
    <2>8. First = RunIs(case) /\ First' = First
      BY <1>1, CaseFacts DEF First
    <2>9. step \notin {"next", "post", "poll", "follow", "followed", "score"}
      BY <2>1 DEF Behind, Found, Posting, Answered
    <2>10. before.actions = actions' \ {First}
      BY <2>1, <2>8, <2>9 DEF Good, Remembered
    <2>11. \A q \in Runs \ {First} :
               before.ledger[q] = ledger'[q] /\ before.outcome[q] = outcome'[q]
      BY <2>1, <2>8, <2>9 DEF Good, Remembered
    <2> QED
      BY <1>1, <2>7, <2>8, <2>9, <2>10, <2>11 DEF Remembered
  <1>5. CASE Aside
    BY <1>1, <1>3, <1>5, QuietBeside DEF database
  <1> QED
    BY <1>3, <1>4, <1>5 DEF Beside

(* The barrier keeps what the armed run has reached.                       *)
LEMMA BesideHolds ==
    ASSUME DrillTypes, Good, Beside
    PROVE  HeldFast' /\ MemoryLost'
  <1>1. UNCHANGED <<suite, case, step>> /\ TypeOK /\ (Armed' <=> Armed)
        /\ HeldFast /\ MemoryLost
    BY BesideFrame DEF Good, ClaimInv, Armed
  <1>2. RunIs(1) \in Runs /\ RunIs(1)' = RunIs(1) /\ Thread(1)' = Thread(1)
        /\ Thread(1) \in Threads /\ RunIs(1) # NoRun
    BY RunFacts, LifecycleAssumption DEF RunIs, Thread
  <1>3. CASE Aside /\ ~\E j \in Jobs : Hold(j)
    <2>1. UNCHANGED <<checkpoint, ledger>>
          /\ \A j \in Jobs : job'[j] = job[j] \/ job'[j].stage = "queued"
      BY <1>1, <1>3, QuietBeside, BareJob
    <2>2. UNCHANGED <<armed, committed>> /\ (worker = "killed" => worker' = "killed")
          /\ (worker' # "up" => worker # "up")
      BY <1>3 DEF Aside, Boot, Startup, Started, Scan, drillVars, drill
    <2> QED
      BY <1>1, <1>2, <2>1, <2>2 DEF HeldFast, MemoryLost, Held, Done, Settled
  <1>4. ASSUME NEW j \in Jobs, Hold(j) PROVE HeldFast' /\ MemoryLost'
    <2>1. UNCHANGED <<checkpoint, ledger>>
      BY <1>4 DEF Hold, vars
    <2>2. /\ worker = "up" /\ worker' = "up"
          /\ armed = RunOf(j) /\ armed' = NoRun /\ committed' = RunOf(j)
      BY <1>4 DEF Hold
    <2>3. armed = RunIs(1)
      BY <1>1, <2>2, JobFacts, LifecycleAssumption DEF HeldFast
    <2> QED
      BY <1>1, <1>2, <2>1, <2>2, <2>3
         DEF HeldFast, MemoryLost, Held, Done, Settled
  <1>5. ASSUME NEW j \in Jobs, WorkerStep(j) PROVE HeldFast' /\ MemoryLost'
    <2>1. JobStep(j) /\ ClaimInv /\ worker = "up" /\ UNCHANGED drill
      BY <1>5 DEF WorkerStep, Good
    <2>2. Done(1) => Done(1)'
      BY <1>2, <2>1, JobEffects DEF Done, Settled
    <2>3. ASSUME Armed,
                 step \in {"decide", "enqueue", "commit", "barrier", "kill", "flush"}
          PROVE  checkpoint'[Thread(1)] = checkpoint[Thread(1)]
      <3>1. /\ checkpoint[Thread(1)] = [run |-> RunIs(1), at |-> "paused"]
            /\ step # "flush" /\ Held(RunIs(1))
        BY <1>1, <2>1, <2>3 DEF HeldFast
      <3>2. ~Torn /\ IInv
        BY <2>3 DEF Armed, Torn, Good
      <3>3. CASE Lane(j) # Thread(1)
        BY <1>2, <2>1, <3>3, JobEffects
      <3>4. CASE Lane(j) = Thread(1)
        <4>1. job[j] # Bare("absent")
          BY <2>1, JobEffects
        <4>2. Asks(1) /\ suite[1].event # "multi-turn"
          <5>1. 1 \in 1 .. Len(suite)
            BY CaseFacts
          <5> QED
            BY <2>3, <5>1, SuiteFacts DEF Armed
        <4>3. RunOf(j) = RunIs(1)
          BY <3>4, <4>1, <4>2, JobOfFirst
        <4>4. KnowsCheckpoint(j) /\ (At(j, "settled") => ~Held(RunOf(j)))
          BY <1>5, <3>2 DEF IInv, JobOK, WorkerStep
        <4>5. job[j].stage \notin {"working", "settled", "refunded"}
          BY <3>1, <3>4, <4>3, <4>4 DEF KnowsCheckpoint, At
        <4>6. job[j].stage # "fresh"
          BY <3>1, <3>4, <4>4 DEF KnowsCheckpoint
        <4> QED
          BY <2>1, <4>5, <4>6 DEF JobStep, Start, Acquire, Refuse, Enter, Input,
             Route, Record, SaveRefund, Respond, Report, WriteFailed, At
      <3> QED
        BY <3>3, <3>4
    <2>4. UNCHANGED <<armed, committed, worker>>
      BY <2>1 DEF drill
    <2>5. HeldFast'
      BY <1>1, <1>2, <2>2, <2>3, <2>4 DEF HeldFast, Held
    <2> QED
      BY <2>1, <2>4, <2>5 DEF MemoryLost
  <1> QED
    BY <1>3, <1>4, <1>5 DEF Beside, Aside

(* The drill takes steps of the lifecycle, and starts workers without jobs.*)
LEMMA BesideLives ==
    ASSUME DrillTypes, Good, Beside
    PROVE  ClaimInv' /\ (Torn' \/ IInv')
  <1>1. ClaimInv /\ (Torn \/ IInv) /\ (Torn' <=> Torn)
    BY BesidePast DEF Good
  <1>2. CASE [Next]_vars
    BY <1>1, <1>2, ClaimStep, LifecycleStep
  <1>3. CASE Startup
    <2>1. UNCHANGED <<status, decision, checkpoint, ledger, faults, job, lock>>
          /\ scan' \in SUBSET Runs /\ worker # "up"
      BY <1>3 DEF Startup
    <2>2. TypeOK
      BY <1>1 DEF ClaimInv
    <2>3. JobsDropped /\ \A j \in Jobs : job'[j].stage \notin Critical
      BY <2>1, <2>2
         DEF JobsDropped, TypeOK, JobStates, Good, MemoryLost, Critical
    <2>4. /\ lock' \in [Threads -> Jobs \cup {NoJob, OrphanLock}]
          /\ faults' \in 0 .. MaxFaults
      BY <2>1, <2>2 DEF TypeOK
    <2> QED
      BY <1>1, <2>1, <2>3, <2>4, DropKeeps, DropKeepsClaims
  <1>4. Startup \/ [Next]_vars
    BY DEF Beside, Aside, Boot, WorkerStep, Hold, Started, Scan, Next, drillVars
  <1> QED
    BY <1>2, <1>3, <1>4

LEMMA BesideKeeps ==
    ASSUME DInv, Beside
    PROVE  DInv'
  <1>1. DrillTypes /\ DrillTypes'
    BY BesideTypes DEF DInv
  <1>2. UNCHANGED <<suite, case, step, failed>>
    BY BesideFrame
  <1>3. StepFits' /\ StoppedShort' /\ (GaveUp' <=> GaveUp)
    BY <1>2
       DEF DInv, StepFits, StoppedShort, GaveUp, Asks, Case, Answered,
           CrashSteps
  <1>4. ASSUME Good PROVE Good'
    <2>1. PostedOnly' /\ Waiting' /\ TablesFollow' /\ Remembered' /\ HeldFast'
          /\ MemoryLost' /\ ClaimInv' /\ (Torn' \/ IInv')
      BY <1>1, <1>4, BesidePosted, BesideWaits, BesideTables, BesideHolds,
         BesideLives
    <2>2. DecidedAsSaid'
      <3>1. decision' = decision
        BY BesideFrame
      <3> QED
        BY <1>2, <1>4, <3>1, BesidePast DEF Good, DecidedAsSaid, RunIs
    <2>3. Quiet'
      BY <1>2, <1>4 DEF Good, Quiet
    <2> QED
      BY <2>1, <2>2, <2>3 DEF Good
  <1> QED
    BY <1>1, <1>3, <1>4 DEF DInv

-----------------------------------------------------------------------------
(* The evaluator keeps the invariant.                                      *)

LEMMA EvaluateTypes ==
    ASSUME DrillTypes, StepFits, Evaluate
    PROVE  DrillTypes'
  <1>1. UNCHANGED <<suite, outcome, proposed>>
    BY EvaluateFrame
  <1>2. /\ case' \in 0 .. Len(suite) /\ step' \in EvaluatorSteps
        /\ case' = 0 => step' = "next"
    BY Stride, CaseFacts DEF Posting, EvaluatorSteps
  <1>3. quantity' \in 1 .. 2
    <2>1. quantity' \in {quantity, 2}
      BY DEF Evaluate, Begin, Post, Poll, FlushPaused, RestartWorker,
             OtherEvent, Decide, EnqueueJob, AwaitBarrier, KillWorker,
             FlushRedis, StartWorker, Await, RestartAll, Replay, Score, Follow,
             Followed, database
    <2> QED
      BY <2>1 DEF DrillTypes
  <1>4. worker' \in {"up", "booting", "recovering", "killed"}
    <2>1. worker' \in {worker, "booting", "killed"}
      BY DEF Evaluate, Begin, Post, Poll, FlushPaused, RestartWorker,
             OtherEvent, Decide, EnqueueJob, AwaitBarrier, KillWorker,
             FlushRedis, StartWorker, Await, RestartAll, Replay, Score, Follow,
             Followed, drill
    <2> QED
      BY <2>1 DEF DrillTypes
  <1> QED
    BY <1>1, <1>2, <1>3, <1>4 DEF DrillTypes

LEMMA EvaluateFits ==
    ASSUME DrillTypes, StepFits, Evaluate
    PROVE  StepFits'
  <1>1. CASE Begin
    <2>1. step' = "post"
      BY <1>1 DEF Begin
    <2> QED
      BY <2>1 DEF StepFits, CrashSteps
  <1>2. CASE step # "next"
    <2>1. /\ case' = case /\ suite' = suite /\ Case' = Case
          /\ Asks(case)' <=> Asks(case)
          /\ Case = suite[case] /\ case \in 1 .. Len(suite)
      BY <1>2, Stride, EvaluateFrame, CaseFacts DEF Case, Asks
    <2>2. /\ ~Asks(case) => Case.kind = "question" /\ Case.event = "none"
          /\ Asks(case) => Case.kind = "refund"
      BY <2>1, SuiteFacts DEF Asks
    <2> USE <2>1, <2>2 DEF StepFits, CrashSteps, Then
    <2>3. CASE Post \/ Poll \/ FlushPaused \/ RestartWorker \/ OtherEvent \/ Decide
      BY <2>3 DEF Post, Poll, FlushPaused, RestartWorker, OtherEvent, Decide
    <2>4. CASE EnqueueJob \/ AwaitBarrier \/ KillWorker \/ FlushRedis \/ StartWorker
      BY <2>4 DEF EnqueueJob, AwaitBarrier, KillWorker, FlushRedis, StartWorker
    <2>5. CASE Await \/ RestartAll \/ Replay \/ Score \/ Follow \/ Followed
      BY <2>5 DEF Await, RestartAll, Replay, Score, Follow, Followed
    <2> QED
      BY <1>2, <2>3, <2>4, <2>5 DEF Evaluate, Begin
  <1> QED
    BY <1>1, <1>2, Stride

(* Only Decide gives up, and no fault of the drill is left behind it.      *)
LEMMA EvaluateStops ==
    ASSUME DrillTypes, StepFits, StoppedShort, Evaluate
    PROVE  /\ StoppedShort' /\ (GaveUp => GaveUp')
           /\ GaveUp' /\ ~GaveUp => Decide
           /\ Decide /\ ~GaveUp' => Claim(First, Case.choice) /\ step' = "enqueue"
  <1>1. case \in 0 .. 2 /\ (step # "next" => case > 0)
    BY CaseFacts
  <1>2. failed \subseteq failed'
    BY EvaluateFrame
  <1>3. GaveUp' => GaveUp \/ Decide
    <2>1. CASE Begin \/ Post \/ RestartWorker \/ OtherEvent \/ EnqueueJob \/ AwaitBarrier
               \/ KillWorker \/ FlushRedis \/ StartWorker \/ RestartAll \/ Follow
      BY <2>1
         DEF Begin, Post, RestartWorker, OtherEvent, EnqueueJob, AwaitBarrier,
             KillWorker, FlushRedis, StartWorker, RestartAll, Follow, Then,
             GaveUp
    <2>2. CASE Poll \/ FlushPaused \/ Await \/ Replay \/ Followed
      BY <2>2
         DEF Poll, FlushPaused, Await, Replay, Followed, Then, Check, GaveUp
    <2>3. CASE Score
      <3>1. failed' = failed \cup RefundChecks
            \/ failed' = failed \cup Check("database_unchanged", Snapshot = before)
        BY <2>3 DEF Score, Then
      <3>2. "decision_accepted" \notin RefundChecks
        BY DEF RefundChecks, Check
      <3> QED
        BY <3>1, <3>2 DEF GaveUp, Check
    <2> QED
      BY <2>1, <2>2, <2>3 DEF Evaluate
  <1>4. GaveUp' /\ ~GaveUp => Decide
    BY <1>3
  <1>5. CASE Decide
    <2>1. case' = case /\ step = "decide" /\ case > 0
      BY <1>1, <1>5 DEF Decide, Then
    <2>2. \/ Claim(First, Case.choice) /\ step' = "enqueue" /\ failed' = failed
          \/ step' = "wait" /\ GaveUp'
      BY <1>5 DEF Decide, Then, GaveUp
    <2> QED
      BY <1>2, <1>5, <2>1, <2>2 DEF StoppedShort, GaveUp, Answered
  <1>6. CASE ~Decide
    <2>1. GaveUp' <=> GaveUp
      BY <1>2, <1>4, <1>6 DEF GaveUp
    <2>2. GaveUp /\ case = 1 /\ step = "wait" => step' \in Answered \cup {"wait"}
      BY <1>6
         DEF Evaluate, Begin, Post, Poll, FlushPaused, RestartWorker,
             OtherEvent, EnqueueJob, AwaitBarrier, KillWorker, FlushRedis,
             StartWorker, Await, RestartAll, Replay, Score, Follow, Followed,
             Then, Answered
    <2>3. GaveUp => case' > 0 /\ (case' = 1 => case = 1 /\ step # "next")
      BY <1>1, Stride DEF StoppedShort
    <2> QED
      BY <1>4, <1>6, <2>1, <2>2, <2>3, Stride DEF StoppedShort
  <1> QED
    BY <1>5, <1>6

(* A container that stops and a Redis that is flushed take jobs and locks. *)
LEMMA Interrupts ==
    ASSUME TypeOK, Stop(TRUE) \/ Stop(FALSE) \/ Flush
    PROVE  /\ JobsDropped
           /\ lock' \in [Threads -> Jobs \cup {NoJob, OrphanLock}]
           /\ scan' \in SUBSET Runs /\ faults' \in 0 .. MaxFaults
           /\ UNCHANGED <<status, decision, checkpoint, ledger>>
           /\ Stop(TRUE) \/ Stop(FALSE) =>
                  \A j \in Jobs : job'[j].stage \in {"absent", "queued", "waiting"}
  <1>1. \A inQueue \in InQueue : \A j \in inQueue : j \in Jobs /\ At(j, "waiting")
    BY DEF InQueue
  <1>2. job \in [Jobs -> JobStates]
    BY DEF TypeOK, JobStates
  <1>3. ASSUME NEW freed \in BOOLEAN, Stop(freed)
        PROVE  /\ JobsDropped
               /\ lock' \in [Threads -> Jobs \cup {NoJob, OrphanLock}]
               /\ scan' = {}
               /\ UNCHANGED <<status, decision, checkpoint, ledger, faults>>
               /\ \A j \in Jobs : job'[j].stage \in {"absent", "queued", "waiting"}
    <2>1. PICK inQueue \in InQueue :
              job' = [j \in Jobs |-> IF job[j].stage \in InMemory /\ j \notin inQueue
                                     THEN Bare("absent") ELSE job[j]]
      BY <1>3 DEF Stop
    <2>2. JobsDropped
      <3> DEFINE lost == {j \in Jobs : job[j].stage \in InMemory /\ j \notin inQueue}
      <3>1. lost \in SUBSET Jobs
            /\ job' = [j \in Jobs |-> IF j \in lost THEN Bare("absent") ELSE job[j]]
        BY <2>1
      <3> HIDE DEF lost
      <3> QED
        BY <3>1, DroppedFacts
    <2>3. ASSUME NEW j \in Jobs
          PROVE  job'[j].stage \in {"absent", "queued", "waiting"}
      <3>1. job[j].stage \in InMemory \cup {"absent", "queued"}
        BY <1>2 DEF JobStates, Stages
      <3>2. j \in inQueue => job[j].stage = "waiting"
        BY <1>1 DEF At
      <3> QED
        BY <2>1, <3>1, <3>2, BareJob
    <2> QED
      BY <1>3, <2>2, <2>3 DEF Stop, TypeOK
  <1>4. CASE Flush
    <2>1. PICK inQueue \in InQueue :
              job' = [j \in Jobs |-> IF At(j, "queued") \/ j \in inQueue
                                     THEN Bare("absent") ELSE job[j]]
      BY <1>4 DEF Flush
    <2>2. JobsDropped
      <3> DEFINE lost == {j \in Jobs : At(j, "queued") \/ j \in inQueue}
      <3>1. lost \in SUBSET Jobs
            /\ job' = [j \in Jobs |-> IF j \in lost THEN Bare("absent") ELSE job[j]]
        BY <2>1
      <3> HIDE DEF lost
      <3> QED
        BY <3>1, DroppedFacts
    <2>3. /\ lock' = [t \in Threads |-> NoJob]
          /\ UNCHANGED <<status, decision, checkpoint, scan, ledger, faults>>
      BY <1>4 DEF Flush
    <2>4. \A j \in Jobs : job[j].stage \in {"absent", "queued", "waiting"} =>
                              job'[j].stage \in {"absent", "queued", "waiting"}
      BY <2>2, BareJob DEF JobsDropped
    <2> QED
      BY <1>3, <2>2, <2>3 DEF TypeOK
  <1> QED
    BY <1>3, <1>4 DEF TypeOK

(* Jobs come for the runs of the case, or go.                              *)
LEMMA EvaluateJobs ==
    ASSUME TypeOK, DrillTypes, Evaluate
    PROVE  \A j \in Jobs :
               \/ job'[j] \in {job[j], Bare("absent")}
               \/ /\ job'[j].stage = "waiting"
                  /\ \/ (Post \/ EnqueueJob \/ Replay) /\ RunOf(j) = First
                     \/ Follow /\ RunOf(j) = FollowUp
  <1>1. CASE UNCHANGED vars
    BY <1>1 DEF vars
  <1>2. CASE Stop(TRUE) \/ Stop(FALSE) \/ Flush
    BY <1>2, Interrupts DEF JobsDropped
  <1>3. ASSUME NEW r \in Runs, CreateRun(r) \/ EnqueueDecision(r)
        PROVE  \A j \in Jobs : \/ job'[j] = job[j]
                               \/ job'[j].stage = "waiting" /\ RunOf(j) = r
    <2>1. PICK kind \in Kinds, entry \in JobStates :
              Enqueue(<<r, kind>>, entry) /\ entry.stage = "waiting"
      <3>1. CASE CreateRun(r)
        BY <3>1, BareJob DEF CreateRun, Kinds
      <3>2. CASE EnqueueDecision(r)
        BY <3>2 DEF EnqueueDecision, Kinds, JobStates, TypeOK, Stages, InMemory
      <3> QED
        BY <1>3, <3>1, <3>2
    <2>2. <<r, kind>> \in Jobs /\ RunOf(<<r, kind>>) = r
      BY JobOfRun
    <2> QED
      BY <2>1, <2>2, EnqueueFacts
  <1>4. step # "next" => First \in Runs /\ FollowUp \in Runs
    BY CaseFacts, RunFacts
  <1>5. CASE Post
    BY <1>3, <1>4, <1>5 DEF Post
  <1>6. CASE EnqueueJob \/ Replay
    <2>1. EnqueueDecision(First) \/ UNCHANGED vars
      BY <1>6 DEF EnqueueJob, Replay
    <2>2. step # "next"
      BY <1>6 DEF EnqueueJob, Replay
    <2> QED
      BY <1>1, <1>3, <1>4, <1>6, <2>1, <2>2
  <1>7. CASE Follow
    BY <1>3, <1>4, <1>7 DEF Follow
  <1>8. CASE Decide
    BY <1>8 DEF Decide, Claim, vars
  <1>9. UNCHANGED vars \/ Stop(TRUE) \/ Stop(FALSE) \/ Flush \/ Post \/ Decide
        \/ EnqueueJob \/ Replay \/ Follow
    BY DEF Evaluate, Begin, Poll, FlushPaused, RestartWorker, OtherEvent,
           AwaitBarrier, KillWorker, FlushRedis, StartWorker, Await, RestartAll,
           Score, Followed
  <1> QED
    BY <1>1, <1>2, <1>5, <1>6, <1>7, <1>8, <1>9

(* The rows of runs that are not the case's stay as they are.              *)
LEMMA EvaluateRows ==
    ASSUME TypeOK, DrillTypes, Evaluate
    PROVE  /\ \A r \in Runs :
                  \/ status'[r] = status[r]
                  \/ /\ status'[r] = "queued"
                     /\ (Post /\ r = First) \/ (Follow /\ r = FollowUp)
           /\ decision' = decision \/ (Decide /\ Claim(First, Case.choice))
  <1>1. CASE Post \/ Follow
    <2>1. First \in Runs /\ FollowUp \in Runs
      BY <1>1, CaseFacts, RunFacts DEF Post, Follow
    <2> QED
      BY <1>1, <2>1 DEF Post, Follow, CreateRun, TypeOK
  <1>2. CASE Decide
    BY <1>2 DEF Decide, Claim, vars
  <1>3. CASE ~(Post \/ Follow \/ Decide)
    BY <1>3
       DEF Evaluate, Begin, Poll, FlushPaused, RestartWorker, OtherEvent,
           EnqueueJob, AwaitBarrier, KillWorker, FlushRedis, StartWorker, Await,
           RestartAll, Replay, Score, Followed, Stop, Flush, EnqueueDecision,
           vars
  <1> QED
    BY <1>1, <1>2, <1>3

(* The cases of the events and of the crash are their suite's only ones.   *)
LEMMA SingleCase ==
    ASSUME DrillTypes, StepFits, step # "next"
    PROVE  /\ case \in 1 .. Len(suite) /\ case \in 1 .. 2
           /\ First = RunIs(case) /\ First \in Runs
           /\ FollowUp = FollowUpOf(case) /\ FollowUp \in Runs
           /\ Case = suite[case] /\ (Case.kind = "question" <=> ~Asks(case))
           /\ Case.event \in Singles => case = 1 /\ Len(suite) = 1
           /\ step \in CrashSteps => Armed
           /\ Asks(case) => RightOn(Initially(suite, case), Case)
           /\ ~Asks(case) => Case.event = "none"
  <1>1. /\ case \in 1 .. Len(suite) /\ case \in 1 .. 2
        /\ First = RunIs(case) /\ Case = suite[case]
        /\ FollowUp = FollowUpOf(case)
    BY CaseFacts
  <1>2. First \in Runs /\ FollowUp \in Runs
    BY <1>1, RunFacts
  <1>3. Case.event \in Singles => case = 1 /\ Len(suite) = 1
    BY <1>1, SuiteFacts
  <1>4. step \in CrashSteps => Armed
    BY <1>1, <1>3 DEF StepFits, Armed, Singles
  <1>5. /\ Case.kind = "question" <=> ~Asks(case)
        /\ Asks(case) => RightOn(Initially(suite, case), Case)
        /\ ~Asks(case) => Case.event = "none"
    BY <1>1, SuiteFacts DEF Asks
  <1> QED
    BY <1>1, <1>2, <1>3, <1>4, <1>5

(* A suite of one ends with its case.                                      *)
LEMMA SingleStays ==
    ASSUME DrillTypes, StepFits, Evaluate, case = 1, Len(suite) = 1
    PROVE  case' = 1 /\ step # "next" /\ suite' = suite
  BY Stride, EvaluateFrame

LEMMA TornStays ==
    ASSUME DrillTypes, StepFits, Evaluate, Torn
    PROVE  Torn'
  <1>1. case = 1 /\ suite[1].event = "redis-loss-paused" /\ step \in Found \ {"event"}
    BY DEF Torn
  <1>2. Len(suite) = 1
    BY <1>1, CaseFacts, SuiteFacts DEF Singles
  <1>3. case' = 1 /\ step # "next" /\ suite' = suite
    BY <1>1, <1>2, SingleStays
  <1>4. step' \in Found /\ (step' = "event" => step = "poll")
    BY <1>1, <1>3, Stride DEF Poll
  <1> QED
    BY <1>1, <1>3, <1>4 DEF Torn, Found

LEMMA EvaluateLives ==
    ASSUME DrillTypes, StepFits, Good, Evaluate
    PROVE  ClaimInv' /\ (Torn' \/ IInv')
  <1>1. ClaimInv /\ (Torn \/ IInv) /\ (Torn => Torn') /\ TypeOK
    BY TornStays DEF Good, ClaimInv
  <1>2. CASE [Next]_vars
    BY <1>1, <1>2, ClaimStep, LifecycleStep
  <1>3. CASE Post \/ Decide \/ EnqueueJob \/ Replay \/ Follow
    <2>1. step # "next" /\ (Decide => Asks(case))
      BY <1>3 DEF Post, Decide, EnqueueJob, Replay, Follow, StepFits
    <2>2. First \in Runs /\ FollowUp \in Runs /\ (Decide => Case.choice \in Choices)
      BY <2>1, SingleCase, DrillAssumption DEF RightOn
    <2>3. [Next]_vars
      BY <1>3, <2>2 DEF Post, Decide, EnqueueJob, Replay, Follow, Next, ApiStep
    <2> QED
      BY <1>2, <2>3
  <1>4. CASE Stop(TRUE) \/ Stop(FALSE)
    <2>1. \A j \in Jobs : job'[j].stage \notin Critical
      BY <1>1, <1>4, Interrupts DEF Critical
    <2> QED
      BY <1>1, <1>4, <2>1, Interrupts, DropKeeps, DropKeepsClaims
  <1>5. CASE FlushPaused
    <2>1. Torn'
      <3>1. step = "event" /\ Case.event = "redis-loss-paused" /\ step' = "decide"
            /\ case' = case /\ suite' = suite
        BY <1>5 DEF FlushPaused, Then
      <3>2. case = 1 /\ Case = suite[1]
        BY <3>1, SingleCase DEF Singles
      <3> QED
        BY <3>1, <3>2 DEF Torn, Found, Posting, EvaluatorSteps
    <2>2. Flush
      BY <1>5 DEF FlushPaused
    <2> QED
      BY <1>1, <2>1, <2>2, Interrupts, DropKeepsClaims
  <1>6. CASE FlushRedis
    <2>1. step = "flush" /\ Flush
      BY <1>6 DEF FlushRedis
    <2>2. worker = "killed"
      BY <2>1, SingleCase DEF Good, HeldFast, CrashSteps
    <2>3. \A j \in Jobs : job[j].stage \in {"absent", "queued", "waiting"}
      BY <2>2 DEF Good, MemoryLost
    <2>4. \A j \in Jobs : job'[j].stage \notin Critical
      BY <1>1, <2>1, <2>3, Interrupts, BareJob DEF JobsDropped, Critical
    <2> QED
      BY <1>1, <2>1, <2>4, Interrupts, DropKeeps, DropKeepsClaims
  <1>7. \/ UNCHANGED vars
        \/ Post \/ Decide \/ EnqueueJob \/ Replay \/ Follow
        \/ Stop(TRUE) \/ Stop(FALSE) \/ FlushPaused \/ FlushRedis
    BY DEF Evaluate, Begin, Poll, RestartWorker, OtherEvent, AwaitBarrier,
           KillWorker, StartWorker, Await, RestartAll, Score, Followed
  <1> QED
    BY <1>2, <1>3, <1>4, <1>5, <1>6, <1>7

(* A run gets its row from the evaluator, and jobs only behind it.         *)
LEMMA PostedKept ==
    ASSUME DrillTypes, StepFits, Good, Evaluate
    PROVE  PostedOnly'
  <1>1. TypeOK /\ suite' = suite /\ scan' \in {scan, {}}
    BY EvaluateFrame DEF Good, ClaimInv
  <1>2. \A r \in Runs : Posted(r) => Posted(r)'
    BY <1>1, PastGrows DEF Posted, RunIs, FollowUpOf
  <1>3. ASSUME NEW r \in Runs, Post \/ EnqueueJob \/ Replay \/ Decide, r = First
        PROVE  Posted(r)'
    <2>1. step # "next"
      BY <1>3 DEF Post, EnqueueJob, Replay, Decide
    <2>2. r = RunIs(case) /\ case \in 1 .. 2 /\ case' = case /\ step' \in Posting
      BY <1>3, <2>1, SingleCase, Stride
    <2> QED
      BY <2>2 DEF Posted, Past, RunIs
  <1>4. ASSUME NEW r \in Runs, Follow, r = FollowUp
        PROVE  Posted(r)'
    <2>1. step = "follow" /\ step' = "followed" /\ case' = case
      BY <1>4 DEF Follow, Then
    <2>2. r = FollowUpOf(case) /\ case \in 1 .. 2 /\ suite[case].event = "multi-turn"
      BY <1>4, <2>1, SingleCase DEF StepFits
    <2>3. Past(case, Following)'
      BY <2>1 DEF Past, Following
    <2> QED
      BY <1>1, <2>1, <2>2, <2>3 DEF Posted, FollowUpOf
  <1> SUFFICES ASSUME NEW r \in Runs, ~Posted(r)'
               PROVE  Unknown(r)'
    BY DEF PostedOnly
  <1>5. Unknown(r)
    BY <1>2 DEF Good, PostedOnly
  <1>6. \A j \in Jobs : RunOf(j) = r => job'[j] = Bare("absent")
    BY <1>1, <1>3, <1>4, <1>5, EvaluateJobs DEF Unknown
  <1>7. status'[r] = status[r]
    BY <1>1, <1>3, <1>4, EvaluateRows
  <1>8. decision'[r] = decision[r]
    BY <1>1, <1>3, EvaluateRows DEF Claim, TypeOK
  <1> QED
    BY <1>1, <1>5, <1>6, <1>7, <1>8 DEF Unknown

(* A decision is the case's, and made where the evaluator makes it.        *)
LEMMA DecidedKept ==
    ASSUME DrillTypes, StepFits, StoppedShort, Good, Evaluate, ~GaveUp'
    PROVE  DecidedAsSaid'
  <1>1. TypeOK /\ suite' = suite /\ (\A n \in 1 .. 2 : RunIs(n)' = RunIs(n))
    BY EvaluateFrame DEF Good, ClaimInv, RunIs
  <1>2. CASE Decide
    <2>1. Claim(First, Case.choice) /\ step' = "enqueue"
      BY <1>2, EvaluateStops
    <2>2. step = "decide" /\ case' = case
      BY <1>2 DEF Decide, Then
    <2>3. /\ First = RunIs(case) /\ Case = suite[case] /\ case \in 1 .. 2 /\ Asks(case)
          /\ First \in Runs
      BY <2>2, SingleCase DEF StepFits
    <2>4. \A r \in Runs : decision'[r] = IF r = First THEN suite[case].choice
                                         ELSE decision[r]
      BY <1>1, <2>1, <2>3 DEF Claim, TypeOK
    <2>5. \A n \in 1 .. 2 : Past(n, Behind)' <=> Past(n, Behind) \/ n = case
      BY <2>1, <2>2 DEF Past, Behind, Found, Posting, EvaluatorSteps
    <2>6. \A n \in 1 .. 2 : RunIs(n) = RunIs(case) => n = case
      BY <2>3, RunFacts
    <2> QED
      BY <1>1, <2>3, <2>4, <2>5, <2>6, RunFacts DEF Good, DecidedAsSaid, Asks
  <1>3. CASE ~Decide
    <2>1. decision' = decision
      BY <1>1, <1>3, EvaluateRows
    <2>2. \A n \in 1 .. 2 : Asks(n) => (Past(n, Behind)' <=> Past(n, Behind))
      BY <1>3, PastGrows
    <2> QED
      BY <1>1, <2>1, <2>2 DEF Good, DecidedAsSaid, Asks
  <1> QED
    BY <1>2, <1>3

(* Jobs of a refund that has its row wait in the queue at most, until the  *)
(* evaluator finds the run in the inbox, where its thread is paused.       *)
LEMMA WaitsKept ==
    ASSUME DrillTypes, StepFits, Good, Evaluate
    PROVE  Waiting'
  <1>1. TypeOK /\ UNCHANGED <<suite, checkpoint, ledger, proposed>>
    BY EvaluateFrame DEF Good, ClaimInv
  <1> SUFFICES ASSUME NEW n \in 1 .. 2, n <= Len(suite), Asks(n), ~Done(n)
               PROVE  /\ WaitsAt(RunIs(n), Thread(n))'
                      /\ Past(n, Found)' => StaysAt(RunIs(n), Thread(n))'
    BY <1>1 DEF Waiting, Asks, Done, Settled, RunIs
  <1> DEFINE r == RunIs(n)
             t == Thread(n)
  <1>2. r \in Runs /\ r' = r /\ t' = t
    BY RunFacts DEF RunIs, Thread
  <1>3. WaitsAt(r, t) /\ (Past(n, Found) => StaysAt(r, t))
    BY DEF Good, Waiting
  <1>4. \A j \in Jobs : \/ job'[j] = job[j]
                        \/ job'[j].stage \in {"absent", "waiting"}
    BY <1>1, EvaluateJobs, BareJob
  <1>5. status'[r] = status[r] \/ status'[r] = "queued"
    BY <1>1, <1>2, EvaluateRows
  <1>6. WaitsAt(r, t)'
    BY <1>1, <1>2, <1>3, <1>4, <1>5 DEF WaitsAt
  <1>7. ASSUME StaysAt(r, t) PROVE StaysAt(r, t)'
    BY <1>1, <1>2, <1>4, <1>7 DEF StaysAt
  <1>8. ASSUME Past(n, Found)', ~Past(n, Found) PROVE StaysAt(r, t)
    <2>1. n = case /\ Poll
      BY <1>8, PastGrows
    <2>2. step = "poll" /\ status[First] \in {"completed", "awaiting_approval"}
      BY <2>1 DEF Poll
    <2>3. First = r
      BY <2>1, CaseFacts
    <2>4. status[r] = "awaiting_approval"
      BY <1>3, <2>2, <2>3 DEF WaitsAt
    <2>5. decision[r] = "none" /\ ~Torn
      BY <2>1, <2>2, DoneFacts DEF Past, Behind, Found, Torn
    <2>6. IInv
      BY <2>5 DEF Good
    <2>7. checkpoint[t] = [run |-> r, at |-> "paused"]
      BY <1>2, <2>4, <2>5, <2>6 DEF IInv, InboxIsResumable, Thread
    <2>8. ASSUME NEW j \in Jobs, RunOf(j) = r
          PROVE  job[j].stage \notin {"fresh", "working"}
      <3>1. Lane(j) = t
        BY <2>8 DEF Lane, Thread
      <3>2. KnowsCheckpoint(j)
        BY <2>6 DEF IInv, JobOK
      <3> QED
        BY <2>7, <3>1, <3>2 DEF KnowsCheckpoint
    <2> QED
      BY <2>7, <2>8 DEF StaysAt
  <1> QED
    BY <1>3, <1>6, <1>7, <1>8

(* The tables change for a new case, and for an amount that the evaluator  *)
(* changes; every case that has been answered is settled.                  *)
LEMMA TablesKept ==
    ASSUME DrillTypes, StepFits, Good, Evaluate
    PROVE  TablesFollow'
  <1>1. UNCHANGED <<suite, ledger, actions, outcome>> /\ case \in 0 .. 2
        /\ (\A n \in 1 .. 2 : /\ RunIs(n)' = RunIs(n) /\ (Done(n)' <=> Done(n))
                              /\ (Asks(n)' <=> Asks(n))
                              /\ Verdict(suite, n)' = Verdict(suite, n))
    BY EvaluateFrame, CaseFacts
       DEF RunIs, Done, Settled, Asks, Verdict, VerdictOn, Initially
  <1>2. ASSUME NEW n \in 1 .. 2, Past(n, Answered)', Asks(n) PROVE Done(n)
    <2>1. CASE Past(n, Answered)
      BY <1>2, <2>1, DoneFacts
    <2>2. CASE n = case /\ Await
      <3>1. step = "wait" /\ (\/ status[First] \in {"completed", "failed"}
                              \/ decision[First] = "none")
        BY <2>2 DEF Await
      <3>2. First = RunIs(n) /\ n <= Len(suite) /\ Past(n, Behind)
        BY <2>2, <3>1, CaseFacts
           DEF Past, Behind, Found, Posting, EvaluatorSteps
      <3>3. decision[RunIs(n)] = suite[n].choice
        BY <1>2, <3>2 DEF Good, DecidedAsSaid
      <3>4. suite[n].choice # "none"
        BY <1>2, <3>2, SuiteFacts DEF RightOn
      <3>5. ~Done(n) => status[First] \notin {"completed", "failed"}
        BY <1>2, <3>2 DEF Good, Waiting, WaitsAt
      <3> QED
        BY <3>1, <3>2, <3>3, <3>4, <3>5
    <2> QED
      BY <1>2, <2>1, <2>2, PastGrows
  <1>3. CASE Begin
    <2>1. /\ step = "next" /\ step' = "post" /\ case' = case + 1
          /\ case' \in 1 .. Len(suite) /\ case' \in 1 .. 2
          /\ order' = IF order = "absent" /\ Created(suite[case + 1]) THEN "none"
                      ELSE order
          /\ quantity' = quantity
      BY <1>3, Stride, CaseFacts DEF Begin
    <2>2. ~Done(case')
      <3>1. ~Past(case', Behind)
        BY <1>1, <2>1 DEF Past
      <3> QED
        BY <2>1, <3>1, DoneFacts
    <2>3. case > 0 => case = 1 /\ case' = 2 /\ Len(suite) = 2 /\ Asks(1) /\ Done(1)
      <3>1. case > 0 => case = 1 /\ case' = 2 /\ Len(suite) = 2
        BY <1>1, <2>1, CaseFacts
      <3>2. Len(suite) = 2 => Asks(1)
        BY SuiteFacts
      <3>3. case = 1 => Past(1, Answered)
        BY <2>1 DEF Past, Answered
      <3> QED
        BY <3>1, <3>2, <3>3, DoneFacts
    <2>4. order' = Initially(suite, case')
      <3>1. CASE case = 0
        BY <2>1, <3>1 DEF Good, TablesFollow, OrderFollows, Initially
      <3>2. CASE case > 0
        <4>1. order = suite[1].expected /\ Initially(suite, 2) = suite[1].expected
          BY <2>3, <3>2 DEF Good, TablesFollow, OrderFollows, Initially
        <4>2. Initially(suite, 2) = "absent" => ~Created(suite[2])
          BY <2>3, <3>2, SuiteFacts
        <4> QED
          BY <2>1, <2>3, <3>2, <4>1, <4>2
      <3> QED
        BY <1>1, <3>1, <3>2
    <2>5. OrderFollows'
      BY <1>1, <2>1, <2>2, <2>4 DEF OrderFollows, Initially
    <2>6. ActionsFollow'
      BY <1>1, <2>1, <2>2 DEF Good, TablesFollow, ActionsFollow
    <2>7. QuantityFollows'
      <3>1. case = 1 => suite[1].event \notin Singles
        BY <2>3, CaseFacts, SuiteFacts
      <3>2. quantity = 1
        BY <1>1, <3>1 DEF Good, TablesFollow, QuantityFollows, Singles
      <3> QED
        BY <2>1, <3>2 DEF QuantityFollows, Found, Posting, EvaluatorSteps
    <2>8. \A n \in 1 .. 2 : n <= case' /\ Done(n) =>
                                outcome[RunIs(n)] = Verdict(suite, n)
      BY <1>1, <2>1, <2>2 DEF Good, TablesFollow
    <2> QED
      BY <1>1, <1>2, <2>5, <2>6, <2>7, <2>8 DEF TablesFollow
  <1>4. CASE step # "next"
    <2>1. case' = case /\ order' = order
      BY <1>4, Stride
         DEF Evaluate, Begin, Post, Poll, FlushPaused, RestartWorker,
             OtherEvent, Decide, EnqueueJob, AwaitBarrier, KillWorker,
             FlushRedis, StartWorker, Await, RestartAll, Replay, Score, Follow,
             Followed, database
    <2>2. OrderFollows' /\ ActionsFollow'
      BY <1>1, <2>1
         DEF Good, TablesFollow, OrderFollows, ActionsFollow, Initially, Done,
             Settled, RunIs
    <2>3. QuantityFollows'
      <3> DEFINE changed == case = 1 /\ suite[1].event = "amount-changed"
      <3>1. quantity = IF changed /\ step \in Found \ {"event"} THEN 2 ELSE 1
        BY DEF Good, TablesFollow, QuantityFollows
      <3>2. /\ Case = suite[case]
            /\ Case.event = "amount-changed" <=> changed
            /\ changed => Case.kind # "question"
        BY <1>4, SingleCase DEF Singles
      <3>3. CASE OtherEvent
        <4>1. /\ step = "event" /\ step' = "decide"
              /\ quantity' = IF changed THEN 2 ELSE quantity
          BY <3>2, <3>3 DEF OtherEvent, Then
        <4> QED
          BY <1>1, <2>1, <3>1, <4>1
             DEF QuantityFollows, Found, Posting, EvaluatorSteps
      <3>4. CASE ~OtherEvent
        <4>1. quantity' = quantity
          BY <1>4, <3>4
             DEF Evaluate, Begin, Post, Poll, FlushPaused, RestartWorker,
                 Decide, EnqueueJob, AwaitBarrier, KillWorker, FlushRedis,
                 StartWorker, Await, RestartAll, Replay, Score, Follow,
                 Followed, database
        <4>2. changed => step # "event" /\ (Poll => step' = "event")
          <5>1. step = "event" => FlushPaused \/ RestartWorker
            BY <3>4
               DEF Evaluate, Begin, Post, Poll, Decide, EnqueueJob,
                   AwaitBarrier, KillWorker, FlushRedis, StartWorker, Await,
                   RestartAll, Replay, Score, Follow, Followed
          <5> QED
            BY <3>2, <5>1 DEF FlushPaused, RestartWorker, Poll, Then
        <4>3. step' = "event" => step \notin Found
          BY <1>4, Stride DEF Poll, Found
        <4>4. changed => (step' \in Found \ {"event"} <=> step \in Found \ {"event"})
          BY <1>4, <4>2, <4>3, Stride
        <4> QED
          BY <1>1, <2>1, <3>1, <4>1, <4>4 DEF QuantityFollows
      <3> QED
        BY <3>3, <3>4
    <2> QED
      BY <1>1, <1>2, <2>1, <2>2, <2>3 DEF Good, TablesFollow
  <1> QED
    BY <1>3, <1>4, Stride

(* The snapshot is taken where it is compared from, and what the case has  *)
(* added since is its own.                                                 *)
LEMMA RememberedKept ==
    ASSUME DrillTypes, StepFits, Good, Evaluate
    PROVE  Remembered'
  <1>1. UNCHANGED <<suite, ledger, actions, outcome>>
    BY EvaluateFrame
  <1>2. CASE Begin
    <2>1. /\ step' = "post" /\ case' = case + 1 /\ case' \in 1 .. Len(suite)
          /\ case \in 0 .. 2 /\ case' \in 1 .. 2
          /\ before' = [Snapshot EXCEPT !.order = order'] /\ quantity' = quantity
      BY <1>2, Stride, CaseFacts DEF Begin
    <2>2. before' = Snapshot'
      BY <1>1, <2>1 DEF Snapshot
    <2>3. First' = RunIs(case')
      BY <2>1 DEF First, RunIs
    <2>4. First' \notin actions
      <3>1. \A n \in 1 .. 2 : RunIs(n) = RunIs(case') => n = case'
        BY <2>1, RunFacts
      <3> QED
        BY <2>1, <2>3, <3>1 DEF Good, TablesFollow, ActionsFollow
    <2> QED
      BY <1>1, <2>1, <2>2, <2>4 DEF Remembered, Snapshot
  <1>3. CASE step # "next"
    <2>1. First' = First /\ (Asks(case)' <=> Asks(case)) /\ UNCHANGED <<case, order>>
      BY <1>1, <1>3, Stride
         DEF First, Asks, Evaluate, Begin, Post, Poll, FlushPaused,
             RestartWorker, OtherEvent, Decide, EnqueueJob, AwaitBarrier,
             KillWorker, FlushRedis, StartWorker, Await, RestartAll, Replay,
             Score, Follow, Followed, database
    <2>2. CASE Score /\ step' = "follow"
      <3>1. before' = Snapshot /\ UNCHANGED database
        BY <2>2 DEF Score, Then
      <3> QED
        BY <1>1, <2>1, <2>2, <3>1 DEF Remembered, Snapshot, database
    <2>3. CASE ~(Score /\ step' = "follow")
      <3>1. /\ before' = before
            /\ step \in {"follow", "followed"} => step' \in {"followed", "next"}
            /\ step' = "followed" => step = "follow"
        BY <1>3, <2>3
           DEF Evaluate, Begin, Post, Poll, FlushPaused, RestartWorker,
               OtherEvent, Decide, EnqueueJob, AwaitBarrier, KillWorker,
               FlushRedis, StartWorker, Await, RestartAll, Replay, Score,
               Follow, Followed, Then
      <3>2. ASSUME step' \in {"post", "poll", "follow", "followed"}
                   \/ (step' = "score" /\ ~Asks(case))
            PROVE  before' = Snapshot'
        <4>1. Asks(case) \/ step \notin {"wait", "restart", "replay"}
          <5>1. step \in {"restart", "replay"} => Case.event # "none"
            BY DEF StepFits
          <5> QED
            BY <1>3, <5>1, SingleCase DEF StepFits
        <4>2. Post \/ Poll \/ Follow
          BY <1>3, <2>3, <3>2, <4>1
             DEF Evaluate, Begin, FlushPaused, RestartWorker, OtherEvent,
                 Decide, EnqueueJob, AwaitBarrier, KillWorker, FlushRedis,
                 StartWorker, Await, RestartAll, Replay, Score, Followed, Then
        <4>3. /\ step \in {"post", "poll", "follow"} /\ UNCHANGED database
              /\ before' = before
          BY <4>2, <3>1 DEF Post, Poll, Follow
        <4> QED
          BY <1>1, <4>3 DEF Good, Remembered, Snapshot, database
      <3> QED
        BY <1>1, <1>3, <2>1, <3>1, <3>2 DEF Good, Remembered
    <2> QED
      BY <2>2, <2>3
  <1> QED
    BY <1>2, <1>3, Stride

(* The worker is killed behind the commit, before its next checkpoint.     *)
LEMMA HeldKept ==
    ASSUME DrillTypes, StepFits, StoppedShort, Good, Evaluate, ~GaveUp'
    PROVE  HeldFast'
  <1>1. /\ UNCHANGED <<suite, checkpoint, ledger>> /\ HeldFast
        /\ (Done(1)' <=> Done(1)) /\ RunIs(1)' = RunIs(1) /\ Thread(1)' = Thread(1)
        /\ RunIs(1) # NoRun
    BY EvaluateFrame, RunFacts, LifecycleAssumption
       DEF Good, Done, Settled, RunIs, Thread
  <1>2. CASE Begin
    <2>1. /\ UNCHANGED <<armed, committed>> /\ step' = "post" /\ case' = case + 1
          /\ case' \in 1 .. Len(suite)
      BY <1>2, Stride DEF Begin
    <2>2. Armed => case = 1 /\ Len(suite) = 1
      BY CaseFacts, SuiteFacts DEF Armed, Singles
    <2>3. ~Armed
      <3>1. case = 1 /\ Len(suite) = 1 => case' \notin 1 .. Len(suite)
        BY <2>1
      <3> QED
        BY <2>1, <2>2, <3>1
    <2> QED
      BY <1>1, <2>1, <2>3 DEF HeldFast
  <1>3. CASE step # "next"
    <2>1. /\ case' = case /\ (Armed' <=> Armed)
          /\ Case = suite[case] /\ First = RunIs(case)
          /\ step \in CrashSteps => Armed
          /\ Case.event = "crash-after-action" => Armed
          /\ case \in 1 .. 2
      BY <1>1, <1>3, Stride, SingleCase DEF Armed, Singles
    <2> USE <2>1 DEF HeldFast, Then, Held
    <2>2. CASE OtherEvent
      <3>1. /\ step = "event" /\ step' = "decide"
            /\ committed' = committed
            /\ armed' = IF Case.event = "crash-after-action" THEN First ELSE armed
        BY <2>2 DEF OtherEvent
      <3>2. Asks(case)
        BY <3>1 DEF StepFits
      <3>3. Armed => checkpoint[Thread(1)] = [run |-> RunIs(1), at |-> "paused"]
        <4>1. Past(case, Found) /\ ~Past(case, Behind)
          BY <3>1 DEF Past, Behind, Found, Posting, EvaluatorSteps
        <4>2. ~Done(case) /\ case <= Len(suite)
          BY <4>1, DoneFacts, CaseFacts
        <4> QED
          BY <3>2, <4>1, <4>2 DEF Good, Waiting, StaysAt, Armed
      <3> QED
        BY <1>1, <3>1, <3>3 DEF Armed
    <2>3. CASE Decide
      <3>1. step = "decide" /\ step' = "enqueue" /\ UNCHANGED drill
        BY <2>3, EvaluateStops DEF Decide
      <3> QED
        BY <1>1, <3>1 DEF drill
    <2>4. CASE FlushPaused \/ RestartWorker
      <3>1. step' = "decide" /\ Case.event # "crash-after-action"
            /\ armed' \in {armed, NoRun} /\ committed' \in {committed, NoRun}
        BY <2>4 DEF FlushPaused, RestartWorker, Flush
      <3> QED
        BY <1>1, <3>1 DEF Armed
    <2>5. CASE EnqueueJob \/ AwaitBarrier
      <3>1. /\ UNCHANGED drill
            /\ \/ step = "enqueue" /\ step' \in {"commit", "wait"}
               \/ step = "commit" /\ step' = "barrier" /\ ledger[First] # "none"
               \/ step = "barrier" /\ step' = "kill"
        BY <2>5 DEF EnqueueJob, AwaitBarrier
      <3> QED
        BY <1>1, <3>1 DEF drill, Armed, Done, Settled
    <2>6. CASE KillWorker
      <3>1. step = "kill" /\ step' = "flush" /\ worker' = "killed"
            /\ UNCHANGED <<armed, committed>>
        BY <2>6 DEF KillWorker
      <3> QED
        BY <1>1, <3>1
    <2>7. CASE FlushRedis
      <3>1. step = "flush" /\ step' = "up" /\ worker' = worker
            /\ armed' = NoRun /\ committed' = NoRun
        BY <2>7 DEF FlushRedis, Flush
      <3> QED
        BY <1>1, <3>1
    <2>8. CASE Post \/ Poll \/ StartWorker \/ Await \/ RestartAll \/ Replay \/ Score
               \/ Follow \/ Followed
      <3>1. UNCHANGED <<armed, committed>> /\ step' \notin CrashSteps
            /\ step' \notin {"decide", "enqueue"}
        BY <2>8 DEF Post, Poll, StartWorker, Await, RestartAll, Replay, Score,
           Follow, Followed, drill, CrashSteps
      <3> QED
        BY <1>1, <3>1 DEF CrashSteps
    <2> QED
      BY <1>3, <2>2, <2>3, <2>4, <2>5, <2>6, <2>7, <2>8 DEF Evaluate, Begin
  <1> QED
    BY <1>2, <1>3, Stride

LEMMA MemoryKept ==
    ASSUME DrillTypes, StepFits, Good, Evaluate
    PROVE  MemoryLost'
  <1>1. TypeOK /\ MemoryLost
    BY DEF Good, ClaimInv
  <1>2. worker' = worker \/ Stop(TRUE) \/ Stop(FALSE) \/ (StartWorker /\ worker # "up")
    <2>1. StartWorker => worker # "up"
      <3>1. StartWorker => step = "up"
        BY DEF StartWorker
      <3> QED
        BY <3>1, SingleCase DEF Good, HeldFast, CrashSteps
    <2> QED
      BY <2>1 DEF Evaluate, Begin, Post, Poll, FlushPaused, RestartWorker,
         OtherEvent, Decide, EnqueueJob, AwaitBarrier, KillWorker, FlushRedis,
         StartWorker, Await, RestartAll, Replay, Score, Follow, Followed, drill
  <1>3. CASE Stop(TRUE) \/ Stop(FALSE)
    BY <1>1, <1>3, Interrupts DEF MemoryLost
  <1>4. ASSUME worker # "up", NEW j \in Jobs
        PROVE  job'[j].stage \in {"absent", "queued", "waiting"}
    BY <1>1, <1>4, EvaluateJobs, BareJob DEF MemoryLost
  <1> QED
    BY <1>2, <1>3, <1>4 DEF MemoryLost

-----------------------------------------------------------------------------
(* The checks.                                                             *)

(* An order is refunded once, by the case that is answered "approved".     *)
LEMMA RefundedOnce ==
    ASSUME DrillTypes, Good, case \in 1 .. Len(suite), Asks(case), Done(case)
    PROVE  \/ actions = {} /\ suite[case].expected # "approved"
           \/ /\ suite[case].expected = "approved"
              /\ \E r \in Runs : actions = {r}
  <1> DEFINE V(n) == Verdict(suite, n)
  <1>1. case \in 1 .. 2 /\ Len(suite) \in 1 .. 2
    BY CaseFacts
  <1>2. \A n \in 1 .. Len(suite) : Asks(n) =>
            /\ RightOn(Initially(suite, n), suite[n])
            /\ V(n) = VerdictOn(Initially(suite, n), suite[n])
            /\ suite[n].expected = IF V(n) \in {"approved", "rejected"} THEN V(n)
                                   ELSE Initially(suite, n)
            /\ Initially(suite, n) = "approved" => V(n) = "already"
    BY SuiteFacts, VerdictFacts DEF RightOn, Verdict
  <1>3. \A r : r \in actions <=> /\ r \in Runs
                                 /\ \E n \in 1 .. 2 : /\ n <= case /\ r = RunIs(n)
                                                      /\ Done(n) /\ V(n) = "approved"
    BY DEF Good, TablesFollow, ActionsFollow
  <1>4. RunIs(1) \in Runs /\ RunIs(2) \in Runs
    BY RunFacts
  <1>5. CASE case = 1
    <2>1. Initially(suite, 1) # "approved"
      BY DEF Initially
    <2>2. suite[1].expected = "approved" <=> V(1) = "approved"
      BY <1>1, <1>2, <1>5, <2>1
    <2>3. \A r : r \in actions <=> r = RunIs(1) /\ V(1) = "approved"
      BY <1>3, <1>4, <1>5
    <2> HIDE DEF V
    <2> QED
      BY <1>4, <1>5, <2>2, <2>3
  <1>6. CASE case = 2
    <2>1. Len(suite) = 2
      <3>1. 2 <= Len(suite)
        BY <1>6, CaseFacts
      <3>2. \A len \in 1 .. 2 : 2 <= len => len = 2
        OBVIOUS
      <3> QED
        BY <1>1, <3>1, <3>2
    <2>2. Asks(1)
      BY <2>1, SuiteFacts
    <2>3. Done(1)
      BY <1>6, <2>2, DoneFacts DEF Past
    <2>4. Initially(suite, 2) = suite[1].expected /\ Initially(suite, 1) # "approved"
      BY DEF Initially
    <2>5. suite[1].expected = "approved" <=> V(1) = "approved"
      BY <1>2, <2>1, <2>2, <2>4
    <2>6. \A r : r \in actions <=> \/ r = RunIs(1) /\ V(1) = "approved"
                                   \/ r = RunIs(2) /\ V(2) = "approved"
      BY <1>3, <1>4, <1>6, <2>3
    <2>7. V(1) = "approved" => V(2) = "already" /\ suite[2].expected = "approved"
      BY <1>2, <1>6, <2>1, <2>4, <2>5
    <2>8. V(1) # "approved" => (suite[2].expected = "approved" <=> V(2) = "approved")
      BY <1>2, <1>6, <2>1, <2>4, <2>5
    <2> HIDE DEF V
    <2> QED
      BY <1>4, <1>6, <2>6, <2>7, <2>8
  <1> QED
    BY <1>1, <1>5, <1>6

LEMMA RefundsCheck ==
    ASSUME DrillTypes, StepFits, Good, step = "score", Asks(case)
    PROVE  RefundChecks = {}
  <1>1. /\ case \in 1 .. Len(suite) /\ case \in 1 .. 2
        /\ First = RunIs(case) /\ Case = suite[case] /\ First \in Runs
        /\ RightOn(Initially(suite, case), Case)
    BY SingleCase
  <1>2. Done(case)
    BY <1>1, DoneFacts DEF Past, Answered
  <1>3. order = Case.expected /\ ledger[First] # "none"
    BY <1>1, <1>2 DEF Good, TablesFollow, OrderFollows, Done, Settled
  <1>4. Case.word \in Says(outcome[First])
    <2>1. outcome[First] = Verdict(suite, case)
      BY <1>1, <1>2 DEF Good, TablesFollow
    <2> QED
      BY <1>1, <2>1 DEF RightOn, Verdict
  <1>5. /\ before.actions = actions \ {First}
        /\ \A r \in Runs \ {First} :
               ledger[r] = before.ledger[r] /\ outcome[r] = before.outcome[r]
    BY DEF Good, Remembered
  <1>6. CASE actions = {} /\ Case.expected # "approved"
    <2>1. before.actions = {} /\ Cardinality(actions) = 0
          /\ Cardinality(before.actions) = 0
      BY <1>5, <1>6, FS_EmptySet
    <2> QED
      BY <1>3, <1>4, <1>5, <1>6, <2>1 DEF RefundChecks, Check
  <1>7. ASSUME NEW r \in Runs, actions = {r}, Case.expected = "approved"
        PROVE  RefundChecks = {}
    <2>1. Cardinality(actions) = 1 /\ Cardinality({}) = 0
      BY <1>7, FS_EmptySet, FS_Singleton
    <2>2. before.actions = IF r = First THEN {} ELSE actions
      BY <1>5, <1>7
    <2>3. Cardinality(before.actions) = IF r = First THEN 0 ELSE 1
      BY <2>1, <2>2
    <2>4. before.actions = {} <=> r = First
      BY <1>7, <2>2
    <2>5. Cardinality(actions) = Cardinality(before.actions)
                                 + IF before.actions = {} THEN 1 ELSE 0
      BY <2>1, <2>3, <2>4
    <2> QED
      BY <1>3, <1>4, <1>5, <1>7, <2>1, <2>5 DEF RefundChecks, Check
  <1> QED
    BY <1>1, <1>2, <1>6, <1>7, RefundedOnce

(* No check about orders, actions and decisions is false.                  *)
LEMMA QuietKept ==
    ASSUME DrillTypes, StepFits, StoppedShort, Good, Evaluate, ~GaveUp'
    PROVE  Quiet'
  <1> DEFINE soft == {"redis_status_recovery", "completed", "error"}
  <1> SUFFICES failed' \subseteq failed \cup soft
    BY DEF Good, Quiet
  <1>1. CASE Begin \/ Post \/ RestartWorker \/ OtherEvent \/ EnqueueJob \/ AwaitBarrier
             \/ KillWorker \/ FlushRedis \/ StartWorker \/ RestartAll \/ Follow
    BY <1>1
       DEF Begin, Post, RestartWorker, OtherEvent, EnqueueJob, AwaitBarrier,
           KillWorker, FlushRedis, StartWorker, RestartAll, Follow, Then
  <1>2. CASE FlushPaused \/ Await
    BY <1>2 DEF FlushPaused, Await, Then, Check
  <1>3. CASE Poll
    <2>1. step = "poll" /\ status[First] \in {"completed", "awaiting_approval"}
      BY <1>3 DEF Poll
    <2>2. First = RunIs(case) /\ case \in 1 .. 2 /\ case <= Len(suite)
          /\ (Case.kind = "question" <=> ~Asks(case))
      BY <2>1, SingleCase, CaseFacts
    <2>3. Snapshot = before
      BY <2>1 DEF Good, Remembered
    <2>4. Asks(case) => status[First] = "awaiting_approval"
      <3>1. ~Done(case)
        BY <2>1, <2>2, DoneFacts DEF Past, Behind, Found
      <3> QED
        BY <2>1, <2>2, <3>1 DEF Good, Waiting, WaitsAt
    <2> QED
      BY <1>3, <2>2, <2>3, <2>4 DEF Poll, Then, Check
  <1>4. CASE Decide
    BY <1>4, EvaluateStops DEF Decide, Then, GaveUp
  <1>5. CASE Replay
    <2>1. step = "replay"
      BY <1>5 DEF Replay
    <2>2. First = RunIs(case) /\ case \in 1 .. 2 /\ Case = suite[case] /\ Asks(case)
      BY <2>1, SingleCase DEF StepFits
    <2>3. decision[First] = Case.choice
      BY <2>1, <2>2
         DEF Good, DecidedAsSaid, Past, Behind, Found, Posting, EvaluatorSteps
    <2> QED
      BY <1>5, <2>3 DEF Replay, Then, Check
  <1>6. CASE Score
    <2>1. step = "score"
      BY <1>6 DEF Score
    <2>2. CASE Asks(case)
      BY <1>6, <2>1, <2>2, SingleCase, RefundsCheck DEF Score, Then
    <2>3. CASE ~Asks(case)
      <3>1. Snapshot = before
        BY <2>1, <2>3 DEF Good, Remembered
      <3> QED
        BY <1>6, <2>1, <2>3, <3>1, SingleCase DEF Score, Then, Check
    <2> QED
      BY <2>2, <2>3
  <1>7. CASE Followed
    <2>1. Snapshot = before
      BY <1>7 DEF Followed, Good, Remembered
    <2> QED
      BY <1>7, <2>1 DEF Followed, Then, Check
  <1> QED
    BY <1>1, <1>2, <1>3, <1>4, <1>5, <1>6, <1>7 DEF Evaluate

LEMMA EvaluateKeeps ==
    ASSUME DInv, Evaluate
    PROVE  DInv'
  <1>1. DrillTypes' /\ StepFits' /\ StoppedShort' /\ (GaveUp => GaveUp')
    BY EvaluateTypes, EvaluateFits, EvaluateStops DEF DInv
  <1>2. ASSUME Good, ~GaveUp' PROVE Good'
    BY <1>2, PostedKept, DecidedKept, WaitsKept, TablesKept, RememberedKept,
       HeldKept, MemoryKept, EvaluateLives, QuietKept
       DEF DInv, Good
  <1> QED
    BY <1>1, <1>2 DEF DInv

-----------------------------------------------------------------------------
(* The theorems.                                                           *)

LEMMA DrillStart == DrillInit => DInv
  <1> SUFFICES ASSUME DrillInit PROVE DInv
    OBVIOUS
  <1>1. IInv /\ ClaimInv /\ TypeOK
    BY LifecycleInit, LockedClaims DEF DrillInit, ClaimInv
  <1>2. DrillTypes
    <2>1. suite \in Suites /\ 0 \in 0 .. Len(suite)
      <3>1. ASSUME NEW s, s \in Suites PROVE Len(s) \in Nat
        <4>1. CASE s = <<Question>>
          BY <4>1
        <4> QED
          BY <3>1, <4>1, SuitesAreRight DEF SuiteIsRight
      <3> QED
        BY <3>1 DEF DrillInit
    <2> QED
      BY <2>1 DEF DrillInit, DrillTypes, EvaluatorSteps
  <1>3. StepFits /\ StoppedShort
    BY DEF DrillInit, StepFits, StoppedShort, GaveUp, CrashSteps
  <1>4. \A n \in 1 .. 2 : \A steps : ~Past(n, steps)
    BY DEF DrillInit, Past
  <1>5. \A r \in Runs : Unknown(r) /\ ~Settled(r)
    BY JobFacts DEF DrillInit, Init, Unknown, Settled
  <1>6. \A n \in 1 .. 2 : ~Done(n) /\ RunIs(n) \in Runs /\ Thread(n) \in Threads
    BY <1>5, RunFacts DEF Done
  <1>7. Waiting
    BY <1>4, <1>6 DEF Waiting, WaitsAt, DrillInit, Init, Bare
  <1>8. TablesFollow
    BY <1>4, <1>6
       DEF TablesFollow, OrderFollows, ActionsFollow, QuantityFollows, DrillInit
  <1>9. Remembered /\ HeldFast /\ MemoryLost
    BY DEF DrillInit, Remembered, HeldFast, MemoryLost, Armed
  <1> QED
    BY <1>1, <1>2, <1>3, <1>4, <1>5, <1>7, <1>8, <1>9
       DEF DInv, Good, PostedOnly, DecidedAsSaid, Quiet, DrillInit, Unknown

LEMMA DrillStep == DInv /\ [DrillNext]_drillVars => DInv'
  <1> SUFFICES ASSUME DInv, [DrillNext]_drillVars PROVE DInv'
    OBVIOUS
  <1>1. CASE Evaluate
    BY <1>1, EvaluateKeeps
  <1>2. CASE Beside
    BY <1>2, BesideKeeps
  <1> QED
    BY <1>1, <1>2 DEF DrillNext, Beside, Aside, Work

(* The invariant of the drill, for every suite and any number of scans.    *)
THEOREM DrillInvariant == DrillSpec => []DInv
  BY DrillStart, DrillStep, PTL DEF DrillSpec

(* The evaluator kills the worker behind the commit of the decision and    *)
(* before the next checkpoint: no job slips past the barrier.              *)
THEOREM DrillKills == DrillSpec => []KilledInWindow
  <1>1. DInv => KilledInWindow
    <2> SUFFICES ASSUME DInv, step = "flush" PROVE KilledInWindow
      BY DEF KilledInWindow
    <2>1. DrillTypes /\ StepFits /\ step \in CrashSteps
      BY DEF DInv, CrashSteps
    <2>2. Armed /\ First = RunIs(case) /\ Case = suite[case]
      BY <2>1, SingleCase
    <2>3. Good
      BY <2>2 DEF DInv, StoppedShort, Armed, Answered
    <2>4. Done(1) /\ checkpoint[Thread(1)] = [run |-> RunIs(1), at |-> "paused"]
      BY <2>2, <2>3 DEF Good, HeldFast
    <2>5. ledger[RunIs(1)] = suite[1].choice
      <3>1. decision[RunIs(1)] # "none" /\ ledger[RunIs(1)] = decision[RunIs(1)]
        BY <2>3, <2>4, RunFacts
           DEF Good, ClaimInv, LedgerFollowsHuman, Done, Settled
      <3> QED
        BY <2>1, <2>3, <3>1, DoneFacts
    <2> QED
      BY <2>2, <2>4, <2>5 DEF KilledInWindow, Armed, Thread
  <1> QED
    BY <1>1, DrillInvariant, PTL

(* No check about orders, actions and decisions is ever false, whatever    *)
(* recovery does beside the cases, once the decisions have been accepted.  *)
THEOREM DrillChecks == DrillSpec => []ChecksHold
  <1>1. DInv => ChecksHold
    BY DEF DInv, Good, Quiet, GaveUp, ChecksHold
  <1> QED
    BY <1>1, DrillInvariant, PTL

=============================================================================
