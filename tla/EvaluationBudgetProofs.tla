----------------------- MODULE EvaluationBudgetProofs -----------------------
(* Proofs about EvaluationBudget: its ledger is safe under every order of  *)
(* calls, failed writes and restarts, and implements SpendingContract.     *)
EXTENDS EvaluationBudget, TLAPS

(* What a ledger keeps of an earlier one.                                  *)
Behind(old, new) ==
    /\ old.approval = new.approval
    /\ old.reserved <= new.reserved
    /\ old.seen \subseteq new.seen
    /\ \A c \in Calls : old.receipts[c] # "none" => new.receipts[c] # "none"
    /\ old.state = "stopped" => /\ new.state = "stopped"
                                /\ old.reserved = new.reserved
                                /\ old.chats = new.chats
                                /\ old.tokens = new.tokens

Loaded == memory # Unloaded

(* The file is an earlier state of the memory, and both are within the     *)
(* approval.                                                               *)
LedgerInv ==
    /\ Loaded => memory.reserved <= Allowance[memory.approval]
    /\ OnFile => file.reserved <= Allowance[file.approval]
    /\ Loaded /\ OnFile => Behind(file, memory)

InFlight == {"calling", "charged", "answered", "errored", "holding"}

(* The calls own disjoint slices of what the file has reserved, and those  *)
(* that wait for the provider have not spent theirs.                       *)
CallInv ==
    /\ spent # {} => OnFile
    /\ OnFile => spent \subseteq 1 .. file.reserved
    /\ \A c \in Calls :
          /\ call[c].slice # {} => /\ OnFile
                                   /\ call[c].slice \subseteq 1 .. file.reserved
                                   /\ file.receipts[c] # "none"
          /\ call[c].step = "calling" => call[c].slice \cap spent = {}
          /\ call[c].step \in InFlight => Loaded
          /\ call[c].barrier # NoMarker =>
                OnFile /\ call[c].barrier \in file.seen
    /\ \A c, d \in Calls : c # d => call[c].slice \cap call[d].slice = {}
    /\ BarrierHoldsOnce

IInv == Typed /\ LedgerInv /\ CallInv

-----------------------------------------------------------------------------
LEMMA BehindItself ==
    ASSUME NEW old \in Ledgers
    PROVE  Behind(old, old)
BY DEF Behind, Ledgers

LEMMA BehindTransitive ==
    ASSUME NEW old \in Ledgers, NEW mid \in Ledgers, NEW new \in Ledgers,
           Behind(old, mid), Behind(mid, new)
    PROVE  Behind(old, new)
BY DEF Behind, Ledgers

LEMMA FreshFacts ==
    ASSUME NEW a \in Approvals
    PROVE  Fresh(a) \in Ledgers /\ Fresh(a).reserved = 0
                                /\ Fresh(a).approval = a
BY BudgetAssumption DEF Fresh, Ledgers, ChargeStates, Markers

(* What a call's reservation does to a ledger that admits it.              *)
LEMMA ReservedFacts ==
    ASSUME Typed, LedgerInv, Loaded, memory.state = "open",
           NEW c \in Calls, NEW slip \in {0, 1}, ~OverLimit(c, slip)
    PROVE  /\ Reserved(c, slip) \in Ledgers
           /\ Behind(memory, Reserved(c, slip))
           /\ Reserved(c, slip).reserved = Sum(c, slip)
           /\ Reserved(c, slip).approval = memory.approval
           /\ Reserved(c, slip).receipts[c] = "unknown"
           /\ Barrier(c) \in {NoMarker} \cup
                            (Reserved(c, slip).seen \ memory.seen)
           /\ Sum(c, slip) \in Nat
           /\ Sum(c, slip) <= Allowance[memory.approval]
           /\ Sum(c, slip) - Price[c] >= memory.reserved
<1>1. memory \in Ledgers
  BY DEF Typed, Loaded
<1>2. /\ memory.approval \in Approvals
      /\ memory.reserved \in Nat /\ memory.chats \in 0 .. MaxChats
      /\ memory.tokens \in 0 .. MaxTokens /\ memory.state \in {"open", "stopped"}
      /\ memory.seen \in SUBSET Markers
      /\ memory.receipts \in [Calls -> ChargeStates]
  BY <1>1 DEF Ledgers
<1>3. /\ Sum(c, slip) \in Nat
      /\ Sum(c, slip) <= Allowance[memory.approval]
      /\ Sum(c, slip) - Price[c] >= memory.reserved
      /\ Sum(c, slip) >= memory.reserved
  BY <1>2, BudgetAssumption DEF Sum, OverLimit
<1>4. /\ c \in Chats => memory.chats + 1 \in 0 .. MaxChats
      /\ c \notin Chats => memory.tokens + Size[c] \in 0 .. MaxTokens
  BY <1>2, BudgetAssumption DEF OverLimit
<1>5. memory.seen \cup ({Marker[c]} \ {NoMarker}) \in SUBSET Markers
  BY <1>2 DEF Markers
<1>6. [memory.receipts EXCEPT ![c] = "unknown"] \in [Calls -> ChargeStates]
  BY <1>2 DEF ChargeStates
<1>7. Reserved(c, slip) =
        [approval |-> memory.approval, reserved |-> Sum(c, slip),
         chats |-> IF c \in Chats THEN memory.chats + 1 ELSE memory.chats,
         tokens |-> IF c \in Chats THEN memory.tokens
                    ELSE memory.tokens + Size[c],
         state |-> memory.state,
         seen |-> memory.seen \cup ({Marker[c]} \ {NoMarker}),
         receipts |-> [memory.receipts EXCEPT ![c] = "unknown"]]
  <2>1. CASE c \in Chats
    <3>1. Reserved(c, slip) =
            [memory EXCEPT !.reserved = Sum(c, slip),
                           !.chats = memory.chats + 1,
                           !.seen = memory.seen \cup ({Marker[c]} \ {NoMarker}),
                           !.receipts = [memory.receipts EXCEPT ![c] = "unknown"]]
      BY <1>1, <2>1 DEF Reserved, Ledgers
    <3> QED BY <1>1, <2>1, <3>1 DEF Ledgers
  <2>2. CASE c \notin Chats
    <3>1. Reserved(c, slip) =
            [memory EXCEPT !.reserved = Sum(c, slip),
                           !.tokens = memory.tokens + Size[c],
                           !.seen = memory.seen \cup ({Marker[c]} \ {NoMarker}),
                           !.receipts = [memory.receipts EXCEPT ![c] = "unknown"]]
      BY <1>1, <2>2 DEF Reserved, Ledgers
    <3> QED BY <1>1, <2>2, <3>1 DEF Ledgers
  <2> QED BY <2>1, <2>2
<1>8. Reserved(c, slip) \in Ledgers
  BY <1>2, <1>3, <1>4, <1>5, <1>6, <1>7 DEF Ledgers
<1>9. Behind(memory, Reserved(c, slip))
  BY <1>2, <1>3, <1>7 DEF Behind
<1> QED BY <1>2, <1>3, <1>7, <1>8, <1>9 DEF Barrier

LEMMA StoppedFacts ==
    ASSUME NEW old \in Ledgers, old.state = "open"
    PROVE  LET new == [old EXCEPT !.state = "stopped"] IN
           /\ new \in Ledgers
           /\ Behind(old, new)
           /\ new.reserved = old.reserved /\ new.approval = old.approval
<1>1. [old EXCEPT !.state = "stopped"] =
        [approval |-> old.approval, reserved |-> old.reserved,
         chats |-> old.chats, tokens |-> old.tokens, state |-> "stopped",
         seen |-> old.seen, receipts |-> old.receipts]
  <2>1. old = [approval |-> old.approval, reserved |-> old.reserved,
               chats |-> old.chats, tokens |-> old.tokens,
               state |-> old.state, seen |-> old.seen,
               receipts |-> old.receipts]
    BY DEF Ledgers
  <2> QED BY <2>1
<1> QED BY <1>1 DEF Ledgers, Behind

LEMMA AnsweredFacts ==
    ASSUME NEW old \in Ledgers, NEW c \in Calls
    PROVE  LET new == [old EXCEPT !.receipts[c] = "received"] IN
           /\ new \in Ledgers
           /\ Behind(old, new)
           /\ new.reserved = old.reserved /\ new.approval = old.approval
<1>1. [old EXCEPT !.receipts[c] = "received"] =
        [approval |-> old.approval, reserved |-> old.reserved,
         chats |-> old.chats, tokens |-> old.tokens,
         state |-> old.state, seen |-> old.seen,
         receipts |-> [old.receipts EXCEPT ![c] = "received"]]
  BY DEF Ledgers
<1>2. [old.receipts EXCEPT ![c] = "received"] \in [Calls -> ChargeStates]
  BY DEF Ledgers, ChargeStates
<1> QED BY <1>1, <1>2 DEF Ledgers, Behind

-----------------------------------------------------------------------------
(* The file only ever moves on.                                            *)
Grown == OnFile => OnFile' /\ Behind(file, file')

LEMMA InitInv == Init => IInv
<1> SUFFICES ASSUME Init PROVE IInv
  OBVIOUS
<1>1. Typed
  BY BudgetAssumption DEF Init, Typed, Steps
<1>2. ~Loaded /\ ~OnFile
  BY DEF Init, Loaded, OnFile
<1>3. CallInv
  BY <1>2 DEF Init, CallInv, BarrierHoldsOnce, InFlight
<1> QED BY <1>1, <1>2, <1>3 DEF IInv, LedgerInv

(* A handler that changes the memory writes all of it or nothing.          *)
LEMMA LedgerWritten ==
    ASSUME IInv, Loaded, NEW new \in Ledgers, Behind(memory, new),
           new.reserved <= Allowance[new.approval],
           memory' = new, file' \in {file, new}
    PROVE  /\ memory' \in Ledgers \cup {Unloaded}
           /\ file' \in Ledgers \cup {Absent}
           /\ Loaded' /\ LedgerInv' /\ Grown
<1>1. memory \in Ledgers /\ (OnFile => file \in Ledgers)
  BY DEF IInv, Typed, Loaded, OnFile
<1>2. new # Unloaded /\ new # Absent
  BY LedgerAssumption
<1>3. OnFile => Behind(file, memory)
  BY DEF IInv, LedgerInv
<1>4. OnFile => Behind(file, new)
  BY <1>1, <1>3, BehindTransitive
<1>5. Behind(new, new)
  BY BehindItself
<1>6. OnFile => Behind(file, file)
  BY <1>1, BehindItself
<1>7. OnFile' => Behind(file', memory')
  BY <1>4, <1>5 DEF OnFile
<1>8. OnFile' => file'.reserved <= Allowance[file'.approval]
  BY DEF IInv, LedgerInv, OnFile
<1>9. LedgerInv'
  BY <1>7, <1>8 DEF LedgerInv
<1>10. Grown
  BY <1>2, <1>4, <1>6 DEF Grown, OnFile
<1> QED BY <1>2, <1>9, <1>10 DEF IInv, Typed, Loaded

(* Both ways a handler can end with the file.                              *)
LEMMA PersistFacts ==
    ASSUME Typed, NEW new, Persist(new) \/ PersistFails(new)
    PROVE  memory' = new /\ file' \in {file, new} /\ faults' \in 0 .. MaxFaults
BY BudgetAssumption DEF Typed, Persist, PersistFails, Fault

LEMMA SliceFacts ==
    ASSUME Typed, LedgerInv, Loaded, memory.state = "open",
           NEW c \in Calls, NEW slip \in {0, 1}, ~OverLimit(c, slip)
    PROVE  /\ Sum(c, slip) - Price[c] + 1 .. Sum(c, slip) \in SUBSET Microdollars
           /\ \A u \in Sum(c, slip) - Price[c] + 1 .. Sum(c, slip) :
                 u \in 1 .. Sum(c, slip) /\ u > memory.reserved
<1>1. memory.approval \in Approvals /\ memory.reserved \in Nat
  BY DEF Typed, Loaded, Ledgers
<1>2. /\ Sum(c, slip) \in Nat /\ Price[c] \in Nat
      /\ Sum(c, slip) <= Allowance[memory.approval]
      /\ Sum(c, slip) - Price[c] >= memory.reserved
      /\ Allowance[memory.approval] \in Nat
  BY <1>1, ReservedFacts, BudgetAssumption
<1>3. \A u \in Sum(c, slip) - Price[c] + 1 .. Sum(c, slip) :
         /\ u \in 1 .. Sum(c, slip) /\ u > memory.reserved
         /\ u \in 1 .. Allowance[memory.approval]
  BY <1>1, <1>2
<1> QED BY <1>1, <1>3 DEF Microdollars

LEMMA UnchangedLedger ==
    ASSUME IInv, UNCHANGED <<memory, file>>
    PROVE  LedgerInv' /\ Grown
<1>1. OnFile => file \in Ledgers
  BY DEF IInv, Typed, OnFile
<1>2. OnFile => Behind(file, file)
  BY <1>1, BehindItself
<1> QED BY <1>2 DEF IInv, LedgerInv, Loaded, OnFile, Grown, Behind

(* Every step keeps the types, the ledgers in step, and what is on file.   *)
LEMMA StepLedger ==
    ASSUME IInv, [Next]_vars
    PROVE  Typed' /\ LedgerInv' /\ Grown
<1> USE DEF IInv
<1>1. CASE Initialize
  <2>1. Restored \in Ledgers /\ Restored.reserved <= Allowance[Restored.approval]
    BY <1>1, FreshFacts, BudgetAssumption
       DEF Typed, LedgerInv, Restored, OnFile
  <2>2. OnFile => Behind(file, Restored) /\ Behind(file, file)
    BY BehindItself DEF Typed, OnFile, Restored
  <2> QED BY <1>1, <2>1, <2>2
          DEF Initialize, Typed, LedgerInv, Loaded, OnFile, Grown
<1>2. CASE \E c \in Calls : Refuse(c)
  BY <1>2, UnchangedLedger DEF Refuse, Goto, Typed, Steps
<1>3. CASE \E c \in Calls : Stop(c)
  <2> PICK c \in Calls : Stop(c)
    BY <1>3
  <2> DEFINE new == [memory EXCEPT !.state = "stopped"]
  <2>1. Loaded /\ memory \in Ledgers /\ memory.state = "open"
    BY DEF Stop, Loaded, Typed
  <2>2. new \in Ledgers /\ Behind(memory, new)
        /\ new.reserved <= Allowance[new.approval]
    BY <2>1, StoppedFacts DEF LedgerInv
  <2>3. memory' = new /\ file' \in {file, new} /\ faults' \in 0 .. MaxFaults
    <3>1. Persist(new) \/ PersistFails(new)
      BY DEF Stop
    <3> HIDE DEF new
    <3> QED BY <3>1, PersistFacts
  <2> HIDE DEF new
  <2>4. /\ memory' \in Ledgers \cup {Unloaded}
        /\ file' \in Ledgers \cup {Absent}
        /\ LedgerInv' /\ Grown
    BY <2>1, <2>2, <2>3, LedgerWritten
  <2> QED BY <2>3, <2>4 DEF Stop, Goto, Typed, Steps
<1>4. CASE \E c \in Calls, slip \in {0, 1} : Admit(c, slip)
  <2> PICK c \in Calls, slip \in {0, 1} : Admit(c, slip)
    BY <1>4
  <2> DEFINE new == Reserved(c, slip)
             slice == Sum(c, slip) - Price[c] + 1 .. Sum(c, slip)
  <2>1. Loaded /\ memory.state = "open" /\ ~OverLimit(c, slip)
    BY DEF Admit, Loaded
  <2>2. new \in Ledgers /\ Behind(memory, new)
        /\ new.reserved <= Allowance[new.approval]
    BY <2>1, ReservedFacts
  <2>3. memory' = new /\ file' \in {file, new} /\ faults' \in 0 .. MaxFaults
    BY PersistFacts DEF Admit
  <2>4. /\ memory' \in Ledgers \cup {Unloaded}
        /\ file' \in Ledgers \cup {Absent}
        /\ LedgerInv' /\ Grown
    <3> HIDE DEF new
    <3> QED BY <2>1, <2>2, <2>3, LedgerWritten
  <2>5. slice \in SUBSET Microdollars
    BY <2>1, SliceFacts
  <2>6. Barrier(c) \in Markers \cup {NoMarker}
    BY DEF Barrier, Markers
  <2>7. call' \in [Calls -> [step : Steps, slice : SUBSET Microdollars,
                             barrier : Markers \cup {NoMarker}]]
    <3> HIDE DEF slice
    <3>1. \/ call' = [call EXCEPT ![c] = [step |-> "calling", slice |-> slice,
                                          barrier |-> Barrier(c)]]
          \/ call' = [call EXCEPT ![c].step = "refused"]
      BY DEF Admit, Goto, slice
    <3> QED BY <2>5, <2>6, <3>1 DEF Typed, Steps
  <2> HIDE DEF new, slice
  <2> QED BY <2>3, <2>4, <2>7 DEF Admit, Typed
<1>5. CASE \E c \in Calls : Charge(c)
  BY <1>5, UnchangedLedger DEF Charge, Goto, Typed, Steps
<1>6. CASE \E c \in Calls : Answer(c)
  <2> PICK c \in Calls : Answer(c)
    BY <1>6
  <2> DEFINE new == [memory EXCEPT !.receipts[c] = "received"]
  <2>1. Loaded /\ memory \in Ledgers
    BY DEF Answer, CallInv, InFlight, Typed, Loaded
  <2>2. new \in Ledgers /\ Behind(memory, new)
        /\ new.reserved <= Allowance[new.approval]
    BY <2>1, AnsweredFacts DEF LedgerInv
  <2>3. memory' = new /\ file' = file
    BY DEF Answer
  <2> HIDE DEF new
  <2>4. /\ memory' \in Ledgers \cup {Unloaded}
        /\ file' \in Ledgers \cup {Absent}
        /\ LedgerInv' /\ Grown
    BY <2>1, <2>2, <2>3, LedgerWritten
  <2> QED BY <2>4 DEF Answer, Goto, Typed, Steps
<1>7. CASE \E c \in Calls : Error(c)
  BY <1>7, UnchangedLedger DEF Error, Goto, Typed, Steps
<1>8. CASE \E c \in Calls : Conclude(c)
  <2> PICK c \in Calls : Conclude(c)
    BY <1>8
  <2>1. Loaded /\ memory \in Ledgers
    BY DEF Conclude, CallInv, InFlight, Typed, Loaded
  <2>2. Behind(memory, memory) /\ memory.reserved <= Allowance[memory.approval]
    BY <2>1, BehindItself DEF LedgerInv
  <2>3. memory' = memory /\ file' \in {file, memory} /\ faults' \in 0 .. MaxFaults
    BY PersistFacts DEF Conclude
  <2>4. /\ memory' \in Ledgers \cup {Unloaded}
        /\ file' \in Ledgers \cup {Absent}
        /\ LedgerInv' /\ Grown
    BY <2>1, <2>2, <2>3, LedgerWritten
  <2>5. \E step \in Steps : Goto(c, step)
    BY DEF Conclude, Steps
  <2> QED BY <2>3, <2>4, <2>5 DEF Conclude, Goto, Typed
<1>9. CASE \E c \in Calls : Return(c)
  BY <1>9, UnchangedLedger DEF Return, Goto, Typed, Steps
<1>10. CASE Restart
  <2>1. OnFile => Behind(file, file)
    BY BehindItself DEF Typed, OnFile
  <2>2. LedgerInv' /\ Grown
    BY <1>10, <2>1 DEF Restart, LedgerInv, Loaded, OnFile, Grown
  <2> QED BY <1>10, <2>2, BudgetAssumption DEF Restart, Fault, Typed, Steps
<1>11. CASE UNCHANGED vars
  BY <1>11, UnchangedLedger DEF vars, Typed
<1> QED
  BY <1>1, <1>2, <1>3, <1>4, <1>5, <1>6, <1>7, <1>8, <1>9, <1>10, <1>11 DEF Next

(* Spending and the calls' slices survive every step of the ledger.        *)
LEMMA GrownFacts ==
    ASSUME IInv, Typed', Grown, OnFile
    PROVE  /\ OnFile'
           /\ 1 .. file.reserved \subseteq 1 .. file'.reserved
           /\ file.seen \subseteq file'.seen
           /\ \A c \in Calls : file.receipts[c] # "none" =>
                                  file'.receipts[c] # "none"
<1>1. OnFile' /\ file \in Ledgers /\ file' \in Ledgers /\ Behind(file, file')
  BY DEF IInv, Typed, OnFile, Grown
<1>2. file.reserved \in Nat /\ file'.reserved \in Nat
  BY <1>1 DEF Ledgers
<1> QED BY <1>1, <1>2 DEF Behind

(* A step that spends nothing and admits no call.                          *)
LEMMA QuietCalls ==
    ASSUME IInv, Typed', Grown, spent' = spent,
           \A c \in Calls :
               /\ call'[c].slice = call[c].slice
               /\ call'[c].barrier = call[c].barrier
               /\ call'[c].step = "calling" => call[c].step = "calling"
               /\ call'[c].step \in InFlight => Loaded'
    PROVE  CallInv'
<1>1. spent' # {} => OnFile'
  BY GrownFacts DEF IInv, CallInv
<1>2. OnFile' => spent' \subseteq 1 .. file'.reserved
  BY GrownFacts DEF IInv, CallInv
<1>3. ASSUME NEW c \in Calls
      PROVE  /\ call'[c].slice # {} => /\ OnFile'
                                       /\ call'[c].slice \subseteq 1 .. file'.reserved
                                       /\ file'.receipts[c] # "none"
             /\ call'[c].step = "calling" => call'[c].slice \cap spent' = {}
             /\ call'[c].barrier # NoMarker =>
                   OnFile' /\ call'[c].barrier \in file'.seen
  <2>1. call[c].slice # {} => /\ OnFile
                              /\ call[c].slice \subseteq 1 .. file.reserved
                              /\ file.receipts[c] # "none"
    BY DEF IInv, CallInv
  <2>2. call[c].barrier # NoMarker => OnFile /\ call[c].barrier \in file.seen
    BY DEF IInv, CallInv
  <2>3. call[c].step = "calling" => call[c].slice \cap spent = {}
    BY DEF IInv, CallInv
  <2> QED BY <2>1, <2>2, <2>3, GrownFacts
<1>4. BarrierHoldsOnce'
  BY DEF IInv, CallInv, BarrierHoldsOnce
<1>5. \A c, d \in Calls : c # d => call'[c].slice \cap call'[d].slice = {}
  BY DEF IInv, CallInv
<1> QED BY <1>1, <1>2, <1>3, <1>4, <1>5 DEF CallInv

LEMMA AdmitCalls ==
    ASSUME IInv, Typed', LedgerInv', Grown,
           NEW c \in Calls, NEW slip \in {0, 1}, Admit(c, slip)
    PROVE  CallInv'
<1> DEFINE new == Reserved(c, slip)
           slice == Sum(c, slip) - Price[c] + 1 .. Sum(c, slip)
<1>1. CASE PersistFails(new)
  <2>1. Loaded' /\ spent' = spent
    BY <1>1, LedgerAssumption, ReservedFacts DEF PersistFails, Admit, IInv, Loaded
  <2>2. call' = [call EXCEPT ![c].step = "refused"] \/
        (Persist(new) /\ call' = [call EXCEPT ![c] =
            [step |-> "calling", slice |-> slice, barrier |-> Barrier(c)]])
    BY DEF Admit, Goto
  <2>3. ~Persist(new)
    BY <1>1, BudgetAssumption DEF Persist, PersistFails, Fault, IInv, Typed
  <2>4. call' = [call EXCEPT ![c].step = "refused"]
    BY <2>2, <2>3
  <2>5. \A d \in Calls :
               /\ call'[d].slice = call[d].slice
               /\ call'[d].barrier = call[d].barrier
               /\ call'[d].step = "calling" => call[d].step = "calling"
               /\ call'[d].step \in InFlight => Loaded'
    BY <2>1, <2>4 DEF IInv, Typed
  <2> QED BY <2>1, <2>5, QuietCalls
<1>2. CASE Persist(new)
  <2>1. call' = [call EXCEPT ![c] = [step |-> "calling", slice |-> slice,
                                     barrier |-> Barrier(c)]]
    BY <1>2, BudgetAssumption
       DEF Admit, Goto, Persist, PersistFails, Fault, IInv, Typed
  <2>2. Loaded /\ memory.state = "open" /\ ~OverLimit(c, slip)
    BY DEF Admit, Loaded
  <2>3. /\ new \in Ledgers /\ new.reserved = Sum(c, slip)
        /\ new.receipts[c] = "unknown" /\ Sum(c, slip) \in Nat
        /\ Barrier(c) \in {NoMarker} \cup (new.seen \ memory.seen)
    BY <2>2, ReservedFacts DEF IInv
  <2>4. \A u \in slice : u \in 1 .. Sum(c, slip) /\ u > memory.reserved
    BY <2>2, SliceFacts DEF IInv
  <2>5. memory' = new /\ file' = new /\ spent' = spent /\ Loaded' /\ OnFile'
    BY <1>2, <2>3, LedgerAssumption DEF Persist, Admit, Loaded, OnFile
  <2> HIDE DEF new, slice
  <2>6. OnFile => /\ memory.reserved \in Nat /\ file.reserved \in Nat
                  /\ file.reserved <= memory.reserved
                  /\ file.seen \subseteq memory.seen
    BY <2>2 DEF IInv, Typed, LedgerInv, Behind, Ledgers, OnFile, Loaded
  <2>7. \A u \in slice : OnFile => u \notin 1 .. file.reserved
    BY <2>4, <2>6
  <2>8. \A d \in Calls : d # c => call'[d] = call[d]
    BY <2>1 DEF IInv, Typed
  <2>9. /\ call'[c].slice = slice /\ call'[c].barrier = Barrier(c)
        /\ call'[c].step = "calling"
    BY <2>1 DEF IInv, Typed
  <2>10. slice \cap spent = {}
    BY <2>7 DEF IInv, CallInv
  <2>11. \A d \in Calls : d # c =>
            /\ slice \cap call[d].slice = {}
            /\ Barrier(c) # NoMarker => call[d].barrier # Barrier(c)
    <3> SUFFICES ASSUME NEW d \in Calls, d # c
                 PROVE  /\ slice \cap call[d].slice = {}
                        /\ Barrier(c) # NoMarker => call[d].barrier # Barrier(c)
      OBVIOUS
    <3>1. call[d].slice # {} => OnFile /\ call[d].slice \subseteq 1 .. file.reserved
      BY DEF IInv, CallInv
    <3>2. call[d].barrier # NoMarker => OnFile /\ call[d].barrier \in file.seen
      BY DEF IInv, CallInv
    <3>3. slice \cap call[d].slice = {}
      BY <2>7, <3>1
    <3> QED BY <2>3, <2>6, <3>2, <3>3
  <2>12. spent' \subseteq 1 .. file'.reserved
    BY <2>5, GrownFacts DEF IInv, CallInv
  <2>13. ASSUME NEW d \in Calls
         PROVE  /\ call'[d].slice # {} => /\ call'[d].slice \subseteq 1 .. file'.reserved
                                          /\ file'.receipts[d] # "none"
                /\ call'[d].step = "calling" => call'[d].slice \cap spent' = {}
                /\ call'[d].barrier # NoMarker => call'[d].barrier \in file'.seen
    <3>1. CASE d = c
      BY <2>3, <2>4, <2>5, <2>9, <2>10, <3>1
    <3>2. CASE d # c
      <4>1. call'[d] = call[d]
        BY <2>8, <3>2
      <4>2. call[d].slice # {} => /\ OnFile
                                  /\ call[d].slice \subseteq 1 .. file.reserved
                                  /\ file.receipts[d] # "none"
        BY DEF IInv, CallInv
      <4>3. call[d].barrier # NoMarker => OnFile /\ call[d].barrier \in file.seen
        BY DEF IInv, CallInv
      <4>4. call[d].step = "calling" => call[d].slice \cap spent = {}
        BY DEF IInv, CallInv
      <4> QED BY <2>5, <4>1, <4>2, <4>3, <4>4, GrownFacts
    <3> QED BY <3>1, <3>2
  <2>14. \A d, e \in Calls : d # e => call'[d].slice \cap call'[e].slice = {}
    <3>1. \A d, e \in Calls : d # e => call[d].slice \cap call[e].slice = {}
      BY DEF IInv, CallInv
    <3> QED BY <2>8, <2>9, <2>11, <3>1
  <2>15. BarrierHoldsOnce'
    <3>1. BarrierHoldsOnce
      BY DEF IInv, CallInv
    <3> QED BY <2>8, <2>9, <2>11, <3>1 DEF BarrierHoldsOnce
  <2> QED BY <2>5, <2>12, <2>13, <2>14, <2>15 DEF CallInv
<1> QED BY <1>1, <1>2 DEF Admit

LEMMA ChargeCalls ==
    ASSUME IInv, Typed', Grown, NEW c \in Calls, Charge(c)
    PROVE  CallInv'
<1>1. /\ call[c].step = "calling" /\ spent' = spent \cup call[c].slice
      /\ call' = [call EXCEPT ![c].step = "charged"]
      /\ UNCHANGED <<memory, file>>
  BY DEF Charge, Goto
<1>2. \A d \in Calls : /\ call'[d].slice = call[d].slice
                       /\ call'[d].barrier = call[d].barrier
                       /\ d # c => call'[d].step = call[d].step
  BY <1>1 DEF IInv, Typed
<1>3. call'[c].step = "charged"
  BY <1>1 DEF IInv, Typed
<1>4. call[c].slice # {} => OnFile /\ call[c].slice \subseteq 1 .. file.reserved
  BY DEF IInv, CallInv
<1>5. /\ spent' # {} => OnFile'
      /\ OnFile' => spent' \subseteq 1 .. file'.reserved
  BY <1>1, <1>4 DEF IInv, CallInv, OnFile
<1>6. ASSUME NEW d \in Calls
      PROVE  /\ call'[d].slice # {} => /\ OnFile'
                                       /\ call'[d].slice \subseteq 1 .. file'.reserved
                                       /\ file'.receipts[d] # "none"
             /\ call'[d].barrier # NoMarker =>
                   OnFile' /\ call'[d].barrier \in file'.seen
  BY <1>1, <1>2 DEF IInv, CallInv, OnFile
<1>7. ASSUME NEW d \in Calls
      PROVE  call'[d].step = "calling" => call'[d].slice \cap spent' = {}
  <2>1. d # c => call[c].slice \cap call[d].slice = {}
    BY DEF IInv, CallInv
  <2>2. call[d].step = "calling" => call[d].slice \cap spent = {}
    BY DEF IInv, CallInv
  <2> QED BY <1>1, <1>2, <1>3, <2>1, <2>2
<1>8. \A d \in Calls : call'[d].step \in InFlight => Loaded'
  BY <1>1, <1>2, <1>3 DEF IInv, CallInv, Loaded, InFlight
<1>9. /\ BarrierHoldsOnce'
      /\ \A d, e \in Calls : d # e => call'[d].slice \cap call'[e].slice = {}
  BY <1>2 DEF IInv, CallInv, BarrierHoldsOnce
<1> QED BY <1>5, <1>6, <1>7, <1>8, <1>9 DEF CallInv

(* The other steps of a call.                                              *)
LEMMA StepQuiet ==
    ASSUME IInv, Typed', Grown, NEW c \in Calls, NEW step \in Steps \ {"calling"},
           Goto(c, step), spent' = spent, Loaded => Loaded',
           step \in InFlight => Loaded'
    PROVE  CallInv'
<1>1. \A d \in Calls : /\ call'[d].slice = call[d].slice
                       /\ call'[d].barrier = call[d].barrier
                       /\ call'[d].step = IF d = c THEN step ELSE call[d].step
  BY DEF Goto, IInv, Typed
<1>2. \A d \in Calls : call'[d].step \in InFlight => Loaded'
  BY <1>1 DEF IInv, CallInv
<1> QED BY <1>1, <1>2, QuietCalls

LEMMA StepCalls ==
    ASSUME IInv, [Next]_vars
    PROVE  CallInv'
<1>1. Typed' /\ LedgerInv' /\ Grown
  BY StepLedger
<1> USE DEF Steps, InFlight
<1>2. CASE Initialize
  <2>1. Loaded'
    BY <1>2, LedgerAssumption, FreshFacts
       DEF Initialize, Restored, Loaded, IInv, Typed
  <2> QED BY <1>1, <1>2, <2>1, QuietCalls DEF Initialize
<1>3. CASE \E c \in Calls : Refuse(c)
  BY <1>1, <1>3, StepQuiet DEF Refuse, Loaded
<1>4. CASE \E c \in Calls : Stop(c)
  <2> PICK c \in Calls : Stop(c)
    BY <1>4
  <2>1. memory \in Ledgers /\ memory.state = "open"
    BY DEF Stop, IInv, Typed
  <2>2. memory' = [memory EXCEPT !.state = "stopped"]
    BY DEF Stop, Persist, PersistFails
  <2>3. Loaded'
    BY <2>1, <2>2, StoppedFacts, LedgerAssumption DEF Loaded
  <2> QED BY <1>1, <2>3, StepQuiet DEF Stop
<1>5. CASE \E c \in Calls, slip \in {0, 1} : Admit(c, slip)
  BY <1>1, <1>5, AdmitCalls
<1>6. CASE \E c \in Calls : Charge(c)
  BY <1>1, <1>6, ChargeCalls
<1>7. CASE \E c \in Calls : Answer(c)
  <2> PICK c \in Calls : Answer(c)
    BY <1>7
  <2>1. memory \in Ledgers
    BY DEF Answer, IInv, CallInv, Typed, Loaded
  <2>2. Loaded'
    BY <2>1, AnsweredFacts, LedgerAssumption DEF Answer, Loaded
  <2> QED BY <1>1, <2>2, StepQuiet DEF Answer
<1>8. CASE \E c \in Calls : Error(c)
  <2> PICK c \in Calls : Error(c)
    BY <1>8
  <2>1. Loaded'
    BY DEF Error, IInv, CallInv, Loaded
  <2> QED BY <1>1, <2>1, StepQuiet DEF Error
<1>9. CASE \E c \in Calls : Conclude(c)
  <2> PICK c \in Calls : Conclude(c)
    BY <1>9
  <2>1. memory' = memory
    BY DEF Conclude, Persist, PersistFails
  <2>2. Loaded'
    BY <2>1 DEF Conclude, IInv, CallInv, Loaded
  <2>3. \E step \in {"holding", "ended"} : Goto(c, step)
    BY DEF Conclude
  <2> QED BY <1>1, <2>2, <2>3, StepQuiet DEF Conclude
<1>10. CASE \E c \in Calls : Return(c)
  BY <1>1, <1>10, StepQuiet DEF Return, Loaded
<1>11. CASE Restart
  <2>1. spent' = spent
    BY <1>11 DEF Restart
  <2>2. \A c \in Calls :
               /\ call'[c].slice = call[c].slice
               /\ call'[c].barrier = call[c].barrier
               /\ call'[c].step \notin InFlight
    BY <1>11 DEF Restart, IInv, Typed
  <2> QED BY <1>1, <2>1, <2>2, QuietCalls
<1>12. CASE UNCHANGED vars
  <2>1. \A c \in Calls : call'[c].step \in InFlight => Loaded'
    BY <1>12 DEF vars, IInv, CallInv, Loaded
  <2> QED BY <1>1, <1>12, <2>1, QuietCalls DEF vars
<1> QED
  BY <1>2, <1>3, <1>4, <1>5, <1>6, <1>7, <1>8, <1>9, <1>10, <1>11, <1>12 DEF Next

THEOREM BudgetInvariant == Spec => []IInv
<1>1. Init => IInv
  BY InitInv
<1>2. IInv /\ [Next]_vars => IInv'
  BY StepLedger, StepCalls DEF IInv
<1> QED BY <1>1, <1>2, PTL DEF Spec

-----------------------------------------------------------------------------
(* The ledgers, calls and charges keep their types, the counters stay      *)
(* within the limits, and neither the ledger in memory nor the one on file *)
(* ever reserves more than its approval allows.                            *)
THEOREM BudgetTypes == Spec => []TypeOK
<1>1. IInv => TypeOK
  BY DEF IInv, LedgerInv, TypeOK, Within, Loaded, OnFile
<1> QED BY <1>1, BudgetInvariant, PTL

(* Whatever fails between the reservation, its file and the provider's     *)
(* answer, the file covers every charge, within the approval.              *)
THEOREM ReservationFirst == Spec => []ReservedBeforeSpent
<1>1. IInv => ReservedBeforeSpent
  BY DEF IInv, LedgerInv, CallInv, ReservedBeforeSpent
<1> QED BY <1>1, BudgetInvariant, PTL

(* No call that spent anything is missing from the receipts on file.       *)
THEOREM ReceiptsComplete == Spec => []ChargesHaveReceipts
<1>1. IInv => ChargesHaveReceipts
  BY DEF IInv, CallInv, ChargesHaveReceipts
<1> QED BY <1>1, BudgetInvariant, PTL

(* A crash barrier is used up by the call that it held.                    *)
THEOREM BarrierOnce == Spec => []BarrierHoldsOnce
<1>1. IInv => BarrierHoldsOnce
  BY DEF IInv, CallInv
<1> QED BY <1>1, BudgetInvariant, PTL

(* Once a stop is on file nothing is reserved any more, restarts or not.   *)
THEOREM StopFinal == Spec => StopIsFinal
<1> DEFINE Kept ==
        OnFile /\ file.state = "stopped" =>
            /\ OnFile' /\ file'.state = "stopped"
            /\ file'.reserved = file.reserved
            /\ file'.chats = file.chats
            /\ file'.tokens = file.tokens
<1>1. IInv /\ [Next]_vars => [Kept]_vars
  BY StepLedger DEF Grown, Behind
<1> QED BY <1>1, BudgetInvariant, PTL DEF Spec, StopIsFinal

(* Every step of the proxy promises more under the same approval, spends   *)
(* what it promised before, or changes nothing the ledger promises.        *)
THEOREM BudgetImplementsContract == Spec => ImplementsContract
<1> USE DEF Contract!SpendingVars
<1>1. Init => Contract!SpendingInit
  BY DEF Init, Contract!SpendingInit
<1>2. IInv /\ [Next]_vars => [Contract!SpendingNext]_Contract!SpendingVars
  <2> SUFFICES ASSUME IInv, [Next]_vars
               PROVE  [Contract!SpendingNext]_Contract!SpendingVars
    OBVIOUS
  <2>1. Typed' /\ LedgerInv' /\ Grown
    BY StepLedger
  <2>2. CASE \E c \in Calls : Charge(c)
    <3> PICK c \in Calls : Charge(c)
      BY <2>2
    <3>1. CASE call[c].slice = {}
      BY <3>1 DEF Charge
    <3>2. CASE call[c].slice # {}
      <4>1. /\ OnFile /\ call[c].slice \subseteq (1 .. file.reserved) \ spent
            /\ spent' = spent \cup call[c].slice /\ UNCHANGED file
        BY <3>2 DEF Charge, IInv, CallInv
      <4>2. Contract!Spend(call[c].slice)
        BY <4>1 DEF Contract!Spend, OnFile
      <4> QED BY <4>1, <4>2 DEF Contract!SpendingNext, OnFile
    <3> QED BY <3>1, <3>2
  <2>3. CASE spent' = spent
    <3>1. CASE file' = file
      BY <2>3, <3>1
    <3>2. CASE file' # file
      <4>1. OnFile' /\ file' \in Ledgers
        <5>1. OnFile => OnFile'
          BY <2>1 DEF Grown
        <5> QED BY <2>1, <3>2, <5>1 DEF OnFile, Typed
      <4> DEFINE a == file'.approval
                 n == file'.reserved
      <4>2. a \in Approvals /\ n \in 0 .. Allowance[a]
        BY <2>1, <4>1, BudgetAssumption DEF LedgerInv, Ledgers
      <4>3. OnFile => /\ file.approval = a /\ file.reserved <= n
                      /\ file.reserved \in Nat
        BY <2>1 DEF Grown, Behind, IInv, Typed, OnFile, Ledgers
      <4>4. Contract!Promise(a, n)
        BY <2>3, <4>1, <4>2, <4>3, BudgetAssumption
           DEF Contract!Promise, OnFile
      <4> QED BY <4>2, <4>4 DEF Contract!SpendingNext
    <3> QED BY <3>1, <3>2
  <2>4. (\E c \in Calls : Charge(c)) \/ spent' = spent
    BY DEF Next, Initialize, Refuse, Stop, Admit, Answer, Error, Conclude,
           Return, Restart, vars
  <2> QED BY <2>2, <2>3, <2>4
<1> QED BY <1>1, <1>2, BudgetInvariant, PTL
        DEF Spec, ImplementsContract, Contract!SpendingSpec

=============================================================================
