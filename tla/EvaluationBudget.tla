-------------------------- MODULE EvaluationBudget --------------------------
(***************************************************************************)
(* The evaluation proxy, scripts/evaluation_proxy.py: it reserves the      *)
(* worst-case cost of every model call in a ledger, writes the ledger to a *)
(* file and only then calls the provider.  Calls are coroutines; what they *)
(* do under the asyncio lock has no await between the first assignment and *)
(* the file, so it is one action.  A write may fail and the proxy may stop *)
(* at any time; a new process reads the file.                              *)
(*                                                                         *)
(* Money is counted in whole microdollars, as the code rounds it: the cost *)
(* of a call up, the allowance down.  Reserved microdollars are numbered,  *)
(* so that a call owns the slice 1 + reserved .. of the ledger it was      *)
(* given.  The bodies of requests are valid; what else they say is left    *)
(* out.                                                                    *)
(***************************************************************************)
EXTENDS Naturals

CONSTANTS
    Calls,          \* calls of forward
    Chats,          \* those of /chat/completions; the others embed
    Oversized,      \* those beyond 64000 bytes or for another model
    Price,          \* the ceiling of each call's cost, in microdollars
    Size,           \* the byte ceiling of each call
    Marker,         \* the crash barrier a call's message names
    NoMarker,
    Approvals,      \* allowance receipts an operator can supply
    Allowance,      \* the floor of each receipt's max_usd
    NoApproval,
    MaxChats,       \* 400
    MaxTokens,      \* 1_000_000
    Unloaded, Absent,
    MaxFaults       \* failed writes and crashes together

Microdollars == UNION {1 .. Allowance[a] : a \in Approvals}

ASSUME BudgetAssumption ==
    /\ Chats \subseteq Calls
    /\ Oversized \subseteq Calls
    /\ Price \in [Calls -> Nat]
    /\ Size \in [Calls -> Nat]
    /\ Allowance \in [Approvals -> Nat]
    /\ NoApproval \notin Approvals
    /\ MaxChats \in Nat
    /\ MaxTokens \in Nat
    /\ MaxFaults \in Nat

Markers == {Marker[c] : c \in Calls} \ {NoMarker}

ChargeStates == {"none", "unknown", "received"}

Ledgers == [approval : Approvals,
            reserved : Nat,                     \* reserved_usd
            chats : 0 .. MaxChats,              \* chat_calls
            tokens : 0 .. MaxTokens,            \* embedding_tokens
            state : {"open", "stopped"},        \* budget_stop_reason
            seen : SUBSET Markers,              \* seen_barriers
            receipts : [Calls -> ChargeStates]]

ASSUME LedgerAssumption == Unloaded \notin Ledgers /\ Absent \notin Ledgers

VARIABLES
    supplied,       \* the approval in EVALUATION_ALLOWANCE_FILE
    memory,         \* the proxy's globals, Unloaded while allowance is None
    file,           \* EVALUATION_BUDGET_FILE
    call,           \* the step of each call, its slice and its barrier
    spent,          \* the microdollars the provider has charged
    faults

vars == <<supplied, memory, file, call, spent, faults>>

Steps == {"new", "refused", "calling", "charged", "answered", "errored",
          "holding", "ended"}

Typed ==
    /\ supplied \in Approvals
    /\ memory \in Ledgers \cup {Unloaded}
    /\ file \in Ledgers \cup {Absent}
    /\ call \in [Calls -> [step : Steps, slice : SUBSET Microdollars,
                           barrier : Markers \cup {NoMarker}]]
    /\ spent \in SUBSET Microdollars
    /\ faults \in 0 .. MaxFaults

Within(ledger) == ledger.reserved <= Allowance[ledger.approval]

(* Types, the counters within the limits, and no ledger, in memory or on   *)
(* file, has reserved more than its approval allows.                       *)
TypeOK ==
    /\ Typed
    /\ memory # Unloaded => Within(memory)
    /\ file # Absent => Within(file)

-----------------------------------------------------------------------------

Fresh(a) ==
    [approval |-> a, reserved |-> 0, chats |-> 0, tokens |-> 0,
     state |-> "open", seen |-> {}, receipts |-> [c \in Calls |-> "none"]]

Init ==
    /\ supplied \in Approvals
    /\ memory = Unloaded
    /\ file = Absent
    /\ call = [c \in Calls |->
                  [step |-> "new", slice |-> {}, barrier |-> NoMarker]]
    /\ spent = {}
    /\ faults = 0

Goto(c, step) == call' = [call EXCEPT ![c].step = step]

Fault == faults < MaxFaults /\ faults' = faults + 1

(* persist_budget replaces the file as a whole.                            *)
Persist(ledger) ==
    /\ memory' = ledger
    /\ file' = ledger
    /\ UNCHANGED faults

(* The disk is full: the globals have changed, the file has not.           *)
PersistFails(ledger) ==
    /\ memory' = ledger
    /\ Fault
    /\ UNCHANGED file

(* Mutant: the stop reason is not restored.                                *)
RestoredOpen == IF file = Absent THEN Fresh(supplied)
                ELSE [file EXCEPT !.state = "open"]

(* The ledger a new process works with.                                    *)
Restored == IF file = Absent THEN Fresh(supplied) ELSE file

(* initialize, under the lock of the first call or of GET /receipts; a     *)
(* price above the ceiling or another approval leaves allowance None.      *)
Initialize ==
    /\ memory = Unloaded
    /\ file # Absent => file.approval = supplied
    /\ memory' = Restored
    /\ UNCHANGED <<supplied, file, call, spent, faults>>

(* 403 of initialize, or 429 of a stopped budget.                          *)
Refuse(c) ==
    /\ call[c].step = "new"
    /\ memory # Unloaded => memory.state = "stopped"
    /\ Goto(c, "refused")
    /\ UNCHANGED <<supplied, memory, file, spent, faults>>

(* The reservation of a call behind the sum of all before it.  Binary      *)
(* fractions may lift the sum over the next microdollar: slip.             *)
Sum(c, slip) == memory.reserved + slip + Price[c]

(* Mutant: only the money is limited.                                      *)
OverMoney(c, slip) == Sum(c, slip) > Allowance[memory.approval]

OverLimit(c, slip) ==
    \/ c \in Oversized
    \/ c \in Chats /\ memory.chats >= MaxChats
    \/ c \notin Chats /\ memory.tokens + Size[c] > MaxTokens
    \/ Sum(c, slip) > Allowance[memory.approval]

(* stop_budget: no later call is admitted.                                 *)
Stop(c) ==
    LET stopped == [memory EXCEPT !.state = "stopped"] IN
    /\ call[c].step = "new"
    /\ memory # Unloaded
    /\ memory.state = "open"
    /\ \E slip \in {0, 1} : OverLimit(c, slip)
    /\ Persist(stopped) \/ PersistFails(stopped)
    /\ Goto(c, "refused")
    /\ UNCHANGED <<supplied, spent>>

(* Mutant: every call that names a barrier is held.                        *)
BarrierAgain(c) == Marker[c]

(* The first call that names a barrier is held after its answer.           *)
Barrier(c) == IF Marker[c] \in memory.seen THEN NoMarker ELSE Marker[c]

(* Mutant: the call's receipt is appended after the answer.                *)
ReservedSilently(c, slip) ==
    [memory EXCEPT
        !.reserved = Sum(c, slip),
        !.chats = IF c \in Chats THEN @ + 1 ELSE @,
        !.tokens = IF c \in Chats THEN @ ELSE @ + Size[c],
        !.seen = @ \cup ({Marker[c]} \ {NoMarker})]

(* The ledger with the reservation and the receipt of a call.              *)
Reserved(c, slip) ==
    [memory EXCEPT
        !.reserved = Sum(c, slip),
        !.chats = IF c \in Chats THEN @ + 1 ELSE @,
        !.tokens = IF c \in Chats THEN @ ELSE @ + Size[c],
        !.seen = @ \cup ({Marker[c]} \ {NoMarker}),
        !.receipts[c] = "unknown"]

(* Mutant: the provider is called although the file could not be written.  *)
AdmitAnyway(c, slip) ==
    /\ call[c].step = "new"
    /\ memory # Unloaded
    /\ memory.state = "open"
    /\ ~OverLimit(c, slip)
    /\ Persist(Reserved(c, slip)) \/ PersistFails(Reserved(c, slip))
    /\ call' = [call EXCEPT ![c] =
                   [step |-> "calling",
                    slice |-> Sum(c, slip) - Price[c] + 1 .. Sum(c, slip),
                    barrier |-> Barrier(c)]]
    /\ UNCHANGED <<supplied, spent>>

(* The call is reserved and the file written, then the lock is released.   *)
Admit(c, slip) ==
    /\ call[c].step = "new"
    /\ memory # Unloaded
    /\ memory.state = "open"
    /\ ~OverLimit(c, slip)
    /\ \/ /\ Persist(Reserved(c, slip))
          /\ call' = [call EXCEPT ![c] =
                         [step |-> "calling",
                          slice |-> Sum(c, slip) - Price[c] + 1 ..
                                        Sum(c, slip),
                          barrier |-> Barrier(c)]]
       \/ PersistFails(Reserved(c, slip)) /\ Goto(c, "refused")
    /\ UNCHANGED <<supplied, spent>>

(* The provider charges no more than was reserved, if it gets the request. *)
Charge(c) ==
    /\ call[c].step = "calling"
    /\ spent' = spent \cup call[c].slice
    /\ Goto(c, "charged")
    /\ UNCHANGED <<supplied, memory, file, faults>>

(* The receipt is completed at once; the file waits for the lock.          *)
Answer(c) ==
    /\ call[c].step = "charged"
    /\ memory' = [memory EXCEPT !.receipts[c] = "received"]
    /\ Goto(c, "answered")
    /\ UNCHANGED <<supplied, file, spent, faults>>

(* Mutant: a failed call gives its reservation back.                       *)
ErrorReleases(c) ==
    /\ call[c].step \in {"calling", "charged"}
    /\ memory' = [memory EXCEPT !.reserved = @ - Price[c]]
    /\ Goto(c, "errored")
    /\ UNCHANGED <<supplied, file, spent, faults>>

(* A timeout or a status of the provider, charged or not: the reservation  *)
(* and the receipt stay as they are.                                       *)
Error(c) ==
    /\ call[c].step \in {"calling", "charged"}
    /\ Goto(c, "errored")
    /\ UNCHANGED <<supplied, memory, file, spent, faults>>

(* Under the lock again, the file is written with all that happened since. *)
Conclude(c) ==
    /\ call[c].step \in {"answered", "errored"}
    /\ \/ /\ Persist(memory)
          /\ Goto(c, IF call[c].step = "answered" /\ call[c].barrier # NoMarker
                     THEN "holding" ELSE "ended")
       \/ PersistFails(memory) /\ Goto(c, "ended")
    /\ UNCHANGED <<supplied, spent>>

(* The held answer is returned after 60 seconds.                           *)
Return(c) ==
    /\ call[c].step = "holding"
    /\ Goto(c, "ended")
    /\ UNCHANGED <<supplied, memory, file, spent, faults>>

(* The process stops, and the operator may supply another receipt.         *)
Restart ==
    /\ Fault
    /\ supplied' \in Approvals
    /\ memory' = Unloaded
    /\ call' = [c \in Calls |->
                   IF call[c].step \in {"calling", "charged", "answered",
                                        "errored", "holding"}
                   THEN [call[c] EXCEPT !.step = "ended"] ELSE call[c]]
    /\ UNCHANGED <<file, spent>>

Next ==
    \/ Initialize
    \/ \E c \in Calls :
           \/ Refuse(c)
           \/ Stop(c)
           \/ \E slip \in {0, 1} : Admit(c, slip)
           \/ Charge(c)
           \/ Answer(c)
           \/ Error(c)
           \/ Conclude(c)
           \/ Return(c)
    \/ Restart

Spec == Init /\ [][Next]_vars

-----------------------------------------------------------------------------
(* Properties.                                                             *)

OnFile == file # Absent

(* "Reserve before calling; failed/crashed calls remain charged against    *)
(* the ceiling": whatever fails, and whenever the proxy stops, the file    *)
(* covers every microdollar a provider has charged, within the approval.   *)
ReservedBeforeSpent ==
    /\ spent # {} => OnFile
    /\ OnFile => /\ spent \subseteq 1 .. file.reserved
                 /\ file.reserved <= Allowance[file.approval]

(* The file keeps the receipt of every call that was charged, so the audit *)
(* of GET /receipts after a restart misses none.                           *)
ChargesHaveReceipts ==
    \A c \in Calls : call[c].slice \cap spent # {} =>
        OnFile /\ file.receipts[c] # "none"

(* A stop on file holds over restarts: no reservation and no call follow.  *)
StopIsFinal ==
    [][OnFile /\ file.state = "stopped" =>
           /\ OnFile' /\ file'.state = "stopped"
           /\ file'.reserved = file.reserved
           /\ file'.chats = file.chats
           /\ file'.tokens = file.tokens]_vars

(* A crash barrier holds the answer of one call, over restarts too: the    *)
(* call that recovery repeats with the same message is not held again.     *)
BarrierHoldsOnce ==
    \A c, d \in Calls :
        call[c].barrier = call[d].barrier /\ call[c].barrier # NoMarker => c = d

(* The proxy implements the ledger it promises.                            *)
Contract == INSTANCE SpendingContract WITH
    approval <- IF file = Absent THEN NoApproval ELSE file.approval,
    promised <- IF file = Absent THEN 0 ELSE file.reserved,
    spent <- spent

ImplementsContract == Contract!SpendingSpec

=============================================================================
