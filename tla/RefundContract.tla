--------------------------- MODULE RefundContract ---------------------------
(***************************************************************************)
(* What the refund ledger promises, without sessions, locks or rows: every *)
(* request is settled at most once, and an order number carries at most    *)
(* one approved simulated refund, which stays for good.  The transaction   *)
(* steps of db.py that keep this promise are in RefundLedger.              *)
(***************************************************************************)
EXTENDS Naturals

CONSTANTS
    OrderNumbers,   \* values of orders.order_number
    Requests,       \* request ids: the run ids of refund conversations
    Legacy,         \* holder of an action adopted by schema.sql
    NoRequest,      \* no refund_actions row for the order number
    NoDecision      \* no refund_decisions row for the request

(* The five texts record_simulated_refund may commit as outcome.           *)
Outcomes == {"approved", "rejected", "already", "changed", "missing"}

Decisions == [order : OrderNumbers, approved : BOOLEAN, outcome : Outcomes]

ASSUME SentinelAssumption ==
    /\ NoRequest \notin Requests
    /\ Legacy \notin Requests
    /\ Legacy # NoRequest
    /\ NoDecision \notin Decisions

VARIABLES
    actions,        \* refund_actions: order number -> request id, if any
    decisions       \* refund_decisions: request id -> decision, if any

ContractVars == <<actions, decisions>>

Holders == Requests \cup {Legacy}

ContractTypeOK ==
    /\ actions \in [OrderNumbers -> Holders \cup {NoRequest}]
    /\ decisions \in [Requests -> Decisions \cup {NoDecision}]

-----------------------------------------------------------------------------

ContractInit ==
    /\ actions = [o \in OrderNumbers |-> NoRequest]
    /\ decisions = [r \in Requests |-> NoDecision]

(* A decision is recorded together with the action it permits.             *)
Settle(r, d) ==
    /\ decisions[r] = NoDecision
    /\ d.outcome = "approved" => d.approved
    /\ d.outcome = "rejected" => ~d.approved
    /\ d.outcome \in {"approved", "rejected", "changed"} =>
           actions[d.order] = NoRequest
    /\ decisions' = [decisions EXCEPT ![r] = d]
    /\ actions' = IF d.outcome = "approved"
                  THEN [actions EXCEPT ![d.order] = r]
                  ELSE actions

(* Orders approved before the ledger existed get an action of their own.   *)
Adopt(S) ==
    /\ \A o \in S : actions[o] = NoRequest
    /\ actions' = [o \in OrderNumbers |->
                      IF o \in S THEN Legacy ELSE actions[o]]
    /\ UNCHANGED decisions

ContractNext ==
    \/ \E r \in Requests, d \in Decisions : Settle(r, d)
    \/ \E S \in SUBSET OrderNumbers : Adopt(S)

ContractSpec == ContractInit /\ [][ContractNext]_ContractVars

=============================================================================
