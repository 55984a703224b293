---------------------------- MODULE RefundLedger ----------------------------
(***************************************************************************)
(* The refund ledger of db.py as PostgreSQL runs it.  A session is one     *)
(* call of record_simulated_refund: a READ COMMITTED transaction of five   *)
(* statements, each with a snapshot of its own, that holds an advisory     *)
(* lock on the request id and a row lock on the order.  Beside the         *)
(* sessions run the employee endpoints of api.py, which edit orders and    *)
(* prices with single-statement transactions, and schema.sql, which adopts *)
(* orders approved before the ledger existed.                              *)
(*                                                                         *)
(* A transaction's writes become visible at its commit, so they are all in *)
(* Commit; what a session has read so far is in its record.                *)
(***************************************************************************)
EXTENDS RefundContract

CONSTANTS
    Sessions,       \* database connections that may run a refund
    Products,       \* products.id
    Quantities,     \* orders.quantity an employee may enter
    PriceCents,     \* products.price_cents an employee may enter
    MaxInteger,     \* largest INTEGER; a larger amount raises in the query
    NoOrder, NoProduct

RefundStatuses == {"none", "approved", "rejected"}

Rows == [product : Products, quantity : Quantities, refund : RefundStatuses]

(* The value of orders[o] while no row has that order number.              *)
NoRow == [product |-> NoProduct, quantity |-> 0, refund |-> "none"]

Amounts == 0 .. MaxInteger

Proposals == [order : OrderNumbers, amount : Amounts]

NoProposal == [order |-> NoOrder, amount |-> 0]

ASSUME LedgerAssumption ==
    /\ MaxInteger \in Nat
    /\ Quantities \subseteq Nat \ {0}
    /\ PriceCents \subseteq Nat
    /\ NoProduct \notin Products
    /\ NoOrder \notin OrderNumbers

VARIABLES
    orders,         \* the orders table, by order number
    prices,         \* products.price_cents
    proposals,      \* the checkpointed proposal of each request
    session         \* the transaction each session is in

vars == <<actions, decisions, orders, prices, proposals, session>>

(* The statement a session executes next:                                  *)
(*   begun    pg_advisory_xact_lock(request)                               *)
(*   holding  the previous decision, and if there is none, the order with  *)
(*            its product                                                  *)
(*   reading  the row lock of FOR UPDATE OF o                              *)
(*   locked   the existing action of the order                             *)
(*   checked  the writes and the commit                                    *)
Steps == {"idle", "begun", "holding", "reading", "locked", "checked"}

SessionStates ==
    [step : Steps, request : Requests \cup {NoRequest},
     approved : BOOLEAN, proposal : Proposals \cup {NoProposal},
     row : Rows \cup {NoRow}, price : PriceCents \cup {0},
     action : Holders \cup {NoRequest}]

IdleSession ==
    [step |-> "idle", request |-> NoRequest, approved |-> FALSE,
     proposal |-> NoProposal, row |-> NoRow, price |-> 0,
     action |-> NoRequest]

TypeOK ==
    /\ ContractTypeOK
    /\ orders \in [OrderNumbers -> Rows \cup {NoRow}]
    /\ prices \in [Products -> PriceCents]
    /\ proposals \in [Requests -> Proposals \cup {NoProposal}]
    /\ session \in [Sessions -> SessionStates]

-----------------------------------------------------------------------------
(* Locks.                                                                  *)

Exists(o) == orders[o] # NoRow

OrderOf(s) == session[s].proposal.order

(* A session has a row from the join on, unless the row was lost to it.    *)
Found(s) == session[s].row # NoRow

InFlight(s, r) == session[s].step # "idle" /\ session[s].request = r

HoldsAdvisory(s, r) ==
    InFlight(s, r) /\ session[s].step # "begun"

NoAdvisoryLock(r) == TRUE                                     \* mutant

AdvisoryFree(r) == \A s \in Sessions : ~HoldsAdvisory(s, r)

(* A session that found its order keeps the row lock to the end.  The lock *)
(* on a row the recheck rejected protects nothing and is left out.         *)
HoldsRow(s, o) ==
    /\ session[s].step \in {"locked", "checked"}
    /\ Found(s)
    /\ OrderOf(s) = o

NoRowLock(o) == TRUE                                          \* mutant

RowFree(o) == \A s \in Sessions : ~HoldsRow(s, o)

Move(s, step) == session' = [session EXCEPT ![s].step = step]

End(s) == session' = [session EXCEPT ![s] = IdleSession]

-----------------------------------------------------------------------------

Init ==
    /\ ContractInit
    /\ orders \in [OrderNumbers -> Rows \cup {NoRow}]
    /\ prices \in [Products -> PriceCents]
    /\ proposals = [r \in Requests |-> NoProposal]
    /\ session = [s \in Sessions |-> IdleSession]

(***************************************************************************)
(* refund_proposal: the amount a human will review, read in one statement  *)
(* and checkpointed by the graph.  A product out of INTEGER range raises.  *)
(* A request that lost its checkpoint before a decision proposes anew.     *)
(***************************************************************************)
UncheckedInteger(amount) == TRUE                              \* mutant

FitsInteger(amount) == amount \in Amounts

OrderAmount(o) == orders[o].quantity * prices[orders[o].product]

Propose(r, o) ==
    /\ decisions[r] = NoDecision
    /\ \A s \in Sessions : ~InFlight(s, r)
    /\ IF Exists(o)
       THEN /\ FitsInteger(OrderAmount(o))
            /\ proposals' = [proposals EXCEPT
                   ![r] = [order |-> o, amount |-> OrderAmount(o)]]
       ELSE proposals' = [proposals EXCEPT
                   ![r] = [order |-> o, amount |-> 0]]
    /\ UNCHANGED <<actions, decisions, orders, prices, session>>

(* A call of record_simulated_refund opens its transaction.                *)
Begin(s, r, approved) ==
    /\ session[s].step = "idle"
    /\ proposals[r] # NoProposal
    /\ session' = [session EXCEPT
           ![s] = [IdleSession EXCEPT !.step = "begun", !.request = r,
                       !.approved = approved, !.proposal = proposals[r]]]
    /\ UNCHANGED <<actions, decisions, orders, prices, proposals>>

(* pg_advisory_xact_lock: waits for every session on the same request.     *)
TakeAdvisory(s) ==
    /\ session[s].step = "begun"
    /\ AdvisoryFree(session[s].request)
    /\ Move(s, "holding")
    /\ UNCHANGED <<actions, decisions, orders, prices, proposals>>

(* Mutant: the decision row as an upsert.                                  *)
ReplayUpserts(s) ==
    LET r == session[s].request IN
    /\ session[s].step = "holding"
    /\ decisions[r] # NoDecision
    /\ decisions' = [decisions EXCEPT ![r].approved = session[s].approved]
    /\ End(s)
    /\ UNCHANGED <<actions, orders, prices, proposals>>

(* Mutant: the replay of an approval restores an action that is missing.   *)
ReplayRestores(s) ==
    LET d == decisions[session[s].request] IN
    /\ session[s].step = "holding"
    /\ d # NoDecision
    /\ actions' = [actions EXCEPT
           ![d.order] = IF d.outcome = "approved" /\ Exists(d.order)
                        THEN session[s].request ELSE @]
    /\ End(s)
    /\ UNCHANGED <<decisions, orders, prices, proposals>>

(* A decided request writes nothing: an identical decision returns the     *)
(* recorded outcome, a different one raises.                               *)
Replay(s) ==
    /\ session[s].step = "holding"
    /\ decisions[session[s].request] # NoDecision
    /\ End(s)
    /\ UNCHANGED <<actions, decisions, orders, prices, proposals>>

(* No decision yet: the join of FOR UPDATE OF o takes its snapshot.        *)
ReadOrder(s) ==
    LET o == OrderOf(s) IN
    /\ session[s].step = "holding"
    /\ decisions[session[s].request] = NoDecision
    /\ IF Exists(o)
       THEN /\ FitsInteger(OrderAmount(o))
            /\ session' = [session EXCEPT
                   ![s] = [@ EXCEPT !.step = "reading", !.row = orders[o],
                               !.price = prices[orders[o].product]]]
       ELSE Move(s, "locked")
    /\ UNCHANGED <<actions, decisions, orders, prices, proposals>>

(* The lock is granted and the row read again, the product is not: the     *)
(* recheck joins the newest order row with the product row already read.   *)
LockedAmount(s) == orders[OrderOf(s)].quantity * session[s].price

LockRow(s) ==
    LET o == OrderOf(s) IN
    /\ session[s].step = "reading"
    /\ Found(s)
    /\ RowFree(o)
    /\ orders[o].product = session[s].row.product
    /\ FitsInteger(LockedAmount(s))
    /\ session' = [session EXCEPT
           ![s] = [@ EXCEPT !.step = "locked", !.row = orders[o]]]
    /\ UNCHANGED <<actions, decisions, orders, prices, proposals>>

(* The row was deleted, renamed or moved to another product meanwhile.     *)
MissRow(s) ==
    LET o == OrderOf(s) IN
    /\ session[s].step = "reading"
    /\ Found(s) =>
           RowFree(o) /\ orders[o].product # session[s].row.product
    /\ session' = [session EXCEPT
           ![s] = [@ EXCEPT !.step = "locked", !.row = NoRow]]
    /\ UNCHANGED <<actions, decisions, orders, prices, proposals>>

ReadAction(s) ==
    /\ session[s].step = "locked"
    /\ session' = [session EXCEPT
           ![s] = [@ EXCEPT !.step = "checked", !.action = actions[OrderOf(s)]]]
    /\ UNCHANGED <<actions, decisions, orders, prices, proposals>>

(* Mutant: the amount is compared before the existing action.              *)
AmountFirst(s) ==
    LET tx == session[s] IN
    IF ~Found(s) THEN "missing"
    ELSE IF tx.row.quantity * tx.price # tx.proposal.amount THEN "changed"
    ELSE IF tx.row.refund = "approved" \/ tx.action # NoRequest THEN "already"
    ELSE IF tx.approved THEN "approved" ELSE "rejected"

(* Mutant: the amount is not compared at all.                              *)
AmountUnchecked(s) ==
    LET tx == session[s] IN
    IF ~Found(s) THEN "missing"
    ELSE IF tx.row.refund = "approved" \/ tx.action # NoRequest THEN "already"
    ELSE IF tx.approved THEN "approved" ELSE "rejected"

Outcome(s) ==
    LET tx == session[s] IN
    IF ~Found(s) THEN "missing"
    ELSE IF tx.row.refund = "approved" \/ tx.action # NoRequest THEN "already"
    ELSE IF tx.row.quantity * tx.price # tx.proposal.amount THEN "changed"
    ELSE IF tx.approved THEN "approved" ELSE "rejected"

DecisionOf(s) ==
    [order |-> OrderOf(s), approved |-> session[s].approved,
     outcome |-> Outcome(s)]

(* Mutant: the repair of the status is missing.                            *)
StatusUnrepaired(status, outcome) ==
    IF outcome = "approved" THEN "approved"
    ELSE IF outcome = "rejected" /\ status # "approved" THEN "rejected"
    ELSE status

(* The two UPDATEs of orders: one repairs the status of an order that has  *)
(* an action, the other may not leave 'approved'.                          *)
StatusAfter(status, outcome) ==
    IF outcome \in {"approved", "already"} THEN "approved"
    ELSE IF outcome = "rejected" /\ status # "approved" THEN "rejected"
    ELSE status

(* Mutant: every approve decision inserts an action, whatever its outcome. *)
HolderByVerdict(holder, r, d) == IF d.approved THEN r ELSE holder

(* Mutant: every approve decision on an order that exists.                 *)
HolderUnlessMissing(holder, r, d) ==
    IF d.approved /\ d.outcome # "missing" THEN r ELSE holder

(* Only an approval inserts an action.                                     *)
HolderAfter(holder, r, d) == IF d.outcome = "approved" THEN r ELSE holder

(* The decision row, the action row and the order status commit together.  *)
(* The key of refund_decisions and ON CONFLICT on refund_actions would     *)
(* raise instead.                                                          *)
Commit(s) ==
    LET r == session[s].request
        d == DecisionOf(s)
    IN
    /\ session[s].step = "checked"
    /\ decisions[r] = NoDecision
    /\ d.outcome = "approved" => actions[d.order] = NoRequest
    /\ decisions' = [decisions EXCEPT ![r] = d]
    /\ actions' = [actions EXCEPT ![d.order] = HolderAfter(@, r, d)]
    /\ orders' = [orders EXCEPT
                      ![d.order].refund = StatusAfter(@, d.outcome)]
    /\ End(s)
    /\ UNCHANGED <<prices, proposals>>

(* Mutant: only the join raises, the recheck under the lock never returns. *)
RaiseAtJoin(s) ==
    /\ session[s].step = "holding"
    /\ decisions[session[s].request] = NoDecision
    /\ Exists(OrderOf(s))
    /\ ~FitsInteger(OrderAmount(OrderOf(s)))
    /\ End(s)
    /\ UNCHANGED <<actions, decisions, orders, prices, proposals>>

(* An amount out of INTEGER range raises in the query and rolls back.      *)
Raise(s) ==
    LET o == OrderOf(s) IN
    /\ \/ /\ session[s].step = "holding"
          /\ decisions[session[s].request] = NoDecision
          /\ Exists(o)
          /\ ~FitsInteger(OrderAmount(o))
       \/ /\ session[s].step = "reading"
          /\ Found(s)
          /\ RowFree(o)
          /\ orders[o].product = session[s].row.product
          /\ ~FitsInteger(LockedAmount(s))
    /\ End(s)
    /\ UNCHANGED <<actions, decisions, orders, prices, proposals>>

(* A crash, a cancelled job or a lost connection rolls back at any step.   *)
Abort(s) ==
    /\ session[s].step # "idle"
    /\ End(s)
    /\ UNCHANGED <<actions, decisions, orders, prices, proposals>>

-----------------------------------------------------------------------------
(* The employee endpoints and the schema, beside the sessions.             *)

(* Sessions that have read the row of o and wait for its lock lose it.     *)
RowGone(o) ==
    session' = [s \in Sessions |->
        IF session[s].step = "reading" /\ OrderOf(s) = o
        THEN [session[s] EXCEPT !.row = NoRow]
        ELSE session[s]]

(* refund_actions.order_number references orders without a cascade.        *)
Referenced(o) == actions[o] # NoRequest

CreateOrder(o, row) ==
    /\ ~Exists(o)
    /\ orders' = [orders EXCEPT ![o] = row]
    /\ UNCHANGED <<actions, decisions, prices, proposals, session>>

(* PUT writes every column of a row nobody has locked.                     *)
UpdateOrder(o, row) ==
    /\ Exists(o)
    /\ RowFree(o)
    /\ row # orders[o]
    /\ orders' = [orders EXCEPT ![o] = row]
    /\ UNCHANGED <<actions, decisions, prices, proposals, session>>

(* PUT with another order_number: unique, and refund_actions references it.*)
RenameOrder(o, new, row) ==
    /\ Exists(o)
    /\ ~Exists(new)
    /\ RowFree(o)
    /\ ~Referenced(o)
    /\ orders' = [orders EXCEPT ![o] = NoRow, ![new] = row]
    /\ RowGone(o)
    /\ UNCHANGED <<actions, decisions, prices, proposals>>

DeleteOrder(o) ==
    /\ Exists(o)
    /\ RowFree(o)
    /\ ~Referenced(o)
    /\ orders' = [orders EXCEPT ![o] = NoRow]
    /\ RowGone(o)
    /\ UNCHANGED <<actions, decisions, prices, proposals>>

(* FOR UPDATE OF o does not lock the product.                              *)
UpdatePrice(p, c) ==
    /\ prices[p] # c
    /\ prices' = [prices EXCEPT ![p] = c]
    /\ UNCHANGED <<actions, decisions, orders, proposals, session>>

(* Every bootstrap applies schema.sql.  Its INSERT computes an amount for  *)
(* every approved order and needs a key-share lock on each row it adopts.  *)
AdoptLegacy ==
    LET approved == {o \in OrderNumbers : orders[o].refund = "approved"}
        legacy == {o \in approved : actions[o] = NoRequest}
    IN
    /\ legacy # {}
    /\ \A o \in approved : FitsInteger(OrderAmount(o))
    /\ \A o \in legacy : RowFree(o)
    /\ Adopt(legacy)
    /\ UNCHANGED <<orders, prices, proposals, session>>

-----------------------------------------------------------------------------

SessionStep(s) ==
    \/ TakeAdvisory(s)
    \/ Replay(s)
    \/ ReadOrder(s)
    \/ LockRow(s)
    \/ MissRow(s)
    \/ ReadAction(s)
    \/ Commit(s)
    \/ Raise(s)

EmployeeStep ==
    \/ \E o \in OrderNumbers, row \in Rows :
           \/ CreateOrder(o, row)
           \/ UpdateOrder(o, row)
           \/ \E new \in OrderNumbers : RenameOrder(o, new, row)
    \/ \E o \in OrderNumbers : DeleteOrder(o)
    \/ \E p \in Products, c \in PriceCents : UpdatePrice(p, c)

Next ==
    \/ \E r \in Requests, o \in OrderNumbers : Propose(r, o)
    \/ \E s \in Sessions, r \in Requests, approved \in BOOLEAN :
           Begin(s, r, approved)
    \/ \E s \in Sessions : SessionStep(s) \/ Abort(s)
    \/ EmployeeStep
    \/ AdoptLegacy

Spec == Init /\ [][Next]_vars

(* PostgreSQL queues lock waiters and the event loop runs every coroutine, *)
(* so a session that can go on again and again goes on.  Nothing is        *)
(* assumed of the employees, of new calls, or of failures.                 *)
Fairness == \A s \in Sessions : SF_vars(SessionStep(s))

FairSpec == Spec /\ Fairness

-----------------------------------------------------------------------------
(* Properties.                                                             *)

Settled(r) == decisions[r] # NoDecision

(* refund_actions and refund_decisions agree: a request holds an order's   *)
(* action exactly if its recorded outcome is the approval of that order,   *)
(* which needed an approve decision.                                       *)
LedgerAgreement ==
    /\ \A r \in Requests, o \in OrderNumbers :
           actions[o] = r <=>
               Settled(r) /\ decisions[r].order = o
                          /\ decisions[r].outcome = "approved"
    /\ \A r \in Requests : Settled(r) =>
           /\ decisions[r].outcome = "approved" => decisions[r].approved
           /\ decisions[r].outcome = "rejected" => ~decisions[r].approved

(* Between the row lock and the commit no employee, schema run or other    *)
(* session can change the order the decision was computed from.            *)
StableUnderLock ==
    \A s \in Sessions : \A o \in OrderNumbers : HoldsRow(s, o) =>
        /\ orders[o] = session[s].row
        /\ session[s].step = "checked" => actions[o] = session[s].action

(* The two errors of record_simulated_refund that would lose a human       *)
(* decision, the duplicate request key and "Refund ledger conflicts with   *)
(* order status", cannot happen at the commit, whatever runs beside it.    *)
CommitNeverConflicts ==
    \A s \in Sessions : session[s].step = "checked" =>
        /\ ~Settled(session[s].request)
        /\ Outcome(s) = "approved" => actions[OrderOf(s)] = NoRequest

(* The foreign key of refund_actions: an order with an action exists.      *)
ActionsHaveOrders ==
    \A o \in OrderNumbers : actions[o] # NoRequest => Exists(o)

(* A step that records a decision never takes an approved order back, and  *)
(* a decision that reports an approval leaves the order approved even if   *)
(* an employee had overwritten the status before.                          *)
DecisionsKeepApproval ==
    [][\A r \in Requests : decisions[r] # decisions'[r] =>
           LET o == decisions'[r].order IN
           /\ orders[o].refund = "approved" => orders'[o].refund = "approved"
           /\ decisions'[r].outcome \in {"approved", "already"} =>
                  orders'[o].refund = "approved"]_vars

(* No action is withdrawn or handed to another request and no decision is  *)
(* rewritten: "an approved order is terminal".                             *)
HistoryImmutable ==
    [][/\ \A o \in OrderNumbers :
              actions[o] # NoRequest => actions'[o] = actions[o]
       /\ \A r \in Requests : Settled(r) => decisions'[r] = decisions[r]]_vars

(* The transaction steps implement the contract.                           *)
Contract == INSTANCE RefundContract WITH
    actions <- actions,
    decisions <- decisions

ImplementsContract == Contract!ContractSpec

(* Locks are always passed on: no call of record_simulated_refund waits    *)
(* forever for another one.                                                *)
SessionsEnd ==
    \A s \in Sessions : session[s].step # "idle" ~> session[s].step = "idle"

=============================================================================
