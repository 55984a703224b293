----------------------------- MODULE DemoReset ------------------------------
(***************************************************************************)
(* The refund ledger beside the demo reset of seed.py.  Every bootstrap    *)
(* with RESET_DEMO_DATA=1 truncates orders, products and customers in one  *)
(* transaction and inserts the demo rows again.  TRUNCATE ... CASCADE      *)
(* empties refund_actions with them; refund_decisions, support_runs and    *)
(* the checkpoints with their proposals stay.  Decisions of runs that were *)
(* paused before the reset arrive after it, about orders of the same       *)
(* numbers.                                                                *)
(***************************************************************************)
EXTENDS RefundLedger

CONSTANTS
    SeedOrders,     \* the demo rows, by order number
    SeedPrices      \* the demo products' prices

ASSUME SeedAssumption ==
    /\ SeedOrders \in [OrderNumbers ->
           [product : Products, quantity : Quantities, refund : {"none"}]
               \cup {NoRow}]
    /\ SeedPrices \in [Products -> PriceCents]

(* A session has read from orders or refund_actions and keeps the lock on  *)
(* the table to its end.                                                   *)
HoldsTable(s) == session[s].step \in {"reading", "locked", "checked"}

NoTableLock == TRUE                                           \* mutant

(* TRUNCATE waits for every transaction that has used the tables.          *)
TablesFree == \A s \in Sessions : ~HoldsTable(s)

Reset ==
    /\ TablesFree
    /\ orders' = SeedOrders
    /\ prices' = SeedPrices
    /\ actions' = [o \in OrderNumbers |-> NoRequest]
    /\ UNCHANGED <<decisions, proposals, session>>

ResetNext == Next \/ Reset

ResetSpec == Init /\ [][ResetNext]_vars

-----------------------------------------------------------------------------
(* Properties.                                                             *)

(* A decision made before a reset never acts on an order inserted by it:   *)
(* only a request whose decision commits in this step may get an action,   *)
(* however often resumed runs replay decisions the ledger has kept.        *)
OldDecisionsStayOld ==
    [][\A o \in OrderNumbers, r \in Requests :
           actions[o] # r /\ actions'[o] = r => decisions[r] = NoDecision]_vars

(* An order is approved only for the amount its human was shown, also when *)
(* the order was reviewed before a reset and approved after it.            *)
ApprovedAsReviewed ==
    [][\A r \in Requests :
           decisions[r] = NoDecision /\ decisions'[r] # NoDecision
           /\ decisions'[r].outcome = "approved" =>
               \E s \in Sessions :
                   /\ InFlight(s, r)
                   /\ orders[proposals[r].order].quantity * session[s].price
                          = proposals[r].amount]_vars

(* No reset leaves an action without the decision it was taken by.         *)
ActionsHaveDecisions ==
    \A o \in OrderNumbers : actions[o] \in Requests =>
        /\ Settled(actions[o])
        /\ decisions[actions[o]].order = o
        /\ decisions[actions[o]].outcome = "approved"

=============================================================================
