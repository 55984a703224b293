------------------------- MODULE RefundLedgerProofs -------------------------
(***************************************************************************)
(* The safety of the refund ledger for any number of orders, requests,     *)
(* sessions and products, and any set of quantities and prices, and what a *)
(* demo reset leaves of it.                                                *)
(*                                                                         *)
(* LedgerAgreement is not inductive: that a commit finds no action of      *)
(* another request follows from what the session has read and from the     *)
(* row lock that has protected it since, and that it finds no decision     *)
(* from the advisory lock.  IInv adds the two locks and what they protect. *)
(***************************************************************************)
EXTENDS DemoReset, TLAPS

(* A session in flight knows its request and its proposal, and it has no   *)
(* row before the join has found one.                                      *)
Shape ==
    \A s \in Sessions : session[s].step # "idle" =>
        /\ session[s].request \in Requests
        /\ session[s].proposal \in Proposals
        /\ session[s].step \in {"begun", "holding"} => ~Found(s)

AdvisoryExclusive ==
    \A s, t \in Sessions : \A r \in Requests :
        HoldsAdvisory(s, r) /\ HoldsAdvisory(t, r) => s = t

RowExclusive ==
    \A s, t \in Sessions : \A o \in OrderNumbers :
        HoldsRow(s, o) /\ HoldsRow(t, o) => s = t

(* Behind the replay test the request stays undecided.                     *)
Undecided ==
    \A s \in Sessions :
        session[s].step \in {"reading", "locked", "checked"} =>
            decisions[session[s].request] = NoDecision

Locks ==
    /\ Shape
    /\ AdvisoryExclusive
    /\ RowExclusive
    /\ Undecided

(* What does not depend on the decisions before: it holds in a ledger whose*)
(* actions have been emptied, too.                                         *)
CoreInv ==
    /\ TypeOK
    /\ Locks
    /\ StableUnderLock
    /\ ActionsHaveOrders

IInv == CoreInv /\ LedgerAgreement

-----------------------------------------------------------------------------

(* The values that stand for an absent row, proposal or request are none of*)
(* the present ones.                                                       *)
LEMMA SentinelFacts ==
    /\ NoProposal \notin Proposals
    /\ NoRow \notin Rows
    /\ IdleSession \in SessionStates
    /\ NoRequest \notin Holders
  BY LedgerAssumption, SentinelAssumption
     DEF NoProposal, Proposals, NoRow, Rows, IdleSession, SessionStates, Steps,
         Holders

(* LockRow and MissRow keep the type of a session record.                  *)
LEMMA RowUpdate ==
    ASSUME NEW st \in SessionStates, NEW row \in Rows \cup {NoRow}
    PROVE  [st EXCEPT !.step = "locked", !.row = row] \in SessionStates
  BY DEF SessionStates, Steps

(* The join of ReadOrder adds a row and a price of the right types.        *)
LEMMA JoinUpdate ==
    ASSUME NEW st \in SessionStates, NEW row \in Rows \cup {NoRow},
           NEW price \in PriceCents
    PROVE  [st EXCEPT !.step = "reading", !.row = row, !.price = price]
               \in SessionStates
  BY DEF SessionStates, Steps

(* The join of ReadOrder changes neither request nor proposal.             *)
LEMMA JoinFields ==
    ASSUME NEW st \in SessionStates, NEW row, NEW price
    PROVE  LET new == [st EXCEPT !.step = "reading", !.row = row,
                           !.price = price]
           IN  /\ new.step = "reading"
               /\ new.request = st.request
               /\ new.proposal = st.proposal
  BY DEF SessionStates

(* ReadAction adds an action of the right type.                            *)
LEMMA ActionUpdate ==
    ASSUME NEW st \in SessionStates, NEW action \in Holders \cup {NoRequest}
    PROVE  [st EXCEPT !.step = "checked", !.action = action] \in SessionStates
  BY DEF SessionStates, Steps

(* A step that gives one session a typed record keeps TypeOK.              *)
LEMMA SessionTyped ==
    ASSUME TypeOK, NEW s \in Sessions, NEW st \in SessionStates,
           session' = [session EXCEPT ![s] = st],
           UNCHANGED <<actions, decisions, orders, prices, proposals>>
    PROVE  TypeOK'
  BY DEF TypeOK, ContractTypeOK

(* What a commit knows: its decision is well formed, it holds the row of   *)
(* an order it writes, and it acts only on an order without an action.     *)
LEMMA CommitFacts ==
    ASSUME CoreInv, NEW s \in Sessions, session[s].step = "checked"
    PROVE  LET o == OrderOf(s)
               d == DecisionOf(s)
           IN  /\ session[s].request \in Requests
               /\ o \in OrderNumbers
               /\ d \in Decisions
               /\ d.order = o
               /\ d.outcome # "missing" =>
                      /\ HoldsRow(s, o)
                      /\ orders[o] \in Rows
                      /\ orders[o] = session[s].row
                      /\ actions[o] = session[s].action
               /\ d.outcome \in {"approved", "rejected", "changed"} =>
                      /\ actions[o] = NoRequest
                      /\ orders[o].refund # "approved"
               /\ d.outcome = "approved" => d.approved
               /\ d.outcome = "rejected" => ~d.approved
  <1> DEFINE o == OrderOf(s)
             d == DecisionOf(s)
  <1>1. session[s].request \in Requests /\ o \in OrderNumbers
    BY DEF CoreInv, Locks, Shape, OrderOf, Proposals
  <1>2. session[s] \in SessionStates
    BY DEF CoreInv, TypeOK
  <1>3. Outcome(s) \in Outcomes
    BY DEF Outcome, Outcomes
  <1>4. d \in Decisions /\ d.order = o /\ d.outcome = Outcome(s)
        /\ d.approved = session[s].approved
    BY <1>1, <1>2, <1>3 DEF DecisionOf, Decisions, SessionStates
  <1>5. ASSUME Outcome(s) # "missing"
        PROVE  /\ HoldsRow(s, o)
               /\ orders[o] \in Rows
               /\ orders[o] = session[s].row
               /\ actions[o] = session[s].action
    <2>1. Found(s)
      BY <1>5 DEF Outcome
    <2>2. HoldsRow(s, o)
      BY <2>1 DEF HoldsRow
    <2>3. orders[o] = session[s].row /\ actions[o] = session[s].action
      BY <1>1, <2>2 DEF CoreInv, StableUnderLock
    <2>4. orders[o] \in Rows
      BY <1>1, <2>1, <2>3 DEF CoreInv, TypeOK, Found
    <2> QED
      BY <2>2, <2>3, <2>4
  <1>6. ASSUME Outcome(s) \in {"approved", "rejected", "changed"}
        PROVE  session[s].action = NoRequest /\ session[s].row.refund # "approved"
    BY <1>6 DEF Outcome
  <1>7. (Outcome(s) = "approved" => session[s].approved)
        /\ (Outcome(s) = "rejected" => ~session[s].approved)
    BY <1>2 DEF Outcome, SessionStates
  <1> QED
    BY <1>1, <1>4, <1>5, <1>6, <1>7

(* A session whose order has gone reads no row.                            *)
LEMMA RowGoneTypes ==
    ASSUME session \in [Sessions -> SessionStates], NEW o, RowGone(o)
    PROVE  session' \in [Sessions -> SessionStates]
  <1>1. ASSUME NEW s \in Sessions
        PROVE  [session[s] EXCEPT !.row = NoRow] \in SessionStates
    <2>1. session[s] \in SessionStates
      OBVIOUS
    <2> QED
      BY <2>1 DEF SessionStates
  <1> QED
    BY <1>1 DEF RowGone

(* Every step keeps the types of tables and transactions.                  *)
LEMMA TypeStep == CoreInv /\ [Next]_vars => TypeOK'
  <1> SUFFICES ASSUME CoreInv, [Next]_vars PROVE TypeOK'
    OBVIOUS
  <1> TypeOK /\ Shape
    BY DEF CoreInv, Locks
  <1> USE LedgerAssumption, SentinelFacts
  <1>1. ASSUME NEW r \in Requests, NEW o \in OrderNumbers, Propose(r, o)
        PROVE  TypeOK'
    <2>1. CASE Exists(o)
      BY <1>1, <2>1
         DEF TypeOK, ContractTypeOK, Propose, Proposals, FitsInteger
    <2>2. CASE ~Exists(o)
      BY <1>1, <2>2 DEF TypeOK, ContractTypeOK, Propose, Proposals, Amounts
    <2> QED
      BY <2>1, <2>2
  <1>2. ASSUME NEW s \in Sessions, NEW r \in Requests,
               NEW approved \in BOOLEAN, Begin(s, r, approved)
        PROVE  TypeOK'
    <2>1. proposals[r] \in Proposals
      BY <1>2 DEF TypeOK, Begin
    <2>2. [IdleSession EXCEPT !.step = "begun", !.request = r,
               !.approved = approved, !.proposal = proposals[r]] \in SessionStates
      BY <2>1 DEF IdleSession, SessionStates, Steps
    <2>3. session' \in [Sessions -> SessionStates]
      BY <1>2, <2>2 DEF TypeOK, Begin
    <2> QED
      BY <1>2, <2>3 DEF TypeOK, ContractTypeOK, Begin
  <1>3. ASSUME NEW s \in Sessions, TakeAdvisory(s)
        PROVE  TypeOK'
    <2>1. session[s] \in SessionStates
      BY DEF TypeOK
    <2>2. [session[s] EXCEPT !.step = "holding"] \in SessionStates
      BY <2>1 DEF SessionStates, Steps
    <2>3. session' \in [Sessions -> SessionStates]
      BY <1>3, <2>2 DEF TypeOK, TakeAdvisory, Move
    <2> QED
      BY <1>3, <2>3 DEF TypeOK, ContractTypeOK, TakeAdvisory
  <1>4. ASSUME NEW s \in Sessions, Replay(s) \/ Raise(s) \/ Abort(s)
        PROVE  TypeOK'
    BY <1>4 DEF TypeOK, ContractTypeOK, Replay, Raise, Abort, End
  <1>5. ASSUME NEW s \in Sessions, ReadOrder(s)
        PROVE  TypeOK'
    <2>1. OrderOf(s) \in OrderNumbers
      BY <1>5 DEF ReadOrder, Shape, OrderOf, Proposals
    <2>2. CASE Exists(OrderOf(s))
      <3>1. orders[OrderOf(s)] \in Rows
        BY <2>1, <2>2 DEF TypeOK, Exists
      <3>2. prices[orders[OrderOf(s)].product] \in PriceCents
        BY <3>1 DEF TypeOK, Rows
      <3> DEFINE st == [session[s] EXCEPT !.step = "reading",
                          !.row = orders[OrderOf(s)],
                          !.price = prices[orders[OrderOf(s)].product]]
      <3>3. st \in SessionStates
        BY <3>1, <3>2, JoinUpdate DEF TypeOK
      <3> QED
        BY <1>5, <2>2, <3>3, SessionTyped DEF ReadOrder
    <2>3. CASE ~Exists(OrderOf(s))
      BY <1>5, <2>3
         DEF TypeOK, ContractTypeOK, ReadOrder, Move, SessionStates, Steps
    <2> QED
      BY <2>2, <2>3
  <1>6. ASSUME NEW s \in Sessions, LockRow(s)
        PROVE  TypeOK'
    <2>1. orders[OrderOf(s)] \in Rows \cup {NoRow}
      BY <1>6 DEF TypeOK, LockRow, Shape, OrderOf, Proposals
    <2> DEFINE st == [session[s] EXCEPT !.step = "locked",
                          !.row = orders[OrderOf(s)]]
    <2>2. st \in SessionStates
      BY <2>1, RowUpdate DEF TypeOK
    <2> QED
      BY <1>6, <2>2, SessionTyped DEF LockRow
  <1>7. ASSUME NEW s \in Sessions, MissRow(s)
        PROVE  TypeOK'
    <2> DEFINE st == [session[s] EXCEPT !.step = "locked", !.row = NoRow]
    <2>1. st \in SessionStates
      BY RowUpdate DEF TypeOK
    <2> QED
      BY <1>7, <2>1, SessionTyped DEF MissRow
  <1>8. ASSUME NEW s \in Sessions, ReadAction(s)
        PROVE  TypeOK'
    <2>1. actions[OrderOf(s)] \in Holders \cup {NoRequest}
      BY <1>8
         DEF TypeOK, ContractTypeOK, ReadAction, Shape, OrderOf, Proposals
    <2> DEFINE st == [session[s] EXCEPT !.step = "checked",
                          !.action = actions[OrderOf(s)]]
    <2>2. st \in SessionStates
      BY <2>1, ActionUpdate DEF TypeOK
    <2> QED
      BY <1>8, <2>2, SessionTyped DEF ReadAction
  <1>9. ASSUME NEW s \in Sessions, Commit(s)
        PROVE  TypeOK'
    <2> DEFINE r == session[s].request
               d == DecisionOf(s)
    <2>1. r \in Requests /\ d.order \in OrderNumbers /\ d \in Decisions
      BY <1>9, CommitFacts DEF Commit
    <2>2. decisions' \in [Requests -> Decisions \cup {NoDecision}]
      BY <1>9, <2>1 DEF TypeOK, ContractTypeOK, Commit
    <2>3. actions' \in [OrderNumbers -> Holders \cup {NoRequest}]
      BY <1>9, <2>1 DEF TypeOK, ContractTypeOK, Commit, HolderAfter, Holders
    <2>4. orders' \in [OrderNumbers -> Rows \cup {NoRow}]
      <3> DEFINE status == StatusAfter(orders[d.order].refund, d.outcome)
      <3>1. [orders[d.order] EXCEPT !.refund = status] \in Rows \cup {NoRow}
        <4>1. CASE d.outcome = "missing"
          <5>1. status = orders[d.order].refund
            BY <4>1 DEF StatusAfter
          <5> QED
            BY <2>1, <5>1 DEF TypeOK, Rows, NoRow
        <4>2. CASE d.outcome # "missing"
          <5>1. orders[d.order] \in Rows
            BY <1>9, <4>2, CommitFacts DEF Commit
          <5>2. status \in RefundStatuses
            BY <5>1 DEF StatusAfter, Rows, RefundStatuses
          <5> QED
            BY <5>1, <5>2 DEF Rows
        <4> QED
          BY <4>1, <4>2
      <3> HIDE DEF status
      <3>2. orders' = [orders EXCEPT
                ![d.order] = [orders[d.order] EXCEPT !.refund = status]]
        BY <1>9 DEF Commit, status
      <3> QED
        BY <3>1, <3>2 DEF TypeOK
    <2>5. session' \in [Sessions -> SessionStates]
      BY <1>9 DEF TypeOK, Commit, End
    <2> QED
      BY <1>9, <2>2, <2>3, <2>4, <2>5 DEF TypeOK, ContractTypeOK, Commit
  <1>10. ASSUME NEW o \in OrderNumbers, NEW row \in Rows,
                CreateOrder(o, row) \/ UpdateOrder(o, row)
         PROVE  TypeOK'
    BY <1>10 DEF TypeOK, ContractTypeOK, CreateOrder, UpdateOrder
  <1>11. ASSUME NEW o \in OrderNumbers, NEW new \in OrderNumbers,
                NEW row \in Rows, RenameOrder(o, new, row)
         PROVE  TypeOK'
    <2>1. orders' \in [OrderNumbers -> Rows \cup {NoRow}]
      BY <1>11 DEF TypeOK, RenameOrder
    <2>2. session' \in [Sessions -> SessionStates]
      BY <1>11, RowGoneTypes DEF TypeOK, RenameOrder
    <2> QED
      BY <1>11, <2>1, <2>2 DEF TypeOK, ContractTypeOK, RenameOrder
  <1>15. ASSUME NEW o \in OrderNumbers, DeleteOrder(o)
         PROVE  TypeOK'
    <2>1. session' \in [Sessions -> SessionStates]
      BY <1>15, RowGoneTypes DEF TypeOK, DeleteOrder
    <2> QED
      BY <1>15, <2>1 DEF TypeOK, ContractTypeOK, DeleteOrder
  <1>12. ASSUME NEW p \in Products, NEW c \in PriceCents, UpdatePrice(p, c)
         PROVE  TypeOK'
    BY <1>12 DEF TypeOK, ContractTypeOK, UpdatePrice
  <1>13. ASSUME AdoptLegacy
         PROVE  TypeOK'
    BY <1>13 DEF TypeOK, ContractTypeOK, AdoptLegacy, Adopt, Holders
  <1>14. CASE UNCHANGED vars
    BY <1>14 DEF TypeOK, ContractTypeOK, vars
  <1> QED
    BY <1>1, <1>2, <1>3, <1>4, <1>5, <1>6, <1>7, <1>8, <1>9, <1>10, <1>11,
       <1>12, <1>13, <1>14, <1>15
       DEF Next, SessionStep, EmployeeStep

-----------------------------------------------------------------------------
(* Locks and what they protect.                                            *)

(* The join either finds the order or goes on without a row to lock.       *)
LEMMA JoinStep ==
    ASSUME TypeOK, Shape, NEW s \in Sessions, ReadOrder(s)
    PROVE  /\ session'[s].step \in {"reading", "locked"}
           /\ session'[s].step = "locked" => session'[s].row = NoRow
           /\ session'[s].request = session[s].request
           /\ session'[s].proposal = session[s].proposal
           /\ \A t \in Sessions \ {s} : session'[t] = session[t]
  <1>1. session[s] \in SessionStates
    BY DEF TypeOK
  <1>2. CASE Exists(OrderOf(s))
    <2> DEFINE o == OrderOf(s)
               new == [session[s] EXCEPT !.step = "reading",
                           !.row = orders[o],
                           !.price = prices[orders[o].product]]
    <2>1. /\ new.step = "reading"
          /\ new.request = session[s].request
          /\ new.proposal = session[s].proposal
      BY <1>1, JoinFields
    <2>2. session' = [session EXCEPT ![s] = new]
      BY <1>2 DEF ReadOrder
    <2> HIDE DEF new
    <2> QED
      BY <2>1, <2>2 DEF TypeOK
  <1>3. CASE ~Exists(OrderOf(s))
    BY <1>1, <1>3 DEF TypeOK, ReadOrder, Move, SessionStates, Shape, Found
  <1> QED
    BY <1>2, <1>3

(* Every step keeps both locks exclusive and what they protect.            *)
LEMMA LocksStep == CoreInv /\ [Next]_vars => Locks'
  <1> SUFFICES ASSUME CoreInv, [Next]_vars PROVE Locks'
    OBVIOUS
  <1> TypeOK /\ Shape /\ AdvisoryExclusive /\ RowExclusive /\ Undecided
    BY DEF CoreInv, Locks
  <1> USE DEF Locks, Shape, AdvisoryExclusive, HoldsAdvisory, InFlight,
              RowExclusive, HoldsRow, Found, OrderOf, Undecided
  <1>1. ASSUME NEW r \in Requests, NEW o \in OrderNumbers, Propose(r, o)
        PROVE  Locks'
    BY <1>1 DEF Propose
  <1>2. ASSUME NEW s \in Sessions, NEW r \in Requests,
               NEW approved \in BOOLEAN, Begin(s, r, approved)
        PROVE  Locks'
    BY <1>2 DEF TypeOK, Begin, IdleSession
  <1>3. ASSUME NEW s \in Sessions, TakeAdvisory(s)
        PROVE  Locks'
    BY <1>3 DEF TypeOK, TakeAdvisory, Move, AdvisoryFree
  <1>4. ASSUME NEW s \in Sessions, Replay(s) \/ Raise(s) \/ Abort(s)
        PROVE  Locks'
    BY <1>4 DEF TypeOK, Replay, Raise, Abort, End, IdleSession
  <1>5. ASSUME NEW s \in Sessions, ReadOrder(s)
        PROVE  Locks'
    <2>1. /\ session'[s].step \in {"reading", "locked"}
          /\ session'[s].step = "locked" => session'[s].row = NoRow
          /\ session'[s].request = session[s].request
          /\ session'[s].proposal = session[s].proposal
          /\ decisions[session[s].request] = NoDecision
      BY <1>5, JoinStep DEF ReadOrder
    <2>2. \A t \in Sessions \ {s} : session'[t] = session[t]
      BY <1>5, JoinStep
    <2>3. session[s].step = "holding" /\ UNCHANGED decisions
      BY <1>5 DEF ReadOrder
    <2>4. Shape'
      BY <2>1, <2>2, <2>3
    <2>5. AdvisoryExclusive'
      BY <2>1, <2>2, <2>3
    <2>6. RowExclusive'
      BY <2>1, <2>2, <2>3
    <2>7. Undecided'
      BY <2>1, <2>2, <2>3
    <2> QED
      BY <2>4, <2>5, <2>6, <2>7
  <1>6. ASSUME NEW s \in Sessions, LockRow(s)
        PROVE  Locks'
    <2>1. /\ session'[s].step = "locked"
          /\ session'[s].request = session[s].request
          /\ session'[s].proposal = session[s].proposal
          /\ \A t \in Sessions \ {s} : session'[t] = session[t]
      BY <1>6 DEF TypeOK, LockRow, SessionStates
    <2>2. /\ session[s].step = "reading" /\ RowFree(OrderOf(s))
          /\ decisions' = decisions
      BY <1>6 DEF LockRow
    <2>3. Shape' /\ AdvisoryExclusive' /\ Undecided'
      BY <2>1, <2>2
    <2>4. RowExclusive'
      BY <2>1, <2>2 DEF RowFree
    <2> QED
      BY <2>3, <2>4
  <1>7. ASSUME NEW s \in Sessions, MissRow(s)
        PROVE  Locks'
    BY <1>7 DEF TypeOK, MissRow
  <1>8. ASSUME NEW s \in Sessions, ReadAction(s)
        PROVE  Locks'
    BY <1>8 DEF TypeOK, ReadAction
  <1>9. ASSUME NEW s \in Sessions, Commit(s)
        PROVE  Locks'
    BY <1>9 DEF TypeOK, Commit, End, IdleSession
  <1>10. ASSUME NEW o \in OrderNumbers, NEW row \in Rows,
                CreateOrder(o, row) \/ UpdateOrder(o, row)
         PROVE  Locks'
    BY <1>10 DEF CreateOrder, UpdateOrder
  <1>11. ASSUME NEW o \in OrderNumbers, RowGone(o), UNCHANGED decisions
         PROVE  Locks'
    BY <1>11 DEF TypeOK, RowGone
  <1>12. ASSUME NEW p \in Products, NEW c \in PriceCents, UpdatePrice(p, c)
         PROVE  Locks'
    BY <1>12 DEF UpdatePrice
  <1>13. ASSUME AdoptLegacy
         PROVE  Locks'
    BY <1>13 DEF AdoptLegacy, Adopt
  <1>14. CASE UNCHANGED vars
    BY <1>14 DEF vars
  <1> QED
    BY <1>1, <1>2, <1>3, <1>4, <1>5, <1>6, <1>7, <1>8, <1>9, <1>10, <1>11,
       <1>12, <1>13, <1>14
       DEF Next, SessionStep, EmployeeStep, RenameOrder, DeleteOrder

(* Every step leaves a locked order, and an action read, alone.            *)
LEMMA StableStep == CoreInv /\ [Next]_vars => StableUnderLock'
  <1> SUFFICES ASSUME CoreInv, [Next]_vars PROVE StableUnderLock'
    OBVIOUS
  <1> TypeOK /\ Shape /\ RowExclusive /\ StableUnderLock
    BY DEF CoreInv, Locks
  <1> USE DEF StableUnderLock, HoldsRow, Found, OrderOf
  <1>1. ASSUME NEW r \in Requests, NEW o \in OrderNumbers, Propose(r, o)
        PROVE  StableUnderLock'
    BY <1>1 DEF Propose
  <1>2. ASSUME NEW s \in Sessions, NEW r \in Requests,
               NEW approved \in BOOLEAN, Begin(s, r, approved)
        PROVE  StableUnderLock'
    BY <1>2 DEF TypeOK, Begin, IdleSession
  <1>3. ASSUME NEW s \in Sessions, TakeAdvisory(s)
        PROVE  StableUnderLock'
    BY <1>3 DEF TypeOK, TakeAdvisory, Move
  <1>4. ASSUME NEW s \in Sessions, Replay(s) \/ Raise(s) \/ Abort(s)
        PROVE  StableUnderLock'
    BY <1>4 DEF TypeOK, Replay, Raise, Abort, End, IdleSession
  <1>5. ASSUME NEW s \in Sessions, ReadOrder(s)
        PROVE  StableUnderLock'
    <2>1. UNCHANGED <<actions, orders>>
      BY <1>5 DEF ReadOrder
    <2>2. \A o \in OrderNumbers : ~HoldsRow(s, o)'
      BY <1>5, JoinStep
    <2>3. \A t \in Sessions \ {s} : session'[t] = session[t]
      BY <1>5, JoinStep
    <2> QED
      BY <2>1, <2>2, <2>3
  <1>6. ASSUME NEW s \in Sessions, LockRow(s)
        PROVE  StableUnderLock'
    BY <1>6 DEF TypeOK, LockRow
  <1>7. ASSUME NEW s \in Sessions, MissRow(s)
        PROVE  StableUnderLock'
    BY <1>7 DEF TypeOK, MissRow
  <1>8. ASSUME NEW s \in Sessions, ReadAction(s)
        PROVE  StableUnderLock'
    BY <1>8 DEF TypeOK, ReadAction
  <1>9. ASSUME NEW s \in Sessions, Commit(s)
        PROVE  StableUnderLock'
    <2> DEFINE o == DecisionOf(s).order
    <2>1. /\ o \in OrderNumbers
          /\ DecisionOf(s).outcome # "missing" => HoldsRow(s, o)
      BY <1>9, CommitFacts DEF Commit
    <2>2. session'[s].step = "idle"
          /\ \A t \in Sessions \ {s} : session'[t] = session[t]
      BY <1>9 DEF TypeOK, Commit, End, IdleSession
    <2>3. \A n \in OrderNumbers \ {o} :
              orders'[n] = orders[n] /\ actions'[n] = actions[n]
      BY <1>9, <2>1 DEF TypeOK, ContractTypeOK, Commit
    <2>4. ASSUME DecisionOf(s).outcome = "missing"
          PROVE  orders'[o] = orders[o] /\ actions'[o] = actions[o]
      BY <1>9, <2>1, <2>4
         DEF TypeOK, ContractTypeOK, Commit, HolderAfter, StatusAfter, Rows,
             NoRow
    <2> QED
      BY <2>1, <2>2, <2>3, <2>4 DEF RowExclusive
  <1>10. ASSUME NEW o \in OrderNumbers, NEW row \in Rows,
                CreateOrder(o, row) \/ UpdateOrder(o, row)
         PROVE  StableUnderLock'
    BY <1>10 DEF TypeOK, CreateOrder, UpdateOrder, RowFree, Exists
  <1>11. ASSUME NEW o \in OrderNumbers, NEW new \in OrderNumbers,
                NEW row \in Rows, RenameOrder(o, new, row)
         PROVE  StableUnderLock'
    BY <1>11 DEF TypeOK, RenameOrder, RowGone, RowFree, Exists
  <1>12. ASSUME NEW o \in OrderNumbers, DeleteOrder(o)
         PROVE  StableUnderLock'
    BY <1>12 DEF TypeOK, DeleteOrder, RowGone, RowFree, Exists
  <1>13. ASSUME NEW p \in Products, NEW c \in PriceCents, UpdatePrice(p, c)
         PROVE  StableUnderLock'
    BY <1>13 DEF UpdatePrice
  <1>14. ASSUME AdoptLegacy
         PROVE  StableUnderLock'
    BY <1>14 DEF AdoptLegacy, Adopt, RowFree
  <1>15. CASE UNCHANGED vars
    BY <1>15 DEF vars
  <1> QED
    BY <1>1, <1>2, <1>3, <1>4, <1>5, <1>6, <1>7, <1>8, <1>9, <1>10, <1>11,
       <1>12, <1>13, <1>14, <1>15
       DEF Next, SessionStep, EmployeeStep

-----------------------------------------------------------------------------
(* The ledger.  Only Commit and AdoptLegacy write it.                      *)

(* Only a commit and a schema run write the ledger.                        *)
LEMMA LedgerWriters ==
    ASSUME [Next]_vars
    PROVE  \/ UNCHANGED <<actions, decisions>>
           \/ \E s \in Sessions : Commit(s)
           \/ AdoptLegacy
  BY DEF Next, SessionStep, EmployeeStep, vars, Propose, Begin, TakeAdvisory,
         Replay, ReadOrder, LockRow, MissRow, ReadAction, Raise, Abort,
         CreateOrder, UpdateOrder, RenameOrder, DeleteOrder, UpdatePrice

(* Every step keeps actions and decisions in agreement.                    *)
LEMMA AgreementStep == IInv /\ [Next]_vars => LedgerAgreement'
  <1> SUFFICES ASSUME IInv, [Next]_vars PROVE LedgerAgreement'
    OBVIOUS
  <1> TypeOK /\ LedgerAgreement
    BY DEF IInv, CoreInv
  <1>1. CASE UNCHANGED <<actions, decisions>>
    BY <1>1 DEF LedgerAgreement, Settled
  <1>2. ASSUME NEW s \in Sessions, Commit(s)
        PROVE  LedgerAgreement'
    <2> DEFINE r == session[s].request
               d == DecisionOf(s)
    <2>1. /\ r \in Requests /\ d \in Decisions /\ d.order \in OrderNumbers
          /\ d.outcome = "approved" => d.approved
          /\ d.outcome = "rejected" => ~d.approved
      BY <1>2, CommitFacts DEF Commit, IInv
    <2>2. /\ decisions[r] = NoDecision
          /\ d.outcome = "approved" => actions[d.order] = NoRequest
          /\ decisions' = [decisions EXCEPT ![r] = d]
          /\ actions' = IF d.outcome = "approved"
                        THEN [actions EXCEPT ![d.order] = r] ELSE actions
      BY <1>2, <2>1 DEF Commit, HolderAfter, TypeOK, ContractTypeOK
    <2> HIDE DEF d, r
    <2> QED
      BY <2>1, <2>2, SentinelAssumption
         DEF LedgerAgreement, Settled, TypeOK, ContractTypeOK
  <1>3. ASSUME AdoptLegacy
        PROVE  LedgerAgreement'
    BY <1>3, SentinelAssumption
       DEF AdoptLegacy, Adopt, LedgerAgreement, Settled, TypeOK, ContractTypeOK
  <1> QED
    BY <1>1, <1>2, <1>3, LedgerWriters

(* Employees remove an order only without an action, and an order with an  *)
(* action keeps a row through every commit.                                *)
LEMMA OrdersStep == CoreInv /\ [Next]_vars => ActionsHaveOrders'
  <1> SUFFICES ASSUME CoreInv, [Next]_vars PROVE ActionsHaveOrders'
    OBVIOUS
  <1> TypeOK /\ ActionsHaveOrders
    BY DEF CoreInv
  <1> USE SentinelFacts DEF ActionsHaveOrders, Exists
  <1>1. CASE UNCHANGED <<actions, orders>>
    BY <1>1
  <1>2. ASSUME NEW o \in OrderNumbers, NEW row \in Rows,
               CreateOrder(o, row) \/ UpdateOrder(o, row)
        PROVE  ActionsHaveOrders'
    BY <1>2 DEF TypeOK, CreateOrder, UpdateOrder
  <1>3. ASSUME NEW o \in OrderNumbers, NEW new \in OrderNumbers,
               NEW row \in Rows, RenameOrder(o, new, row)
        PROVE  ActionsHaveOrders'
    BY <1>3 DEF TypeOK, RenameOrder, Referenced
  <1>4. ASSUME NEW o \in OrderNumbers, DeleteOrder(o)
        PROVE  ActionsHaveOrders'
    BY <1>4 DEF TypeOK, DeleteOrder, Referenced
  <1>5. ASSUME AdoptLegacy
        PROVE  ActionsHaveOrders'
    BY <1>5 DEF TypeOK, ContractTypeOK, AdoptLegacy, Adopt, NoRow
  <1>6. ASSUME NEW s \in Sessions, Commit(s)
        PROVE  ActionsHaveOrders'
    <2> DEFINE d == DecisionOf(s)
               status == StatusAfter(orders[d.order].refund, d.outcome)
    <2>1. /\ d.order \in OrderNumbers
          /\ d.outcome # "missing" => orders[d.order] \in Rows
      BY <1>6, CommitFacts DEF Commit
    <2>2. orders' = [orders EXCEPT
              ![d.order] = [orders[d.order] EXCEPT !.refund = status]]
      BY <1>6 DEF Commit
    <2>3. orders[d.order] \in Rows =>
              [orders[d.order] EXCEPT !.refund = status].product \in Products
      BY DEF Rows
    <2>4. \A o \in OrderNumbers : orders[o] \in Rows => orders'[o] # NoRow
      BY <2>1, <2>2, <2>3, LedgerAssumption DEF TypeOK, NoRow
    <2>5. \A o \in OrderNumbers : actions'[o] # NoRequest =>
              actions[o] # NoRequest \/ (o = d.order /\ d.outcome = "approved")
      BY <1>6, <2>1 DEF TypeOK, ContractTypeOK, Commit, HolderAfter
    <2> QED
      BY <2>1, <2>4, <2>5 DEF TypeOK
  <1> QED
    BY <1>1, <1>2, <1>3, <1>4, <1>5, <1>6
       DEF Next, SessionStep, EmployeeStep, vars, Propose, Begin, TakeAdvisory,
           Replay, ReadOrder, LockRow, MissRow, ReadAction, Raise, Abort,
           UpdatePrice

-----------------------------------------------------------------------------

(* The empty ledger satisfies the invariant.                               *)
LEMMA InitHolds == Init => IInv
  <1> SUFFICES ASSUME Init PROVE IInv
    OBVIOUS
  <1>1. \A s \in Sessions : session[s].step = "idle"
    BY DEF Init, IdleSession
  <1>2. TypeOK
    BY SentinelFacts DEF Init, ContractInit, TypeOK, ContractTypeOK
  <1>3. Locks /\ StableUnderLock
    BY <1>1 DEF Locks, Shape, AdvisoryExclusive, HoldsAdvisory, InFlight,
                RowExclusive, HoldsRow, Undecided, StableUnderLock
  <1>4. LedgerAgreement /\ ActionsHaveOrders
    BY SentinelAssumption
       DEF Init, ContractInit, LedgerAgreement, Settled, ActionsHaveOrders
  <1> QED
    BY <1>2, <1>3, <1>4 DEF IInv, CoreInv

(* The inductive invariant: types, the exclusive locks, what they protect, *)
(* and the agreement of the two ledger tables.                             *)
THEOREM LedgerInductive == Spec => []IInv
  <1>1. IInv /\ [Next]_vars => IInv'
    BY TypeStep, LocksStep, StableStep, AgreementStep, OrdersStep
       DEF IInv, CoreInv
  <1> QED
    BY InitHolds, <1>1, PTL DEF Spec

(* Every table and every transaction keeps its shape.                      *)
THEOREM LedgerTypes == Spec => []TypeOK
  <1>1. IInv => TypeOK
    BY DEF IInv, CoreInv
  <1> QED
    BY LedgerInductive, <1>1, PTL

(* An action and the decision that permitted it never part.                *)
THEOREM LedgerAgrees == Spec => []LedgerAgreement
  <1>1. IInv => LedgerAgreement
    BY DEF IInv
  <1> QED
    BY LedgerInductive, <1>1, PTL

(* An order and its action do not change between row lock and commit.      *)
THEOREM LedgerStable == Spec => []StableUnderLock
  <1>1. IInv => StableUnderLock
    BY DEF IInv, CoreInv
  <1> QED
    BY LedgerInductive, <1>1, PTL

(* The foreign key holds without being checked: actions have orders.       *)
THEOREM LedgerForeignKey == Spec => []ActionsHaveOrders
  <1>1. IInv => ActionsHaveOrders
    BY DEF IInv, CoreInv
  <1> QED
    BY LedgerInductive, <1>1, PTL

(* Neither conflict error of record_simulated_refund is reachable.         *)
THEOREM LedgerCommits == Spec => []CommitNeverConflicts
  <1>1. IInv => CommitNeverConflicts
    <2> SUFFICES ASSUME IInv, NEW s \in Sessions, session[s].step = "checked"
                 PROVE  /\ ~Settled(session[s].request)
                        /\ Outcome(s) = "approved" =>
                               actions[OrderOf(s)] = NoRequest
      BY DEF CommitNeverConflicts
    <2>1. ~Settled(session[s].request)
      BY DEF IInv, CoreInv, Locks, Undecided, Settled
    <2>2. Outcome(s) = "approved" => actions[OrderOf(s)] = NoRequest
      BY CommitFacts DEF IInv, DecisionOf
    <2> QED
      BY <2>1, <2>2
  <1> QED
    BY LedgerInductive, <1>1, PTL

(* No action is withdrawn or reassigned, no decision is rewritten.         *)
THEOREM LedgerHistory == Spec => HistoryImmutable
  <1> DEFINE Kept ==
        /\ \A o \in OrderNumbers :
               actions[o] # NoRequest => actions'[o] = actions[o]
        /\ \A r \in Requests : Settled(r) => decisions'[r] = decisions[r]
  <1>1. IInv /\ [Next]_vars => [Kept]_vars
    <2> SUFFICES ASSUME IInv, [Next]_vars PROVE Kept
      OBVIOUS
    <2> CoreInv /\ TypeOK
      BY DEF IInv, CoreInv
    <2>1. CASE UNCHANGED <<actions, decisions>>
      BY <2>1
    <2>2. ASSUME NEW s \in Sessions, Commit(s)
          PROVE  Kept
      BY <2>2, CommitFacts
         DEF Commit, HolderAfter, TypeOK, ContractTypeOK, Settled
    <2>3. ASSUME AdoptLegacy
          PROVE  Kept
      BY <2>3 DEF AdoptLegacy, Adopt, TypeOK, ContractTypeOK
    <2> QED
      BY <2>1, <2>2, <2>3, LedgerWriters
  <1> QED
    BY LedgerInductive, <1>1, PTL DEF Spec, HistoryImmutable

(* A decision never takes an approval back and repairs a lost status.      *)
THEOREM LedgerKeepsApproval == Spec => DecisionsKeepApproval
  <1> DEFINE Kept ==
        \A r \in Requests : decisions[r] # decisions'[r] =>
            LET o == decisions'[r].order IN
            /\ orders[o].refund = "approved" => orders'[o].refund = "approved"
            /\ decisions'[r].outcome \in {"approved", "already"} =>
                   orders'[o].refund = "approved"
  <1>1. IInv /\ [Next]_vars => [Kept]_vars
    <2> SUFFICES ASSUME IInv, [Next]_vars PROVE Kept
      OBVIOUS
    <2> CoreInv /\ TypeOK
      BY DEF IInv, CoreInv
    <2>1. CASE UNCHANGED <<actions, decisions>>
      BY <2>1
    <2>2. ASSUME NEW s \in Sessions, Commit(s)
          PROVE  Kept
      <3> DEFINE d == DecisionOf(s)
                 status == StatusAfter(orders[d.order].refund, d.outcome)
      <3>1. d.order \in OrderNumbers /\ session[s].request \in Requests
        BY <2>2, CommitFacts DEF Commit
      <3>2. \A r \in Requests :
                decisions[r] # decisions'[r] => decisions'[r] = d
        BY <2>2, <3>1 DEF Commit, TypeOK, ContractTypeOK
      <3>3. orders'[d.order].refund = status
        <4>1. orders[d.order] \in Rows \cup {NoRow}
          BY <3>1 DEF TypeOK
        <4>2. [orders[d.order] EXCEPT !.refund = status].refund = status
          BY <4>1 DEF Rows, NoRow
        <4>3. orders'[d.order] = [orders[d.order] EXCEPT !.refund = status]
          BY <2>2, <3>1 DEF Commit, TypeOK
        <4> QED
          BY <4>2, <4>3
      <3>4. /\ orders[d.order].refund = "approved" => status = "approved"
            /\ d.outcome \in {"approved", "already"} => status = "approved"
        BY DEF StatusAfter
      <3> HIDE DEF d, status
      <3> QED
        BY <3>2, <3>3, <3>4
    <2>3. ASSUME AdoptLegacy
          PROVE  Kept
      BY <2>3 DEF AdoptLegacy, Adopt
    <2> QED
      BY <2>1, <2>2, <2>3, LedgerWriters
  <1> QED
    BY LedgerInductive, <1>1, PTL DEF Spec, DecisionsKeepApproval

(* The transactions implement the contract: a commit settles one request,  *)
(* a schema run adopts orders, everything else leaves the ledger alone.    *)
THEOREM LedgerImplementsContract == Spec => ImplementsContract
  <1> USE DEF Contract!ContractInit, Contract!ContractNext,
              Contract!ContractVars, Contract!Settle, Contract!Adopt
  <1>1. Init => Contract!ContractInit
    BY DEF Init, ContractInit
  <1>2. IInv /\ [Next]_vars => [Contract!ContractNext]_Contract!ContractVars
    <2> SUFFICES ASSUME IInv, [Next]_vars
                 PROVE  [Contract!ContractNext]_Contract!ContractVars
      OBVIOUS
    <2> CoreInv /\ TypeOK
      BY DEF IInv, CoreInv
    <2>1. CASE UNCHANGED <<actions, decisions>>
      BY <2>1
    <2>2. ASSUME NEW s \in Sessions, Commit(s)
          PROVE  Contract!ContractNext
      <3> DEFINE r == session[s].request
                 d == DecisionOf(s)
      <3>1. r \in Requests /\ d \in Contract!Decisions
        BY <2>2, CommitFacts
           DEF Commit, Decisions, Contract!Decisions, Outcomes, Contract!Outcomes
      <3>2. Contract!Settle(r, d)
        BY <2>2, CommitFacts DEF Commit, HolderAfter, TypeOK, ContractTypeOK
      <3> QED
        BY <3>1, <3>2
    <2>3. ASSUME AdoptLegacy
          PROVE  Contract!ContractNext
      BY <2>3 DEF AdoptLegacy, Adopt
    <2> QED
      BY <2>1, <2>2, <2>3, LedgerWriters
  <1> QED
    BY LedgerInductive, <1>1, <1>2, PTL
       DEF Spec, ImplementsContract, Contract!ContractSpec


-----------------------------------------------------------------------------
(* The demo reset.  LedgerAgreement does not survive it, for it forgets    *)
(* actions and keeps decisions; one direction does.                        *)

(* A session decides the proposal its human has seen.                      *)
ProposalKept ==
    \A s \in Sessions : session[s].step # "idle" =>
        session[s].proposal = proposals[session[s].request]

RInv ==
    /\ CoreInv
    /\ ActionsHaveDecisions
    /\ ProposalKept

-----------------------------------------------------------------------------

(* The truncation waits for every session that has read the tables.        *)
LEMMA ResetCore == CoreInv /\ Reset => CoreInv'
  <1> SUFFICES ASSUME CoreInv, Reset PROVE CoreInv'
    OBVIOUS
  <1>1. /\ \A s \in Sessions :
               session'[s].step \notin {"reading", "locked", "checked"}
        /\ UNCHANGED <<decisions, proposals, session>>
        /\ orders' = SeedOrders /\ prices' = SeedPrices
        /\ actions' = [o \in OrderNumbers |-> NoRequest]
    BY DEF Reset, TablesFree, HoldsTable
  <1>2. TypeOK'
    <2>1. SeedOrders \in [OrderNumbers -> Rows \cup {NoRow}]
      BY SeedAssumption DEF Rows, RefundStatuses
    <2> QED
      BY <1>1, <2>1, SeedAssumption DEF CoreInv, TypeOK, ContractTypeOK
  <1>3. Locks'
    BY <1>1 DEF CoreInv, Locks, Shape, Found, AdvisoryExclusive, HoldsAdvisory,
                InFlight, RowExclusive, HoldsRow, OrderOf, Undecided
  <1>4. StableUnderLock' /\ ActionsHaveOrders'
    BY <1>1 DEF StableUnderLock, HoldsRow, ActionsHaveOrders
  <1> QED
    BY <1>2, <1>3, <1>4 DEF CoreInv

(* Every step keeps an action's decision.                                  *)
LEMMA DecidedStep ==
    ASSUME CoreInv, ActionsHaveDecisions, [ResetNext]_vars
    PROVE  ActionsHaveDecisions'
  <1> TypeOK
    BY DEF CoreInv
  <1>1. CASE UNCHANGED <<actions, decisions>>
    BY <1>1 DEF ActionsHaveDecisions, Settled
  <1>2. ASSUME NEW s \in Sessions, Commit(s)
        PROVE  ActionsHaveDecisions'
    <2> DEFINE r == session[s].request
               d == DecisionOf(s)
    <2>1. r \in Requests /\ d \in Decisions /\ d.order \in OrderNumbers
      BY <1>2, CommitFacts DEF Commit
    <2>2. /\ decisions[r] = NoDecision
          /\ decisions' = [decisions EXCEPT ![r] = d]
          /\ actions' = IF d.outcome = "approved"
                        THEN [actions EXCEPT ![d.order] = r] ELSE actions
      BY <1>2, <2>1 DEF Commit, HolderAfter, TypeOK, ContractTypeOK
    <2> HIDE DEF d, r
    <2> QED
      BY <2>1, <2>2, SentinelAssumption
         DEF ActionsHaveDecisions, Settled, TypeOK, ContractTypeOK
  <1>3. ASSUME AdoptLegacy
        PROVE  ActionsHaveDecisions'
    BY <1>3, SentinelAssumption
       DEF AdoptLegacy, Adopt, ActionsHaveDecisions, Settled, TypeOK,
           ContractTypeOK
  <1>4. CASE Reset
    BY <1>4, SentinelAssumption DEF Reset, ActionsHaveDecisions
  <1> QED
    BY <1>1, <1>2, <1>3, <1>4, LedgerWriters DEF ResetNext

(* No request in flight proposes anew.                                     *)
LEMMA ProposalStep ==
    ASSUME CoreInv, ProposalKept, [ResetNext]_vars
    PROVE  ProposalKept'
  <1> TypeOK /\ Shape
    BY DEF CoreInv, Locks
  <1>1. CASE UNCHANGED <<proposals, session>>
    BY <1>1 DEF ProposalKept
  <1>2. ASSUME NEW r \in Requests, NEW o \in OrderNumbers, Propose(r, o)
        PROVE  ProposalKept'
    <2>1. /\ \A q \in Requests \ {r} : proposals'[q] = proposals[q]
          /\ UNCHANGED session
          /\ \A s \in Sessions : ~InFlight(s, r)
      BY <1>2 DEF Propose, TypeOK
    <2> QED
      BY <2>1 DEF ProposalKept, InFlight, Shape
  <1>3. ASSUME NEW s \in Sessions, NEW r \in Requests,
               NEW approved \in BOOLEAN, Begin(s, r, approved)
        PROVE  ProposalKept'
    BY <1>3 DEF TypeOK, Begin, IdleSession, ProposalKept
  <1>4. ASSUME NEW s \in Sessions,
               /\ UNCHANGED proposals
               /\ \A t \in Sessions \ {s} : session'[t] = session[t]
               /\ \/ session'[s].step = "idle"
                  \/ /\ session[s].step # "idle"
                     /\ session'[s].request = session[s].request
                     /\ session'[s].proposal = session[s].proposal
        PROVE  ProposalKept'
    BY <1>4 DEF ProposalKept
  <1>5. ASSUME NEW s \in Sessions,
               Replay(s) \/ Raise(s) \/ Abort(s) \/ Commit(s)
        PROVE  ProposalKept'
    <2>1. /\ UNCHANGED proposals
          /\ \A t \in Sessions \ {s} : session'[t] = session[t]
          /\ session'[s].step = "idle"
      BY <1>5 DEF TypeOK, Replay, Raise, Abort, Commit, End, IdleSession
    <2> QED
      BY <2>1, <1>4
  <1>6. ASSUME NEW s \in Sessions, TakeAdvisory(s)
        PROVE  ProposalKept'
    BY <1>4, <1>6 DEF TypeOK, TakeAdvisory, Move, SessionStates
  <1>7. ASSUME NEW s \in Sessions, ReadOrder(s)
        PROVE  ProposalKept'
    BY <1>4, <1>7, JoinStep DEF ReadOrder
  <1>8. ASSUME NEW s \in Sessions, LockRow(s)
        PROVE  ProposalKept'
    BY <1>4, <1>8 DEF TypeOK, LockRow, SessionStates
  <1>9. ASSUME NEW s \in Sessions, MissRow(s)
        PROVE  ProposalKept'
    BY <1>4, <1>9 DEF TypeOK, MissRow, SessionStates
  <1>10. ASSUME NEW s \in Sessions, ReadAction(s)
         PROVE  ProposalKept'
    BY <1>4, <1>10 DEF TypeOK, ReadAction, SessionStates
  <1>11. ASSUME NEW o \in OrderNumbers, RowGone(o), UNCHANGED proposals
         PROVE  ProposalKept'
    <2>1. \A s \in Sessions : /\ session'[s].step = session[s].step
                              /\ session'[s].request = session[s].request
                              /\ session'[s].proposal = session[s].proposal
      BY <1>11 DEF RowGone, TypeOK, SessionStates
    <2> QED
      BY <1>11, <2>1 DEF ProposalKept
  <1>12. ASSUME EmployeeStep
         PROVE  ProposalKept'
    BY <1>1, <1>11, <1>12
       DEF EmployeeStep, CreateOrder, UpdateOrder, RenameOrder, DeleteOrder,
           UpdatePrice
  <1>13. CASE AdoptLegacy \/ Reset \/ UNCHANGED vars
    BY <1>1, <1>13 DEF AdoptLegacy, Reset, vars
  <1> QED
    BY <1>2, <1>3, <1>5, <1>6, <1>7, <1>8, <1>9, <1>10, <1>12, <1>13
       DEF ResetNext, Next, SessionStep

-----------------------------------------------------------------------------
(* Results.                                                                *)

(* The invariant of the ledger beside resets.                              *)
THEOREM ResetInductive == ResetSpec => []RInv
  <1>1. Init => RInv
    <2>1. Init => ActionsHaveDecisions
      BY SentinelAssumption DEF Init, ContractInit, ActionsHaveDecisions
    <2>2. Init => ProposalKept
      BY DEF Init, IdleSession, ProposalKept
    <2> QED
      BY InitHolds, <2>1, <2>2 DEF IInv, RInv
  <1>2. RInv /\ [ResetNext]_vars => RInv'
    <2> SUFFICES ASSUME RInv, [ResetNext]_vars PROVE RInv'
      OBVIOUS
    <2>1. CoreInv'
      BY TypeStep, LocksStep, StableStep, OrdersStep, ResetCore
         DEF RInv, CoreInv, ResetNext
    <2> QED
      BY <2>1, DecidedStep, ProposalStep DEF RInv
  <1> QED
    BY <1>1, <1>2, PTL DEF ResetSpec

(* Tables and transactions keep their types.                               *)
THEOREM ResetTypes == ResetSpec => []TypeOK
  <1>1. RInv => TypeOK
    BY DEF RInv, CoreInv
  <1> QED
    BY ResetInductive, <1>1, PTL

(* A reset does not change the order a session has locked.                 *)
THEOREM ResetWaits == ResetSpec => []StableUnderLock
  <1>1. RInv => StableUnderLock
    BY DEF RInv, CoreInv
  <1> QED
    BY ResetInductive, <1>1, PTL

(* No reset leaves an action without its decision.                         *)
THEOREM ResetKeepsDecisions == ResetSpec => []ActionsHaveDecisions
  <1>1. RInv => ActionsHaveDecisions
    BY DEF RInv
  <1> QED
    BY ResetInductive, <1>1, PTL

(* A decision made before a reset never acts on an order inserted by it.   *)
THEOREM ResetForgetsOldDecisions == ResetSpec => OldDecisionsStayOld
  <1> DEFINE Fresh ==
        \A o \in OrderNumbers, r \in Requests :
            actions[o] # r /\ actions'[o] = r => decisions[r] = NoDecision
  <1>1. RInv /\ [ResetNext]_vars => [Fresh]_vars
    <2> SUFFICES ASSUME RInv, [ResetNext]_vars PROVE Fresh
      OBVIOUS
    <2> CoreInv /\ TypeOK
      BY DEF RInv, CoreInv
    <2>1. CASE UNCHANGED <<actions, decisions>>
      BY <2>1
    <2>2. ASSUME NEW s \in Sessions, Commit(s)
          PROVE  Fresh
      BY <2>2, CommitFacts DEF Commit, HolderAfter, TypeOK, ContractTypeOK
    <2>3. ASSUME AdoptLegacy
          PROVE  Fresh
      BY <2>3, SentinelAssumption
         DEF AdoptLegacy, Adopt, TypeOK, ContractTypeOK
    <2>4. CASE Reset
      BY <2>4, SentinelAssumption DEF Reset
    <2> QED
      BY <2>1, <2>2, <2>3, <2>4, LedgerWriters DEF ResetNext
  <1> QED
    BY ResetInductive, <1>1, PTL DEF ResetSpec, OldDecisionsStayOld

(* An order is approved only for the amount its human was shown.           *)
THEOREM ResetApprovesAsReviewed == ResetSpec => ApprovedAsReviewed
  <1> DEFINE Reviewed ==
        \A r \in Requests :
            decisions[r] = NoDecision /\ decisions'[r] # NoDecision
            /\ decisions'[r].outcome = "approved" =>
                \E s \in Sessions :
                    /\ InFlight(s, r)
                    /\ orders[proposals[r].order].quantity * session[s].price
                           = proposals[r].amount
  <1>1. RInv /\ [ResetNext]_vars => [Reviewed]_vars
    <2> SUFFICES ASSUME RInv, [ResetNext]_vars PROVE Reviewed
      OBVIOUS
    <2> CoreInv /\ TypeOK
      BY DEF RInv, CoreInv
    <2>1. CASE UNCHANGED decisions
      BY <2>1
    <2>2. ASSUME NEW s \in Sessions, Commit(s)
          PROVE  Reviewed
      <3> DEFINE q == session[s].request
                 o == OrderOf(s)
                 d == DecisionOf(s)
      <3>1. /\ q \in Requests
            /\ d.outcome = "approved" => orders[o] = session[s].row
        BY <2>2, CommitFacts DEF Commit
      <3>2. \A r \in Requests :
                decisions[r] # decisions'[r] => r = q /\ decisions'[r] = d
        BY <2>2, <3>1 DEF Commit, TypeOK, ContractTypeOK
      <3>3. session[s].proposal = proposals[q] /\ InFlight(s, q)
        BY <2>2 DEF Commit, RInv, ProposalKept, InFlight
      <3>4. d.outcome = "approved" =>
                session[s].row.quantity * session[s].price
                    = session[s].proposal.amount
        BY DEF DecisionOf, Outcome
      <3>5. d.outcome = "approved" =>
                orders[proposals[q].order].quantity * session[s].price
                    = proposals[q].amount
        BY <3>1, <3>3, <3>4 DEF OrderOf
      <3> HIDE DEF q, d
      <3> QED
        BY <3>2, <3>3, <3>5
    <2>3. ASSUME AdoptLegacy
          PROVE  UNCHANGED decisions
      BY <2>3 DEF AdoptLegacy, Adopt
    <2>4. CASE Reset
      BY <2>4 DEF Reset
    <2> QED
      BY <2>1, <2>2, <2>3, <2>4, LedgerWriters DEF ResetNext
  <1> QED
    BY ResetInductive, <1>1, PTL DEF ResetSpec, ApprovedAsReviewed

=============================================================================
