------------------------- MODULE RunAdmissionProofs -------------------------
(* Proofs about RunAdmission, for any number of requests, customers and    *)
(* days: conversations are not shared, and the cap of a day holds.         *)
EXTENDS RunAdmission, FiniteSetTheorems, TLAPS

Early == {"new", "identify", "order", "route"}
Claimed == {"own", "save", "enqueue", "failed", "accepted"}

(* A thread is its request's own or was recorded for its customer, and     *)
(* what is recorded or saved for a request stays true of it.               *)
OwnerInv ==
    \A r \in Requests :
        /\ request[r].step \in Early => request[r].thread = r
        /\ \/ request[r].thread = r
           \/ owners[request[r].thread] = request[r].owner
        /\ owners[r] # None => /\ owners[r] = request[r].owner
                               /\ request[r].step \notin Early
        /\ support_runs[r] # None =>
               /\ support_runs[r].thread = request[r].thread
               /\ support_runs[r].owner = request[r].owner
               /\ request[r].step \notin Early

(* The counter of a day that has not ended counts its claims.              *)
CountInv ==
    /\ \A r \in Requests :
          /\ request[r].claimed # None => /\ request[r].step \in Claimed
                                          /\ request[r].limit # None
          /\ request[r].step \in {"clock", "claim"} => request[r].limit # None
          /\ request[r].key <= today
    /\ \A d \in Days : today <= d => counter[d] = Cardinality(Claims(d))

(* The foreign key of orders: no order is left without its customer.       *)
OrdersOwned == \A o \in Orders : customers[orders[o]] # None

IInv == Typed /\ OrdersOwned /\ OwnerInv /\ CountInv /\ CapHolds

-----------------------------------------------------------------------------
(* A step of one request changes what that request knows.                  *)
LEMMA KnowledgeFacts ==
    ASSUME Typed, NEW r \in Requests, NEW new \in Knowledge,
           request' = [request EXCEPT ![r] = new]
    PROVE  /\ request' \in [Requests -> Knowledge]
           /\ request'[r] = new
           /\ \A s \in Requests : s # r => request'[s] = request[s]
BY DEF Typed

LEMMA GotoFacts ==
    ASSUME Typed, NEW r \in Requests, NEW step \in Steps, Goto(r, step)
    PROVE  /\ request' \in [Requests -> Knowledge]
           /\ request'[r].step = step
           /\ request'[r].owner = request[r].owner
           /\ request'[r].thread = request[r].thread
           /\ request'[r].limit = request[r].limit
           /\ request'[r].key = request[r].key
           /\ request'[r].claimed = request[r].claimed
           /\ \A s \in Requests : s # r => request'[s] = request[s]
<1> DEFINE new == [request[r] EXCEPT !.step = step]
<1>1. request[r] \in Knowledge
  BY DEF Typed
<1>2. new \in Knowledge
  BY <1>1 DEF Knowledge
<1>3. request' = [request EXCEPT ![r] = new]
  BY DEF Goto
<1>4. /\ new.step = step /\ new.owner = request[r].owner
      /\ new.thread = request[r].thread /\ new.limit = request[r].limit
      /\ new.key = request[r].key /\ new.claimed = request[r].claimed
  BY <1>1 DEF Knowledge
<1> HIDE DEF new
<1> QED BY <1>2, <1>3, <1>4, KnowledgeFacts

LEMMA Typing == ASSUME Typed, [Next]_vars PROVE Typed'
<1> USE AdmissionAssumption DEF Typed
<1>1. ASSUME NEW r \in Requests, NEW owner \in Owners,
             NEW identity \in Identities \cup {None},
             NEW order \in Orders \cup {None},
             NEW asked \in Requests \cup {None, Blank},
             Receive(r, owner, identity, order, asked)
      PROVE  Typed'
  <2>1. PICK step \in {"identify", "rejected", "route"} :
            request' = [request EXCEPT ![r] =
                [request[r] EXCEPT !.owner = owner, !.identity = identity,
                                   !.order = order, !.asked = asked,
                                   !.step = step]]
    BY <1>1 DEF Receive
  <2>2. request[r] \in Knowledge
    OBVIOUS
  <2>3. [request[r] EXCEPT !.owner = owner, !.identity = identity,
                           !.order = order, !.asked = asked,
                           !.step = step] \in Knowledge
    BY <2>2 DEF Knowledge, Steps, InProgress
  <2>4. request' \in [Requests -> Knowledge]
    BY <2>1, <2>3, KnowledgeFacts
  <2>5. UNCHANGED <<setting, counter, today, customers, orders, owners,
                    support_runs, queue>>
    BY <1>1 DEF Receive
  <2> QED BY <2>4, <2>5
<1>2. ASSUME NEW r \in Requests, Identify(r) \/ OwnOrder(r) \/ Fail(r)
      PROVE  Typed'
  <2>1. \E step \in Steps : Goto(r, step)
    BY <1>2 DEF Identify, OwnOrder, Fail, Steps, InProgress
  <2> QED BY <1>2, <2>1, GotoFacts DEF Identify, OwnOrder, Fail
<1>3. ASSUME NEW r \in Requests, Route(r)
      PROVE  Typed'
  <2>1. CASE \E step \in {"limit", "rejected"} : Goto(r, step)
    <3>1. request' \in [Requests -> Knowledge]
      BY <2>1, GotoFacts DEF Steps, InProgress
    <3> QED BY <1>3, <3>1 DEF Route
  <2>2. CASE /\ request[r].asked \in Requests
             /\ request' = [request EXCEPT ![r] =
                    [request[r] EXCEPT !.step = "limit",
                                       !.thread = request[r].asked]]
    <3>1. request[r] \in Knowledge
      OBVIOUS
    <3>2. [request[r] EXCEPT !.step = "limit", !.thread = request[r].asked]
              \in Knowledge
      BY <2>2, <3>1 DEF Knowledge, Steps, InProgress
    <3> QED BY <1>3, <2>2, <3>2 DEF Route
  <2>3. request[r].asked \in Requests \cup {None, Blank}
    BY DEF Knowledge
  <2> QED BY <1>3, <2>1, <2>2, <2>3 DEF Route
<1>4. ASSUME NEW r \in Requests, TakeLimit(r)
      PROVE  Typed'
  <2>1. Setting \in Limits
    BY DEF Setting
  <2>2. PICK step \in {"own", "clock"} :
            request' = [request EXCEPT ![r] =
                [request[r] EXCEPT !.limit = Setting, !.step = step]]
    BY <1>4 DEF TakeLimit
  <2>3. request[r] \in Knowledge
    OBVIOUS
  <2>4. [request[r] EXCEPT !.limit = Setting, !.step = step] \in Knowledge
    BY <2>1, <2>3 DEF Knowledge, Steps, InProgress
  <2>5. request' \in [Requests -> Knowledge]
    BY <2>2, <2>4, KnowledgeFacts
  <2>6. /\ setting' = Setting
        /\ UNCHANGED <<counter, today, customers, orders, owners,
                       support_runs, queue>>
    BY <1>4 DEF TakeLimit
  <2> QED BY <2>1, <2>5, <2>6
<1>5. ASSUME NEW r \in Requests, ReadClock(r)
      PROVE  Typed'
  <2>1. request[r] \in Knowledge
    OBVIOUS
  <2>2. [request[r] EXCEPT !.step = "claim", !.key = today] \in Knowledge
    BY <2>1 DEF Knowledge, Steps, InProgress
  <2>3. request' = [request EXCEPT ![r] =
            [request[r] EXCEPT !.step = "claim", !.key = today]]
    BY <1>5 DEF ReadClock
  <2> QED BY <1>5, <2>2, <2>3 DEF ReadClock
<1>6. ASSUME NEW r \in Requests, Claim(r)
      PROVE  Typed'
  <2>1. request[r] \in Knowledge
    OBVIOUS
  <2>2. counter' \in [Days -> Nat]
    BY <1>6 DEF Claim
  <2>3. CASE Goto(r, "spent")
    BY <1>6, <2>2, <2>3, GotoFacts DEF Claim, Steps
  <2>4. CASE request' = [request EXCEPT ![r] =
                 [request[r] EXCEPT !.step = "own", !.claimed = today]]
    <3>1. [request[r] EXCEPT !.step = "own", !.claimed = today] \in Knowledge
      BY <2>1 DEF Knowledge, Steps, InProgress
    <3> QED BY <1>6, <2>2, <2>4, <3>1 DEF Claim
  <2> QED BY <1>6, <2>3, <2>4 DEF Claim
<1>7. ASSUME NEW r \in Requests, Own(r)
      PROVE  Typed'
  <2>1. request' \in [Requests -> Knowledge]
    BY <1>7, GotoFacts DEF Own, Steps, InProgress
  <2>2. owners' \in [Requests -> Owners \cup {None}]
    BY <1>7 DEF Own, Knowledge
  <2> QED BY <1>7, <2>1, <2>2 DEF Own
<1>8. ASSUME NEW r \in Requests, Save(r)
      PROVE  Typed'
  <2>1. request' \in [Requests -> Knowledge]
    BY <1>8, GotoFacts DEF Save, Steps, InProgress
  <2>2. [thread |-> request[r].thread, owner |-> request[r].owner,
         order |-> request[r].order] \in Rows
    BY DEF Rows, Knowledge
  <2> QED BY <1>8, <2>1, <2>2 DEF Save
<1>9. ASSUME NEW r \in Requests, Enqueue(r)
      PROVE  Typed'
  BY <1>9, GotoFacts DEF Enqueue, Steps
<1>10. CASE \E n \in Limits : SetLimit(n)
  BY <1>10 DEF SetLimit
<1>11. CASE \E c \in Customers : \/ \E i \in Identities : UpdateCustomer(c, i)
                                 \/ DeleteCustomer(c)
                                 \/ \E o \in Orders : ReassignOrder(o, c)
  BY <1>11 DEF UpdateCustomer, DeleteCustomer, ReassignOrder
<1>12. CASE Midnight
  BY <1>12 DEF Midnight, Days
<1>13. CASE \E d \in Days : Expire(d)
  BY <1>13 DEF Expire
<1>14. CASE UNCHANGED vars
  BY <1>14 DEF vars
<1> QED
  BY <1>1, <1>2, <1>3, <1>4, <1>5, <1>6, <1>7, <1>8, <1>9, <1>10, <1>11,
     <1>12, <1>13, <1>14 DEF Next

(* Edits, deletions and reassignments keep the customers of the orders.    *)
LEMMA OrdersStep ==
    ASSUME Typed, OrdersOwned, [Next]_vars
    PROVE  OrdersOwned'
<1> USE AdmissionAssumption
<1>1. CASE UNCHANGED <<customers, orders>>
  BY <1>1 DEF OrdersOwned
<1>2. ASSUME NEW c \in Customers, NEW i \in Identities, UpdateCustomer(c, i)
      PROVE  OrdersOwned'
  BY <1>2 DEF UpdateCustomer, Typed, OrdersOwned
<1>3. ASSUME NEW c \in Customers, DeleteCustomer(c)
      PROVE  OrdersOwned'
  BY <1>3 DEF DeleteCustomer, Typed, OrdersOwned
<1>4. ASSUME NEW c \in Customers, NEW o \in Orders, ReassignOrder(o, c)
      PROVE  OrdersOwned'
  BY <1>4 DEF ReassignOrder, Typed, OrdersOwned
<1>5. ASSUME NEW r \in Requests,
             \/ \E owner \in Owners, identity \in Identities \cup {None},
                   order \in Orders \cup {None},
                   asked \in Requests \cup {None, Blank} :
                       Receive(r, owner, identity, order, asked)
             \/ Identify(r) \/ OwnOrder(r) \/ Route(r) \/ TakeLimit(r)
             \/ ReadClock(r) \/ Claim(r) \/ Own(r) \/ Save(r) \/ Enqueue(r)
             \/ Fail(r)
      PROVE  UNCHANGED <<customers, orders>>
  BY <1>5 DEF Receive, Identify, OwnOrder, Route, TakeLimit, ReadClock, Claim,
              Own, Save, Enqueue, Fail
<1>6. ASSUME \/ \E n \in Limits : SetLimit(n)
             \/ Midnight
             \/ \E d \in Days : Expire(d)
             \/ UNCHANGED vars
      PROVE  UNCHANGED <<customers, orders>>
  BY <1>6 DEF SetLimit, Midnight, Expire, vars
<1> QED
  BY <1>1, <1>2, <1>3, <1>4, <1>5, <1>6 DEF Next

(* The steps of a request that write neither an owner nor a row.           *)
LEMMA OwnersKept ==
    ASSUME Typed, OwnerInv, UNCHANGED <<owners, support_runs>>,
           NEW r \in Requests,
           \A s \in Requests : s # r => request'[s] = request[s],
           request'[r].step \in Early => request[r].step \in Early,
           request'[r].owner = request[r].owner,
           request'[r].thread = request[r].thread
    PROVE  OwnerInv'
<1>1. ASSUME NEW s \in Requests
      PROVE  /\ request'[s].step \in Early => request[s].step \in Early
             /\ request'[s].owner = request[s].owner
             /\ request'[s].thread = request[s].thread
  BY <1>1
<1> QED BY <1>1 DEF OwnerInv

LEMMA OwnerStep == ASSUME Typed, OwnerInv, [Next]_vars PROVE OwnerInv'
<1> USE AdmissionAssumption DEF At, Steps, InProgress, Early
<1>1. ASSUME NEW r \in Requests, NEW owner \in Owners,
             NEW identity \in Identities \cup {None},
             NEW order \in Orders \cup {None},
             NEW asked \in Requests \cup {None, Blank},
             Receive(r, owner, identity, order, asked)
      PROVE  OwnerInv'
  <2>1. /\ request'[r].thread = request[r].thread
        /\ \A s \in Requests : s # r => request'[s] = request[s]
        /\ request[r].step = "new"
        /\ UNCHANGED <<owners, support_runs>>
    BY <1>1 DEF Receive, Typed, Knowledge
  <2>2. /\ request[r].thread = r /\ owners[r] = None
        /\ support_runs[r] = None
    BY <2>1 DEF OwnerInv
  <2> QED BY <2>1, <2>2 DEF OwnerInv
<1>2. ASSUME NEW r \in Requests, Identify(r) \/ OwnOrder(r) \/ Fail(r)
      PROVE  OwnerInv'
  <2>1. PICK step \in Steps : /\ Goto(r, step)
                             /\ step \in Early => request[r].step \in Early
    BY <1>2 DEF Identify, OwnOrder, Fail
  <2> QED BY <1>2, <2>1, GotoFacts, OwnersKept DEF Identify, OwnOrder, Fail
<1>3. ASSUME NEW r \in Requests, Route(r)
      PROVE  OwnerInv'
  <2>1. CASE \E step \in {"limit", "rejected"} : Goto(r, step)
    BY <1>3, <2>1, GotoFacts, OwnersKept DEF Route
  <2>2. CASE /\ MayContinue(r) /\ request[r].asked \in Requests
             /\ request' = [request EXCEPT ![r].step = "limit",
                                           ![r].thread = request[r].asked]
    <3>1. /\ request'[r].thread = request[r].asked
          /\ request'[r].owner = request[r].owner
          /\ request'[r].step = "limit"
      BY <2>2 DEF Typed, Knowledge
    <3>2. /\ owners[request[r].asked] = request[r].owner
          /\ request[r].step = "route"
          /\ UNCHANGED <<owners, support_runs>>
      BY <1>3, <2>2 DEF Route, MayContinue
    <3>3. owners[r] = None /\ support_runs[r] = None
      BY <3>2 DEF OwnerInv
    <3>4. owners' = owners /\ support_runs' = support_runs
      BY <3>2
    <3>5. \A s \in Requests : s # r => request'[s] = request[s]
      BY <2>2 DEF Typed
    <3>6. owners'[request'[r].thread] = request'[r].owner
      BY <3>1, <3>2, <3>4
    <3> QED BY <3>1, <3>3, <3>4, <3>5, <3>6 DEF OwnerInv
  <2>3. request[r].asked \in Requests \cup {None, Blank}
    BY DEF Typed, Knowledge
  <2> QED BY <1>3, <2>1, <2>2, <2>3 DEF Route
<1>4. ASSUME NEW r \in Requests, TakeLimit(r)
      PROVE  OwnerInv'
  <2>1. /\ request'[r].thread = request[r].thread
        /\ request'[r].owner = request[r].owner
        /\ request'[r].step \in {"own", "clock"}
        /\ \A s \in Requests : s # r => request'[s] = request[s]
    BY <1>4 DEF TakeLimit, Typed, Knowledge
  <2> QED BY <1>4, <2>1, OwnersKept DEF TakeLimit
<1>5. ASSUME NEW r \in Requests, ReadClock(r)
      PROVE  OwnerInv'
  <2>1. /\ request'[r].thread = request[r].thread
        /\ request'[r].owner = request[r].owner
        /\ request'[r].step = "claim"
        /\ \A s \in Requests : s # r => request'[s] = request[s]
    BY <1>5 DEF ReadClock, Typed, Knowledge
  <2> QED BY <1>5, <2>1, OwnersKept DEF ReadClock
<1>6. ASSUME NEW r \in Requests, Claim(r)
      PROVE  OwnerInv'
  <2>1. /\ request'[r].thread = request[r].thread
        /\ request'[r].owner = request[r].owner
        /\ request'[r].step \in {"own", "spent"}
        /\ \A s \in Requests : s # r => request'[s] = request[s]
    BY <1>6 DEF Claim, Goto, Typed, Knowledge
  <2> QED BY <1>6, <2>1, OwnersKept DEF Claim
<1>7. ASSUME NEW r \in Requests, Own(r)
      PROVE  OwnerInv'
  <2>1. /\ request'[r].thread = request[r].thread
        /\ request'[r].owner = request[r].owner
        /\ request'[r].step = "save"
        /\ \A s \in Requests : s # r => request'[s] = request[s]
    BY <1>7, GotoFacts DEF Own
  <2>2. support_runs' = support_runs /\ request[r].step = "own"
    BY <1>7 DEF Own
  <2>3. CASE owners' = owners
    BY <2>1, <2>2, <2>3, OwnersKept
  <2>4. CASE owners' = [owners EXCEPT ![r] = request[r].owner]
    <3>1. \A s \in Requests : owners'[s] = IF s = r THEN request[r].owner
                                          ELSE owners[s]
      BY <2>4 DEF Typed
    <3>2. \A s \in Requests : owners[s] \in {None, request[s].owner}
      BY DEF OwnerInv
    <3>3. \A s \in Requests : request[s].owner # None
      BY DEF Typed, Knowledge, Owners
    <3>4. \A s \in Requests : \/ request[s].thread = s
                               \/ /\ owners[request[s].thread] # None
                                  /\ owners[request[s].thread] = request[s].owner
                                  /\ request[s].thread \in Requests
      BY <3>3 DEF OwnerInv, Typed, Knowledge
    <3> QED BY <2>1, <2>2, <3>1, <3>2, <3>3, <3>4 DEF OwnerInv
  <2> QED BY <1>7, <2>3, <2>4 DEF Own
<1>8. ASSUME NEW r \in Requests, Save(r)
      PROVE  OwnerInv'
  <2>1. /\ request'[r].thread = request[r].thread
        /\ request'[r].owner = request[r].owner
        /\ request'[r].step = "enqueue"
        /\ \A s \in Requests : s # r => request'[s] = request[s]
    BY <1>8, GotoFacts DEF Save
  <2>2. /\ request[r].step = "save" /\ owners' = owners
        /\ support_runs' = [support_runs EXCEPT ![r] =
               [thread |-> request[r].thread, owner |-> request[r].owner,
                order |-> request[r].order]]
    BY <1>8 DEF Save
  <2>3. /\ support_runs'[r].thread = request[r].thread
        /\ support_runs'[r].owner = request[r].owner
        /\ \A s \in Requests : s # r => support_runs'[s] = support_runs[s]
    BY <2>2 DEF Typed
  <2> QED BY <2>1, <2>2, <2>3 DEF OwnerInv
<1>9. ASSUME NEW r \in Requests, Enqueue(r)
      PROVE  OwnerInv'
  BY <1>9, GotoFacts, OwnersKept DEF Enqueue
<1>10. CASE UNCHANGED <<owners, support_runs, request>>
  BY <1>10 DEF OwnerInv
<1> QED
  BY <1>1, <1>2, <1>3, <1>4, <1>5, <1>6, <1>7, <1>8, <1>9, <1>10
     DEF Next, vars, SetLimit, UpdateCustomer, DeleteCustomer, ReassignOrder,
         Midnight, Expire

LEMMA InitInv == Init => IInv
<1> SUFFICES ASSUME Init PROVE IInv
  OBVIOUS
<1> USE AdmissionAssumption
<1>1. Typed
  BY DEF Init, Typed, Owners, Days, Steps, Knowledge
<1>2. OwnerInv
  BY DEF Init, OwnerInv, Early
<1>3. \A d \in Days : Claims(d) = {}
  BY DEF Init, Claims, Days
<1>4. CountInv /\ CapHolds
  <2>1. Cardinality({}) = 0
    BY FS_EmptySet
  <2>2. \A r \in Requests : /\ request[r].claimed = None /\ request[r].key = 0
                            /\ request[r].step = "new"
    BY DEF Init
  <2>3. today = 0 /\ \A d \in Days : counter[d] = 0
    BY DEF Init
  <2>4. CapHolds
    BY <1>3 DEF CapHolds
  <2>5. \A d \in Days : counter[d] = Cardinality(Claims(d))
    BY <1>3, <2>1, <2>3
  <2> QED BY <2>2, <2>3, <2>4, <2>5 DEF CountInv
<1>5. OrdersOwned
  BY DEF Init, OrdersOwned
<1> QED BY <1>1, <1>2, <1>4, <1>5 DEF IInv

-----------------------------------------------------------------------------
(* The steps of a request that claim nothing.                              *)
LEMMA ClaimsKept ==
    ASSUME Typed, CountInv, CapHolds, UNCHANGED <<counter, today>>,
           NEW r \in Requests,
           \A s \in Requests : s # r => request'[s] = request[s],
           request'[r].claimed = request[r].claimed,
           request[r].claimed # None =>
               /\ request'[r].key = request[r].key
               /\ request'[r].limit = request[r].limit
               /\ request'[r].step \in Claimed,
           request'[r].step \in {"clock", "claim"} => request'[r].limit # None,
           request'[r].key <= today
    PROVE  CountInv' /\ CapHolds'
<1>1. \A d \in Days : Claims(d)' = Claims(d)
  BY AdmissionAssumption DEF Claims, Typed, Days
<1>2. \A d \in Days : \A s \in Claims(d) : request'[s].limit = request[s].limit
  BY AdmissionAssumption DEF Claims, Days
<1>3. CapHolds'
  BY <1>1, <1>2 DEF CapHolds
<1>4. CountInv'
  BY <1>1 DEF CountInv
<1> QED BY <1>3, <1>4

LEMMA CountStep ==
    ASSUME Typed, CountInv, CapHolds, [Next]_vars
    PROVE  CountInv' /\ CapHolds'
<1> USE AdmissionAssumption DEF At, Steps, InProgress, Claimed
<1>0. \A s \in Requests : /\ request[s].key <= today
                          /\ request[s].claimed # None =>
                                request[s].step \in Claimed
                          /\ request[s].step \in {"clock", "claim"} =>
                                request[s].limit # None
  BY DEF CountInv
<1>1. ASSUME NEW r \in Requests, NEW owner \in Owners,
             NEW identity \in Identities \cup {None},
             NEW order \in Orders \cup {None},
             NEW asked \in Requests \cup {None, Blank},
             Receive(r, owner, identity, order, asked)
      PROVE  CountInv' /\ CapHolds'
  <2>1. /\ request'[r].claimed = request[r].claimed
        /\ request'[r].key = request[r].key
        /\ request'[r].step \in {"identify", "rejected", "route"}
        /\ request[r].step = "new"
        /\ \A s \in Requests : s # r => request'[s] = request[s]
        /\ UNCHANGED <<counter, today>>
    BY <1>1 DEF Receive, Typed, Knowledge
  <2> QED BY <1>0, <2>1, ClaimsKept
<1>2. ASSUME NEW r \in Requests,
             \/ Identify(r) \/ OwnOrder(r) \/ Own(r) \/ Save(r) \/ Enqueue(r)
             \/ Fail(r)
      PROVE  CountInv' /\ CapHolds'
  <2>1. PICK step \in Steps \ {"clock", "claim"} :
            /\ Goto(r, step)
            /\ request[r].step \in Claimed => step \in Claimed
    BY <1>2 DEF Identify, OwnOrder, Own, Save, Enqueue, Fail
  <2>2. UNCHANGED <<counter, today>>
    BY <1>2 DEF Identify, OwnOrder, Own, Save, Enqueue, Fail
  <2> QED BY <1>0, <2>1, <2>2, GotoFacts, ClaimsKept
<1>3. ASSUME NEW r \in Requests, Route(r)
      PROVE  CountInv' /\ CapHolds'
  <2>1. /\ request'[r].claimed = request[r].claimed
        /\ request'[r].key = request[r].key
        /\ request'[r].step \in {"limit", "rejected"}
        /\ request[r].step = "route"
        /\ \A s \in Requests : s # r => request'[s] = request[s]
        /\ UNCHANGED <<counter, today>>
    BY <1>3 DEF Route, Goto, Typed, Knowledge
  <2> QED BY <1>0, <2>1, ClaimsKept
<1>4. ASSUME NEW r \in Requests, TakeLimit(r)
      PROVE  CountInv' /\ CapHolds'
  <2>1. /\ request'[r].claimed = request[r].claimed
        /\ request'[r].key = request[r].key
        /\ request'[r].step \in {"own", "clock"}
        /\ request'[r].limit = Setting
        /\ request[r].step = "limit"
        /\ \A s \in Requests : s # r => request'[s] = request[s]
        /\ UNCHANGED <<counter, today>>
    BY <1>4 DEF TakeLimit, Typed, Knowledge
  <2>2. Setting # None
    BY DEF Setting
  <2> QED BY <1>0, <2>1, <2>2, ClaimsKept
<1>5. ASSUME NEW r \in Requests, ReadClock(r)
      PROVE  CountInv' /\ CapHolds'
  <2>1. /\ request'[r].claimed = request[r].claimed
        /\ request'[r].key = today
        /\ request'[r].limit = request[r].limit
        /\ request'[r].step = "claim"
        /\ request[r].step = "clock"
        /\ \A s \in Requests : s # r => request'[s] = request[s]
        /\ UNCHANGED <<counter, today>>
    BY <1>5 DEF ReadClock, Typed, Knowledge
  <2>2. today <= today
    BY DEF Typed, Days
  <2> QED BY <1>0, <2>1, <2>2, ClaimsKept
<1>6. ASSUME NEW r \in Requests, Claim(r)
      PROVE  CountInv' /\ CapHolds'
  <2>1. CASE UsedUp(r)
    <3>1. /\ Goto(r, "spent") /\ UNCHANGED <<counter, today>>
          /\ request[r].step = "claim"
      BY <1>6, <2>1 DEF Claim
    <3> QED BY <1>0, <3>1, GotoFacts, ClaimsKept
  <2>2. CASE ~UsedUp(r)
    <3> PICK d \in Days : d = request[r].key
      BY DEF Typed, Knowledge
    <3>1. /\ request'[r].claimed = today /\ request'[r].key = d
          /\ request'[r].limit = request[r].limit
          /\ request'[r].step = "own" /\ request[r].step = "claim"
          /\ \A s \in Requests : s # r => request'[s] = request[s]
          /\ counter' = [counter EXCEPT ![d] = @ + 1] /\ today' = today
      BY <1>6, <2>2 DEF Claim, Typed, Knowledge
    <3>2. d \in Days /\ today \in Days /\ d <= today /\ request[r].limit \in Nat
      BY <1>0, <3>1 DEF Typed, Knowledge
    <3>3. request[r].claimed = None /\ None # today
      BY <1>0, <3>1, <3>2 DEF Days
    <3>4. \A e \in Days : Claims(e)' = IF e = d /\ d = today
                                       THEN Claims(e) \cup {r} ELSE Claims(e)
      <4> SUFFICES ASSUME NEW e \in Days
                   PROVE  Claims(e)' = IF e = d /\ d = today
                                       THEN Claims(e) \cup {r} ELSE Claims(e)
        OBVIOUS
      <4>1. \A s \in Requests : s # r => (s \in Claims(e)' <=> s \in Claims(e))
        BY <3>1 DEF Claims
      <4>2. r \in Claims(e)' <=> d = e /\ today = e
        BY <3>1 DEF Claims
      <4>3. r \notin Claims(e)
        BY <3>3 DEF Claims, Days
      <4>4. Claims(e) \subseteq Requests /\ Claims(e)' \subseteq Requests
        BY DEF Claims
      <4> QED BY <4>1, <4>2, <4>3, <4>4
    <3>5. \A e \in Days : \A s \in Claims(e) :
              s # r /\ request'[s].limit = request[s].limit
      BY <3>1, <3>3 DEF Claims, Days
    <3>6. d = today => /\ Cardinality(Claims(d)') = Cardinality(Claims(d)) + 1
                       /\ Cardinality(Claims(d)) = counter[d]
                       /\ counter[d] < request[r].limit
                       /\ counter[d] \in Nat
      <4>1. IsFiniteSet(Claims(d))
        BY FS_Subset DEF Claims
      <4>2. r \notin Claims(d)
        BY <3>5, <3>2
      <4>3. d = today => Claims(d)' = Claims(d) \cup {r}
        BY <3>2, <3>4
      <4>4. counter[d] \in Nat /\ counter[d] < request[r].limit
        BY <2>2, <3>2 DEF UsedUp, Typed
      <4>5. d = today => Cardinality(Claims(d)) = counter[d]
        BY <3>2 DEF CountInv, Days
      <4>6. Cardinality(Claims(d) \cup {r}) = Cardinality(Claims(d)) + 1
        BY <4>1, <4>2, FS_AddElement
      <4> QED BY <4>3, <4>4, <4>5, <4>6
    <3>7. CapHolds'
      <4> SUFFICES ASSUME NEW e \in Days, Claims(e)' # {}
                   PROVE  \E s \in Claims(e)' :
                              Cardinality(Claims(e)') <= request'[s].limit
        BY DEF CapHolds
      <4>1. CASE e = d /\ d = today
        <5>1. r \in Claims(e)'
          BY <3>2, <3>4, <4>1
        <5>2. Cardinality(Claims(e)') <= request'[r].limit
          BY <3>1, <3>2, <3>6, <4>1
        <5> QED BY <5>1, <5>2
      <4>2. CASE ~(e = d /\ d = today)
        BY <3>4, <3>5, <4>2 DEF CapHolds
      <4> QED BY <4>1, <4>2
    <3>8. \A e \in Days : today <= e => counter'[e] = Cardinality(Claims(e)')
      <4> SUFFICES ASSUME NEW e \in Days, today <= e
                   PROVE  counter'[e] = Cardinality(Claims(e)')
        OBVIOUS
      <4>1. counter[e] = Cardinality(Claims(e))
        BY DEF CountInv
      <4>2. CASE e = d
        <5>1. d = today
          BY <3>2, <4>2 DEF Days
        <5>2. counter'[d] = counter[d] + 1
          BY <3>1, <3>2 DEF Typed
        <5> QED BY <3>6, <4>2, <5>1, <5>2
      <4>3. CASE e # d
        BY <3>1, <3>4, <4>1, <4>3 DEF Typed
      <4> QED BY <4>2, <4>3
    <3>9. CountInv'
      BY <1>0, <3>1, <3>2, <3>8 DEF CountInv
    <3> QED BY <3>7, <3>9
  <2> QED BY <2>1, <2>2
<1>7. CASE Midnight
  <2>1. today' = today + 1 /\ today \in Nat /\ UNCHANGED <<counter, request>>
    BY <1>7 DEF Midnight, Typed, Days
  <2>2. \A d \in Days : today + 1 <= d => today <= d
    BY <2>1 DEF Days
  <2>3. \A r \in Requests : request[r].key <= today + 1
    BY <1>0, <2>1 DEF Typed, Knowledge, Days
  <2> QED BY <2>1, <2>2, <2>3 DEF CountInv, CapHolds, Claims
<1>8. ASSUME NEW d \in Days, Expire(d)
      PROVE  CountInv' /\ CapHolds'
  <2>1. d < today /\ UNCHANGED <<today, request>>
        /\ counter' = [counter EXCEPT ![d] = 0]
    BY <1>8 DEF Expire, MayExpire
  <2>2. \A e \in Days : today <= e => counter'[e] = counter[e]
    BY <2>1 DEF Typed, Days
  <2> QED BY <2>1, <2>2 DEF CountInv, CapHolds, Claims
<1>9. CASE UNCHANGED <<counter, today, request>>
  BY <1>9 DEF CountInv, CapHolds, Claims
<1> QED
  BY <1>1, <1>2, <1>3, <1>4, <1>5, <1>6, <1>7, <1>8, <1>9
     DEF Next, vars, SetLimit, UpdateCustomer, DeleteCustomer, ReassignOrder

THEOREM AdmissionInvariant == Spec => []IInv
<1>1. IInv /\ [Next]_vars => IInv'
  BY Typing, OrdersStep, OwnerStep, CountStep DEF IInv
<1> QED BY <1>1, InitInv, PTL DEF Spec

(* The admission keeps its types, and no order is left with a customer who *)
(* has been deleted.                                                       *)
THEOREM AdmissionTypes == Spec => []TypeOK
<1>1. IInv => TypeOK
  BY DEF IInv, TypeOK, OrdersOwned
<1> QED BY <1>1, AdmissionInvariant, PTL

(* Two runs of one conversation belong to the same customer, or both to    *)
(* nobody, for any interleaving of requests, edits and failures.           *)
THEOREM ConversationsArePrivate == Spec => []ThreadsAreNotShared
<1>1. IInv => ThreadsAreNotShared
  <2> SUFFICES ASSUME IInv, NEW r \in Requests, NEW s \in Requests,
                      support_runs[r] # None, support_runs[s] # None,
                      support_runs[r].thread = support_runs[s].thread
               PROVE  support_runs[r].owner = support_runs[s].owner
    BY DEF ThreadsAreNotShared
  <2> DEFINE t == request[r].thread
  <2>1. /\ request[s].thread = t
        /\ support_runs[r].owner = request[r].owner
        /\ support_runs[s].owner = request[s].owner
    BY DEF IInv, OwnerInv
  <2>2. /\ t = r \/ owners[t] = request[r].owner
        /\ t = s \/ owners[t] = request[s].owner
    BY <2>1 DEF IInv, OwnerInv
  <2>3. \A q \in Requests : owners[q] \in {None, request[q].owner}
    BY DEF IInv, OwnerInv
  <2>4. request[r].owner # None /\ request[s].owner # None
    BY AdmissionAssumption DEF IInv, Typed, Knowledge, Owners
  <2> QED BY <2>1, <2>2, <2>3, <2>4
<1> QED BY <1>1, AdmissionInvariant, PTL

(* No day has more claims than the largest limit they were compared with,  *)
(* for any number of requests and employees changing the limit.            *)
THEOREM CapIsKept == Spec => []CapHolds
BY AdmissionInvariant, PTL DEF IInv

=============================================================================
