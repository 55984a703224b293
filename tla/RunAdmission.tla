---------------------------- MODULE RunAdmission ----------------------------
(***************************************************************************)
(* How POST /runs admits a support message: identity, order and thread are *)
(* checked against Postgres, the daily limit against a Redis counter, and  *)
(* only then the thread's owner, the run row and the job are written.      *)
(* Every await of create_run is a step of its own, so that other requests, *)
(* employees and midnight come between them, and any await may fail.       *)
(*                                                                         *)
(* A request r brings its own fresh ids: the thread and the run it creates *)
(* are both called r.  The Redis cache of the run is left to RunCache.     *)
(***************************************************************************)
EXTENDS Naturals, FiniteSets

CONSTANTS
    Requests,       \* calls of create_run
    Customers,
    Identities,     \* pairs of name and email
    Orders,
    Anonymous,      \* the owner of a thread without a customer
    None,           \* an absent row, field or setting
    Blank,          \* the thread id ""
    Limits,         \* limits an employee can set
    Default,        \* DAILY_RUN_LIMIT of the environment
    LastDay         \* days are 0 .. LastDay

ASSUME AdmissionAssumption ==
    /\ IsFiniteSet(Requests)
    /\ {None, Blank} \cap Requests = {} /\ None # Blank
    /\ Anonymous \notin Customers /\ None \notin Customers \cup {Anonymous}
    /\ None \notin Orders /\ None \notin Identities
    /\ Limits \subseteq Nat /\ Default \in Limits /\ None \notin Nat
    /\ LastDay \in Nat

Owners == Customers \cup {Anonymous}
Days == 0 .. LastDay

VARIABLES
    setting,        \* runtime_settings.daily_run_limit
    counter,        \* daily:runs:<day> in Redis, 0 while there is no key
    today,          \* the UTC day
    customers,      \* the name and email of each row
    orders,         \* the customer of each order
    owners,         \* thread_owners
    support_runs,   \* the run rows: thread, owner and order
    queue,          \* run ids whose job is enqueued
    request         \* the step of each request and what it knows

vars == <<setting, counter, today, customers, orders, owners, support_runs,
          queue, request>>

(* Where a request is in create_run; spent is the 429.                     *)
InProgress == {"identify", "order", "route", "limit", "clock", "claim", "own",
               "save", "enqueue"}
Steps == InProgress \cup {"new", "rejected", "spent", "failed", "accepted"}

(* The variables of create_run: asked is the payload's thread id, key the  *)
(* day of the counter, claimed the day on which it was counted.            *)
Knowledge == [step : Steps, owner : Owners, identity : Identities \cup {None},
              order : Orders \cup {None}, asked : Requests \cup {None, Blank},
              thread : Requests, limit : Limits \cup {None}, key : Days,
              claimed : Days \cup {None}]

Rows == [thread : Requests, owner : Owners, order : Orders \cup {None}]

Typed ==
    /\ setting \in Limits \cup {None}
    /\ counter \in [Days -> Nat]
    /\ today \in Days
    /\ customers \in [Customers -> Identities \cup {None}]
    /\ orders \in [Orders -> Customers]
    /\ owners \in [Requests -> Owners \cup {None}]
    /\ support_runs \in [Requests -> Rows \cup {None}]
    /\ queue \in SUBSET Requests
    /\ request \in [Requests -> Knowledge]

(* Types, and every order has a customer who has not been deleted.         *)
TypeOK ==
    /\ Typed
    /\ \A o \in Orders : customers[orders[o]] # None

-----------------------------------------------------------------------------

Init ==
    /\ setting = None
    /\ counter = [d \in Days |-> 0]
    /\ today = 0
    /\ customers \in [Customers -> Identities]
    /\ \A c, d \in Customers : customers[c] = customers[d] => c = d
    /\ orders \in [Orders -> Customers]
    /\ owners = [r \in Requests |-> None]
    /\ support_runs = [r \in Requests |-> None]
    /\ queue = {}
    /\ request = [r \in Requests |->
                     [step |-> "new", owner |-> Anonymous, identity |-> None,
                      order |-> None, asked |-> None, thread |-> r,
                      limit |-> None, key |-> 0, claimed |-> None]]

At(r, step) == request[r].step = step

Goto(r, step) == request' = [request EXCEPT ![r].step = step]

(* The payload.  An order without a customer is refused at once.           *)
Receive(r, owner, identity, order, asked) ==
    /\ At(r, "new")
    /\ owner = Anonymous <=> identity = None
    /\ request' = [request EXCEPT
           ![r].owner = owner, ![r].identity = identity, ![r].order = order,
           ![r].asked = asked,
           ![r].step = IF owner # Anonymous THEN "identify"
                       ELSE IF order # None THEN "rejected" ELSE "route"]
    /\ UNCHANGED <<setting, counter, today, customers, orders, owners,
                   support_runs, queue>>

(* require_customer: the row with this name and email has this id.         *)
Identify(r) ==
    /\ At(r, "identify")
    /\ Goto(r, IF customers[request[r].owner] # request[r].identity
               THEN "rejected"
               ELSE IF request[r].order = None THEN "route" ELSE "order")
    /\ UNCHANGED <<setting, counter, today, customers, orders, owners,
                   support_runs, queue>>

OwnOrder(r) ==
    /\ At(r, "order")
    /\ Goto(r, IF orders[request[r].order] = request[r].owner
               THEN "route" ELSE "rejected")
    /\ UNCHANGED <<setting, counter, today, customers, orders, owners,
                   support_runs, queue>>

(* Mutant: any thread with a recorded owner may be continued.              *)
AnyRecorded(r) == owners[request[r].asked] # None

MayContinue(r) == owners[request[r].asked] = request[r].owner

(* A thread id that is empty counts as none here.                          *)
Route(r) ==
    /\ At(r, "route")
    /\ IF request[r].asked \in {None, Blank}
       THEN Goto(r, "limit")
       ELSE IF MayContinue(r)
       THEN request' = [request EXCEPT ![r].step = "limit",
                                       ![r].thread = request[r].asked]
       ELSE Goto(r, "rejected")
    /\ UNCHANGED <<setting, counter, today, customers, orders, owners,
                   support_runs, queue>>

(* daily_run_limit stores the default when there is no setting yet.        *)
Setting == IF setting = None THEN Default ELSE setting

(* A limit of 0 admits without a claim.                                    *)
TakeLimit(r) ==
    /\ At(r, "limit")
    /\ setting' = Setting
    /\ request' = [request EXCEPT
           ![r].limit = Setting,
           ![r].step = IF Setting = 0 THEN "own" ELSE "clock"]
    /\ UNCHANGED <<counter, today, customers, orders, owners, support_runs,
                   queue>>

(* claim_daily_run reads the clock for the key and its expiry, ...         *)
ReadClock(r) ==
    /\ At(r, "clock")
    /\ request' = [request EXCEPT ![r].step = "claim", ![r].key = today]
    /\ UNCHANGED <<setting, counter, today, customers, orders, owners,
                   support_runs, queue>>

UsedUp(r) == counter[request[r].key] >= request[r].limit

(* ... and the Lua script compares and counts in one step of Redis.        *)
Claim(r) ==
    /\ At(r, "claim")
    /\ IF UsedUp(r)
       THEN Goto(r, "spent") /\ UNCHANGED counter
       ELSE /\ counter' = [counter EXCEPT ![request[r].key] = @ + 1]
            /\ request' = [request EXCEPT ![r].step = "own",
                                          ![r].claimed = today]
    /\ UNCHANGED <<setting, today, customers, orders, owners, support_runs,
                   queue>>

(* The owner of a thread is recorded when no thread id was given at all.   *)
Own(r) ==
    /\ At(r, "own")
    /\ owners' = IF request[r].asked = None
                 THEN [owners EXCEPT ![r] = request[r].owner] ELSE owners
    /\ Goto(r, "save")
    /\ UNCHANGED <<setting, counter, today, customers, orders, support_runs,
                   queue>>

Save(r) ==
    /\ At(r, "save")
    /\ support_runs' = [support_runs EXCEPT ![r] =
           [thread |-> request[r].thread, owner |-> request[r].owner,
            order |-> request[r].order]]
    /\ Goto(r, "enqueue")
    /\ UNCHANGED <<setting, counter, today, customers, orders, owners, queue>>

Enqueue(r) ==
    /\ At(r, "enqueue")
    /\ queue' = queue \cup {r}
    /\ Goto(r, "accepted")
    /\ UNCHANGED <<setting, counter, today, customers, orders, owners,
                   support_runs>>

(* Postgres or Redis fails, or the API stops; what is written stays.       *)
Fail(r) ==
    /\ request[r].step \in InProgress
    /\ Goto(r, "failed")
    /\ UNCHANGED <<setting, counter, today, customers, orders, owners,
                   support_runs, queue>>

-----------------------------------------------------------------------------
(* Employees and the clock.                                                *)

SetLimit(n) ==
    /\ setting' = n
    /\ UNCHANGED <<counter, today, customers, orders, owners, support_runs,
                   queue, request>>

(* PUT and DELETE /customers/{id}: emails are unique, orders keep their    *)
(* customer's row.                                                         *)
UpdateCustomer(c, i) ==
    /\ customers[c] # None
    /\ \A d \in Customers : customers[d] = i => d = c
    /\ customers' = [customers EXCEPT ![c] = i]
    /\ UNCHANGED <<setting, counter, today, orders, owners, support_runs,
                   queue, request>>

(* Mutant: the foreign key does not hold the customer of an order.         *)
DeleteOrphaning(c) ==
    /\ customers' = [customers EXCEPT ![c] = None]
    /\ UNCHANGED <<setting, counter, today, orders, owners, support_runs,
                   queue, request>>

DeleteCustomer(c) ==
    /\ \A o \in Orders : orders[o] # c
    /\ customers' = [customers EXCEPT ![c] = None]
    /\ UNCHANGED <<setting, counter, today, orders, owners, support_runs,
                   queue, request>>

ReassignOrder(o, c) ==
    /\ customers[c] # None
    /\ orders' = [orders EXCEPT ![o] = c]
    /\ UNCHANGED <<setting, counter, today, customers, owners, support_runs,
                   queue, request>>

Midnight ==
    /\ today < LastDay
    /\ today' = today + 1
    /\ UNCHANGED <<setting, counter, customers, orders, owners, support_runs,
                   queue, request>>

(* Mutant: the seconds until midnight are rounded down.                    *)
ExpiresEarly(d) == d <= today

(* seconds_until_next_utc_day rounds up and counts from a clock reading    *)
(* before the claim: a key never expires in its own day.                   *)
MayExpire(d) == d < today

Expire(d) ==
    /\ MayExpire(d)
    /\ counter' = [counter EXCEPT ![d] = 0]
    /\ UNCHANGED <<setting, today, customers, orders, owners, support_runs,
                   queue, request>>

Next ==
    \/ \E r \in Requests :
           \/ \E owner \in Owners, identity \in Identities \cup {None},
                 order \in Orders \cup {None},
                 asked \in Requests \cup {None, Blank} :
                     Receive(r, owner, identity, order, asked)
           \/ Identify(r)
           \/ OwnOrder(r)
           \/ Route(r)
           \/ TakeLimit(r)
           \/ ReadClock(r)
           \/ Claim(r)
           \/ Own(r)
           \/ Save(r)
           \/ Enqueue(r)
           \/ Fail(r)
    \/ \E n \in Limits : SetLimit(n)
    \/ \E c \in Customers :
           \/ \E i \in Identities : UpdateCustomer(c, i)
           \/ DeleteCustomer(c)
           \/ \E o \in Orders : ReassignOrder(o, c)
    \/ Midnight
    \/ \E d \in Days : Expire(d)

Spec == Init /\ [][Next]_vars

-----------------------------------------------------------------------------
(* Properties.                                                             *)

(* A conversation belongs to one customer: the runs of a thread were       *)
(* created under one identity, however requests, edits of the customers    *)
(* and failures interleave.                                                *)
ThreadsAreNotShared ==
    \A r, s \in Requests :
        /\ support_runs[r] # None
        /\ support_runs[s] # None
        /\ support_runs[r].thread = support_runs[s].thread
        => support_runs[r].owner = support_runs[s].owner

(* The claims of a day that were made on that day.                         *)
Claims(d) ==
    {r \in Requests : request[r].key = d /\ request[r].claimed = d}

(* The cap: no day has more claims than the largest limit one of them was  *)
(* compared with, whatever else comes between the limit and the claim.     *)
CapHolds ==
    \A d \in Days : Claims(d) # {} =>
        \E r \in Claims(d) : Cardinality(Claims(d)) <= request[r].limit

=============================================================================
