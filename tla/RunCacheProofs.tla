--------------------------- MODULE RunCacheProofs ---------------------------
(***************************************************************************)
(* The copy of a run in Redis and the index follow its row, for any number *)
(* of runs, jobs, passes and faults: proofs about RunCache.                *)
(*                                                                         *)
(* CopyFollowsRow speaks of runs nobody is writing.  Consistent says what  *)
(* copy and index are while somebody is, and for a run that is still being *)
(* created; Owned says what a job that met no other knows of the row, also *)
(* of a run whose copy is out of step, because such a job sets it right.   *)
(***************************************************************************)
EXTENDS RunCache, TLAPS

Passes ==
    [step : {"idle", "visiting", "reading", "writing"},
     of : {"recover_runs", "lifespan"}, rows : RowMap,
     todo : SUBSET Runs, run : Runs \cup {None}, waited : BOOLEAN]

JobStates ==
    [run : Runs \cup {None}, stage : {"out", "locked", "working", "failing"},
     write : {"none", "loaded", "saved"}, status : Statuses \cup {None},
     waited : BOOLEAN, alone : BOOLEAN]

Posts == {"new", "saved", "requeued", "done"}

(* A pass that reads or writes a copy does so for some run.                *)
Taken ==
    \A p \in Restores :
        restore[p].step \in {"reading", "writing"} => restore[p].run \in Runs

(* A job works on a run that has been created, and never writes queued.    *)
Owned(j) ==
    LET r == job[j].run
    IN
    /\ job[j].stage # "out" => r \in Runs /\ post[r] \in {"requeued", "done"}
    /\ job[j].write # "none" =>
           job[j].stage # "out" /\ job[j].status \in Statuses \ {"queued"}
    /\ job[j].write # "none" /\ job[j].alone =>
           /\ Writers(r) = {j}
           /\ job[j].write = "loaded" => job[j].waited = Waits(durable[r])
           /\ job[j].write = "saved" => job[j].status = durable[r]

(* The row of a run that no job can have.                                  *)
Created(r) ==
    /\ post[r] = "new" => durable[r] = None
    /\ post[r] # "new" => durable[r] # None
    /\ post[r] = "saved" => durable[r] = "queued"

(* Copy and index are those of a status.                                   *)
Shows(r, status) ==
    /\ cached[r] = status
    /\ r \in index <=> Waits(status)

Consistent(r) ==
    /\ \A j \in Writers(r) : job[j].alone
    /\ post[r] = "new" => cached[r] = None /\ r \notin index
    /\ post[r] = "saved" => cached[r] \in {None, "queued"} /\ r \notin index
    /\ post[r] \in {"requeued", "done"} =>
           \/ Shows(r, durable[r])
           \/ \E j \in Writers(r) : job[j].write = "saved"
    /\ \A j \in Writers(r) : job[j].write = "saved" =>
           (r \in index => job[j].waited \/ Waits(job[j].status))

CInv ==
    /\ TypeOK
    /\ Taken
    /\ \A j \in Jobs : Owned(j)
    /\ \A r \in Runs : Created(r)
    /\ \A r \in Runs \ diverted : Consistent(r)

-----------------------------------------------------------------------------
(* Lemmas about the operators.                                             *)

(* A step that gives one pass a typed record keeps the others'.            *)
LEMMA PassTyped ==
    ASSUME TypeOK, Taken, NEW p \in Restores, NEW new \in Passes,
           new.step \in {"reading", "writing"} => new.run \in Runs,
           restore' = [restore EXCEPT ![p] = new]
    PROVE  /\ restore' \in [Restores -> Passes]
           /\ Taken'
  BY DEF TypeOK, Taken, Passes

LEMMA IdlePass == Idle \in Passes /\ Idle.step = "idle"
  BY DEF Idle, Passes, NoRows, RowMap

(* A pass that is through with a run reads and writes none.                *)
LEMMA PastFacts ==
    ASSUME TypeOK, NEW p \in Restores, NEW r
    PROVE  /\ Past(p, r) \in Passes
           /\ Past(p, r).step \in {"idle", "visiting"}
  <1>1. restore[p] \in Passes
    BY DEF TypeOK, Passes
  <1> QED
    BY <1>1, IdlePass DEF Past, Passes

(* What a pass may do to post.                                             *)
LEMMA RequeueFacts ==
    ASSUME TypeOK, NEW p \in Restores, NEW r \in Runs, Requeue(p, r)
    PROVE  /\ post' \in [Runs -> Posts]
           /\ \A q \in Runs : post'[q] # post[q] =>
                  q = r /\ post[q] = "saved" /\ post'[q] = "requeued"
  BY DEF TypeOK, Requeue, Posts

(* What the Redis transaction of write_run_status does.                    *)
LEMMA TransactFacts ==
    ASSUME TypeOK, NEW r \in Runs, NEW waited \in BOOLEAN,
           NEW status \in Statuses \cup {None}, Transact(r, waited, status)
    PROVE  /\ cached' \in RowMap /\ index' \in SUBSET Runs
           /\ cached'[r] = status
           /\ Waits(status) => r \in index'
           /\ ~Waits(status) /\ (r \in index => waited) => r \notin index'
           /\ ~Waits(status) /\ r \in index' => r \in index
           /\ \A q \in Runs \ {r} : /\ cached'[q] = cached[q]
                                    /\ q \in index' <=> q \in index
  BY DEF TypeOK, RowMap, Transact, Waits

(* A step that gives one job a typed record keeps the others'.             *)
LEMMA JobSet ==
    ASSUME TypeOK, NEW j \in Jobs, NEW new \in JobStates,
           job' = [job EXCEPT ![j] = new]
    PROVE  /\ job' \in [Jobs -> JobStates]
           /\ job'[j] = new
           /\ \A k \in Jobs \ {j} : job'[k] = job[k]
           /\ \A r \in Runs : \A k \in Jobs :
                  k \in Writers(r)' <=>
                      IF k = j THEN new.run = r /\ new.write # "none"
                      ELSE k \in Writers(r)
  BY DEF TypeOK, JobStates, Writers

LEMMA RestingJob ==
    /\ Resting \in JobStates
    /\ Resting.stage = "out" /\ Resting.write = "none"
  BY DEF Resting, JobStates

(* What a job may be when it has nothing under way.                        *)
Unwriting(j, new) ==
    /\ new \in JobStates /\ new.write = "none"
    /\ new.stage # "out" => new.run = job[j].run /\ job[j].stage # "out"

(* A job that leaves a run rests or is failing on it.                      *)
LEMMA LeaveFacts ==
    ASSUME TypeOK, NEW j \in Jobs, job[j].stage # "out", Owned(j),
           Leave(j, Resting) \/ Leave(j, Failing(j))
    PROVE  /\ lock' \in [Runs -> Jobs \cup {None}]
           /\ \E new \in JobStates :
                  Unwriting(j, new) /\ job' = [job EXCEPT ![j] = new]
  <1>1. job[j].run \in Runs
    BY DEF Owned
  <1>2. lock' \in [Runs -> Jobs \cup {None}]
    BY <1>1 DEF Leave, TypeOK
  <1>3. Failing(j) \in JobStates /\ Unwriting(j, Failing(j))
    BY <1>1, RestingJob DEF Failing, Unwriting, Resting, JobStates
  <1>4. Unwriting(j, Resting)
    BY RestingJob DEF Unwriting
  <1> QED
    BY <1>2, <1>3, <1>4, RestingJob DEF Leave

-----------------------------------------------------------------------------
(* Jobs.                                                                   *)

(* A job that stops writing, or had not begun, leaves the others as they   *)
(* are.                                                                    *)
LEMMA StopsWriting ==
    ASSUME TypeOK, \A k \in Jobs : Owned(k), NEW j \in Jobs,
           NEW new \in JobStates, Unwriting(j, new),
           job' = [job EXCEPT ![j] = new], UNCHANGED <<durable, post>>
    PROVE  /\ \A k \in Jobs : Owned(k)'
           /\ \A r \in Runs : Writers(r)' = Writers(r) \ {j}
  <1>1. \A r \in Runs : Writers(r)' = Writers(r) \ {j}
    BY JobSet DEF Writers, Unwriting
  <1>2. Owned(j)'
    BY JobSet DEF Owned, Unwriting
  <1>3. ASSUME NEW k \in Jobs \ {j} PROVE Owned(k)'
    <2>1. Owned(k) /\ job'[k] = job[k]
      BY JobSet
    <2>2. job[k].write # "none" /\ job[k].alone =>
              job[k].run \in Runs /\ Writers(job[k].run) = {k}
      BY <2>1 DEF Owned
    <2> QED
      BY <1>1, <2>1, <2>2 DEF Owned
  <1> QED
    BY <1>1, <1>2, <1>3

(* Copy, row and the other writers of a run keep it consistent when a job  *)
(* stops that has saved nothing, or another run's.                         *)
LEMMA StopsConsistent ==
    ASSUME TypeOK, \A k \in Jobs : Owned(k), NEW j \in Jobs,
           NEW new \in JobStates, Unwriting(j, new),
           job' = [job EXCEPT ![j] = new],
           NEW r \in Runs, Consistent(r),
           j \in Writers(r) => job[j].write # "saved",
           durable'[r] = durable[r], post'[r] = post[r],
           cached'[r] = cached[r], r \in index' <=> r \in index,
           UNCHANGED <<durable, post>>
    PROVE  Consistent(r)'
  <1>1. Writers(r)' = Writers(r) \ {j}
    BY StopsWriting
  <1>2. \A k \in Writers(r)' : k \in Jobs \ {j} /\ job'[k] = job[k]
    BY <1>1, JobSet DEF Writers
  <1> QED
    BY <1>1, <1>2 DEF Consistent, Shows

(* A run that a step does not touch stays consistent.                      *)
LEMMA Untouched ==
    ASSUME NEW r \in Runs, Consistent(r),
           durable'[r] = durable[r], cached'[r] = cached[r],
           r \in index' <=> r \in index, post'[r] = post[r],
           Writers(r)' = Writers(r),
           \A k \in Writers(r) : job'[k] = job[k]
    PROVE  Consistent(r)'
  BY DEF Consistent, Shows

(* A job takes the lock of a run.                                          *)
LEMMA EnterStep ==
    ASSUME CInv, NEW j \in Jobs, NEW r \in Runs, Enter(j, r)
    PROVE  CInv'
  <1> DEFINE new == [Resting EXCEPT !.run = r, !.stage = "locked"]
  <1>1. /\ new \in JobStates /\ new.write = "none" /\ new.run = r
        /\ new.stage = "locked"
    BY RestingJob DEF Resting, JobStates
  <1>2. job' = [job EXCEPT ![j] = new]
    BY DEF Enter
  <1> HIDE DEF new
  <1>3. /\ TypeOK /\ job[j].stage = "out" /\ post[r] \in {"requeued", "done"}
        /\ \A k \in Jobs : Owned(k)
        /\ UNCHANGED <<durable, cached, index, post, restore, diverted,
                       faults>>
    BY DEF Enter, CInv
  <1>4. job[j].write = "none"
    BY <1>3 DEF Owned, TypeOK
  <1>5. /\ job' \in [Jobs -> JobStates] /\ job'[j] = new
        /\ \A k \in Jobs \ {j} : job'[k] = job[k]
    BY <1>1, <1>2, <1>3, JobSet
  <1>6. \A q \in Runs : Writers(q)' = Writers(q) /\ j \notin Writers(q)
    BY <1>1, <1>4, <1>5 DEF Writers
  <1>7. TypeOK'
    BY <1>3, <1>5 DEF Enter, TypeOK, JobStates
  <1>8. ASSUME NEW k \in Jobs PROVE Owned(k)'
    <2>1. CASE k = j
      BY <1>1, <1>3, <1>5, <2>1 DEF Owned
    <2>2. CASE k # j
      <3>1. Owned(k) /\ job'[k] = job[k]
        BY <1>3, <1>5, <2>2
      <3> QED
        BY <1>3, <1>6, <3>1 DEF Owned
    <2> QED
      BY <2>1, <2>2
  <1>9. ASSUME NEW q \in Runs \ diverted' PROVE Consistent(q)'
    <2>1. Consistent(q) /\ \A k \in Writers(q) : job'[k] = job[k]
      BY <1>3, <1>5, <1>6 DEF CInv, Writers
    <2> QED
      BY <1>3, <1>6, <2>1, Untouched
  <1> QED
    BY <1>3, <1>7, <1>8, <1>9 DEF CInv, Taken, Created

(* A job reads the row: it meets another writer, or knows the row.         *)
LEMMA LoadStep ==
    ASSUME CInv, NEW j \in Jobs, NEW s \in Statuses, Load(j, s)
    PROVE  CInv'
  <1> DEFINE r == job[j].run
             others == Writers(r)
             new == [job[j] EXCEPT !.write = "loaded", !.status = s,
                                   !.waited = Waits(durable[r]),
                                   !.alone = others = {}]
  <1>1. /\ TypeOK /\ job[j].write = "none" /\ s # "queued"
        /\ job[j].stage # "out" /\ \A k \in Jobs : Owned(k)
        /\ diverted' = IF others = {} THEN diverted ELSE diverted \cup {r}
        /\ UNCHANGED <<durable, cached, index, post, lock, restore, faults>>
    BY DEF Load, Writes, CInv
  <1>2. r \in Runs /\ post[r] \in {"requeued", "done"} /\ job[j] \in JobStates
    BY <1>1 DEF Owned, TypeOK, JobStates
  <1>3. /\ new \in JobStates /\ new.run = r /\ new.write = "loaded"
        /\ new.stage = job[j].stage /\ new.status = s
        /\ new.waited = Waits(durable[r]) /\ new.alone = (others = {})
    BY <1>2 DEF JobStates, Waits
  <1>4. /\ job' \in [Jobs -> JobStates] /\ job'[j] = new
        /\ \A k \in Jobs \ {j} :
               /\ job'[k] = [job[k] EXCEPT !.alone = @ /\ k \notin others]
               /\ job'[k].run = job[k].run /\ job'[k].stage = job[k].stage
               /\ job'[k].write = job[k].write
               /\ job'[k].status = job[k].status
               /\ job'[k].waited = job[k].waited
               /\ job'[k].alone = (job[k].alone /\ k \notin others)
    <2>1. \A k \in Jobs :
              job'[k] = IF k = j THEN new
                        ELSE [job[k] EXCEPT !.alone = @ /\ k \notin others]
      BY DEF Load
    <2>2. \A k \in Jobs : job[k] \in JobStates
      BY <1>1 DEF TypeOK, JobStates
    <2>3. \A k \in Jobs :
              [job[k] EXCEPT !.alone = @ /\ k \notin others] \in JobStates
      BY <2>2 DEF JobStates
    <2>4. job' \in [Jobs -> JobStates]
      <3>1. job' = [k \in Jobs |-> job'[k]]
        BY DEF Load
      <3>2. \A k \in Jobs : job'[k] \in JobStates
        BY <1>3, <2>1, <2>3
      <3> QED
        BY <3>1, <3>2
    <2>5. ASSUME NEW k \in Jobs \ {j}
          PROVE  /\ job'[k] = [job[k] EXCEPT !.alone = @ /\ k \notin others]
                 /\ job'[k].run = job[k].run /\ job'[k].stage = job[k].stage
                 /\ job'[k].write = job[k].write
                 /\ job'[k].status = job[k].status
                 /\ job'[k].waited = job[k].waited
                 /\ job'[k].alone = (job[k].alone /\ k \notin others)
      <3>1. job'[k] = [job[k] EXCEPT !.alone = @ /\ k \notin others]
            /\ job[k] \in JobStates
        BY <2>1, <2>2
      <3> QED
        BY <3>1 DEF JobStates
    <2> QED
      BY <2>1, <2>4, <2>5
  <1> HIDE DEF new
  <1>5. /\ j \notin others /\ Writers(r)' = others \cup {j}
        /\ \A q \in Runs \ {r} :
               Writers(q)' = Writers(q) /\ j \notin Writers(q)
    BY <1>1, <1>2, <1>3, <1>4 DEF Writers
  <1>6. ASSUME NEW k \in Jobs PROVE Owned(k)'
    <2>1. CASE k = j
      BY <1>1, <1>2, <1>3, <1>4, <1>5, <2>1 DEF Owned
    <2>2. CASE k # j
      <3>1. /\ Owned(k) /\ job'[k].run = job[k].run
            /\ job'[k].stage = job[k].stage /\ job'[k].write = job[k].write
            /\ job'[k].status = job[k].status
            /\ job'[k].waited = job[k].waited
            /\ job'[k].alone => job[k].alone /\ k \notin others
        BY <1>1, <1>4, <2>2
      <3>2. job'[k].alone /\ job[k].write # "none" =>
                job[k].run \in Runs \ {r}
        BY <1>2, <3>1 DEF Owned, Writers
      <3> QED
        BY <1>1, <1>5, <3>1, <3>2 DEF Owned
    <2> QED
      BY <2>1, <2>2
  <1>7. ASSUME NEW q \in Runs \ diverted' PROVE Consistent(q)'
    <2>1. Consistent(q)
      BY <1>1 DEF CInv
    <2>2. CASE q = r
      <3>1. others = {} /\ Writers(q)' = {j} /\ job'[j].alone
            /\ job'[j].write = "loaded"
        BY <1>1, <1>3, <1>4, <1>5, <2>2
      <3>2. Shows(q, durable[q])
        BY <1>2, <2>1, <2>2, <3>1 DEF Consistent
      <3> QED
        BY <1>1, <1>2, <2>2, <3>1, <3>2 DEF Consistent, Shows
    <2>3. CASE q # r
      <3>1. \A k \in Writers(q) :
                k \in Jobs \ {j} /\ k \notin Writers(r)
        BY <1>5, <2>3 DEF Writers
      <3> HIDE DEF others
      <3>2. \A k \in Writers(q) :
                /\ job[k].alone => job'[k].alone
                /\ job'[k].write = job[k].write
                /\ job'[k].waited = job[k].waited
                /\ job'[k].status = job[k].status
        BY <1>4, <3>1 DEF others
      <3>3. Writers(q)' = Writers(q)
        BY <1>5, <2>3
      <3> QED
        BY <1>1, <2>1, <3>2, <3>3 DEF Consistent, Shows
    <2> QED
      BY <2>2, <2>3
  <1>8. TypeOK'
    BY <1>1, <1>2, <1>4 DEF TypeOK, JobStates
  <1> QED
    BY <1>1, <1>6, <1>7, <1>8 DEF CInv, Taken, Created

(* A job saves its status: copy and index still show the old one.          *)
LEMMA SaveStep ==
    ASSUME CInv, NEW j \in Jobs, Save(j)
    PROVE  CInv'
  <1> DEFINE r == job[j].run
             s == job[j].status
             new == [job[j] EXCEPT !.write = "saved"]
  <1>1. /\ TypeOK /\ job[j].write = "loaded" /\ \A k \in Jobs : Owned(k)
        /\ durable' = [durable EXCEPT ![r] = s]
        /\ UNCHANGED <<cached, index, post, lock, restore, diverted, faults>>
    BY DEF Save, CInv
  <1>2. /\ r \in Runs /\ post[r] \in {"requeued", "done"}
        /\ job[j] \in JobStates /\ s \in Statuses /\ job[j].stage # "out"
    BY <1>1 DEF Owned, TypeOK, JobStates
  <1>3. /\ new \in JobStates /\ new.run = r /\ new.write = "saved"
        /\ new.stage = job[j].stage /\ new.status = s
        /\ new.waited = job[j].waited /\ new.alone = job[j].alone
    BY <1>2 DEF JobStates
  <1>4. job' = [job EXCEPT ![j] = new]
    BY <1>1 DEF Save, TypeOK
  <1> HIDE DEF new
  <1>5. /\ job' \in [Jobs -> JobStates] /\ job'[j] = new
        /\ \A k \in Jobs \ {j} : job'[k] = job[k]
    BY <1>1, <1>3, <1>4, JobSet
  <1>6. \A q \in Runs : Writers(q)' = Writers(q)
    BY <1>1, <1>3, <1>5 DEF Writers
  <1>7. /\ durable' \in RowMap /\ durable'[r] = s
        /\ \A q \in Runs \ {r} : durable'[q] = durable[q]
    BY <1>1, <1>2 DEF TypeOK, RowMap
  <1>8. j \in Writers(r)
    BY <1>1 DEF Writers
  <1>9. ASSUME NEW k \in Jobs PROVE Owned(k)'
    <2>1. CASE k = j
      BY <1>1, <1>3, <1>5, <1>6, <1>7, <2>1 DEF Owned
    <2>2. CASE k # j
      <3>1. Owned(k) /\ job'[k] = job[k]
        BY <1>1, <1>5, <2>2
      <3>2. job[k].write # "none" /\ job[k].alone => job[k].run \in Runs \ {r}
        BY <1>8, <2>2, <3>1 DEF Owned
      <3> QED
        BY <1>1, <1>6, <1>7, <3>1, <3>2 DEF Owned
    <2> QED
      BY <2>1, <2>2
  <1>10. ASSUME NEW q \in Runs \ diverted' PROVE Consistent(q)'
    <2>1. Consistent(q)
      BY <1>1 DEF CInv
    <2>2. CASE q = r
      <3>1. job[j].alone /\ Writers(r) = {j}
            /\ job[j].waited = Waits(durable[r])
        BY <1>1, <1>8, <2>1, <2>2 DEF Consistent, Owned
      <3>2. Shows(r, durable[r])
        BY <1>1, <1>2, <2>1, <2>2, <3>1 DEF Consistent
      <3> QED
        BY <1>1, <1>2, <1>3, <1>5, <1>6, <2>2, <3>1, <3>2
           DEF Consistent, Shows
    <2>3. CASE q # r
      <3>1. \A k \in Writers(q) : job'[k] = job[k]
        BY <1>5, <2>3 DEF Writers
      <3> QED
        BY <1>1, <1>6, <1>7, <2>1, <2>3, <3>1, Untouched
    <2> QED
      BY <2>2, <2>3
  <1>11. \A q \in Runs : Created(q)'
    BY <1>1, <1>2, <1>7, CacheAssumption DEF CInv, Created
  <1>12. TypeOK'
    BY <1>1, <1>5, <1>7 DEF TypeOK, JobStates
  <1> QED
    BY <1>1, <1>9, <1>10, <1>11, <1>12 DEF CInv, Taken

(* The Redis transaction of a job that met no other gives its run the copy *)
(* of the row, and a run that it pauses or takes out of a pause its place  *)
(* in the index.                                                           *)
LEMMA UpdateCopyStep ==
    ASSUME CInv, NEW j \in Jobs, UpdateCopy(j)
    PROVE  CInv'
  <1> DEFINE r == job[j].run
             s == job[j].status
             waited == job[j].waited
  <1>1. /\ TypeOK /\ job[j].write = "saved" /\ \A k \in Jobs : Owned(k)
        /\ Transact(r, waited, s)
        /\ diverted' = IF job[j].alone /\ (Waits(s) \/ waited)
                       THEN diverted \ {r} ELSE diverted
        /\ UNCHANGED <<durable, post, restore, faults>>
    BY DEF UpdateCopy, CInv
  <1>2. /\ r \in Runs /\ post[r] \in {"requeued", "done"}
        /\ s \in Statuses /\ waited \in BOOLEAN /\ job[j].stage # "out"
    BY <1>1 DEF Owned, TypeOK
  <1>3. /\ lock' \in [Runs -> Jobs \cup {None}]
        /\ \E new \in JobStates :
               Unwriting(j, new) /\ job' = [job EXCEPT ![j] = new]
    <2>1. CASE job[j].stage = "locked"
      <3> DEFINE new == [Resting EXCEPT !.run = r, !.stage = "working"]
      <3>1. new \in JobStates /\ Unwriting(j, new)
        BY <1>2, RestingJob DEF Resting, JobStates, Unwriting
      <3>2. job' = [job EXCEPT ![j] = new] /\ lock' = lock
        BY <2>1 DEF UpdateCopy
      <3> HIDE DEF new
      <3> QED
        BY <1>1, <3>1, <3>2 DEF TypeOK
    <2>2. CASE job[j].stage # "locked"
      BY <1>1, <1>2, <2>2, LeaveFacts DEF UpdateCopy
    <2> QED
      BY <2>1, <2>2
  <1>4. PICK new \in JobStates :
            Unwriting(j, new) /\ job' = [job EXCEPT ![j] = new]
    BY <1>3
  <1>5. /\ job' \in [Jobs -> JobStates]
        /\ \A k \in Jobs \ {j} : job'[k] = job[k]
    BY <1>1, <1>4, JobSet
  <1>6. /\ \A k \in Jobs : Owned(k)'
        /\ \A q \in Runs : Writers(q)' = Writers(q) \ {j}
    BY <1>1, <1>4, StopsWriting
  <1>7. /\ cached' \in RowMap /\ index' \in SUBSET Runs /\ cached'[r] = s
        /\ Waits(s) => r \in index'
        /\ ~Waits(s) /\ (r \in index => waited) => r \notin index'
        /\ \A q \in Runs \ {r} : /\ cached'[q] = cached[q]
                                 /\ q \in index' <=> q \in index
    <2> HIDE DEF r, s, waited
    <2> QED
      BY <1>1, <1>2, TransactFacts
  <1>8. j \in Writers(r)
    BY <1>1 DEF Writers
  <1>9. ASSUME NEW q \in Runs \ diverted' PROVE Consistent(q)'
    <2>1. CASE q = r
      <3>1. job[j].alone
            /\ (Waits(s) \/ waited \/ (q \in index => waited \/ Waits(s)))
        <4>1. CASE r \in diverted
          BY <1>1, <2>1, <4>1
        <4>2. CASE r \notin diverted
          <5>1. Consistent(q)
            BY <2>1, <4>2 DEF CInv
          <5> QED
            BY <1>1, <1>8, <2>1, <5>1 DEF Consistent
        <4> QED
          BY <4>1, <4>2
      <3>2. Writers(q) = {j} /\ s = durable[q]
        BY <1>1, <2>1, <3>1 DEF Owned
      <3>3. Writers(q)' = {}
        BY <1>6, <3>2
      <3>4. cached'[q] = durable'[q] /\ (q \in index' <=> Waits(durable'[q]))
        BY <1>1, <1>7, <2>1, <3>1, <3>2
      <3>5. post'[q] \in {"requeued", "done"}
        BY <1>1, <1>2, <2>1
      <3> HIDE DEF r, s, waited
      <3> QED
        BY <3>3, <3>4, <3>5 DEF Consistent, Shows
    <2>2. CASE q # r
      <3>1. Consistent(q) /\ j \notin Writers(q)
        BY <1>1, <2>2 DEF CInv, Writers
      <3>2. Writers(q)' = Writers(q) /\ \A k \in Writers(q) : job'[k] = job[k]
        BY <1>5, <1>6, <3>1 DEF Writers
      <3> QED
        BY <1>1, <1>7, <2>2, <3>1, <3>2, Untouched
    <2> QED
      BY <2>1, <2>2
  <1>10. TypeOK'
    BY <1>1, <1>3, <1>5, <1>7 DEF TypeOK, JobStates
  <1> QED
    BY <1>1, <1>6, <1>9, <1>10 DEF CInv, Taken, Created

(* A job that fails after its row was saved, raises or ends before.        *)
LEMMA GiveUpStep ==
    ASSUME CInv, NEW j \in Jobs, UpdateFails(j) \/ Raise(j) \/ Quit(j)
    PROVE  CInv'
  <1>1. /\ TypeOK /\ \A k \in Jobs : Owned(k)
        /\ job[j].stage # "out"
        /\ Leave(j, Resting) \/ Leave(j, Failing(j))
        /\ UNCHANGED <<durable, cached, index, post, restore>>
        /\ diverted' \in SUBSET Runs /\ faults' \in 0 .. MaxFaults
        /\ diverted \subseteq diverted'
        /\ job[j].run \in diverted' \/ job[j].write # "saved"
    <2>1. TypeOK /\ (\A k \in Jobs : Owned(k)) /\ Owned(j)
      BY DEF CInv
    <2>2. CASE UpdateFails(j)
      <3>1. faults' \in 0 .. MaxFaults
        BY <2>1, <2>2, CacheAssumption DEF UpdateFails, TypeOK
      <3>2. job[j].stage # "out" /\ job[j].run \in Runs
        BY <2>1, <2>2 DEF UpdateFails, Owned
      <3> QED
        BY <2>1, <2>2, <3>1, <3>2 DEF UpdateFails, TypeOK
    <2>3. CASE Raise(j)
      BY <2>1, <2>3 DEF Raise, TypeOK
    <2>4. CASE Quit(j)
      BY <2>1, <2>4 DEF Quit, TypeOK
    <2> QED
      BY <2>2, <2>3, <2>4
  <1>2. lock' \in [Runs -> Jobs \cup {None}]
    BY <1>1, LeaveFacts
  <1>3. PICK new \in JobStates :
            Unwriting(j, new) /\ job' = [job EXCEPT ![j] = new]
    BY <1>1, LeaveFacts
  <1>4. job' \in [Jobs -> JobStates]
    BY <1>1, <1>3, JobSet
  <1>5. \A k \in Jobs : Owned(k)'
    BY <1>1, <1>3, StopsWriting
  <1>6. ASSUME NEW q \in Runs \ diverted' PROVE Consistent(q)'
    <2>1. Consistent(q) /\ (j \in Writers(q) => job[j].write # "saved")
      BY <1>1 DEF CInv, Writers
    <2> QED
      BY <1>1, <1>3, <2>1, StopsConsistent
  <1>7. TypeOK'
    BY <1>1, <1>2, <1>4 DEF TypeOK, JobStates
  <1> QED
    BY <1>1, <1>5, <1>6, <1>7 DEF CInv, Taken, Created

LEMMA JobKeeps ==
    ASSUME CInv, NEW j \in Jobs, JobStep(j)
    PROVE  CInv'
  BY EnterStep, LoadStep, SaveStep, UpdateCopyStep, GiveUpStep DEF JobStep

-----------------------------------------------------------------------------
(* POST /runs and the loss of Redis.                                       *)

(* The jobs know of their runs what they knew.                             *)
LEMMA JobsUntouched ==
    ASSUME CInv, UNCHANGED job,
           \A r \in Runs : post[r] \in {"requeued", "done"} =>
               post'[r] \in {"requeued", "done"} /\ durable'[r] = durable[r]
    PROVE  /\ \A j \in Jobs : Owned(j)'
           /\ \A r \in Runs : Writers(r)' = Writers(r)
  <1>1. \A r \in Runs : Writers(r)' = Writers(r)
    BY DEF Writers
  <1>2. ASSUME NEW j \in Jobs PROVE Owned(j)'
    <2>1. Owned(j) /\ job'[j] = job[j]
      BY DEF CInv
    <2> QED
      BY <1>1, <2>1 DEF Owned
  <1> QED
    BY <1>1, <1>2

(* A run that has not been queued has no writer.                           *)
LEMMA NoWriters ==
    ASSUME CInv, NEW r \in Runs, post[r] \in {"new", "saved"}
    PROVE  Writers(r) = {}
  BY DEF CInv, Owned, Writers

LEMMA CreateStep ==
    ASSUME CInv, NEW q \in Runs, CreateRow(q) \/ CreateCopy(q)
    PROVE  CInv'
  <1> USE CacheAssumption
  <1>1. TypeOK /\ Taken /\ (\A r \in Runs : Created(r)) /\ UNCHANGED job
    BY DEF CInv, CreateRow, CreateCopy
  <1>2. CASE CreateRow(q)
    <2>1. /\ post[q] = "new" /\ post'[q] = "saved" /\ durable'[q] = "queued"
          /\ \A r \in Runs \ {q} :
                 post'[r] = post[r] /\ durable'[r] = durable[r]
          /\ UNCHANGED <<cached, index, lock, job, restore, diverted, faults>>
      BY <1>1, <1>2 DEF CreateRow, TypeOK, RowMap
    <2>2. TypeOK'
      BY <1>1, <1>2 DEF CreateRow, TypeOK, RowMap, Statuses
    <2>3. \A r \in Runs : Created(r)'
      BY <1>1, <2>1 DEF Created, Statuses
    <2>4. /\ \A j \in Jobs : Owned(j)'
          /\ \A r \in Runs : Writers(r)' = Writers(r)
      BY <2>1, JobsUntouched
    <2>5. ASSUME NEW r \in Runs \ diverted' PROVE Consistent(r)'
      <3>1. Consistent(r)
        BY <2>1 DEF CInv
      <3>2. CASE r = q
        BY <2>1, <2>4, <3>1, <3>2, NoWriters DEF Consistent
      <3>3. CASE r # q
        BY <2>1, <2>4, <3>1, <3>3, Untouched
      <3> QED
        BY <3>2, <3>3
    <2> QED
      BY <1>1, <2>1, <2>2, <2>3, <2>4, <2>5 DEF CInv, Taken
  <1>3. CASE CreateCopy(q)
    <2>1. /\ post[q] \in {"saved", "requeued"} /\ post'[q] = "done"
          /\ cached'[q] = "queued"
          /\ \A r \in Runs \ {q} : post'[r] = post[r] /\ cached'[r] = cached[r]
          /\ diverted' = IF durable[q] = "queued" THEN diverted
                         ELSE diverted \cup {q}
          /\ UNCHANGED <<durable, index, lock, job, restore, faults>>
      BY <1>1, <1>3 DEF CreateCopy, TypeOK, RowMap
    <2>2. TypeOK'
      BY <1>1, <1>3 DEF CreateCopy, TypeOK, RowMap, Statuses
    <2>3. \A r \in Runs : Created(r)'
      BY <1>1, <2>1 DEF Created
    <2>4. /\ \A j \in Jobs : Owned(j)'
          /\ \A r \in Runs : Writers(r)' = Writers(r)
      BY <2>1, JobsUntouched
    <2>5. ASSUME NEW r \in Runs \ diverted' PROVE Consistent(r)'
      <3>1. Consistent(r)
        BY <2>1 DEF CInv
      <3>2. CASE r = q
        <4>1. durable[r] = "queued" /\ ~Waits(durable[r])
          BY <2>1, <3>2 DEF Waits
        <4>2. \A j \in Writers(r) : job[j].write # "saved"
          <5>1. \A j \in Writers(r) : Owned(j) /\ job[j].alone
            BY <3>1 DEF CInv, Consistent, Writers
          <5> QED
            BY <4>1, <5>1 DEF Owned, Writers
        <4>3. r \notin index
          BY <2>1, <3>1, <3>2, <4>1, <4>2 DEF Consistent, Shows
        <4> QED
          BY <2>1, <2>4, <3>1, <3>2, <4>1, <4>3 DEF Consistent, Shows
      <3>3. CASE r # q
        BY <2>1, <2>4, <3>1, <3>3, Untouched
      <3> QED
        BY <3>2, <3>3
    <2> QED
      BY <1>1, <2>1, <2>2, <2>3, <2>4, <2>5 DEF CInv, Taken
  <1> QED
    BY <1>2, <1>3

LEMMA LoseStep ==
    ASSUME CInv, Lose
    PROVE  CInv'
  <1>1. TypeOK'
    BY CacheAssumption DEF CInv, Lose, TypeOK, NoRows, RowMap
  <1>2. \A j \in Jobs : Owned(j)'
    BY JobsUntouched DEF Lose
  <1> QED
    BY <1>1, <1>2 DEF CInv, Lose, Taken, Created

-----------------------------------------------------------------------------
(* The passes.                                                             *)

(* A step of a pass that writes no copy.                                   *)
LEMMA PassReads ==
    ASSUME CInv, NEW p \in Restores, NEW new \in Passes,
           new.step \in {"reading", "writing"} => new.run \in Runs,
           restore' = [restore EXCEPT ![p] = new],
           UNCHANGED <<durable, cached, index, post, lock, job, diverted>>,
           faults' \in 0 .. MaxFaults
    PROVE  CInv'
  <1>1. restore' \in [Restores -> Passes] /\ Taken'
    BY PassTyped DEF CInv
  <1>2. TypeOK'
    BY <1>1 DEF CInv, TypeOK, Passes
  <1>3. /\ \A j \in Jobs : Owned(j)'
        /\ \A r \in Runs : Writers(r)' = Writers(r)
    BY JobsUntouched
  <1>4. ASSUME NEW r \in Runs \ diverted' PROVE Consistent(r)'
    BY <1>3, <1>4, Untouched DEF CInv
  <1> QED
    BY <1>1, <1>2, <1>3, <1>4 DEF CInv, Created

(* What Requeue leaves of the jobs and of the rows.                        *)
LEMMA RequeueKeeps ==
    ASSUME CInv, NEW p \in Restores, NEW q \in Runs, Requeue(p, q),
           UNCHANGED <<durable, job>>
    PROVE  /\ post' \in [Runs -> Posts]
           /\ \A j \in Jobs : Owned(j)'
           /\ \A r \in Runs : Created(r)' /\ Writers(r)' = Writers(r)
           /\ \A r \in Runs : post'[r] # post[r] =>
                  /\ r = q /\ post[r] = "saved" /\ post'[r] = "requeued"
                  /\ Writers(r) = {} /\ durable[r] = "queued"
  <1>1. /\ post' \in [Runs -> Posts]
        /\ \A r \in Runs : post'[r] # post[r] =>
               r = q /\ post[r] = "saved" /\ post'[r] = "requeued"
    BY RequeueFacts DEF CInv
  <1>2. /\ \A j \in Jobs : Owned(j)'
        /\ \A r \in Runs : Writers(r)' = Writers(r)
    BY <1>1, JobsUntouched
  <1>3. \A r \in Runs : Created(r)'
    BY <1>1 DEF CInv, Created
  <1>4. ASSUME NEW r \in Runs, post[r] = "saved"
        PROVE  Writers(r) = {} /\ durable[r] = "queued"
    BY <1>4, NoWriters DEF CInv, Created
  <1> QED
    BY <1>1, <1>2, <1>3, <1>4

LEMMA VisitStep ==
    ASSUME CInv, NEW p \in Restores, NEW q \in Runs, Visit(p, q)
    PROVE  CInv'
  <1>1. /\ TypeOK /\ Taken /\ restore[p] \in Passes
        /\ UNCHANGED <<durable, cached, index, lock, job, diverted, faults>>
    BY DEF CInv, TypeOK, Passes, Visit
  <1>2. CASE Takes(p, q)
    <2> DEFINE new == [restore[p] EXCEPT !.step = "reading", !.run = q]
    <2>1. new \in Passes /\ new.run \in Runs
      BY <1>1 DEF Passes
    <2>2. restore' = [restore EXCEPT ![p] = new] /\ UNCHANGED post
      BY <1>1, <1>2 DEF Visit, TypeOK
    <2> HIDE DEF new
    <2>3. faults' \in 0 .. MaxFaults
      BY <1>1 DEF TypeOK
    <2> QED
      BY <1>1, <2>1, <2>2, <2>3, PassReads
  <1>3. CASE ~Takes(p, q)
    <2>1. /\ restore' = [restore EXCEPT ![p] = Past(p, q)]
          /\ Requeue(p, q) /\ cached[q] # None
      BY <1>1, <1>3 DEF Visit, Takes, TypeOK
    <2>2. restore' \in [Restores -> Passes] /\ Taken'
      BY <1>1, <2>1, PastFacts, PassTyped
    <2>3. /\ post' \in [Runs -> Posts]
          /\ \A j \in Jobs : Owned(j)'
          /\ \A r \in Runs : Created(r)' /\ Writers(r)' = Writers(r)
          /\ \A r \in Runs : post'[r] # post[r] =>
                 /\ r = q /\ post[r] = "saved" /\ post'[r] = "requeued"
                 /\ Writers(r) = {} /\ durable[r] = "queued"
      BY <1>1, <2>1, RequeueKeeps
    <2>4. ASSUME NEW r \in Runs \ diverted' PROVE Consistent(r)'
      <3>1. Consistent(r)
        BY <1>1 DEF CInv
      <3>2. CASE post'[r] = post[r]
        BY <1>1, <2>3, <3>1, <3>2, Untouched
      <3>3. CASE post'[r] # post[r]
        <4>1. /\ cached[r] = "queued" /\ durable[r] = "queued"
              /\ r \notin index /\ Writers(r)' = {} /\ post'[r] = "requeued"
          BY <2>1, <2>3, <3>1, <3>3 DEF Consistent
        <4> QED
          BY <1>1, <4>1 DEF Consistent, Shows, Waits
      <3> QED
        BY <3>2, <3>3
    <2>5. TypeOK'
      BY <1>1, <2>2, <2>3 DEF TypeOK, Passes, Posts
    <2> QED
      BY <2>2, <2>3, <2>4, <2>5 DEF CInv
  <1> QED
    BY <1>2, <1>3

(* A pass writes the status of a row: one that is still true does no harm, *)
(* and that of a paused run nobody is writing sets copy and index right.   *)
LEMMA WriteCopyStep ==
    ASSUME CInv, NEW p \in Restores, WriteCopy(p)
    PROVE  CInv'
  <1>1. PICK q \in Runs : q = restore[p].run
    BY DEF CInv, Taken, WriteCopy
  <1>2. PICK s \in Statuses \cup {None} : s = restore[p].rows[q]
    BY <1>1 DEF CInv, TypeOK, RowMap
  <1>3. PICK waited \in BOOLEAN : waited = restore[p].waited
    BY DEF CInv, TypeOK
  <1>4. /\ TypeOK /\ Taken /\ Transact(q, waited, s) /\ Requeue(p, q)
        /\ restore' = [restore EXCEPT ![p] = Past(p, q)]
        /\ diverted' = IF s # durable[q] THEN diverted \cup {q}
                       ELSE IF Waits(s) /\ Writers(q) = {} THEN diverted \ {q}
                       ELSE diverted
        /\ UNCHANGED <<durable, lock, job, faults>>
    BY <1>1, <1>2, <1>3 DEF WriteCopy, CInv
  <1>5. restore' \in [Restores -> Passes] /\ Taken'
    BY <1>4, PastFacts, PassTyped
  <1>6. /\ post' \in [Runs -> Posts]
        /\ \A j \in Jobs : Owned(j)'
        /\ \A r \in Runs : Created(r)' /\ Writers(r)' = Writers(r)
        /\ \A r \in Runs : post'[r] # post[r] =>
               /\ r = q /\ post[r] = "saved" /\ post'[r] = "requeued"
               /\ Writers(r) = {} /\ durable[r] = "queued"
    BY <1>4, RequeueKeeps
  <1>7. /\ cached' \in RowMap /\ index' \in SUBSET Runs /\ cached'[q] = s
        /\ Waits(s) => q \in index'
        /\ ~Waits(s) /\ q \in index' => q \in index
        /\ \A r \in Runs \ {q} : /\ cached'[r] = cached[r]
                                 /\ r \in index' <=> r \in index
    BY <1>4, TransactFacts
  <1>8. ASSUME NEW r \in Runs \ diverted' PROVE Consistent(r)'
    <2>1. CASE r # q
      <3>1. Consistent(r)
        BY <1>4, <2>1 DEF CInv
      <3> QED
        BY <1>4, <1>6, <1>7, <2>1, <3>1, Untouched
    <2>2. CASE r = q /\ q \in diverted
      <3>1. s = durable[r] /\ Waits(s) /\ Writers(r) = {}
        BY <1>4, <2>2
      <3>2. post[r] \in {"requeued", "done"} /\ post'[r] = post[r]
        <4>1. post[r] \in Posts /\ Created(r)
          BY DEF CInv, TypeOK, Posts
        <4>2. post[r] \notin {"new", "saved"}
          BY <3>1, <4>1, CacheAssumption DEF Created, Waits, Statuses
        <4> QED
          BY <1>6, <4>1, <4>2 DEF Posts
      <3>3. Shows(r, durable[r])'
        BY <1>4, <1>7, <2>2, <3>1 DEF Shows
      <3> QED
        BY <1>4, <1>6, <3>1, <3>2, <3>3 DEF Consistent
    <2>3. CASE r = q /\ q \notin diverted
      <3>1. Consistent(r) /\ Created(r) /\ s = durable[r] /\ post[r] \in Posts
        BY <1>4, <2>3 DEF CInv, TypeOK, Posts
      <3>2. CASE post[r] = "new"
        <4>1. s = None /\ ~Waits(s) /\ r \notin index /\ Writers(r) = {}
              /\ post'[r] = "new"
          BY <1>6, <3>1, <3>2, NoWriters, CacheAssumption
             DEF Consistent, Created, Waits, Statuses
        <4> QED
          BY <1>4, <1>6, <1>7, <2>3, <4>1 DEF Consistent
      <3>3. CASE post[r] = "saved"
        <4>1. /\ s = "queued" /\ ~Waits(s) /\ r \notin index
              /\ Writers(r) = {} /\ post'[r] \in {"saved", "requeued"}
          BY <1>6, <3>1, <3>3, NoWriters DEF Consistent, Created, Waits
        <4>2. cached'[r] = durable'[r] /\ r \notin index'
          BY <1>4, <1>7, <2>3, <3>1, <4>1
        <4> QED
          BY <1>4, <1>6, <3>1, <4>1, <4>2 DEF Consistent, Shows
      <3>4. CASE post[r] \in {"requeued", "done"}
        <4>1. post'[r] = post[r]
          BY <1>6, <3>4
        <4>2. CASE \E j \in Writers(r) : job[j].write = "saved"
          <5>1. PICK k \in Writers(r) : job[k].write = "saved"
            BY <4>2
          <5>2. Owned(k) /\ job[k].alone
            BY <3>1, <5>1 DEF CInv, Consistent, Writers
          <5>3. Writers(r) = {k} /\ job[k].status = s
            BY <3>1, <5>1, <5>2 DEF Owned, Writers
          <5>4. r \in index' => job[k].waited \/ Waits(job[k].status)
            BY <1>7, <2>3, <3>1, <5>1, <5>3 DEF Consistent
          <5> QED
            BY <1>4, <1>6, <3>4, <4>1, <5>1, <5>2, <5>3, <5>4 DEF Consistent
        <4>3. CASE ~\E j \in Writers(r) : job[j].write = "saved"
          <5>1. Shows(r, durable[r])
            BY <3>1, <3>4, <4>3 DEF Consistent
          <5>2. cached'[r] = durable'[r]
                /\ (r \in index' <=> Waits(durable'[r]))
            BY <1>4, <1>7, <2>3, <3>1, <5>1 DEF Shows
          <5> QED
            BY <1>4, <1>6, <3>1, <3>4, <4>1, <4>3, <5>2 DEF Consistent, Shows
        <4> QED
          BY <4>2, <4>3
      <3> QED
        BY <3>1, <3>2, <3>3, <3>4 DEF Posts
    <2> QED
      BY <2>1, <2>2, <2>3
  <1>9. TypeOK'
    BY <1>4, <1>5, <1>6, <1>7 DEF TypeOK, Passes, Posts
  <1> QED
    BY <1>5, <1>6, <1>8, <1>9 DEF CInv

LEMMA PassKeeps ==
    ASSUME CInv, NEW p \in Restores, RestoreStep(p) \/ PassFails(p)
    PROVE  CInv'
  <1>1. /\ TypeOK /\ Taken /\ restore[p] \in Passes
        /\ faults \in 0 .. MaxFaults
    BY DEF CInv, TypeOK, Passes
  <1>2. ASSUME NEW function \in {"recover_runs", "lifespan"},
               ReadRows(p, function)
        PROVE  CInv'
    <2> DEFINE new == [Idle EXCEPT !.step = "visiting", !.of = function,
                                   !.rows = durable,
                                   !.todo = {r \in Runs : durable[r] # None}]
    <2>1. new \in Passes /\ new.step = "visiting"
      BY <1>1, IdlePass DEF Idle, Passes, TypeOK
    <2>2. restore' = [restore EXCEPT ![p] = new]
          /\ UNCHANGED <<durable, cached, index, post, lock, job, diverted,
                         faults>>
      BY <1>2 DEF ReadRows
    <2> HIDE DEF new
    <2> QED
      BY <1>1, <2>1, <2>2, PassReads
  <1>3. CASE ReadCopy(p)
    <2> DEFINE new == [restore[p] EXCEPT !.step = "writing",
                           !.waited = Waits(cached[restore[p].run])]
    <2>1. restore[p].run \in Runs
      BY <1>1, <1>3 DEF ReadCopy, Taken
    <2>2. new \in Passes /\ new.run \in Runs
      BY <1>1, <2>1 DEF Passes, Waits
    <2>3. restore' = [restore EXCEPT ![p] = new]
          /\ UNCHANGED <<durable, cached, index, post, lock, job, diverted,
                         faults>>
      BY <1>1, <1>3 DEF ReadCopy, TypeOK
    <2> HIDE DEF new
    <2> QED
      BY <1>1, <2>2, <2>3, PassReads
  <1>4. CASE PassFails(p)
    <2>1. /\ restore' = [restore EXCEPT ![p] = Idle]
          /\ faults' \in 0 .. MaxFaults
          /\ UNCHANGED <<durable, cached, index, post, lock, job, diverted>>
      BY <1>1, <1>4, CacheAssumption DEF PassFails
    <2> QED
      BY <2>1, IdlePass, PassReads
  <1> QED
    BY <1>2, <1>3, <1>4, VisitStep, WriteCopyStep DEF RestoreStep

-----------------------------------------------------------------------------
(* Results.                                                                *)

(* The invariant of rows, copies, jobs and passes.                         *)
THEOREM CacheInductive == Spec => []CInv
  <1>1. Init => CInv
    <2> SUFFICES ASSUME Init PROVE CInv
      OBVIOUS
    <2>1. TypeOK
      BY CacheAssumption, IdlePass, RestingJob
         DEF Init, TypeOK, NoRows, RowMap, Passes, JobStates
    <2>2. Taken /\ \A j \in Jobs : Owned(j)
      BY RestingJob, IdlePass DEF Init, Taken, Owned
    <2>3. \A r \in Runs : Writers(r) = {}
      BY RestingJob DEF Init, Writers
    <2>4. \A r \in Runs : Created(r) /\ Consistent(r)
      BY <2>3 DEF Init, Created, Consistent, NoRows
    <2> QED
      BY <2>1, <2>2, <2>4 DEF CInv
  <1>2. CInv /\ [Next]_vars => CInv'
    <2> SUFFICES ASSUME CInv, [Next]_vars PROVE CInv'
      OBVIOUS
    <2>1. CASE UNCHANGED vars
      <3>1. /\ \A j \in Jobs : Owned(j)'
            /\ \A r \in Runs : Writers(r)' = Writers(r)
        BY <2>1, JobsUntouched DEF vars
      <3>2. ASSUME NEW r \in Runs \ diverted' PROVE Consistent(r)'
        BY <2>1, <3>1, <3>2, Untouched DEF CInv, vars
      <3> QED
        BY <2>1, <3>1, <3>2 DEF CInv, vars, TypeOK, Taken, Created
    <2> QED
      BY <2>1, CreateStep, JobKeeps, LoseStep, PassKeeps DEF Next
  <1> QED
    BY <1>1, <1>2, PTL DEF Spec

(* Rows, copies, index, locks, jobs and passes keep their types.           *)
THEOREM CacheTypes == Spec => []TypeOK
  <1>1. CInv => TypeOK
    BY DEF CInv
  <1> QED
    BY CacheInductive, <1>1, PTL

(* Whenever no job is writing a run, its copy and its place in the index   *)
(* follow its row, whatever jobs and passes have run beside each other,    *)
(* unless one of the five events has put them apart since the run was last *)
(* paused, resumed or restored as paused.                                  *)
THEOREM CopiesFollow == Spec => []CopyFollowsRow
  <1>1. CInv => CopyFollowsRow
    BY DEF CInv, Consistent, Shows, CopyFollowsRow, Quiet
  <1> QED
    BY CacheInductive, <1>1, PTL

=============================================================================
