------------------------ MODULE ImagePromotionProofs ------------------------
(***************************************************************************)
(* What promote.sh leaves behind, for any number of scripts, images and    *)
(* documents: proofs about ImagePromotion.  The documents themselves are   *)
(* HelpIngest's, whose invariant no step of a script disturbs.             *)
(***************************************************************************)
EXTENDS ImagePromotion, HelpIngestProofs

ScriptSteps == {"new"} \cup Armed \cup Recovery \cup Over

ScriptRecords == [step : ScriptSteps, image : Images, previous : Images]

Active(a) == script[a].step \in Armed \cup Recovery

(* From the replacement of the services on, the init container has         *)
(* completed.                                                              *)
RanInitAt(a) ==
    script[a].step \in {"up", "health", "previous", "current", "ps", "promoted"}
    => At(a, "done")

RanInit == \A a \in Inits : RanInitAt(a)

(* What a script would restore has had a completed init container.         *)
PreviousRanInit ==
    \A a \in Inits :
        \/ script[a].previous = Baseline
        \/ \E b \in Inits : script[b].image = script[a].previous /\ At(b, "done")

(* Numbers are taken in order: behind one that is free, all are.           *)
InOrder ==
    \A a \in Inits : StepIs(a, "new") /\ At(a, "new") => Latest(a)

(* One script at a time is at work, and it is the last that has begun.     *)
Alone == \A a \in Inits : Active(a) => Latest(a)

(* What the commands a script has behind it have left.                     *)
SettledAt(a) ==
    /\ script[a].step \in {"health", "previous", "current", "ps"} =>
           \A s \in Services : service[s] = script[a].image
    /\ script[a].step = "recheck" =>
           \A s \in Services : service[s] = script[a].previous
    /\ script[a].step \in {"current", "ps"} =>
           recorded["previous"] = script[a].previous
    /\ script[a].step = "ps" => recorded["current"] = script[a].image
    /\ script[a].step \in {"previous", "current", "ps"} =>
           script[a].image \in verified

Settled == \A a \in Inits : SettledAt(a)

(* EndsWhole, of one script.                                               *)
EndsAt(a) ==
    /\ StepIs(a, "promoted") =>
           /\ \A s \in Services : service[s] = script[a].image
           /\ recorded["previous"] = script[a].previous
           /\ recorded["current"] = script[a].image
    /\ StepIs(a, "restored") =>
           \A s \in Services : service[s] = script[a].previous

(* No script is at work and none has left its work to an operator.         *)
Quiet ==
    \A a \in Inits :
        script[a].step \notin Armed \cup Recovery \cup {"killed", "intervene"}

QuietIsVerified == Quiet /\ SamePair => service["api"] \in verified

PInv ==
    /\ PromotionTypes
    /\ RanInit
    /\ PreviousRanInit
    /\ BootstrappedFirst
    /\ InOrder
    /\ Alone
    /\ Settled
    /\ EndsWhole
    /\ RollbackIsVerified
    /\ QuietIsVerified

(* No ingest was run by hand, and no script was killed.                    *)
Peaceful ==
    \A a \in Inits : (StepIs(a, "new") => At(a, "new")) /\ ~StepIs(a, "killed")

(* Behind its init container a script's documents are what is stored.      *)
BehindInit(a) ==
    \/ script[a].step \in {"up", "health", "previous", "current", "ps"}
    \/ StepIs(a, "promoted") /\ Latest(a)
    \/ StepIs(a, "init") /\ At(a, "done")

(* The only ingest at work is the one a script waits for.                  *)
ServesAt(a) ==
    /\ Current(a)
    /\ StepIs(a, "pull") => At(a, "new")
    /\ At(a, "new") => ~Ingested(a)
    /\ StepIs(a, "init") =>
           \/ init[a].files = Docs[script[a].image]
           \/ ~Ingested(a) /\ At(a, "done")
    /\ ~StepIs(a, "init") => init[a].step \in {"new"} \cup Ended
    /\ BehindInit(a) /\ Ingested(a) => Stores(a, Docs[script[a].image])

SInv == Peaceful => \A a \in Inits : ServesAt(a)

-----------------------------------------------------------------------------
(* What steps have in common.                                              *)

(* A command that ends moves its script and nothing else in script.        *)
LEMMA GoOnFacts ==
    ASSUME PromotionTypes, NEW a \in Inits, NEW t \in ScriptSteps, GoOn(a, t)
    PROVE  /\ script' \in [Inits -> ScriptRecords]
           /\ script'[a].step = t
           /\ script'[a].image = script[a].image
           /\ script'[a].previous = script[a].previous
           /\ \A b \in Inits \ {a} : script'[b] = script[b]
  BY DEF PromotionTypes, GoOn, ScriptRecords, ScriptSteps

(* Ingests that have ended stay so, and one that has begun has begun.      *)
LEMMA IngestsStay ==
    ASSUME TypeOK, [Next]_vars, NEW b \in Inits
    PROVE  /\ At(b, "done") => At(b, "done")'
           /\ At(b, "new")' => At(b, "new")
  <1>1. CASE UNCHANGED vars
    BY <1>1 DEF vars, At
  <1>2. ASSUME NEW i \in Inits, Ingest(i)
        PROVE  /\ At(b, "done") => At(b, "done")'
               /\ At(b, "new")' => At(b, "new")
    <2> USE DEF TypeOK, At
    <2>1. CASE Compare(i)
      BY <2>1 DEF Compare
    <2>2. CASE Begin(i)
      BY <2>2 DEF Begin
    <2>3. CASE \E d \in Documents : StartDelete(i, d)
      BY <2>3 DEF StartDelete
    <2>4. CASE EndDelete(i)
      BY <2>4 DEF EndDelete
    <2>5. CASE Insert(i)
      <3> DEFINE outcome == Outcome(i, Image(i, init[i].files, init[i].changed))
                 inserts == IF outcome = "inserted"
                            THEN Image(i, init[i].files, init[i].changed) ELSE {}
      <3>1. outcome \in {"failed", "inserted"}
        BY DEF Outcome
      <3>2. /\ At(i, "open")
            /\ init' = [init EXCEPT ![i].step = outcome, ![i].inserts = inserts]
        BY <2>5 DEF Insert
      <3> HIDE DEF outcome, inserts
      <3> QED
        BY <3>1, <3>2
    <2>6. CASE Commit(i)
      BY <2>6 DEF Commit, Goto
    <2>7. CASE Fail(i)
      BY <2>7 DEF Fail, Goto, Ended
    <2> QED
      BY <1>2, <2>1, <2>2, <2>3, <2>4, <2>5, <2>6, <2>7 DEF Ingest
  <1>3. ASSUME NEW i \in Inits, NEW files \in Files, Launch(i, files)
        PROVE  /\ At(b, "done") => At(b, "done")'
               /\ At(b, "new")' => At(b, "new")
    BY <1>3 DEF TypeOK, Launch, At
  <1>4. ASSUME NEW i \in Inits, Skip(i)
        PROVE  /\ At(b, "done") => At(b, "done")'
               /\ At(b, "new")' => At(b, "new")
    BY <1>4 DEF TypeOK, Skip, Goto, At
  <1> QED
    BY <1>1, <1>2, <1>3, <1>4 DEF Next

(* A script at work is the last one: another is not at work, and none that *)
(* has ended is the last.                                                  *)
LEMMA OnlyOne ==
    ASSUME InOrder, Alone, NEW a \in Inits, Active(a), NEW b \in Inits \ {a}
    PROVE  /\ ~Active(b)
           /\ Latest(b) => StepIs(b, "new")
  <1>1. a \in Nat /\ b \in Nat /\ (a < b \/ b < a)
    BY PromotionAssumption
  <1>2. ~StepIs(a, "new")
    BY DEF Active, Armed, Recovery, StepIs
  <1>3. CASE a < b
    BY <1>1, <1>3 DEF Alone, Latest, Active, Armed, Recovery, StepIs
  <1>4. CASE b < a
    BY <1>1, <1>2, <1>4 DEF Alone, Latest
  <1> QED
    BY <1>1, <1>3, <1>4

(* Every step of the scripts is a step of the ingests or leaves them alone.*)
LEMMA IngestsGoOn ==
    ASSUME PromotionTypes, [PromotionNext]_promotionVars
    PROVE  [Next]_vars
  <1>1. CASE UNCHANGED promotionVars
    BY <1>1 DEF promotionVars, vars
  <1>2. ASSUME NEW a \in Inits, NEW files \in Files, Launch(a, files)
        PROVE  Next
    BY <1>2 DEF Next
  <1>3. ASSUME NEW a \in Inits, Ingest(a)
        PROVE  Next
    BY <1>3 DEF Next
  <1>4. \A image \in Images : Docs[image] \in Files
    BY PromotionAssumption
  <1>5. \A a \in Inits : script[a].image \in Images
    BY DEF PromotionTypes
  <1>6. ASSUME NEW a \in Inits, Proceed(a)
        PROVE  [Next]_vars
    <2>1. CASE Bootstrap(a)
      BY <1>2, <1>4, <1>5, <2>1 DEF Bootstrap, Next
    <2>2. CASE UNCHANGED <<rows, init>>
      BY <2>2 DEF vars
    <2>3. Bootstrap(a) \/ UNCHANGED <<rows, init>>
      BY <1>6 DEF Proceed, Bootstrapped, Replace, Replaced, Healthy,
                  RecordPrevious, RecordCurrent, Promoted, CommandFails,
                  ReplaceFails, RecordFails
    <2> QED
      BY <2>1, <2>2, <2>3
  <1>7. ASSUME NEW a \in Inits, NEW image \in Images, RunByHand(a, image)
        PROVE  [Next]_vars
    BY <1>2, <1>4, <1>7 DEF RunByHand
  <1>8. ASSUME NEW a \in Inits, NEW image \in Images, Start(a, image)
        PROVE  [Next]_vars
    BY <1>8 DEF Start, vars
  <1>9. ASSUME NEW a \in Inits, Kill(a)
        PROVE  [Next]_vars
    BY <1>9 DEF Kill, vars
  <1> QED
    BY <1>1, <1>3, <1>6, <1>7, <1>8, <1>9 DEF PromotionNext, IngestStep

(* What a step with GoOn keeps: its own script's parts of the invariant are*)
(* what remains to be shown of it.                                         *)
LEMMA Moves ==
    ASSUME PInv, TypeOK', [Next]_vars,
           NEW a \in Inits, Active(a),
           NEW t \in ScriptSteps \ {"new"}, GoOn(a, t),
           service' \in [Services -> Images \cup {Down}],
           recorded' \in [{"previous", "current"} -> Images \cup {None}],
           verified' \in SUBSET Images, verified \subseteq verified',
           RanInitAt(a)', BootstrappedFirst', SettledAt(a)', EndsAt(a)',
           t \in {"promoted", "restored"} => service'["api"] \in verified',
           t # "refused"
    PROVE  PInv'
  <1>1. /\ script' \in [Inits -> ScriptRecords]
        /\ script'[a].step = t
        /\ script'[a].image = script[a].image
        /\ script'[a].previous = script[a].previous
        /\ \A b \in Inits \ {a} : script'[b] = script[b]
    BY GoOnFacts DEF PInv
  <1>2. TypeOK
    BY DEF PInv, PromotionTypes
  <1>3. \A b \in Inits : /\ At(b, "done") => At(b, "done")'
                         /\ At(b, "new")' => At(b, "new")
    BY <1>2, IngestsStay
  <1>4. \A b \in Inits \ {a} : ~Active(b) /\ (Latest(b) => StepIs(b, "new"))
    BY OnlyOne DEF PInv
  <1>5. script[a].step # "new"
    BY DEF Active, Armed, Recovery
  <1>6. \A b \in Inits : Latest(b) <=> Latest(b)'
    BY <1>1, <1>5 DEF Latest, StepIs
  <1>7. PromotionTypes'
    BY <1>1 DEF PromotionTypes, ScriptRecords, ScriptSteps
  <1>8. RanInit'
    BY <1>1, <1>3 DEF PInv, RanInit, RanInitAt
  <1>9. PreviousRanInit'
    BY <1>1, <1>3 DEF PInv, PreviousRanInit
  <1>10. InOrder'
    BY <1>1, <1>3, <1>6 DEF PInv, InOrder, StepIs
  <1>11. Alone'
    BY <1>1, <1>4, <1>6 DEF PInv, Alone, Active
  <1>12. Settled'
    BY <1>1, <1>4 DEF Settled, SettledAt, Active, Armed, Recovery
  <1>13. EndsWhole'
    <2>1. ASSUME NEW b \in Inits \ {a}, Latest(b)'
          PROVE  StepIs(b, "new")'
      BY <1>1, <1>4, <1>6, <2>1 DEF StepIs
    <2> QED
      BY <2>1 DEF EndsWhole, EndsAt, StepIs
  <1>14. RollbackIsVerified'
    <2>1. \A b \in Inits : Disturbed(b) => Disturbed(b)'
      BY <1>1 DEF Disturbed, Active, Armed, Recovery
    <2>2. Active(a) /\ ~Disturbed(a) => script[a].previous \in verified
      BY DEF PInv, RollbackIsVerified, Active
    <2> QED
      BY <1>1, <1>4, <2>1, <2>2 DEF RollbackIsVerified, Active
  <1>15. QuietIsVerified'
    <2>1. Quiet' => t \in {"promoted", "restored"}
      BY <1>1 DEF Quiet, ScriptSteps, Over
    <2> QED
      BY <2>1 DEF QuietIsVerified
  <1> QED
    BY <1>7, <1>8, <1>9, <1>10, <1>11, <1>12, <1>13, <1>14, <1>15 DEF PInv

(* An ingest's step, or one by hand, leaves the scripts as they are.       *)
LEMMA Rests ==
    ASSUME PInv, TypeOK', [Next]_vars,
           UNCHANGED <<service, script, recorded, verified>>
    PROVE  PInv'
  <1>1. TypeOK
    BY DEF PInv, PromotionTypes
  <1>2. \A b \in Inits : /\ At(b, "done") => At(b, "done")'
                         /\ At(b, "new")' => At(b, "new")
    BY <1>1, IngestsStay
  <1>3. PromotionTypes'
    BY DEF PInv, PromotionTypes
  <1>4. RanInit' /\ PreviousRanInit' /\ BootstrappedFirst'
    BY <1>2 DEF PInv, RanInit, RanInitAt, PreviousRanInit, BootstrappedFirst
  <1>5. InOrder' /\ Alone' /\ EndsWhole'
    BY <1>2 DEF PInv, InOrder, Alone, Active, EndsWhole, Latest, StepIs
  <1>6. Settled' /\ RollbackIsVerified' /\ QuietIsVerified'
    BY DEF PInv, Settled, SettledAt, RollbackIsVerified, Disturbed,
           QuietIsVerified, Quiet, SamePair
  <1> QED
    BY <1>3, <1>4, <1>5, <1>6 DEF PInv
-----------------------------------------------------------------------------
(* The steps of a script.                                                  *)

(* The facts every command of a script at work uses.                       *)
LEMMA AtWork ==
    ASSUME PInv, NEW a \in Inits
    PROVE  /\ service \in [Services -> Images \cup {Down}]
           /\ recorded \in [{"previous", "current"} -> Images \cup {None}]
           /\ verified \in SUBSET Images
           /\ script[a].image \in Images /\ script[a].previous \in Images
           /\ script[a].step \in ScriptSteps
           /\ RanInitAt(a) /\ SettledAt(a) /\ BootstrappedFirst
  BY DEF PInv, PromotionTypes, RanInit, Settled, ScriptSteps

(* A command that leaves the services and the records alone.               *)
LEMMA Quietly ==
    ASSUME PInv, TypeOK', [Next]_vars,
           NEW a \in Inits, Active(a),
           NEW t \in ScriptSteps \ {"new", "refused", "restored"}, GoOn(a, t),
           UNCHANGED <<service, recorded, verified>>,
           t \in {"up", "health", "previous", "current", "ps", "promoted"} =>
               At(a, "done")',
           SettledAt(a)', EndsAt(a)',
           t = "promoted" => service["api"] \in verified
    PROVE  PInv'
  <1>1. script'[a].step = t
    BY GoOnFacts DEF PInv
  <1>2. RanInitAt(a)'
    BY <1>1 DEF RanInitAt
  <1>3. \A b \in Inits : script'[b].image = script[b].image
    BY GoOnFacts DEF PInv
  <1>4. BootstrappedFirst'
    <2>1. TypeOK
      BY DEF PInv, PromotionTypes
    <2>2. \A b \in Inits : At(b, "done") => At(b, "done")'
      BY <2>1, IngestsStay
    <2> QED
      BY <1>3, <2>2 DEF PInv, BootstrappedFirst
  <1> QED
    BY <1>2, <1>4, Moves, AtWork

(* Nothing a command has left is asked of these steps.                     *)
LEMMA NothingLeft ==
    ASSUME NEW a \in Inits,
           script[a].step \in {"pull", "init", "up", "rollback", "intervene", "killed"}
    PROVE  SettledAt(a) /\ EndsAt(a)
  BY DEF SettledAt, EndsAt, StepIs

(* The new script has its turn, and takes what runs for the image to       *)
(* restore.                                                                *)
LEMMA StartStep ==
    ASSUME PInv, NEW a \in Inits, NEW image \in Images, Start(a, image)
    PROVE  PInv'
  <1> DEFINE r == [step |-> IF SamePair THEN "pull" ELSE "refused",
                   image |-> image,
                   previous |-> IF SamePair THEN service["api"]
                                ELSE script[a].previous]
  <1>1. service["api"] \in Images \cup {Down} /\ script[a].previous \in Images
    BY AtWork DEF Services
  <1>2. r \in ScriptRecords
    BY <1>1 DEF ScriptRecords, ScriptSteps, Armed, Over, SamePair
  <1>3. /\ script' = [script EXCEPT ![a] = r]
        /\ script \in [Inits -> ScriptRecords]
    BY DEF Start, PInv, PromotionTypes, ScriptRecords, ScriptSteps
  <1>4. /\ script' \in [Inits -> ScriptRecords]
        /\ script'[a] = r
        /\ \A b \in Inits \ {a} : script'[b] = script[b]
    BY <1>2, <1>3
  <1>5. /\ script'[a].step = IF SamePair THEN "pull" ELSE "refused"
        /\ script'[a].image = image
        /\ SamePair => script'[a].previous = service["api"]
        /\ ~SamePair => script'[a].previous = script[a].previous
    BY <1>4
  <1> HIDE DEF r
  <1>6. /\ StepIs(a, "new") /\ At(a, "new") /\ Latest(a)
        /\ \A b \in Inits : ~Active(b)
        /\ \A b \in Inits : b < a => script[b].step \in Over \/ ~At(b, "new")
        /\ UNCHANGED <<rows, init, service, recorded, verified>>
    BY DEF Start, PInv, InOrder, Active
  <1>7. Latest(a)'
    BY <1>4, <1>6, PromotionAssumption DEF Latest, StepIs
  <1>8. \A b \in Inits : Latest(b)' => Latest(b)
    BY <1>4, <1>6 DEF Latest, StepIs
  <1>9. PromotionTypes'
    BY <1>4, <1>6 DEF PInv, PromotionTypes, TypeOK, ScriptRecords, ScriptSteps
  <1>10. RanInit' /\ Settled'
    BY <1>4, <1>5, <1>6 DEF PInv, RanInit, RanInitAt, Settled, SettledAt, At
  <1>11. PreviousRanInit'
    <2>1. \A b \in Inits : At(b, "done") => b # a /\ At(b, "done")'
      BY <1>6 DEF At
    <2>2. SamePair => \/ service["api"] = Baseline
                      \/ \E b \in Inits : script[b].image = service["api"]
                                          /\ At(b, "done")
      BY DEF PInv, BootstrappedFirst, SamePair, Services
    <2> QED
      BY <1>4, <1>5, <2>1, <2>2 DEF PInv, PreviousRanInit
  <1>12. BootstrappedFirst'
    <2>1. \A b \in Inits : At(b, "done") => b # a /\ At(b, "done")'
      BY <1>6 DEF At
    <2> QED
      BY <1>4, <1>6, <2>1 DEF PInv, BootstrappedFirst
  <1>13. InOrder'
    <2>1. ASSUME NEW b \in Inits, StepIs(b, "new")', At(b, "new")'
          PROVE  Latest(b)'
      <3>1. b # a /\ StepIs(b, "new") /\ At(b, "new")
        BY <1>4, <1>5, <1>6, <2>1 DEF StepIs, At
      <3>2. Latest(b) /\ ~(b < a)
        BY <1>6, <3>1 DEF PInv, InOrder, StepIs, Over
      <3> QED
        BY <1>4, <3>2 DEF Latest, StepIs
    <2> QED
      BY <2>1 DEF InOrder
  <1>14. Alone'
    BY <1>4, <1>6, <1>7 DEF Alone, Active
  <1>15. EndsWhole'
    <2>1. ASSUME NEW b \in Inits, Latest(b)' PROVE EndsAt(b)'
      <3>1. CASE b = a
        BY <1>5, <3>1 DEF EndsAt, StepIs
      <3>2. CASE b # a
        BY <1>4, <1>6, <1>8, <2>1, <3>2 DEF PInv, EndsWhole, EndsAt, StepIs
      <3> QED
        BY <3>1, <3>2
    <2> QED
      BY <2>1 DEF EndsWhole, EndsAt
  <1>16. ASSUME SamePair, ~Disturbed(a)
         PROVE  service["api"] \in verified
    <2>1. \A b \in Inits : b # a => script[b].step \notin {"killed", "intervene"}
      BY <1>6, <1>16, PromotionAssumption DEF Disturbed, Latest, StepIs
    <2>2. Quiet
      BY <1>6, <2>1 DEF Quiet, Active, StepIs
    <2> QED
      BY <1>16, <2>2 DEF PInv, QuietIsVerified
  <1>17. RollbackIsVerified'
    <2>1. Disturbed(a) => Disturbed(a)'
      BY <1>4, <1>6 DEF Disturbed, StepIs
    <2>2. \A b \in Inits \ {a} : script'[b].step \notin Armed \cup Recovery
      BY <1>4, <1>6 DEF Active
    <2>3. script'[a].step \in Armed \cup Recovery => SamePair
      BY <1>5 DEF Armed, Recovery
    <2> QED
      BY <1>5, <1>6, <1>16, <2>1, <2>2, <2>3 DEF RollbackIsVerified
  <1>18. QuietIsVerified'
    <2>1. SamePair => ~Quiet'
      BY <1>5 DEF Quiet, Armed
    <2>2. SamePair' <=> SamePair
      BY <1>6 DEF SamePair
    <2> QED
      BY <2>1, <2>2 DEF QuietIsVerified
  <1> QED
    BY <1>9, <1>10, <1>11, <1>12, <1>13, <1>14, <1>15, <1>17, <1>18 DEF PInv
(* Up to the replacement of the services, nothing is left to ask about.    *)
LEMMA EarlyStep ==
    ASSUME PInv, TypeOK', [Next]_vars, NEW a \in Inits,
           Bootstrap(a) \/ Bootstrapped(a)
    PROVE  PInv'
  <1>1. PICK t \in {"init", "up"} :
            GoOn(a, t) /\ (t = "up" => At(a, "done") /\ UNCHANGED init)
    BY DEF Bootstrap, Bootstrapped, Completed
  <1>2. Active(a) /\ UNCHANGED <<service, recorded, verified>>
    BY DEF Bootstrap, Bootstrapped, StepIs, Active, Armed
  <1>3. t \in ScriptSteps \ {"new", "refused", "restored"}
    BY DEF ScriptSteps, Armed
  <1>4. SettledAt(a)' /\ EndsAt(a)'
    BY <1>1, <1>3, GoOnFacts DEF PInv, SettledAt, EndsAt, StepIs
  <1>5. t = "up" => At(a, "done")'
    BY <1>1 DEF At
  <1> QED
    BY <1>1, <1>2, <1>3, <1>4, <1>5, Quietly

(* A container is replaced, or removed and not started.                    *)
LEMMA ReplaceStep ==
    ASSUME PInv, TypeOK', [Next]_vars, NEW a \in Inits, NEW s \in Services,
           Replace(a, s)
    PROVE  PInv'
  <1>1. script[a].step \in {"up", "rollback"}
    BY DEF Replace
  <1>2. GoOn(a, script[a].step)
    BY DEF Replace, GoOn, PInv, PromotionTypes
  <1>3. Active(a) /\ script[a].step \in ScriptSteps \ {"new"}
    BY <1>1 DEF Active, Armed, Recovery, ScriptSteps
  <1>4. /\ UNCHANGED <<init, script, recorded, verified>>
        /\ service' = [service EXCEPT ![s] = Target(a)]
    BY DEF Replace
  <1>5. Target(a) \in Images
    BY AtWork DEF Target
  <1>6. service' \in [Services -> Images \cup {Down}]
    BY <1>4, <1>5, AtWork
  <1>7. RanInitAt(a)'
    BY <1>4, AtWork DEF RanInitAt, At
  <1>8. SettledAt(a)' /\ EndsAt(a)'
    BY <1>1, <1>4 DEF SettledAt, EndsAt, StepIs
  <1>9. \/ Target(a) = Baseline
        \/ \E b \in Inits : script[b].image = Target(a) /\ At(b, "done")
    BY <1>1, AtWork DEF Target, RanInitAt, StepIs, PInv, PreviousRanInit
  <1>10. BootstrappedFirst'
    BY <1>4, <1>9, AtWork DEF BootstrappedFirst, At
  <1>11. verified' \in SUBSET Images /\ verified \subseteq verified'
         /\ recorded' \in [{"previous", "current"} -> Images \cup {None}]
    BY <1>4, AtWork
  <1>12. script[a].step \notin {"promoted", "restored", "refused"}
    BY <1>1
  <1> QED
    BY <1>2, <1>3, <1>6, <1>7, <1>8, <1>10, <1>11, <1>12, Moves

LEMMA ReplaceFailsStep ==
    ASSUME PInv, TypeOK', [Next]_vars, NEW a \in Inits, NEW s \in Services,
           ReplaceFails(a, s)
    PROVE  PInv'
  <1>1. script[a].step \in {"up", "rollback"}
    BY DEF ReplaceFails
  <1>2. PICK t \in {"rollback", "intervene"} : GoOn(a, t)
    BY DEF ReplaceFails, Trap
  <1>3. Active(a) /\ t \in ScriptSteps \ {"new"}
    BY <1>1 DEF Active, Armed, Recovery, Over, ScriptSteps
  <1>4. /\ UNCHANGED <<init, recorded, verified>>
        /\ service' = [service EXCEPT ![s] = Down]
    BY DEF ReplaceFails
  <1>5. service' \in [Services -> Images \cup {Down}]
    BY <1>4, AtWork
  <1>6. /\ script'[a].step = t
        /\ \A b \in Inits : script'[b].image = script[b].image
    BY <1>2, <1>3, GoOnFacts DEF PInv
  <1>7. RanInitAt(a)' /\ SettledAt(a)' /\ EndsAt(a)'
    BY <1>6 DEF RanInitAt, SettledAt, EndsAt, StepIs
  <1>8. BootstrappedFirst'
    BY <1>4, <1>6, AtWork DEF BootstrappedFirst, At
  <1>9. verified' \in SUBSET Images /\ verified \subseteq verified'
         /\ recorded' \in [{"previous", "current"} -> Images \cup {None}]
    BY <1>4, AtWork
  <1>10. t \notin {"promoted", "restored", "refused"}
    OBVIOUS
  <1> QED
    BY <1>2, <1>3, <1>5, <1>7, <1>8, <1>9, <1>10, Moves

(* Both containers run the image: the health checks begin.                 *)
LEMMA ReplacedStep ==
    ASSUME PInv, TypeOK', [Next]_vars, NEW a \in Inits, Replaced(a)
    PROVE  PInv'
  <1>1. /\ script[a].step \in {"up", "rollback"}
        /\ \A s \in Services : service[s] = Target(a)
        /\ UNCHANGED <<init, service, recorded, verified>>
    BY DEF Replaced, AllReplaced
  <1>2. Active(a)
    BY <1>1 DEF Active, Armed, Recovery
  <1>3. CASE StepIs(a, "up")
    <2>1. GoOn(a, "health") /\ Target(a) = script[a].image
      BY <1>3 DEF Replaced, Target
    <2>2. "health" \in ScriptSteps \ {"new", "refused", "restored"}
      BY DEF ScriptSteps, Armed
    <2>3. script'[a].step = "health" /\ script'[a].image = script[a].image
      BY <2>1, <2>2, GoOnFacts DEF PInv
    <2>4. SettledAt(a)' /\ EndsAt(a)'
      BY <1>1, <2>1, <2>3 DEF SettledAt, EndsAt, StepIs
    <2>5. At(a, "done")'
      BY <1>1, <1>3, AtWork DEF RanInitAt, StepIs, At
    <2> QED
      BY <1>1, <1>2, <2>1, <2>2, <2>4, <2>5, Quietly
  <1>4. CASE ~StepIs(a, "up")
    <2>1. GoOn(a, "recheck") /\ Target(a) = script[a].previous
      BY <1>4 DEF Replaced, Target
    <2>2. "recheck" \in ScriptSteps \ {"new", "refused", "restored"}
      BY DEF ScriptSteps, Recovery
    <2>3. script'[a].step = "recheck" /\ script'[a].previous = script[a].previous
      BY <2>1, <2>2, GoOnFacts DEF PInv
    <2>4. SettledAt(a)' /\ EndsAt(a)'
      BY <1>1, <2>1, <2>3 DEF SettledAt, EndsAt, StepIs
    <2> QED
      BY <1>1, <1>2, <2>1, <2>2, <2>4, Quietly
  <1> QED
    BY <1>3, <1>4

(* Both services answer: the image is verified.                            *)
LEMMA HealthyStep ==
    ASSUME PInv, TypeOK', [Next]_vars, NEW a \in Inits, Healthy(a)
    PROVE  PInv'
  <1>1. UNCHANGED <<init, service, recorded>>
    BY DEF Healthy
  <1>2. /\ service' \in [Services -> Images \cup {Down}]
        /\ recorded' \in [{"previous", "current"} -> Images \cup {None}]
    BY <1>1, AtWork
  <1>3. CASE StepIs(a, "health")
    <2>1. GoOn(a, "previous") /\ verified' = verified \cup {script[a].image}
      BY <1>3 DEF Healthy, StepIs
    <2>2. "previous" \in ScriptSteps \ {"new"} /\ Active(a)
      BY <1>3 DEF ScriptSteps, Armed, Active, StepIs
    <2>3. /\ script'[a].step = "previous" /\ script'[a].image = script[a].image
          /\ \A b \in Inits : script'[b].image = script[b].image
      BY <2>1, <2>2, GoOnFacts DEF PInv
    <2>4. RanInitAt(a)' /\ SettledAt(a)' /\ EndsAt(a)'
      BY <1>1, <1>3, <2>1, <2>3, AtWork
         DEF RanInitAt, SettledAt, EndsAt, StepIs, At
    <2>5. BootstrappedFirst'
      BY <1>1, <2>3, AtWork DEF BootstrappedFirst, At
    <2>6. verified' \in SUBSET Images /\ verified \subseteq verified'
      BY <2>1, AtWork
    <2> QED
      BY <1>2, <2>1, <2>2, <2>4, <2>5, <2>6, Moves
  <1>4. CASE ~StepIs(a, "health")
    <2>1. /\ StepIs(a, "recheck") /\ GoOn(a, "restored")
          /\ verified' = verified \cup {script[a].previous}
      BY <1>4 DEF Healthy
    <2>2. "restored" \in ScriptSteps \ {"new"} /\ Active(a)
      BY <2>1 DEF ScriptSteps, Over, Active, Recovery, StepIs
    <2>3. /\ script'[a].step = "restored"
          /\ script'[a].previous = script[a].previous
          /\ \A b \in Inits : script'[b].image = script[b].image
      BY <2>1, <2>2, GoOnFacts DEF PInv
    <2>4. \A s \in Services : service[s] = script[a].previous
      BY <2>1, AtWork DEF SettledAt, StepIs
    <2>5. RanInitAt(a)' /\ SettledAt(a)' /\ EndsAt(a)'
      BY <1>1, <2>3, <2>4 DEF RanInitAt, SettledAt, EndsAt, StepIs
    <2>6. BootstrappedFirst'
      BY <1>1, <2>3, AtWork DEF BootstrappedFirst, At
    <2>7. verified' \in SUBSET Images /\ verified \subseteq verified'
      BY <2>1, AtWork
    <2>8. service'["api"] \in verified'
      BY <1>1, <2>1, <2>4 DEF Services
    <2> QED
      BY <1>2, <2>1, <2>2, <2>5, <2>6, <2>7, <2>8, Moves
  <1> QED
    BY <1>3, <1>4
(* One of the two files names an image, or is empty.                       *)
LEMMA RecordStep ==
    ASSUME PInv, TypeOK', [Next]_vars, NEW a \in Inits,
           NEW f \in {"previous", "current"}, StepIs(a, f),
           NEW r \in Images \cup {None},
           recorded' = [recorded EXCEPT ![f] = r],
           NEW t \in {"current", "ps", "rollback"}, GoOn(a, t),
           t = "current" => f = "previous" /\ r = script[a].previous,
           t = "ps" => f = "current" /\ r = script[a].image,
           UNCHANGED <<init, service, verified>>
    PROVE  PInv'
  <1>1. t \in ScriptSteps \ {"new"} /\ Active(a)
    BY DEF ScriptSteps, Armed, Recovery, Active, StepIs
  <1>2. /\ script'[a].step = t
        /\ script'[a].image = script[a].image
        /\ script'[a].previous = script[a].previous
        /\ \A b \in Inits : script'[b].image = script[b].image
    BY <1>1, GoOnFacts DEF PInv
  <1>3. recorded' \in [{"previous", "current"} -> Images \cup {None}]
    BY AtWork
  <1>4. RanInitAt(a)'
    BY <1>2, AtWork DEF RanInitAt, StepIs, At
  <1>5. EndsAt(a)'
    BY <1>2 DEF EndsAt, StepIs
  <1>6. SettledAt(a)'
    <2>1. /\ \A s \in Services : service[s] = script[a].image
          /\ script[a].image \in verified
      BY AtWork DEF SettledAt, StepIs
    <2>2. f = "current" => recorded["previous"] = script[a].previous
      BY AtWork DEF SettledAt, StepIs
    <2>3. t \in {"current", "ps"} => recorded'["previous"] = script[a].previous
      BY <2>2, AtWork
    <2>4. t = "ps" => recorded'["current"] = script[a].image
      BY AtWork
    <2> QED
      BY <1>2, <2>1, <2>3, <2>4 DEF SettledAt
  <1>7. BootstrappedFirst'
    BY <1>2, AtWork DEF BootstrappedFirst, At
  <1>8. /\ service' \in [Services -> Images \cup {Down}]
        /\ verified' \in SUBSET Images /\ verified \subseteq verified'
    BY AtWork
  <1> QED
    BY <1>1, <1>3, <1>4, <1>5, <1>6, <1>7, <1>8, Moves

(* The last command has printed both containers.                           *)
LEMMA PromotedStep ==
    ASSUME PInv, TypeOK', [Next]_vars, NEW a \in Inits, Promoted(a)
    PROVE  PInv'
  <1>1. /\ StepIs(a, "ps") /\ GoOn(a, "promoted") /\ Active(a)
        /\ UNCHANGED <<init, service, recorded, verified>>
    BY DEF Promoted, Active, Armed, StepIs
  <1>2. "promoted" \in ScriptSteps \ {"new", "refused", "restored"}
    BY DEF ScriptSteps, Over
  <1>3. /\ script'[a].step = "promoted"
        /\ script'[a].image = script[a].image
        /\ script'[a].previous = script[a].previous
    BY <1>1, <1>2, GoOnFacts DEF PInv
  <1>4. /\ \A s \in Services : service[s] = script[a].image
        /\ recorded["previous"] = script[a].previous
        /\ recorded["current"] = script[a].image
        /\ script[a].image \in verified
        /\ At(a, "done")
    BY <1>1, AtWork DEF SettledAt, RanInitAt, StepIs
  <1>5. SettledAt(a)' /\ EndsAt(a)'
    BY <1>1, <1>3, <1>4 DEF SettledAt, EndsAt, StepIs
  <1>6. service["api"] \in verified /\ At(a, "done")'
    BY <1>1, <1>4 DEF Services, At
  <1> QED
    BY <1>1, <1>2, <1>5, <1>6, Quietly

(* A command fails, or the script is killed.                               *)
LEMMA StopStep ==
    ASSUME PInv, TypeOK', [Next]_vars, NEW a \in Inits,
           CommandFails(a) \/ Kill(a)
    PROVE  PInv'
  <1>1. PICK t \in {"rollback", "intervene", "killed"} : GoOn(a, t)
    BY DEF CommandFails, Kill, Trap
  <1>2. Active(a) /\ UNCHANGED <<service, recorded, verified>>
    BY DEF CommandFails, Kill, Active
  <1>3. t \in ScriptSteps \ {"new", "refused", "restored"}
    BY DEF ScriptSteps, Recovery, Over
  <1>4. SettledAt(a)' /\ EndsAt(a)'
    BY <1>1, <1>3, GoOnFacts DEF PInv, SettledAt, EndsAt, StepIs
  <1> QED
    BY <1>1, <1>2, <1>3, <1>4, Quietly

(* The commands of a script, one by one.                                   *)
LEMMA ProceedStep ==
    ASSUME PInv, TypeOK', [Next]_vars, NEW a \in Inits, Proceed(a)
    PROVE  PInv'
  <1>1. CASE RecordPrevious(a)
    BY <1>1, RecordStep, AtWork DEF RecordPrevious
  <1>2. CASE RecordCurrent(a)
    BY <1>2, RecordStep, AtWork DEF RecordCurrent
  <1>3. CASE RecordFails(a)
    <2>1. GoOn(a, "rollback") /\ UNCHANGED init
      BY <1>3 DEF RecordFails, Trap, Armed, StepIs
    <2> QED
      BY <1>3, <2>1, RecordStep DEF RecordFails, StepIs
  <1> QED
    BY <1>1, <1>2, <1>3, EarlyStep, ReplaceStep, ReplacedStep, HealthyStep,
       PromotedStep, StopStep, ReplaceFailsStep DEF Proceed

-----------------------------------------------------------------------------
(* What is served.                                                         *)

(* A script moves by a command of its own, or begins.                      *)
LEMMA ScriptWriters ==
    ASSUME PInv, PromotionNext
    PROVE  \/ UNCHANGED script
           \/ \E a \in Inits, t \in ScriptSteps \ {"new"} :
                  Active(a) /\ GoOn(a, t)
           \/ \E a \in Inits, image \in Images : Start(a, image)
  <1>1. ASSUME NEW a \in Inits, Proceed(a) \/ Kill(a)
        PROVE  \/ UNCHANGED script
               \/ \E t \in ScriptSteps \ {"new"} : Active(a) /\ GoOn(a, t)
    BY <1>1
       DEF Proceed, Kill, Bootstrap, Bootstrapped, Replace, Replaced, Healthy,
           RecordPrevious, RecordCurrent, Promoted, CommandFails, ReplaceFails,
           RecordFails, Trap, Active, StepIs, Armed, Recovery, Over, ScriptSteps
  <1> QED
    BY <1>1 DEF PromotionNext, IngestStep, RunByHand

(* What disturbs the peace disturbs it for good.                           *)
LEMMA PeaceBefore ==
    ASSUME PInv, PromotionNext, Peaceful'
    PROVE  Peaceful
  <1> SUFFICES ASSUME NEW b \in Inits
               PROVE  (StepIs(b, "new") => At(b, "new")) /\ ~StepIs(b, "killed")
    BY DEF Peaceful
  <1>1. TypeOK /\ [Next]_vars /\ PromotionTypes
    BY IngestsGoOn DEF PInv, PromotionTypes
  <1>2. At(b, "new")' => At(b, "new")
    BY <1>1, IngestsStay
  <1>3. (StepIs(b, "new")' => At(b, "new")') /\ ~StepIs(b, "killed")'
    BY DEF Peaceful
  <1>4. CASE script'[b] = script[b]
    BY <1>2, <1>3, <1>4 DEF StepIs
  <1>5. CASE script'[b] # script[b]
    <2>1. CASE \E a \in Inits, t \in ScriptSteps \ {"new"} :
                   Active(a) /\ GoOn(a, t)
      <3>1. Active(b)
        BY <1>1, <1>5, <2>1, GoOnFacts
      <3> QED
        BY <3>1 DEF Active, StepIs, Armed, Recovery
    <2>2. CASE \E a \in Inits, image \in Images : Start(a, image)
      <3>1. PICK a \in Inits, image \in Images : Start(a, image)
        BY <2>2
      <3>2. a = b
        BY <1>1, <1>5, <3>1 DEF Start, PromotionTypes
      <3> QED
        BY <3>1, <3>2 DEF Start, StepIs
    <2> QED
      BY <1>5, <2>1, <2>2, ScriptWriters
  <1> QED
    BY <1>4, <1>5

(* What an ingest knows concerns the table and itself.                     *)
LEMMA CurrentKept ==
    ASSUME NEW b \in Inits, Current(b), init'[b] = init[b],
           rows' = rows \/ init[b].step \in {"new"} \cup Ended
    PROVE  Current(b)'
  BY DEF Current, Differs, Stale, Open, Ended

(* Nothing the promise speaks of has changed.                              *)
LEMMA SameServes ==
    ASSUME \A b \in Inits : ServesAt(b), UNCHANGED <<rows, init, script>>
    PROVE  \A b \in Inits : ServesAt(b)'
  <1> SUFFICES ASSUME NEW b \in Inits PROVE ServesAt(b)'
    OBVIOUS
  <1>1. Current(b)'
    BY CurrentKept DEF ServesAt
  <1>2. BehindInit(b)' => BehindInit(b)
    BY DEF BehindInit, Latest, StepIs, At
  <1>3. Stores(b, Docs[script[b].image]) => Stores(b, Docs[script[b].image])'
    BY DEF Stores, Texts, Image
  <1> QED
    BY <1>1, <1>2, <1>3 DEF ServesAt, StepIs, At, Ingested

(* A command that is not the init container's.                             *)
LEMMA CommandServes ==
    ASSUME PInv, \A b \in Inits : ServesAt(b),
           NEW a \in Inits, Active(a), ~StepIs(a, "init") \/ init[a].step \in Ended,
           NEW t \in ScriptSteps \ {"new", "pull", "init"}, GoOn(a, t),
           UNCHANGED <<rows, init>>,
           t \in {"up", "health", "previous", "current", "ps", "promoted"} =>
               BehindInit(a)
    PROVE  \A b \in Inits : ServesAt(b)'
  <1>1. /\ script'[a].step = t /\ script'[a].image = script[a].image
        /\ \A b \in Inits \ {a} : script'[b] = script[b]
    BY GoOnFacts DEF PInv
  <1>2. script[a].step # "new"
    BY DEF Active, Armed, Recovery
  <1>3. \A b \in Inits : Latest(b)' => Latest(b)
    BY <1>1, <1>2 DEF Latest, StepIs
  <1>4. ASSUME NEW b \in Inits
        PROVE  BehindInit(b)' => BehindInit(b)
    <2>1. CASE b = a
      BY <1>1, <2>1 DEF BehindInit, StepIs
    <2>2. CASE b # a
      BY <1>1, <1>3, <2>2 DEF BehindInit, StepIs, At
    <2> QED
      BY <2>1, <2>2
  <1>5. ASSUME NEW b \in Inits
        PROVE  ServesAt(b)'
    <2>1. Current(b)'
      BY CurrentKept DEF ServesAt
    <2>2. BehindInit(b)' /\ Ingested(b) => Stores(b, Docs[script[b].image])'
      BY <1>1, <1>4 DEF ServesAt, Stores, Texts, Image
    <2>3. ~StepIs(b, "init")' => init[b].step \in {"new"} \cup Ended
      BY <1>1 DEF ServesAt, StepIs
    <2>4. /\ StepIs(b, "pull")' => At(b, "new")
          /\ StepIs(b, "init")' => \/ init[b].files = Docs[script'[b].image]
                                   \/ ~Ingested(b) /\ At(b, "done")
      BY <1>1 DEF ServesAt, StepIs
    <2> QED
      BY <2>1, <2>2, <2>3, <2>4 DEF ServesAt, At, Ingested
  <1> QED
    BY <1>5

(* The init container starts with nothing of its own.                      *)
LEMMA BootstrapServes ==
    ASSUME PInv, \A b \in Inits : ServesAt(b), NEW a \in Inits, Bootstrap(a)
    PROVE  \A b \in Inits : ServesAt(b)'
  <1>1. /\ StepIs(a, "pull") /\ (Launch(a, Docs[script[a].image]) \/ Skip(a))
        /\ GoOn(a, "init") /\ "init" \in ScriptSteps
    BY DEF Bootstrap, ScriptSteps, Armed
  <1>2. /\ script'[a].step = "init" /\ script'[a].image = script[a].image
        /\ \A b \in Inits \ {a} : script'[b] = script[b]
    BY <1>1, GoOnFacts DEF PInv
  <1>3. /\ rows' = rows /\ init[a].step = "new"
        /\ init'[a].deletes = init[a].deletes
        /\ \A b \in Inits \ {a} : init'[b] = init[b]
        /\ \/ /\ init'[a].step \in {"read", "failed"}
              /\ init'[a].files = Docs[script[a].image]
           \/ /\ init'[a].step = "done"
              /\ init'[a].files = init[a].files
    BY <1>1 DEF Launch, Skip, Goto, At, PInv, PromotionTypes, TypeOK
  <1>6. init[a].files = NoFiles
    BY <1>3 DEF ServesAt, At, Ingested
  <1>4. ServesAt(a)'
    <2>1. init[a].deletes = {}
      BY <1>3 DEF ServesAt, Current
    <2>2. Current(a)'
      BY <1>3, <2>1 DEF Current, Open
    <2>3. ~(BehindInit(a)' /\ Ingested(a)')
      BY <1>2, <1>3, <1>6 DEF BehindInit, StepIs, At, Ingested
    <2> QED
      BY <1>2, <1>3, <1>6, <2>2, <2>3 DEF ServesAt, StepIs, At, Ingested
  <1>5. ASSUME NEW b \in Inits \ {a}
        PROVE  ServesAt(b)'
    <2>1. Current(b)'
      BY <1>3, CurrentKept DEF ServesAt
    <2>2. Latest(b)' => Latest(b)
      BY <1>1, <1>2 DEF Latest, StepIs
    <2>3. BehindInit(b)' => BehindInit(b)
      BY <1>2, <1>3, <2>2 DEF BehindInit, StepIs, At
    <2>4. BehindInit(b)' /\ Ingested(b) => Stores(b, Docs[script[b].image])'
      BY <1>2, <1>3, <2>3 DEF ServesAt, Stores, Texts, Image
    <2> QED
      BY <1>2, <1>3, <2>1, <2>4 DEF ServesAt, StepIs, At, Ingested
  <1> QED
    BY <1>4, <1>5

(* A script begins: none that was the last before it is the last.          *)
LEMMA StartServes ==
    ASSUME PInv, \A b \in Inits : ServesAt(b), NEW a \in Inits,
           NEW image \in Images, Start(a, image)
    PROVE  \A b \in Inits : ServesAt(b)'
  <1>1. /\ StepIs(a, "new") /\ At(a, "new") /\ UNCHANGED <<rows, init>>
        /\ script'[a].step \in {"pull", "refused"}
        /\ \A b \in Inits \ {a} : script'[b] = script[b]
    BY DEF Start, PInv, PromotionTypes
  <1>2. ServesAt(a)'
    <2>1. Current(a)'
      BY <1>1, CurrentKept DEF ServesAt
    <2>2. ~BehindInit(a)'
      BY <1>1 DEF BehindInit, StepIs
    <2> QED
      BY <1>1, <2>1, <2>2 DEF ServesAt, StepIs, At, Ingested
  <1>3. ASSUME NEW b \in Inits \ {a}
        PROVE  ServesAt(b)'
    <2>1. Current(b)'
      BY <1>1, CurrentKept DEF ServesAt
    <2>2. Latest(b)' => Latest(b)
      BY <1>1 DEF Latest, StepIs
    <2>3. BehindInit(b)' /\ Ingested(b) => Stores(b, Docs[script[b].image])'
      BY <1>1, <2>2 DEF ServesAt, BehindInit, Stores, Texts, Image, StepIs, At
    <2> QED
      BY <1>1, <2>1, <2>3 DEF ServesAt, StepIs, At, Ingested
  <1> QED
    BY <1>2, <1>3

(* An ingest's step concerns itself, and only its commit is its end.       *)
LEMMA IngestFacts ==
    ASSUME TypeOK, NEW i \in Inits, Ingest(i)
    PROVE  /\ \A b \in Inits \ {i} : init'[b] = init[b]
           /\ init'[i].files = init[i].files
           /\ init[i].step \notin {"new"} \cup Ended
           /\ At(i, "done")' => Commit(i)
           /\ ~At(i, "new")'
  <1> USE DEF TypeOK, At, Ended
  <1>1. CASE Compare(i)
    BY <1>1 DEF Compare
  <1>2. CASE Begin(i)
    BY <1>2 DEF Begin
  <1>3. CASE \E d \in Documents : StartDelete(i, d)
    BY <1>3 DEF StartDelete
  <1>4. CASE EndDelete(i)
    BY <1>4 DEF EndDelete
  <1>5. CASE Insert(i)
    <2> DEFINE outcome == Outcome(i, Image(i, init[i].files, init[i].changed))
               inserts == IF outcome = "inserted"
                          THEN Image(i, init[i].files, init[i].changed) ELSE {}
    <2>1. outcome \in {"failed", "inserted"}
      BY DEF Outcome
    <2>2. /\ init[i].step = "open"
          /\ init' = [init EXCEPT ![i].step = outcome, ![i].inserts = inserts]
      BY <1>5 DEF Insert
    <2> HIDE DEF outcome, inserts
    <2> QED
      BY <2>1, <2>2
  <1>6. CASE Commit(i)
    BY <1>6 DEF Commit, Goto
  <1>7. CASE Fail(i)
    BY <1>7 DEF Fail, Goto
  <1> QED
    BY <1>1, <1>2, <1>3, <1>4, <1>5, <1>6, <1>7 DEF Ingest

(* The ingest at work is that of the script that waits for it, and no      *)
(* other script has documents to lose.                                     *)
LEMMA IngestServes ==
    ASSUME IInv, PInv, \A b \in Inits : ServesAt(b), NEW i \in Inits, IngestStep(i)
    PROVE  \A b \in Inits : ServesAt(b)'
  <1>1. /\ Ingest(i) /\ script' = script
        /\ \A b \in Inits \ {i} : init'[b] = init[b]
        /\ init'[i].files = init[i].files
        /\ init[i].step \notin {"new"} \cup Ended
        /\ At(i, "done")' => Commit(i)
        /\ ~At(i, "new")'
    BY IngestFacts DEF IngestStep, IInv
  <1>2. StepIs(i, "init") /\ Active(i)
    BY <1>1 DEF ServesAt, Active, StepIs, Armed
  <1>3. ServesAt(i)'
    <2>1. Current(i)'
      BY <1>1, CurrentStep DEF IInv, ServesAt
    <2>2. init[i].files = Docs[script[i].image]
      BY <1>1, <1>2 DEF ServesAt, At, Ended
    <2>3. BehindInit(i)' => Stores(i, Docs[script[i].image])'
      <3>1. SUFFICES ASSUME BehindInit(i)'
                     PROVE  Stores(i, Docs[script[i].image])'
        OBVIOUS
      <3>2. Commit(i)
        BY <1>1, <1>2, <3>1 DEF BehindInit, StepIs
      <3>3. Texts(rows') = Texts(Image(i, init[i].files, Documents))
        BY <3>2, CommitSynchronizes DEF ServesAt
      <3> QED
        BY <1>1, <2>2, <3>3 DEF Stores, Texts, Image
    <2> QED
      BY <1>1, <1>2, <2>1, <2>2, <2>3 DEF ServesAt, StepIs
  <1>4. ASSUME NEW b \in Inits \ {i}
        PROVE  ServesAt(b)'
    <2>1. ~Active(b) /\ (Latest(b) => StepIs(b, "new"))
      BY <1>2, OnlyOne DEF PInv
    <2>2. init[b].step \in {"new"} \cup Ended
      BY <2>1 DEF ServesAt, Active, StepIs, Armed
    <2>3. Current(b)'
      BY <1>1, <2>2, CurrentKept DEF ServesAt
    <2>4. ~BehindInit(b)'
      BY <1>1, <2>1 DEF BehindInit, Active, Armed, StepIs, Latest
    <2> QED
      BY <1>1, <2>1, <2>2, <2>3, <2>4 DEF ServesAt, StepIs, At, Active, Armed,
         Ingested
  <1> QED
    BY <1>3, <1>4

LEMMA ServesStep ==
    ASSUME IInv, PInv, SInv, [PromotionNext]_promotionVars
    PROVE  SInv'
  <1>1. CASE UNCHANGED promotionVars
    BY <1>1, SameServes DEF promotionVars, SInv, Peaceful, StepIs, At
  <1>2. CASE PromotionNext
    <2> SUFFICES ASSUME Peaceful' PROVE \A b \in Inits : ServesAt(b)'
      BY DEF SInv
    <2>1. \A b \in Inits : ServesAt(b)
      BY <1>2, PeaceBefore DEF SInv
    <2>2. ASSUME NEW a \in Inits, Kill(a)
          PROVE  FALSE
      <3>1. GoOn(a, "killed") /\ "killed" \in ScriptSteps
        BY <2>2 DEF Kill, ScriptSteps, Over
      <3>2. script'[a].step = "killed"
        BY <3>1, GoOnFacts DEF PInv
      <3> QED
        BY <3>2 DEF Peaceful, StepIs
    <2>3. ASSUME NEW a \in Inits, NEW image \in Images, RunByHand(a, image)
          PROVE  FALSE
      <3>1. /\ StepIs(a, "new")' /\ At(a, "new")
            /\ init'[a].step \in {"read", "failed"}
        BY <2>3 DEF RunByHand, Launch, StepIs, At, PInv, PromotionTypes, TypeOK
      <3> QED
        BY <3>1 DEF Peaceful, At
    <2>4. ASSUME NEW a \in Inits, Proceed(a), ~Bootstrap(a)
          PROVE  \A b \in Inits : ServesAt(b)'
      <3>1. UNCHANGED <<rows, init>>
        BY <2>4 DEF Proceed, Bootstrapped, Replace, Replaced, Healthy,
                    RecordPrevious, RecordCurrent, Promoted, CommandFails,
                    ReplaceFails, RecordFails
      <3>2. CASE \E s \in Services : Replace(a, s)
        BY <2>1, <3>1, <3>2, SameServes DEF Replace
      <3>3. CASE ~\E s \in Services : Replace(a, s)
        <4>1. PICK t \in ScriptSteps \ {"new", "pull", "init"} :
                  /\ Active(a) /\ GoOn(a, t)
                  /\ ~StepIs(a, "init") \/ init[a].step \in Ended
                  /\ t \in {"up", "health", "previous", "current", "ps",
                            "promoted"} => BehindInit(a)
          BY <2>4, <3>3
             DEF Proceed, Bootstrapped, Completed, Replaced, Healthy,
                 RecordPrevious, RecordCurrent, Promoted, CommandFails,
                 InitFailed, ReplaceFails, RecordFails, Trap, Active,
                 BehindInit, StepIs, At, Armed, Recovery, Over, Ended,
                 ScriptSteps
        <4> QED
          BY <2>1, <3>1, <4>1, CommandServes
      <3> QED
        BY <3>2, <3>3
    <2> QED
      BY <1>2, <2>1, <2>2, <2>3, <2>4, BootstrapServes, StartServes,
         IngestServes
         DEF PromotionNext
  <1> QED
    BY <1>1, <1>2

-----------------------------------------------------------------------------
(* Results.                                                                *)

(* Both services on the first image, and no script begun.                  *)
LEMMA PromotionInitHolds == PromotionInit => PInv
  <1> SUFFICES ASSUME PromotionInit PROVE PInv
    OBVIOUS
  <1>1. IInv
    BY InitHolds DEF PromotionInit
  <1>2. PromotionTypes
    BY <1>1, PromotionAssumption DEF PromotionInit, PromotionTypes, IInv
  <1>3. RanInit /\ PreviousRanInit /\ BootstrappedFirst
    BY DEF PromotionInit, RanInit, RanInitAt, PreviousRanInit, BootstrappedFirst
  <1>4. InOrder /\ Alone
    BY DEF PromotionInit, InOrder, Alone, Active, Latest, StepIs, Armed, Recovery
  <1>5. Settled /\ EndsWhole
    BY DEF PromotionInit, Settled, SettledAt, EndsWhole, StepIs
  <1>6. RollbackIsVerified /\ QuietIsVerified
    BY DEF PromotionInit, RollbackIsVerified, QuietIsVerified, Services, Armed,
           Recovery
  <1> QED
    BY <1>2, <1>3, <1>4, <1>5, <1>6 DEF PInv

(* Before the first script there is nothing to serve.                      *)
LEMMA PromotionInitServes == PromotionInit => SInv
  <1> SUFFICES ASSUME PromotionInit, NEW a \in Inits PROVE ServesAt(a)
    BY DEF SInv
  <1>1. /\ init[a].step = "new" /\ init[a].deletes = {}
        /\ init[a].files = NoFiles /\ script[a].step = "new"
    BY DEF PromotionInit, Init
  <1>2. Current(a)
    BY <1>1 DEF Current, Open
  <1> QED
    BY <1>1, <1>2 DEF ServesAt, BehindInit, StepIs, Ingested

(* The scripts keep the invariant of the ingests, which run as they do     *)
(* alone.                                                                  *)
THEOREM PromotionInductive == PromotionSpec => [](IInv /\ PInv)
  <1>1. PromotionInit => IInv /\ PInv
    BY InitHolds, PromotionInitHolds DEF PromotionInit
  <1>2. ASSUME IInv, PInv, [PromotionNext]_promotionVars
        PROVE  IInv' /\ PInv'
    <2>1. [Next]_vars
      BY <1>2, IngestsGoOn DEF PInv
    <2>2. IInv'
      BY <1>2, <2>1, TypeStep, WholeStep, UnwrittenStep, TogetherStep,
         InsertedStep, ApartStep DEF IInv
    <2>3. TypeOK'
      BY <2>2 DEF IInv
    <2>4. CASE UNCHANGED promotionVars
      BY <1>2, <2>1, <2>2, <2>3, <2>4, Rests DEF promotionVars
    <2>5. CASE PromotionNext
      BY <1>2, <2>1, <2>2, <2>3, <2>5, Rests, StartStep, ProceedStep, StopStep
         DEF PromotionNext, IngestStep, RunByHand
    <2> QED
      BY <1>2, <2>2, <2>4, <2>5
  <1> QED
    BY <1>1, <1>2, PTL DEF PromotionSpec

(* The scripts, the services and the ingests keep their types.             *)
THEOREM PromotionTyped == PromotionSpec => []PromotionTypes
  <1>1. PInv => PromotionTypes
    BY DEF PInv
  <1> QED
    BY PromotionInductive, <1>1, PTL

(* Whichever scripts and ingests by hand overlap, the stored chunks of a   *)
(* document are those of one text.                                         *)
THEOREM PromotedDocumentsAreWhole == PromotionSpec => []WholeDocuments
  <1>1. IInv => WholeDocuments
    BY DEF IInv
  <1> QED
    BY PromotionInductive, <1>1, PTL

(* No service runs an image whose init container has not completed.        *)
THEOREM InitComesFirst == PromotionSpec => []BootstrappedFirst
  <1>1. PInv => BootstrappedFirst
    BY DEF PInv
  <1> QED
    BY PromotionInductive, <1>1, PTL

(* A script that ends by itself leaves both services on one image.         *)
THEOREM ScriptsEndWhole == PromotionSpec => []EndsWhole
  <1>1. PInv => EndsWhole
    BY DEF PInv
  <1> QED
    BY PromotionInductive, <1>1, PTL

(* What a script would restore has been found healthy on both services.    *)
THEOREM RollbacksAreVerified == PromotionSpec => []RollbackIsVerified
  <1>1. PInv => RollbackIsVerified
    BY DEF PInv
  <1> QED
    BY PromotionInductive, <1>1, PTL

(* The chunks of a document that is stored cover it, whichever image's     *)
(* init container has stored it.                                           *)
THEOREM PromotedTextsAreCovered == PromotionSpec => []TextsCovered
  BY PromotionInductive, WholeCovers, PTL

(* What the last script knows of its documents is kept while nobody runs   *)
(* an ingest by hand and no script is killed.                              *)
THEOREM PeaceServes == PromotionSpec => []SInv
  <1>1. IInv /\ PInv /\ SInv /\ [PromotionNext]_promotionVars => SInv'
    BY ServesStep
  <1> QED
    BY PromotionInductive, PromotionInitServes, <1>1, PTL DEF PromotionSpec

(* Once an image is promoted whose init had a key, and no other ingest is  *)
(* at work, retrieval finds the documents the image carries and no others. *)
THEOREM PromotionServesItsDocuments == PromotionSpec => []ServesItsDocuments
  <1>1. SInv => ServesItsDocuments
    <2> SUFFICES ASSUME SInv, NEW a \in Inits,
                        StepIs(a, "promoted"), Ingested(a), Latest(a),
                        \A b \in Inits \ {a} :
                            /\ StepIs(b, "new") => At(b, "new")
                            /\ ~StepIs(b, "killed")
                 PROVE  Texts(rows) = Texts(Image(a, Docs[script[a].image], Documents))
      BY DEF ServesItsDocuments
    <2>1. Peaceful
      BY DEF Peaceful, StepIs
    <2>2. ServesAt(a) /\ BehindInit(a)
      BY <2>1 DEF SInv, BehindInit
    <2> QED
      BY <2>2 DEF ServesAt, Stores
  <1> QED
    BY PeaceServes, <1>1, PTL

=============================================================================
