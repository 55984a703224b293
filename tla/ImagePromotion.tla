--------------------------- MODULE ImagePromotion ---------------------------
(***************************************************************************)
(* deploy/ec2/promote.sh on the host: the new image's init container, then *)
(* the replacement of the API and the worker, the health checks, the two   *)
(* files that record the promotion, and the ERR trap that brings both      *)
(* services back to the image they ran before.  The workflow runs one      *)
(* script at a time; one that is killed runs no trap, and its init         *)
(* container goes on beside whatever the next one starts.                  *)
(*                                                                         *)
(* Images differ in the documents they carry.  A service runs an image or  *)
(* is down; there is no restart policy, and a container that has started   *)
(* stays up.  Ingests are numbered: a number stands for the init container *)
(* of one run of the script, or for one ingest run by hand.                *)
(***************************************************************************)
EXTENDS HelpIngest

CONSTANTS
    Images,
    Baseline,       \* the image both services run at first
    Docs,           \* the files of each image
    Down            \* a service without a container

ASSUME PromotionAssumption ==
    /\ Inits \subseteq Nat
    /\ Baseline \in Images
    /\ Docs \in [Images -> Files]
    /\ Down \notin Images

Services == {"api", "worker"}

VARIABLES
    service,        \* what the containers of the API and the worker run
    script,         \* the step of each script, its image and the previous one
    recorded,       \* previous-image.txt and current-image.txt
    verified        \* history: the images found healthy on both services

promotionVars == <<rows, init, service, script, recorded, verified>>

Armed == {"pull", "init", "up", "health", "previous", "current", "ps"}
Recovery == {"rollback", "recheck"}
Over == {"promoted", "refused", "restored", "intervene", "killed"}

PromotionTypes ==
    /\ TypeOK
    /\ service \in [Services -> Images \cup {Down}]
    /\ script \in [Inits -> [step : {"new"} \cup Armed \cup Recovery \cup Over,
                                image : Images, previous : Images]]
    /\ recorded \in [{"previous", "current"} -> Images \cup {None}]
    /\ verified \in SUBSET Images

PromotionInit ==
    /\ Init
    /\ service = [s \in Services |-> Baseline]
    /\ script = [a \in Inits |-> [step |-> "new", image |-> Baseline,
                                     previous |-> Baseline]]
    /\ recorded = [f \in {"previous", "current"} |-> None]
    /\ verified = {Baseline}

StepIs(a, step) == script[a].step = step

GoOn(a, step) == script' = [script EXCEPT ![a].step = step]

-----------------------------------------------------------------------------

(* Mutant: two services without a container pass for a pair.               *)
SameName == service["worker"] = service["api"]

(* Both services run one image, the one a rollback restores.               *)
SamePair == service["api"] # Down /\ service["worker"] = service["api"]

Start(a, image) ==
    /\ StepIs(a, "new") /\ At(a, "new")
    /\ \A b \in Inits : b < a => script[b].step \in Over \/ ~At(b, "new")
    /\ \A b \in Inits : script[b].step \notin Armed \cup Recovery
    /\ script' = [script EXCEPT
           ![a] = [step |-> IF SamePair THEN "pull" ELSE "refused",
                   image |-> image,
                   previous |-> IF SamePair THEN service["api"] ELSE @.previous]]
    /\ UNCHANGED <<rows, init, service, recorded, verified>>

(* The image has been pulled and its init container starts, with a key for *)
(* the model's endpoint or without one ...                                 *)
Bootstrap(a) ==
    /\ StepIs(a, "pull")
    /\ Launch(a, Docs[script[a].image]) \/ Skip(a)
    /\ GoOn(a, "init")
    /\ UNCHANGED <<service, recorded, verified>>

(* Mutant: the init container is started and not waited for.               *)
Launched(a) == ~At(a, "new")

Completed(a) == At(a, "done")

(* ... and ends: docker compose run waits for it.                          *)
Bootstrapped(a) ==
    /\ StepIs(a, "init")
    /\ Completed(a)
    /\ GoOn(a, "up")
    /\ UNCHANGED <<rows, init, service, recorded, verified>>

Target(a) ==
    IF StepIs(a, "up") THEN script[a].image ELSE script[a].previous

(* docker compose up replaces the two containers in either order ...       *)
Replace(a, s) ==
    /\ script[a].step \in {"up", "rollback"}
    /\ service[s] # Target(a)
    /\ service' = [service EXCEPT ![s] = Target(a)]
    /\ UNCHANGED <<rows, init, script, recorded, verified>>

(* Mutant: only the API is brought back.                                   *)
ApiReplaced(a) == service["api"] = Target(a)

AllReplaced(a) == \A s \in Services : service[s] = Target(a)

(* ... and is done when both run its image.                                *)
Replaced(a) ==
    /\ script[a].step \in {"up", "rollback"}
    /\ AllReplaced(a)
    /\ GoOn(a, IF StepIs(a, "up") THEN "health" ELSE "recheck")
    /\ UNCHANGED <<rows, init, service, recorded, verified>>

(* /ready and the worker's health key answer within the 30 attempts.       *)
Healthy(a) ==
    \/ /\ StepIs(a, "health")
       /\ GoOn(a, "previous")
       /\ verified' = verified \cup {script[a].image}
       /\ UNCHANGED <<rows, init, service, recorded>>
    \/ /\ StepIs(a, "recheck")
       /\ GoOn(a, "restored")
       /\ verified' = verified \cup {script[a].previous}
       /\ UNCHANGED <<rows, init, service, recorded>>

RecordPrevious(a) ==
    /\ StepIs(a, "previous")
    /\ recorded' = [recorded EXCEPT !["previous"] = script[a].previous]
    /\ GoOn(a, "current")
    /\ UNCHANGED <<rows, init, service, verified>>

RecordCurrent(a) ==
    /\ StepIs(a, "current")
    /\ recorded' = [recorded EXCEPT !["current"] = script[a].image]
    /\ GoOn(a, "ps")
    /\ UNCHANGED <<rows, init, service, verified>>

Promoted(a) ==
    /\ StepIs(a, "ps")
    /\ GoOn(a, "promoted")
    /\ UNCHANGED <<rows, init, service, recorded, verified>>

-----------------------------------------------------------------------------
(* A command fails: the trap begins the rollback, and a failure of the     *)
(* rollback is left to an operator.                                        *)

(* Mutant: the trap is not inherited by the function that checks health.   *)
TrapOutside(a) ==
    IF StepIs(a, "health") THEN "refused"
    ELSE IF script[a].step \in Armed THEN "rollback" ELSE "intervene"

Trap(a) == IF script[a].step \in Armed THEN "rollback" ELSE "intervene"

(* Mutant: init is polled until it has completed.                          *)
NeverNoticed(a) == FALSE

InitFailed(a) == At(a, "failed")

(* The init container's failure is the one docker compose run waits for,   *)
(* and up is done once it has replaced both.                               *)
CommandFails(a) ==
    /\ script[a].step \in Armed \cup Recovery
    /\ StepIs(a, "init") => InitFailed(a)
    /\ GoOn(a, Trap(a))
    /\ UNCHANGED <<rows, init, service, recorded, verified>>

(* A container that up has removed does not start.                         *)
ReplaceFails(a, s) ==
    /\ script[a].step \in {"up", "rollback"}
    /\ service[s] # Target(a)
    /\ service' = [service EXCEPT ![s] = Down]
    /\ GoOn(a, Trap(a))
    /\ UNCHANGED <<rows, init, recorded, verified>>

(* The disk is full: the redirection has emptied the file.                 *)
RecordFails(a) ==
    /\ script[a].step \in {"previous", "current"}
    /\ recorded' = [recorded EXCEPT ![script[a].step] = None]
    /\ GoOn(a, Trap(a))
    /\ UNCHANGED <<rows, init, service, verified>>

(* The script is killed, between two commands or with the one it waits for.*)
Kill(a) ==
    /\ script[a].step \in Armed \cup Recovery
    /\ GoOn(a, "killed")
    /\ UNCHANGED <<rows, init, service, recorded, verified>>

-----------------------------------------------------------------------------

Proceed(a) ==
    \/ Bootstrap(a)
    \/ Bootstrapped(a)
    \/ \E s \in Services : Replace(a, s)
    \/ Replaced(a)
    \/ Healthy(a)
    \/ RecordPrevious(a)
    \/ RecordCurrent(a)
    \/ Promoted(a)
    \/ CommandFails(a)
    \/ \E s \in Services : ReplaceFails(a, s)
    \/ RecordFails(a)

IngestStep(i) == Ingest(i) /\ UNCHANGED <<service, script, recorded, verified>>

(* scripts/ingest_help.py is run by hand in a container of some image.     *)
RunByHand(i, image) ==
    /\ StepIs(i, "new")
    /\ Launch(i, Docs[image])
    /\ UNCHANGED <<service, script, recorded, verified>>

PromotionNext ==
    \E i \in Inits :
        \/ Proceed(i) \/ Kill(i) \/ IngestStep(i)
        \/ \E image \in Images : Start(i, image) \/ RunByHand(i, image)

PromotionSpec == PromotionInit /\ [][PromotionNext]_promotionVars

(* The script goes on, and so does an init container: its statements end   *)
(* unless two wait for each other, which PostgreSQL ends after             *)
(* deadlock_timeout.                                                       *)
Waits(i, j) ==
    /\ i # j
    /\ \/ /\ At(i, "deleting")
          /\ init[j].step \in Open
          /\ init[j].deletes \cap init[i].target # {}
       \/ /\ At(i, "open") /\ init[i].todo = {}
          /\ init[j].step \in Open
          /\ \E row \in Image(i, init[i].files, init[i].changed),
                other \in Undecided(i, j) :
                 other.document = row.document /\ Index(other) = Index(row)

Deadlocked(i) == \E j \in Inits : Waits(i, j) /\ Waits(j, i)

Advance(i) ==
    \/ Compare(i)
    \/ Begin(i)
    \/ \E d \in Documents : StartDelete(i, d)
    \/ EndDelete(i)
    \/ Insert(i)
    \/ Commit(i)
    \/ Deadlocked(i) /\ Fail(i)

PromotionFairness ==
    \A i \in Inits :
        /\ WF_promotionVars(Proceed(i))
        /\ WF_promotionVars(Advance(i) /\ UNCHANGED <<service, script, recorded, verified>>)

PromotionFairSpec == PromotionSpec /\ PromotionFairness

-----------------------------------------------------------------------------
(* Properties.                                                             *)

(* An earlier script has ended without the trap, or asked for an operator.*)
Disturbed(a) ==
    \E b \in Inits : b < a /\ script[b].step \in {"killed", "intervene"}

Latest(a) == \A b \in Inits : b > a => StepIs(b, "new")

(* deploy/ec2/README.md: "the script restores the prior pinned image": a   *)
(* script that ends by itself leaves both services on one image, the new   *)
(* one with both files naming it and its predecessor, or the previous one, *)
(* wherever a command failed.                                              *)
EndsWhole ==
    \A a \in Inits : Latest(a) =>
        /\ StepIs(a, "promoted") =>
               /\ \A s \in Services : service[s] = script[a].image
               /\ recorded["previous"] = script[a].previous
               /\ recorded["current"] = script[a].image
        /\ StepIs(a, "restored") =>
               \A s \in Services : service[s] = script[a].previous

(* "API and worker must have the same verified immutable rollback image":  *)
(* what a script would restore has been found healthy on both services,    *)
(* unless an earlier one was killed or has asked for an operator.          *)
RollbackIsVerified ==
    \A a \in Inits :
        script[a].step \in Armed \cup Recovery /\ ~Disturbed(a)
        => script[a].previous \in verified

(* No service runs an image whose init container has not completed: the    *)
(* schema, and with a key the documents, come first, through kills and     *)
(* rollbacks.                                                              *)
BootstrappedFirst ==
    \A s \in Services :
        \/ service[s] \in {Baseline, Down}
        \/ \E a \in Inits : script[a].image = service[s] /\ At(a, "done")

(* Without a key init leaves what is stored as it is, and has completed.   *)
Ingested(a) == init[a].files # NoFiles

(* README: "changed, added, or removed documents are synchronized": once an *)
(* image is promoted whose init had a key, and no other ingest is at work, *)
(* retrieval finds the documents the image carries and no others.          *)
ServesItsDocuments ==
    \A a \in Inits :
        /\ StepIs(a, "promoted")
        /\ Ingested(a)
        /\ Latest(a)
        /\ \A b \in Inits \ {a} :
               /\ StepIs(b, "new") => At(b, "new")
               /\ ~StepIs(b, "killed")
        => Texts(rows) = Texts(Image(a, Docs[script[a].image], Documents))

(* A script that has begun ends, whichever commands fail, and whatever the *)
(* init container of a killed one still holds locks on.                    *)
PromotionEnds ==
    \A a \in Inits : ~StepIs(a, "new") ~> script[a].step \in Over

=============================================================================
