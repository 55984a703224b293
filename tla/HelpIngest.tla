----------------------------- MODULE HelpIngest -----------------------------
(***************************************************************************)
(* The init container keeps help_document_embeddings in step with the      *)
(* files of docs/help, which are part of its image: it reads them, compares*)
(* fingerprints with those stored, embeds what changed and replaces it in  *)
(* one transaction.  Nothing is held between these steps, and a manual run *)
(* of scripts/ingest_help.py, or the init of another image, may be in      *)
(* between.                                                                *)
(*                                                                         *)
(* A text is its length and the positions of its blanks, and a version of  *)
(* a file stands for its fingerprint too: all ingests are configured with  *)
(* the same embedding model.  The statements of a transaction see what is  *)
(* committed, less what the transaction itself has deleted.                *)
(***************************************************************************)
EXTENDS Integers, FiniteSets

CONSTANTS
    Inits,          \* ingests
    Documents,      \* file names, numbered in their order
    Versions,       \* the texts a file can have
    Length,         \* of each text, with its whitespace normalized
    Blanks,         \* the positions of its blanks, counted from 0
    ChunkSize,
    Overlap,
    None            \* no such file

ASSUME IngestAssumption ==
    /\ Length \in [Versions -> Nat]
    /\ \A v \in Versions : Blanks[v] \subseteq 1 .. Length[v] - 2
    /\ ChunkSize \in Nat \ {0} /\ Overlap \in Nat
    /\ None \notin Versions
    /\ Documents \subseteq Nat

-----------------------------------------------------------------------------
(* chunk_text.                                                             *)

(* The blanks a chunk from start that is not the last can end at.          *)
Cuts(v, start) == {p \in Blanks[v] : start <= p /\ p < start + ChunkSize}

(* rfind is -1 when there is none, which counts as a position: the slice   *)
(* then ends before the last character of the text.                        *)
ChunkEnd(v, start) ==
    IF start + ChunkSize >= Length[v] THEN Length[v]
    ELSE IF Cuts(v, start) = {} THEN Length[v] - 1
    ELSE CHOOSE p \in Cuts(v, start) : \A q \in Cuts(v, start) : q <= p

(* Mutant: a chunk starts behind the blank the one before has ended at,    *)
(* found or not.                                                           *)
BehindEnd(v, start) ==
    IF ChunkEnd(v, start) < Length[v] THEN ChunkEnd(v, start) + 1
    ELSE Length[v]

(* The next chunk starts Overlap characters before the end of this one,    *)
(* and at least one further than this one did.                             *)
NextStart(v, start) ==
    LET end == IF Cuts(v, start) = {} /\ start + ChunkSize < Length[v]
               THEN -1 ELSE ChunkEnd(v, start)
    IN  IF end - Overlap > start THEN end - Overlap ELSE start + 1

(* The positions chunks start at: behind the last full chunk every tail of *)
(* the text that is not longer than Overlap follows.                       *)
Starts(v) ==
    LET from[start \in 0 .. Length[v]] ==
            IF start >= Length[v] THEN {}
            ELSE {start} \cup from[NextStart(v, start)]
    IN  {0} \cup (IF Length[v] <= ChunkSize THEN {} ELSE from[NextStart(v, 0)])

-----------------------------------------------------------------------------

Files == [Documents -> Versions \cup {None}]

(* chunk_index numbers the chunks by their starts.  A row is told from one *)
(* of the same text by the ingest that wrote it.                           *)
Rows ==
    UNION {[document : Documents, start : Starts(v), version : {v},
            by : Inits] : v \in Versions}

VARIABLES
    rows,           \* help_document_embeddings, committed
    init            \* the step of each ingest, what it read, what it changes

vars == <<rows, init>>

Open == {"open", "deleting", "inserted"}
Ended == {"done", "failed"}
Steps == {"new", "read", "compared"} \cup Open \cup Ended

TypeOK ==
    /\ rows \in SUBSET Rows
    /\ init \in [Inits -> [step : Steps, files : Files,
                           changed : SUBSET Documents,
                           todo : SUBSET Documents, target : SUBSET Rows,
                           deletes : SUBSET Rows, inserts : SUBSET Rows]]

-----------------------------------------------------------------------------

(* chunk_text and embed: the rows of the named documents.                  *)
Image(i, files, documents) ==
    UNION {{[document |-> d, start |-> n, version |-> files[d], by |-> i] :
                n \in Starts(files[d])} :
           d \in {e \in documents : files[e] # None}}

(* chunk_index of a row.                                                   *)
Index(row) == Cardinality({n \in 0 .. row.start - 1 : n \in Starts(row.version)})

NoFiles == [d \in Documents |-> None]

Init ==
    /\ rows = {}
    /\ init = [i \in Inits |-> [step |-> "new", files |-> NoFiles,
                                changed |-> {}, todo |-> {},
                                target |-> {}, deletes |-> {},
                                inserts |-> {}]]

At(i, step) == init[i].step = step

Goto(i, step) == init' = [init EXCEPT ![i].step = step]

(* Mutant: the unique index of (document_name, chunk_index) is missing.    *)
NoUniqueIndex(i, row) == FALSE

(* A committed row with the key of this one that i has not deleted.        *)
Collides(i, row) ==
    \E other \in rows \ init[i].deletes :
        other.document = row.document /\ Index(other) = Index(row)

(* The rows whose keys j decides: those it has inserted, and those that it *)
(* has deleted and i has not.                                              *)
Undecided(i, j) ==
    init[j].inserts \cup ((rows \ init[i].deletes) \cap init[j].deletes)

(* Another open transaction has written or deleted a row with this key.    *)
Contended(i, row) ==
    \E j \in Inits \ {i} : init[j].step \in Open /\
        \E other \in Undecided(i, j) :
            other.document = row.document /\ Index(other) = Index(row)

-----------------------------------------------------------------------------

(* The container has applied the schema and reads the documents of its     *)
(* image; find_help_directory fails without any.                           *)
Launch(i, files) ==
    /\ At(i, "new")
    /\ init' = [init EXCEPT ![i].files = files,
                            ![i].step = IF files = NoFiles THEN "failed"
                                        ELSE "read"]
    /\ UNCHANGED rows

(* Without a key bootstrap leaves the documents out, and has succeeded.    *)
Skip(i) ==
    /\ At(i, "new")
    /\ Goto(i, "done")
    /\ UNCHANGED rows

(* The stored fingerprints of a document are not exactly that of the file. *)
Differs(i, d) ==
    {row.version : row \in {x \in rows : x.document = d}} # {init[i].files[d]}

Compare(i) ==
    /\ At(i, "read")
    /\ init' = [init EXCEPT
           ![i].step = "compared",
           ![i].changed = {d \in Documents : init[i].files[d] # None
                                             /\ Differs(i, d)}]
    /\ UNCHANGED rows

(* Mutant: the rows of removed documents are not deleted.                  *)
NothingRemoved(i) == {}

Removed(i) == {row \in rows : init[i].files[row.document] = None}

(* The vectors have arrived, the transaction begins and its first DELETE,  *)
(* of the documents that are gone, starts.                                 *)
Begin(i) ==
    /\ At(i, "compared")
    /\ init' = [init EXCEPT ![i].step = "deleting",
                            ![i].todo = init[i].changed,
                            ![i].target = Removed(i)]
    /\ UNCHANGED rows

(* Then one DELETE for each changed document, in the order of the names:   *)
(* it sees the rows that are committed when it starts ...                  *)
StartDelete(i, d) ==
    /\ At(i, "open")
    /\ d \in init[i].todo
    /\ \A e \in init[i].todo : d <= e
    /\ init' = [init EXCEPT ![i].step = "deleting", ![i].todo = @ \ {d},
                            ![i].target = {row \in rows : row.document = d}]
    /\ UNCHANGED rows

(* ... and waits for a transaction that has deleted one of them.           *)
EndDelete(i) ==
    /\ At(i, "deleting")
    /\ \A j \in Inits \ {i} :
           init[j].step \in Open => init[j].deletes \cap init[i].target = {}
    /\ init' = [init EXCEPT ![i].step = "open", ![i].target = {},
                            ![i].deletes = @ \cup (init[i].target \cap rows)]
    /\ UNCHANGED rows

(* The INSERTs wait for a transaction that has inserted the same key, or   *)
(* deleted a row that has it; a committed one aborts them.                 *)
Outcome(i, new) ==
    IF \E row \in new : Collides(i, row) THEN "failed" ELSE "inserted"

Insert(i) ==
    LET new == Image(i, init[i].files, init[i].changed) IN
    /\ At(i, "open")
    /\ init[i].todo = {}
    /\ \A row \in new : ~Contended(i, row)
    /\ init' = [init EXCEPT ![i].step = Outcome(i, new),
                            ![i].inserts = IF Outcome(i, new) = "inserted"
                                           THEN new ELSE {}]
    /\ UNCHANGED rows

Commit(i) ==
    /\ At(i, "inserted")
    /\ rows' = (rows \ init[i].deletes) \cup init[i].inserts
    /\ Goto(i, "done")

(* The model's endpoint, a statement or a deadlock of the database fails,  *)
(* or the container is stopped: the transaction is rolled back.            *)
Fail(i) ==
    /\ init[i].step \notin {"new"} \cup Ended
    /\ Goto(i, "failed")
    /\ UNCHANGED rows

Ingest(i) ==
    \/ Compare(i)
    \/ Begin(i)
    \/ \E d \in Documents : StartDelete(i, d)
    \/ EndDelete(i)
    \/ Insert(i)
    \/ Commit(i)
    \/ Fail(i)

Next ==
    \E i \in Inits :
        Ingest(i) \/ Skip(i) \/ \E files \in Files : Launch(i, files)

Spec == Init /\ [][Next]_vars

-----------------------------------------------------------------------------
(* Properties.                                                             *)

(* Retrieval never mixes versions: the chunks of a document are those of   *)
(* one text, written by one ingest, all of them and each once, whichever   *)
(* ingests replace it at the same time.                                    *)
WholeDocuments ==
    \A d \in Documents :
        LET stored == {row \in rows : row.document = d} IN
        \A row \in stored :
            stored = Image(row.by, [NoFiles EXCEPT ![d] = row.version], {d})

(* Every character that is not a blank is in some chunk that retrieval can *)
(* find, for every document that has any.                                  *)
TextsCovered ==
    \A row \in rows : \A n \in 0 .. Length[row.version] - 1 :
        n \notin Blanks[row.version] =>
            \E other \in rows :
                /\ other.document = row.document
                /\ other.start <= n /\ n < ChunkEnd(other.version, other.start)

Texts(set) == {<<row.document, row.start, row.version>> : row \in set}

=============================================================================
