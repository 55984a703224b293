-------------------------- MODULE HelpIngestProofs --------------------------
(***************************************************************************)
(* Retrieval never mixes versions and never misses a character, for any    *)
(* number of ingests, documents and texts: proofs about HelpIngest.        *)
(*                                                                         *)
(* The starts of chunk_text are defined by recursion.  Reach says without  *)
(* recursion what they are, the least set of positions that holds the      *)
(* first one and the next of each; that the recursion computes it needs an *)
(* induction over positions, for which the least number of a set is taken  *)
(* where a counterexample would be.                                        *)
(***************************************************************************)
EXTENDS HelpIngest, WellFoundedInduction, TLAPS

(* The row of a document's chunk at a position.                            *)
Row(d, n, v, i) == [document |-> d, start |-> n, version |-> v, by |-> i]

(* An ingest that has not committed has left no row anywhere.              *)
Unwritten ==
    \A i \in Inits : init[i].step # "done" =>
        /\ \A row \in rows : row.by # i
        /\ \A j \in Inits : \A row \in init[j].target \cup init[j].deletes :
               row.by # i

(* A DELETE sees all committed rows of a document or none of them.         *)
TogetherIn(set) ==
    \A row, other \in rows :
        row.document = other.document => (row \in set <=> other \in set)

Together ==
    \A i \in Inits : TogetherIn(init[i].target) /\ TogetherIn(init[i].deletes)

(* What an open transaction has inserted: whole documents, whose old rows  *)
(* it has deleted.                                                         *)
Inserted ==
    \A i \in Inits :
        /\ init[i].step \in {"open", "deleting"} => init[i].inserts = {}
        /\ init[i].step \in {"new", "read", "compared"} => init[i].inserts = {}
        /\ init[i].step = "inserted" =>
               /\ init[i].inserts = Image(i, init[i].files, init[i].changed)
               /\ \A row \in init[i].inserts : ~Collides(i, row)

(* Two open transactions have never inserted the same document.            *)
Apart ==
    \A i, j \in Inits :
        i # j /\ init[i].step \in Open /\ init[j].step \in Open =>
            \A row \in init[i].inserts, other \in init[j].inserts :
                row.document # other.document

IInv ==
    /\ TypeOK
    /\ WholeDocuments
    /\ Unwritten
    /\ Together
    /\ Inserted
    /\ Apart

-----------------------------------------------------------------------------
(* Least and greatest numbers.                                             *)

Less == {pair \in Nat \X Nat : pair[1] < pair[2]}

(* A set of naturals has a least element.                                  *)
LEMMA LeastNumber ==
    ASSUME NEW S \in SUBSET Nat, S # {}
    PROVE  \E n \in S : \A m \in S : n <= m
  <1>1. IsWellFoundedOn(Less, Nat)
    <2>1. OpToRel(<, Nat) = Less
      BY Zenon DEF OpToRel, Less
    <2> QED
      BY <2>1, NatLessThanWellFounded, Zenon
  <1>2. PICK n \in S : \A m \in S : ~(<<m, n>> \in Less)
    BY <1>1, WFMin
  <1>3. ASSUME NEW m \in S
        PROVE  n <= m
    <2>1. ~(m < n)
      BY <1>2 DEF Less
    <2> QED
      BY <2>1
  <1> QED
    BY <1>3

(* A set of naturals with a bound has a greatest element.                  *)
LEMMA GreatestNumber ==
    ASSUME NEW bound \in Nat, NEW S \in SUBSET (0 .. bound), S # {}
    PROVE  \E n \in S : \A m \in S : m <= n
  <1> DEFINE Gaps == {gap \in 0 .. bound : bound - gap \in S}
  <1>1. \A n \in S : n \in 0 .. bound /\ bound - n \in Gaps
    <2> SUFFICES ASSUME NEW n \in S
                 PROVE  n \in 0 .. bound /\ bound - n \in Gaps
      OBVIOUS
    <2>1. n \in 0 .. bound /\ bound - n \in 0 .. bound /\ bound - (bound - n) = n
      OBVIOUS
    <2> QED
      BY <2>1
  <1>2. Gaps \in SUBSET Nat /\ Gaps # {}
    <2>1. PICK n \in S : TRUE
      OBVIOUS
    <2> QED
      BY <1>1, <2>1
  <1>3. PICK gap \in Gaps : \A other \in Gaps : gap <= other
    BY <1>2, LeastNumber
  <1>4. ASSUME NEW m \in S
        PROVE  m <= bound - gap
    <2>1. gap <= bound - m /\ m \in 0 .. bound /\ gap \in 0 .. bound
      BY <1>1, <1>3
    <2> QED
      BY <2>1
  <1> QED
    BY <1>4

-----------------------------------------------------------------------------
(* chunk_text.                                                             *)

(* The last blank a chunk can end at.                                      *)
LEMMA LastCut ==
    ASSUME NEW v \in Versions, NEW start \in 0 .. Length[v] - 1,
           start + ChunkSize < Length[v], Cuts(v, start) # {}
    PROVE  /\ ChunkEnd(v, start) \in Blanks[v]
           /\ start <= ChunkEnd(v, start)
           /\ ChunkEnd(v, start) < Length[v] - 1
  <1> DEFINE cuts == Cuts(v, start)
  <1>1. Length[v] \in Nat /\ Blanks[v] \in SUBSET (1 .. Length[v] - 2)
    BY IngestAssumption
  <1>2. cuts \in SUBSET (0 .. Length[v]) /\ cuts \in SUBSET Blanks[v]
    BY <1>1 DEF Cuts
  <1>3. \E p \in cuts : \A q \in cuts : q <= p
    BY <1>1, <1>2, GreatestNumber
  <1>4. ChunkEnd(v, start) \in cuts
    <2>1. start + ChunkSize >= Length[v] <=> FALSE
      BY <1>1, IngestAssumption
    <2>2. ChunkEnd(v, start) = CHOOSE p \in cuts : \A q \in cuts : q <= p
      BY <2>1 DEF ChunkEnd
    <2> QED
      BY <1>3, <2>2
  <1> QED
    BY <1>1, <1>2, <1>4 DEF Cuts

(* A chunk starts behind the one before it and not behind the text.        *)
LEMMA NextFacts ==
    ASSUME NEW v \in Versions, NEW start \in 0 .. Length[v] - 1
    PROVE  NextStart(v, start) \in start + 1 .. Length[v]
  <1>1. /\ Length[v] \in Nat /\ ChunkSize \in Nat \ {0} /\ Overlap \in Nat
        /\ Blanks[v] \in SUBSET (1 .. Length[v] - 2)
    BY IngestAssumption
  <1>2. CASE start + ChunkSize >= Length[v]
    BY <1>1, <1>2 DEF NextStart, ChunkEnd
  <1>3. CASE start + ChunkSize < Length[v] /\ Cuts(v, start) = {}
    BY <1>1, <1>3 DEF NextStart
  <1>4. CASE start + ChunkSize < Length[v] /\ Cuts(v, start) # {}
    <2>1. ChunkEnd(v, start) \in 0 .. Length[v]
      BY <1>1, <1>4, LastCut
    <2> QED
      BY <1>1, <1>4, <2>1 DEF NextStart
  <1> QED
    BY <1>1, <1>2, <1>3, <1>4

(* With every position of the set that is not the last, its next one.      *)
Closed(v, set) ==
    \A n \in set : NextStart(v, n) < Length[v] => NextStart(v, n) \in set

(* The positions reached from one by going to the next again and again.    *)
Reach(v, start) ==
    {n \in 0 .. Length[v] - 1 :
        \A set \in SUBSET (0 .. Length[v] - 1) :
            Closed(v, set) /\ (start < Length[v] => start \in set) => n \in set}

LEMMA ReachClosed ==
    ASSUME NEW v \in Versions, NEW start \in 0 .. Length[v]
    PROVE  /\ Closed(v, Reach(v, start))
           /\ start < Length[v] => start \in Reach(v, start)
  <1>1. Length[v] \in Nat
    BY IngestAssumption
  <1>2. ASSUME NEW n \in Reach(v, start), NextStart(v, n) < Length[v]
        PROVE  NextStart(v, n) \in Reach(v, start)
    <2>1. n \in 0 .. Length[v] - 1
      BY DEF Reach
    <2>2. NextStart(v, n) \in 0 .. Length[v] - 1
      BY <1>1, <1>2, <2>1, NextFacts
    <2> QED
      BY <1>2, <2>2 DEF Reach, Closed
  <1> QED
    BY <1>1, <1>2 DEF Closed, Reach

(* Reach unfolds as the recursion of chunk_text does.                      *)
LEMMA ReachUnfolds ==
    ASSUME NEW v \in Versions, NEW start \in 0 .. Length[v]
    PROVE  Reach(v, start) = IF start >= Length[v] THEN {}
                             ELSE {start} \cup Reach(v, NextStart(v, start))
  <1>1. Length[v] \in Nat
    BY IngestAssumption
  <1>2. CASE start >= Length[v]
    <2>1. Closed(v, {}) /\ {} \in SUBSET (0 .. Length[v] - 1)
      BY DEF Closed
    <2>2. ~(start < Length[v])
      BY <1>1, <1>2
    <2> QED
      BY <1>2, <2>1, <2>2 DEF Reach
  <1>3. CASE start < Length[v]
    <2> DEFINE next == NextStart(v, start)
               set == {start} \cup Reach(v, next)
    <2>1. start \in 0 .. Length[v] - 1 /\ next \in 0 .. Length[v]
      BY <1>1, <1>3, NextFacts
    <2>2. /\ Closed(v, Reach(v, next))
          /\ next < Length[v] => next \in Reach(v, next)
      BY <2>1, ReachClosed
    <2>3. Reach(v, start) \subseteq set
      <3>1. Closed(v, set)
        BY <2>2 DEF Closed
      <3>2. set \in SUBSET (0 .. Length[v] - 1) /\ start \in set
        BY <2>1 DEF Reach
      <3> HIDE DEF set
      <3> QED
        BY <3>1, <3>2 DEF Reach
    <2>4. set \subseteq Reach(v, start)
      <3>1. Closed(v, Reach(v, start)) /\ start \in Reach(v, start)
        BY <1>3, ReachClosed
      <3>2. next < Length[v] => next \in Reach(v, start)
        BY <3>1 DEF Closed
      <3> HIDE DEF next
      <3>3. Reach(v, start) \in SUBSET (0 .. Length[v] - 1)
        BY DEF Reach
      <3>4. Reach(v, next) \subseteq Reach(v, start)
        <4> DEFINE all == Reach(v, start)
        <4>1. /\ Closed(v, all) /\ all \in SUBSET (0 .. Length[v] - 1)
              /\ next < Length[v] => next \in all
          BY <3>1, <3>2, <3>3
        <4> HIDE DEF all
        <4>2. Reach(v, next) \subseteq all
          BY <4>1 DEF Reach
        <4> QED
          BY <4>2 DEF all
      <3> QED
        BY <3>1, <3>4
    <2>5. ~(start >= Length[v])
      BY <1>1, <1>3
    <2> QED
      BY <2>3, <2>4, <2>5
  <1> QED
    BY <1>1, <1>2, <1>3

(* Every text has a chunk that starts at its first character.              *)
LEMMA FirstChunk == \A v : 0 \in Starts(v)
  BY DEF Starts

(* What the recursion of chunk_text computes.                              *)
LEMMA StartsReached ==
    ASSUME NEW v \in Versions
    PROVE  Starts(v) =
               {0} \cup (IF Length[v] <= ChunkSize THEN {}
                         ELSE Reach(v, NextStart(v, 0)))
  <1> DEFINE positions == 0 .. Length[v]
             from[start \in positions] ==
                 IF start >= Length[v] THEN {}
                 ELSE {start} \cup from[NextStart(v, start)]
  <1>1. /\ Length[v] \in Nat /\ ChunkSize \in Nat \ {0}
        /\ \A start \in positions :
               start < Length[v] => NextStart(v, start) \in positions
    BY IngestAssumption, NextFacts
  <1>2. from = [start \in positions |->
                    IF start >= Length[v] THEN {}
                    ELSE {start} \cup from[NextStart(v, start)]]
    <2> DEFINE reach == [start \in positions |-> Reach(v, start)]
    <2>1. reach = [start \in positions |->
                       IF start >= Length[v] THEN {}
                       ELSE {start} \cup reach[NextStart(v, start)]]
      <3>1. ASSUME NEW start \in positions
            PROVE  reach[start] = IF start >= Length[v] THEN {}
                                  ELSE {start} \cup reach[NextStart(v, start)]
        <4>1. CASE start >= Length[v]
          BY <4>1, ReachUnfolds
        <4>2. CASE ~(start >= Length[v])
          <5>1. NextStart(v, start) \in positions
            BY <1>1, <4>2
          <5>2. Reach(v, start) = {start} \cup Reach(v, NextStart(v, start))
            BY <4>2, ReachUnfolds
          <5> QED
            BY <4>2, <5>1, <5>2
        <4> QED
          BY <4>1, <4>2
      <3> QED
        BY <3>1
    <2> HIDE DEF reach
    <2> QED
      BY <2>1
  <1> HIDE DEF from
  <1>3. ASSUME NEW start \in positions
        PROVE  from[start] = Reach(v, start)
    <2> DEFINE Wrong == {n \in positions : from[n] # Reach(v, n)}
    <2>1. ASSUME Wrong # {}
          PROVE  FALSE
      <3>1. PICK n \in Wrong : \A m \in Wrong : m <= n
        BY <1>1, <2>1, GreatestNumber
      <3>2. ~(n >= Length[v])
        BY <1>1, <1>2, <3>1, ReachUnfolds
      <3>3. NextStart(v, n) \in n + 1 .. Length[v]
        BY <1>1, <3>2, NextFacts
      <3>4. from[NextStart(v, n)] = Reach(v, NextStart(v, n))
        BY <1>1, <3>1, <3>3
      <3> QED
        BY <1>1, <1>2, <3>2, <3>4, ReachUnfolds
    <2> QED
      BY <2>1
  <1>4. Starts(v) = {0} \cup (IF Length[v] <= ChunkSize THEN {}
                              ELSE from[NextStart(v, 0)])
    BY DEF Starts, from
  <1>5. ASSUME ~(Length[v] <= ChunkSize)
        PROVE  NextStart(v, 0) \in positions
    BY <1>1, <1>5
  <1> QED
    BY <1>3, <1>4, <1>5

(* With every start the next one is a start.                               *)
LEMMA StartsClosed ==
    ASSUME NEW v \in Versions, ~(Length[v] <= ChunkSize),
           NEW n \in Starts(v), NextStart(v, n) < Length[v]
    PROVE  /\ n \in 0 .. Length[v] - 1
           /\ NextStart(v, n) \in Starts(v)
  <1> DEFINE first == NextStart(v, 0)
  <1>1. Length[v] \in Nat /\ ChunkSize \in Nat \ {0}
    BY IngestAssumption
  <1>2. first \in 0 .. Length[v]
    BY <1>1, NextFacts
  <1>3. /\ Closed(v, Reach(v, first))
        /\ first < Length[v] => first \in Reach(v, first)
    BY <1>2, ReachClosed
  <1>4. Starts(v) = {0} \cup Reach(v, first)
    BY StartsReached
  <1>5. n \in 0 .. Length[v] - 1
    BY <1>1, <1>4 DEF Reach
  <1>6. NextStart(v, n) \in Reach(v, first)
    BY <1>3, <1>4 DEF Closed
  <1> QED
    BY <1>4, <1>5, <1>6

(* Every character that is not a blank lies in a chunk: the one of the     *)
(* last start that is not behind it.                                       *)
LEMMA ChunksCover ==
    ASSUME NEW v \in Versions, NEW n \in 0 .. Length[v] - 1,
           n \notin Blanks[v]
    PROVE  \E start \in Starts(v) : start <= n /\ n < ChunkEnd(v, start)
  <1>1. /\ Length[v] \in Nat /\ ChunkSize \in Nat \ {0} /\ Overlap \in Nat
        /\ Blanks[v] \in SUBSET (1 .. Length[v] - 2)
    BY IngestAssumption
  <1>2. CASE Length[v] <= ChunkSize
    BY <1>1, <1>2, FirstChunk DEF ChunkEnd
  <1>3. CASE ~(Length[v] <= ChunkSize)
    <2> DEFINE before == {start \in 0 .. n : start \in Starts(v)}
    <2>1. 0 \in before /\ n \in Nat
      BY <1>1, FirstChunk
    <2>2. PICK start \in before : \A other \in before : other <= start
      BY <1>1, <2>1, GreatestNumber
    <2>3. SUFFICES ASSUME ~(n < ChunkEnd(v, start))
                   PROVE  NextStart(v, start) \in start + 1 .. n
      <3>1. CASE n < ChunkEnd(v, start)
        BY <1>1, <2>2, <3>1
      <3>2. CASE NextStart(v, start) \in start + 1 .. n
        <4>1. NextStart(v, start) < Length[v]
          BY <1>1, <3>2
        <4>2. NextStart(v, start) \in before
          BY <1>1, <1>3, <2>2, <3>2, <4>1, StartsClosed
        <4> QED
          BY <1>1, <2>2, <3>2, <4>2
      <3> QED
        BY <3>1, <3>2
    <2>4. start \in 0 .. n /\ start \in 0 .. Length[v] - 1
      BY <1>1
    <2>5. start + ChunkSize < Length[v]
      BY <1>1, <2>3, <2>4 DEF ChunkEnd
    <2>6. CASE Cuts(v, start) = {}
      <3>1. NextStart(v, start) = start + 1
        BY <1>1, <2>4, <2>5, <2>6 DEF NextStart
      <3>2. n = Length[v] - 1
        BY <1>1, <2>3, <2>5, <2>6, <2>4 DEF ChunkEnd
      <3> QED
        BY <1>1, <2>4, <2>5, <3>1, <3>2
    <2>7. CASE Cuts(v, start) # {}
      <3> DEFINE end == ChunkEnd(v, start)
      <3>1. end \in Blanks[v] /\ end \in Nat /\ start <= end /\ end <= n
        BY <1>1, <2>3, <2>4, <2>5, <2>7, LastCut
      <3>2. NextStart(v, start) = IF end - Overlap > start THEN end - Overlap
                                  ELSE start + 1
        BY <2>7 DEF NextStart
      <3>3. start # n
        BY <3>1, <2>4
      <3> HIDE DEF end
      <3> QED
        BY <1>1, <2>4, <3>1, <3>2, <3>3
    <2> QED
      BY <2>6, <2>7
  <1> QED
    BY <1>2, <1>3

-----------------------------------------------------------------------------
(* Images.                                                                 *)

(* The rows of an image, one by one.                                       *)
LEMMA ImageRows ==
    ASSUME NEW i, NEW files, NEW documents, NEW row
    PROVE  row \in Image(i, files, documents) <=>
               \E d \in documents : files[d] # None /\
                   \E n \in Starts(files[d]) : row = Row(d, n, files[d], i)
  BY DEF Image, Row

(* The image of one document.                                              *)
LEMMA DocumentRows ==
    ASSUME NEW i, NEW d \in Documents, NEW v \in Versions, NEW row
    PROVE  row \in Image(i, [NoFiles EXCEPT ![d] = v], {d}) <=>
               \E n \in Starts(v) : row = Row(d, n, v, i)
  <1> DEFINE files == [NoFiles EXCEPT ![d] = v]
  <1>1. files[d] = v /\ v # None
    BY IngestAssumption DEF NoFiles
  <1> HIDE DEF files
  <1>2. row \in Image(i, files, {d}) <=>
            \E e \in {d} : files[e] # None /\
                \E n \in Starts(files[e]) : row = Row(e, n, files[e], i)
    BY DEF Image, Row
  <1>3. row \in Image(i, files, {d}) <=> \E n \in Starts(v) : row = Row(d, n, v, i)
    BY <1>1, <1>2
  <1> QED
    BY <1>3 DEF files

(* An image of typed files consists of typed rows.                         *)
LEMMA ImageTyped ==
    ASSUME NEW i \in Inits, NEW files \in Files,
           NEW documents \in SUBSET Documents
    PROVE  Image(i, files, documents) \in SUBSET Rows
  <1> SUFFICES ASSUME NEW row \in Image(i, files, documents)
               PROVE  row \in Rows
    OBVIOUS
  <1>1. PICK d \in documents : files[d] # None /\
            \E n \in Starts(files[d]) : row = Row(d, n, files[d], i)
    BY ImageRows
  <1>2. files[d] \in Versions
    BY <1>1 DEF Files
  <1>3. row \in [document : Documents, start : Starts(files[d]),
                 version : {files[d]}, by : Inits]
    BY <1>1, <1>2 DEF Row
  <1> QED
    BY <1>2, <1>3 DEF Rows

(* A row of the table has the fields of its type.                          *)
LEMMA RowFields ==
    ASSUME NEW row \in Rows
    PROVE  /\ row.document \in Documents /\ row.version \in Versions
           /\ row.by \in Inits /\ row.start \in Starts(row.version)
           /\ row = Row(row.document, row.start, row.version, row.by)
  BY DEF Rows, Row

(* Chunks at the first character have the same index, 0, in every text.    *)
LEMMA SameIndex ==
    ASSUME NEW d, NEW v, NEW w, NEW i, NEW j
    PROVE  Index(Row(d, 0, v, i)) = Index(Row(d, 0, w, j))
  <1>1. {n \in 0 .. 0 - 1 : n \in Starts(v)} = {}
        /\ {n \in 0 .. 0 - 1 : n \in Starts(w)} = {}
    OBVIOUS
  <1> QED
    BY <1>1 DEF Index, Row

(* An image that has a row of a document has its first chunk.              *)
LEMMA ImageFirst ==
    ASSUME NEW i, NEW files, NEW documents,
           NEW row \in Image(i, files, documents)
    PROVE  /\ Row(row.document, 0, files[row.document], i)
                  \in Image(i, files, documents)
           /\ row.document \in documents
           /\ row.version = files[row.document] /\ row.version # None
           /\ row.by = i
  <1>1. PICK d \in documents : files[d] # None /\
            \E n \in Starts(files[d]) : row = Row(d, n, files[d], i)
    BY ImageRows
  <1>2. row.document = d /\ row.version = files[d] /\ row.by = i
    BY <1>1 DEF Row
  <1> QED
    BY <1>1, <1>2, ImageRows, FirstChunk

(* A stored document is whole, so it has its first chunk.                  *)
LEMMA StoredFirst ==
    ASSUME TypeOK, WholeDocuments, NEW row \in rows
    PROVE  Row(row.document, 0, row.version, row.by) \in rows
  <1>1. row \in Rows
    BY DEF TypeOK
  <1> DEFINE d == row.document
             stored == {x \in rows : x.document = d}
  <1>2. d \in Documents /\ row.version \in Versions
    BY <1>1, RowFields
  <1>3. stored = Image(row.by, [NoFiles EXCEPT ![d] = row.version], {d})
    BY <1>2 DEF WholeDocuments
  <1>4. Row(d, 0, row.version, row.by) \in stored
    BY <1>2, <1>3, DocumentRows, FirstChunk
  <1> QED
    BY <1>4

(* An ingest that has inserted a document has deleted all its old rows.    *)
LEMMA Cleared ==
    ASSUME IInv, NEW i \in Inits, init[i].step = "inserted",
           NEW new \in init[i].inserts, NEW old \in rows,
           old.document = new.document
    PROVE  old \in init[i].deletes
  <1> SUFFICES ASSUME old \notin init[i].deletes PROVE FALSE
    OBVIOUS
  <1> DEFINE first == Row(new.document, 0, init[i].files[new.document], i)
             stored == Row(old.document, 0, old.version, old.by)
  <1>1. first \in init[i].inserts
    BY ImageFirst DEF IInv, Inserted
  <1>2. stored \in rows
    BY StoredFirst DEF IInv
  <1>3. stored.document = old.document
    BY DEF Row
  <1>4. stored \notin init[i].deletes
    BY <1>2, <1>3 DEF IInv, Together, TogetherIn
  <1>5. Index(stored) = Index(first) /\ stored.document = first.document
    BY SameIndex DEF Row
  <1>6. Collides(i, first)
    BY <1>2, <1>4, <1>5 DEF Collides
  <1> QED
    BY <1>1, <1>6 DEF IInv, Inserted

-----------------------------------------------------------------------------
(* Types.                                                                  *)

Records ==
    [step : Steps, files : Files, changed : SUBSET Documents,
     todo : SUBSET Documents, target : SUBSET Rows, deletes : SUBSET Rows,
     inserts : SUBSET Rows]

(* A step that gives one ingest a typed record and leaves the table alone  *)
(* keeps TypeOK.                                                           *)
LEMMA RecordTyped ==
    ASSUME TypeOK, NEW i \in Inits, NEW st \in Records,
           init' = [init EXCEPT ![i] = st], UNCHANGED rows
    PROVE  TypeOK'
  BY DEF TypeOK, Records

(* Every step keeps the types.                                             *)
LEMMA TypeStep == IInv /\ [Next]_vars => TypeOK'
  <1> SUFFICES ASSUME IInv, [Next]_vars PROVE TypeOK'
    OBVIOUS
  <1> TypeOK
    BY DEF IInv
  <1>1. ASSUME NEW i \in Inits PROVE init[i] \in Records
    BY <1>1 DEF TypeOK, Records
  <1>2. ASSUME NEW i \in Inits, NEW files \in Files, Launch(i, files)
        PROVE  TypeOK'
    <2> DEFINE st == [init[i] EXCEPT !.files = files,
                          !.step = IF files = NoFiles THEN "failed" ELSE "read"]
    <2>1. st \in Records
      BY <1>1 DEF Records, Steps, Ended
    <2>2. init' = [init EXCEPT ![i] = st]
      BY <1>2 DEF Launch
    <2> QED
      BY <1>2, <2>1, <2>2, RecordTyped DEF Launch
  <1>3. ASSUME NEW i \in Inits, Compare(i)
        PROVE  TypeOK'
    <2> DEFINE st == [init[i] EXCEPT !.step = "compared",
                          !.changed = {d \in Documents : init[i].files[d] # None
                                                         /\ Differs(i, d)}]
    <2>1. st \in Records
      BY <1>1 DEF Records, Steps
    <2>2. init' = [init EXCEPT ![i] = st]
      BY <1>3 DEF Compare
    <2> QED
      BY <1>3, <2>1, <2>2, RecordTyped DEF Compare
  <1>4. ASSUME NEW i \in Inits, Begin(i)
        PROVE  TypeOK'
    <2> DEFINE st == [init[i] EXCEPT !.step = "deleting",
                          !.todo = init[i].changed, !.target = Removed(i)]
    <2>1. Removed(i) \in SUBSET Rows
      BY DEF Removed, TypeOK
    <2>2. st \in Records
      BY <1>1, <2>1 DEF Records, Steps, Open
    <2>3. init' = [init EXCEPT ![i] = st]
      BY <1>4 DEF Begin
    <2> QED
      BY <1>4, <2>2, <2>3, RecordTyped DEF Begin
  <1>5. ASSUME NEW i \in Inits, NEW d \in Documents, StartDelete(i, d)
        PROVE  TypeOK'
    <2> DEFINE st == [init[i] EXCEPT !.step = "deleting",
                          !.todo = init[i].todo \ {d},
                          !.target = {row \in rows : row.document = d}]
    <2>1. {row \in rows : row.document = d} \in SUBSET Rows
      BY DEF TypeOK
    <2>2. st \in Records
      BY <1>1, <2>1 DEF Records, Steps, Open
    <2>3. init' = [init EXCEPT ![i] = st]
      BY <1>5 DEF StartDelete
    <2> QED
      BY <1>5, <2>2, <2>3, RecordTyped DEF StartDelete
  <1>6. ASSUME NEW i \in Inits, EndDelete(i)
        PROVE  TypeOK'
    <2> DEFINE st == [init[i] EXCEPT !.step = "open", !.target = {},
                          !.deletes = init[i].deletes
                                          \cup (init[i].target \cap rows)]
    <2>1. st \in Records
      BY <1>1 DEF Records, Steps, Open
    <2>2. init' = [init EXCEPT ![i] = st]
      BY <1>6 DEF EndDelete
    <2> QED
      BY <1>6, <2>1, <2>2, RecordTyped DEF EndDelete
  <1>7. ASSUME NEW i \in Inits, Insert(i)
        PROVE  TypeOK'
    <2> DEFINE new == Image(i, init[i].files, init[i].changed)
               kept == IF Outcome(i, new) = "inserted" THEN new ELSE {}
               st == [init[i] EXCEPT !.step = Outcome(i, new),
                                     !.inserts = kept]
    <2>1. new \in SUBSET Rows
      BY <1>1, ImageTyped DEF Records
    <2>2. Outcome(i, new) \in Steps /\ kept \in SUBSET Rows
      BY <2>1 DEF Outcome, Steps, Open, Ended
    <2>3. init' = [init EXCEPT ![i] = st]
      BY <1>7 DEF Insert
    <2> HIDE DEF new, kept
    <2>4. st \in Records
      BY <1>1, <2>2 DEF Records
    <2> QED
      BY <1>7, <2>3, <2>4, RecordTyped DEF Insert
  <1>8. ASSUME NEW i \in Inits, Commit(i)
        PROVE  TypeOK'
    <2>1. rows' \in SUBSET Rows
      BY <1>1, <1>8 DEF Commit, Records, TypeOK
    <2>2. init' \in [Inits -> Records]
      BY <1>1, <1>8 DEF Commit, Goto, TypeOK, Records, Steps, Ended
    <2> QED
      BY <2>1, <2>2 DEF TypeOK, Records
  <1>9. ASSUME NEW i \in Inits, Fail(i)
        PROVE  TypeOK'
    <2>1. [init[i] EXCEPT !.step = "failed"] \in Records
      BY <1>1 DEF Records, Steps, Ended
    <2> QED
      BY <1>9, <2>1, RecordTyped DEF Fail, Goto
  <1>10. CASE UNCHANGED vars
    BY <1>10 DEF TypeOK, vars
  <1>11. ASSUME NEW i \in Inits, Skip(i)
         PROVE  TypeOK'
    <2>1. [init[i] EXCEPT !.step = "done"] \in Records
      BY <1>1 DEF Records, Steps, Ended
    <2> QED
      BY <1>11, <2>1, RecordTyped DEF Skip, Goto
  <1> QED
    BY <1>2, <1>3, <1>4, <1>5, <1>6, <1>7, <1>8, <1>9, <1>10, <1>11
       DEF Next, Ingest

-----------------------------------------------------------------------------
(* The table.                                                              *)

(* Only a commit writes the table.                                         *)
LEMMA Writers ==
    ASSUME [Next]_vars
    PROVE  UNCHANGED rows \/ \E i \in Inits : Commit(i)
  BY DEF Next, Ingest, Launch, Skip, Compare, Begin, StartDelete, EndDelete,
         Insert, Fail, vars

(* A commit leaves of each document the rows it has inserted, if it has    *)
(* inserted any, and the old rows or none of them otherwise.               *)
LEMMA CommitRows ==
    ASSUME IInv, NEW i \in Inits, Commit(i), NEW row \in rows'
    PROVE  \/ /\ row \in init[i].inserts
              /\ \A other \in rows' :
                     other.document = row.document => other \in init[i].inserts
           \/ /\ row \in rows
              /\ {x \in rows' : x.document = row.document}
                     = {x \in rows : x.document = row.document}
  <1>1. rows' = (rows \ init[i].deletes) \cup init[i].inserts
        /\ init[i].step = "inserted"
    BY DEF Commit, At
  <1>2. CASE row \in init[i].inserts
    BY <1>1, <1>2, Cleared
  <1>3. CASE row \notin init[i].inserts
    <2>1. row \in rows /\ row \notin init[i].deletes
      BY <1>1, <1>3
    <2>2. \A x \in rows : x.document = row.document => x \notin init[i].deletes
      BY <2>1 DEF IInv, Together, TogetherIn
    <2>3. \A x \in init[i].inserts : x.document # row.document
      BY <1>1, <2>1, Cleared
    <2> QED
      BY <1>1, <2>1, <2>2, <2>3
  <1> QED
    BY <1>2, <1>3

(* What an ingest has inserted of a document is the image of its file.     *)
LEMMA InsertedWhole ==
    ASSUME IInv, NEW i \in Inits, init[i].step = "inserted",
           NEW row \in init[i].inserts
    PROVE  {x \in init[i].inserts : x.document = row.document}
               = Image(row.by, [NoFiles EXCEPT ![row.document] = row.version],
                       {row.document})
  <1> DEFINE d == row.document
             v == init[i].files[d]
  <1>1. init[i].inserts = Image(i, init[i].files, init[i].changed)
    BY DEF IInv, Inserted
  <1>2. d \in init[i].changed /\ row.version = v /\ v # None /\ row.by = i
    BY <1>1, ImageFirst
  <1>3. d \in Documents /\ v \in Versions
    BY <1>2 DEF IInv, TypeOK, Files
  <1>4. ASSUME NEW x
        PROVE  x \in init[i].inserts /\ x.document = d
               <=> x \in Image(i, [NoFiles EXCEPT ![d] = v], {d})
    <2>1. x \in Image(i, init[i].files, init[i].changed) <=>
              \E e \in init[i].changed : init[i].files[e] # None /\
                  \E n \in Starts(init[i].files[e]) :
                      x = Row(e, n, init[i].files[e], i)
      BY DEF Image, Row
    <2>2. x \in Image(i, [NoFiles EXCEPT ![d] = v], {d})
              <=> \E n \in Starts(v) : x = Row(d, n, v, i)
      BY <1>3, DocumentRows
    <2>3. \A e, n, w, j : Row(e, n, w, j).document = e
      BY DEF Row
    <2> HIDE DEF v
    <2>4. x \in Image(i, init[i].files, init[i].changed) /\ x.document = d
          => \E n \in Starts(v) : x = Row(d, n, v, i)
      BY <2>1, <2>3 DEF v
    <2>5. (\E n \in Starts(v) : x = Row(d, n, v, i))
          => x \in Image(i, init[i].files, init[i].changed) /\ x.document = d
      BY <1>2, <2>1, <2>3 DEF v
    <2> QED
      BY <1>1, <2>2, <2>4, <2>5 DEF v
  <1> QED
    BY <1>2, <1>4

(* Every step keeps the documents whole.                                   *)
LEMMA WholeStep == IInv /\ [Next]_vars => WholeDocuments'
  <1> SUFFICES ASSUME IInv, [Next]_vars PROVE WholeDocuments'
    OBVIOUS
  <1>1. CASE UNCHANGED rows
    BY <1>1 DEF IInv, WholeDocuments
  <1>2. ASSUME NEW i \in Inits, Commit(i)
        PROVE  WholeDocuments'
    <2> SUFFICES ASSUME NEW row \in rows', row.document \in Documents
                 PROVE  {x \in rows' : x.document = row.document}
                            = Image(row.by,
                                    [NoFiles EXCEPT ![row.document] = row.version],
                                    {row.document})
      BY DEF WholeDocuments
    <2>1. init[i].step = "inserted" /\ init[i].inserts \subseteq rows'
      BY <1>2 DEF Commit, At
    <2>2. CASE row \in init[i].inserts /\ \A other \in rows' :
                   other.document = row.document => other \in init[i].inserts
      <3>1. {x \in rows' : x.document = row.document}
                = {x \in init[i].inserts : x.document = row.document}
        BY <2>1, <2>2
      <3> QED
        BY <2>1, <2>2, <3>1, InsertedWhole
    <2>3. CASE /\ row \in rows
               /\ {x \in rows' : x.document = row.document}
                      = {x \in rows : x.document = row.document}
      BY <2>3 DEF IInv, WholeDocuments
    <2> QED
      BY <1>2, <2>2, <2>3, CommitRows
  <1> QED
    BY <1>1, <1>2, Writers

-----------------------------------------------------------------------------
(* The transactions.                                                       *)

(* What a step may do to the ingests: those other than one stay as they    *)
(* are, and that one gets new targets and deletes out of the table only.   *)
LEMMA Targets ==
    ASSUME IInv, [Next]_vars, NEW j \in Inits
    PROVE  /\ \/ init'[j].target = init[j].target
              \/ UNCHANGED rows /\ init'[j].target = {}
              \/ UNCHANGED rows /\ \E d \in Documents :
                     init'[j].target = {row \in rows : row.document = d}
              \/ UNCHANGED rows /\ init'[j].target = Removed(j)
           /\ \/ init'[j].deletes = init[j].deletes
              \/ UNCHANGED rows /\ init'[j].deletes =
                     init[j].deletes \cup (init[j].target \cap rows)
           /\ init'[j].step # "done" => init[j].step # "done"
  <1> TypeOK
    BY DEF IInv
  <1>1. ASSUME NEW i \in Inits, NEW files \in Files, Launch(i, files)
        PROVE  /\ init'[j].target = init[j].target
               /\ init'[j].deletes = init[j].deletes
               /\ init'[j].step # "done" => init[j].step # "done"
    BY <1>1 DEF Launch, At, TypeOK
  <1>2. ASSUME NEW i \in Inits, Compare(i) \/ Insert(i) \/ Commit(i) \/ Fail(i)
        PROVE  /\ init'[j].target = init[j].target
               /\ init'[j].deletes = init[j].deletes
               /\ init'[j].step # "done" => init[j].step # "done"
    BY <1>2 DEF Compare, Insert, Commit, Fail, Goto, At, Ended, TypeOK
  <1>3. ASSUME NEW i \in Inits, Begin(i)
        PROVE  /\ init'[j].target \in {init[j].target, Removed(j)}
               /\ init'[j].deletes = init[j].deletes
               /\ init'[j].step # "done" => init[j].step # "done"
               /\ UNCHANGED rows
    BY <1>3 DEF Begin, At, TypeOK
  <1>4. ASSUME NEW i \in Inits, NEW d \in Documents, StartDelete(i, d)
        PROVE  /\ init'[j].target \in {init[j].target,
                                       {row \in rows : row.document = d}}
               /\ init'[j].deletes = init[j].deletes
               /\ init'[j].step # "done" => init[j].step # "done"
               /\ UNCHANGED rows
    BY <1>4 DEF StartDelete, At, TypeOK
  <1>5. ASSUME NEW i \in Inits, EndDelete(i)
        PROVE  /\ init'[j].target \in {init[j].target, {}}
               /\ init'[j].deletes \in
                      {init[j].deletes,
                       init[j].deletes \cup (init[j].target \cap rows)}
               /\ init'[j].step # "done" => init[j].step # "done"
               /\ UNCHANGED rows
    BY <1>5 DEF EndDelete, At, TypeOK
  <1>6. CASE UNCHANGED vars
    BY <1>6 DEF vars
  <1>7. ASSUME NEW i \in Inits, Skip(i)
        PROVE  /\ init'[j].target = init[j].target
               /\ init'[j].deletes = init[j].deletes
               /\ init'[j].step # "done" => init[j].step # "done"
    BY <1>7 DEF Skip, Goto, At, TypeOK
  <1> QED
    BY <1>1, <1>2, <1>3, <1>4, <1>5, <1>6, <1>7 DEF Next, Ingest

(* Who has not committed has written nothing.                              *)
LEMMA UnwrittenStep == IInv /\ [Next]_vars => Unwritten'
  <1> SUFFICES ASSUME IInv, [Next]_vars, NEW k \in Inits,
                      init'[k].step # "done"
               PROVE  /\ \A row \in rows' : row.by # k
                      /\ \A j \in Inits :
                             \A row \in init'[j].target \cup init'[j].deletes :
                                 row.by # k
    BY DEF Unwritten
  <1>1. init[k].step # "done"
    BY Targets
  <1>2. /\ \A row \in rows : row.by # k
        /\ \A j \in Inits : \A row \in init[j].target \cup init[j].deletes :
               row.by # k
    BY <1>1 DEF IInv, Unwritten
  <1>3. ASSUME NEW row \in rows' PROVE row.by # k
    <2>1. CASE UNCHANGED rows
      BY <1>2, <1>3, <2>1
    <2>2. ASSUME NEW i \in Inits, Commit(i) PROVE row.by # k
      <3>1. init'[i].step = "done"
        BY <2>2 DEF Commit, Goto, IInv, TypeOK
      <3>2. CASE row \in init[i].inserts
        <4>1. row.by = i
          BY <2>2, <3>2, ImageFirst DEF Commit, At, IInv, Inserted
        <4> QED
          BY <3>1, <4>1
      <3>3. CASE row \in rows
        BY <1>2, <3>3
      <3> QED
        BY <1>3, <2>2, <3>2, <3>3 DEF Commit
    <2> QED
      BY <2>1, <2>2, Writers
  <1>4. ASSUME NEW j \in Inits, NEW row \in init'[j].target \cup init'[j].deletes
        PROVE  row.by # k
    <2>1. init'[j].target \subseteq init[j].target \cup rows
      BY Targets DEF Removed
    <2>2. init'[j].deletes \subseteq init[j].deletes \cup rows
      BY Targets
    <2> QED
      BY <1>2, <1>4, <2>1, <2>2
  <1> QED
    BY <1>3, <1>4

(* A set that had rows of a document all or none still does, unless it has *)
(* rows of the ingest that commits.                                        *)
LEMMA TogetherKept ==
    ASSUME IInv, [Next]_vars, NEW set, TogetherIn(set),
           \A k \in Inits : init[k].step # "done" =>
               \A row \in set : row.by # k
    PROVE  \A row, other \in rows' :
               row.document = other.document => (row \in set <=> other \in set)
  <1>1. CASE UNCHANGED rows
    BY <1>1 DEF TogetherIn
  <1>2. ASSUME NEW i \in Inits, Commit(i), NEW row \in rows', NEW other \in rows',
               row.document = other.document
        PROVE  row \in set <=> other \in set
    <2>1. \A x \in init[i].inserts : x \notin set
      <3>1. \A x \in init[i].inserts : x.by = i
        BY <1>2, ImageFirst DEF Commit, At, IInv, Inserted
      <3>2. init[i].step # "done"
        BY <1>2 DEF Commit, At
      <3> QED
        BY <3>1, <3>2
    <2>2. CASE row \in init[i].inserts /\ other \in init[i].inserts
      BY <2>1, <2>2
    <2>3. CASE row \in rows /\ other \in rows
      BY <1>2, <2>3 DEF TogetherIn
    <2> QED
      BY <1>2, <2>2, <2>3, CommitRows
  <1> QED
    BY <1>1, <1>2, Writers

(* A DELETE goes on seeing all rows of a document or none.                 *)
LEMMA TogetherStep == IInv /\ [Next]_vars => Together'
  <1> SUFFICES ASSUME IInv, [Next]_vars, NEW j \in Inits,
                      NEW row \in rows', NEW other \in rows',
                      row.document = other.document
               PROVE  /\ row \in init'[j].target <=> other \in init'[j].target
                      /\ row \in init'[j].deletes <=> other \in init'[j].deletes
    BY DEF Together, TogetherIn
  <1>1. row \in init[j].target <=> other \in init[j].target
    BY TogetherKept DEF IInv, Together, Unwritten
  <1>2. row \in init[j].deletes <=> other \in init[j].deletes
    BY TogetherKept DEF IInv, Together, Unwritten
  <1>3. row \in init'[j].target <=> other \in init'[j].target
    BY <1>1, Targets DEF Removed
  <1>4. row \in init'[j].deletes <=> other \in init'[j].deletes
    BY <1>1, <1>2, Targets
  <1> QED
    BY <1>3, <1>4

(* What an insert finds: it collides with nothing that is committed, and   *)
(* shares no document with an open transaction.                            *)
LEMMA InsertFacts ==
    ASSUME IInv, NEW i \in Inits, Insert(i), init'[i].step \in Open
    PROVE  LET new == Image(i, init[i].files, init[i].changed) IN
           /\ init'[i].step = "inserted" /\ init'[i].inserts = new
           /\ /\ init'[i].files = init[i].files
              /\ init'[i].changed = init[i].changed
              /\ init'[i].deletes = init[i].deletes
           /\ \A row \in new : ~Collides(i, row)
           /\ \A j \in Inits \ {i} : init[j].step \in Open =>
                  \A row \in new, other \in init[j].inserts :
                      row.document # other.document
  <1> DEFINE new == Image(i, init[i].files, init[i].changed)
  <1> DEFINE kept == IF Outcome(i, new) = "inserted" THEN new ELSE {}
  <1>1. init'[i] = [init[i] EXCEPT !.step = Outcome(i, new), !.inserts = kept]
    BY DEF Insert, IInv, TypeOK
  <1> HIDE DEF kept
  <1>2. /\ init'[i].step = Outcome(i, new) /\ init'[i].inserts = kept
        /\ init'[i].files = init[i].files
        /\ init'[i].changed = init[i].changed
        /\ init'[i].deletes = init[i].deletes
    BY <1>1 DEF IInv, TypeOK
  <1>3. Outcome(i, new) = "inserted"
    BY <1>2 DEF Outcome, Open
  <1>4. \A row \in new : ~Collides(i, row)
    BY <1>3 DEF Outcome
  <1>5. ASSUME NEW j \in Inits \ {i}, init[j].step \in Open,
               NEW row \in new, NEW other \in init[j].inserts,
               row.document = other.document
        PROVE  FALSE
    <2> DEFINE first == Row(row.document, 0, init[i].files[row.document], i)
               theirs == Row(row.document, 0, init[j].files[row.document], j)
    <2>1. first \in new
      BY <1>5, ImageFirst
    <2>2. theirs \in init[j].inserts
      BY <1>5, ImageFirst DEF IInv, Inserted, Open
    <2>3. theirs.document = first.document /\ Index(theirs) = Index(first)
      BY SameIndex DEF Row
    <2>4. Contended(i, first)
      BY <1>5, <2>2, <2>3 DEF Contended, Undecided
    <2> QED
      BY <2>1, <2>4 DEF Insert
  <1>6. kept = new
    BY <1>3 DEF kept
  <1> HIDE DEF new
  <1> QED
    BY <1>2, <1>3, <1>4, <1>5, <1>6 DEF new

(* A step other than Insert keeps what an open transaction has inserted.   *)
LEMMA InsertsKept ==
    ASSUME IInv, [Next]_vars, NEW j \in Inits, ~Insert(j)
    PROVE  /\ init'[j].inserts = init[j].inserts
           /\ init'[j].step = "inserted" =>
                  /\ init[j].step = "inserted"
                  /\ init'[j].files = init[j].files
                  /\ init'[j].changed = init[j].changed
                  /\ init'[j].deletes = init[j].deletes
           /\ init'[j].step \in {"open", "deleting"} =>
                  init[j].step \in {"compared", "open", "deleting"}
           /\ init'[j].step \in {"new", "read", "compared"} =>
                  init[j].step \in {"new", "read", "compared"}
  <1> TypeOK
    BY DEF IInv
  <1>1. ASSUME NEW i \in Inits, NEW files \in Files, Launch(i, files)
        PROVE  init'[j] = init[j]
               \/ /\ init'[j].inserts = init[j].inserts
                  /\ init'[j].step \in {"read", "failed"}
                  /\ init[j].step = "new"
    BY <1>1 DEF Launch, At, TypeOK
  <1>2. ASSUME NEW i \in Inits, Compare(i)
        PROVE  init'[j] = init[j]
               \/ /\ init'[j].inserts = init[j].inserts
                  /\ init'[j].step = "compared"
                  /\ init[j].step = "read"
    BY <1>2 DEF Compare, At, TypeOK
  <1>3. ASSUME NEW i \in Inits, Begin(i)
        PROVE  init'[j] = init[j]
               \/ /\ init'[j].inserts = init[j].inserts
                  /\ init'[j].step = "deleting"
                  /\ init[j].step = "compared"
    BY <1>3 DEF Begin, At, TypeOK
  <1>4. ASSUME NEW i \in Inits, NEW d \in Documents, StartDelete(i, d)
        PROVE  init'[j] = init[j]
               \/ /\ init'[j].inserts = init[j].inserts
                  /\ init'[j].step = "deleting"
                  /\ init[j].step = "open"
    BY <1>4 DEF StartDelete, At, TypeOK
  <1>5. ASSUME NEW i \in Inits, EndDelete(i)
        PROVE  init'[j] = init[j]
               \/ /\ init'[j].inserts = init[j].inserts
                  /\ init'[j].step = "open"
                  /\ init[j].step = "deleting"
    BY <1>5 DEF EndDelete, At, TypeOK
  <1>6. ASSUME NEW i \in Inits, Insert(i)
        PROVE  init'[j] = init[j]
    BY <1>6 DEF Insert, TypeOK
  <1>7. ASSUME NEW i \in Inits, Commit(i) \/ Fail(i)
        PROVE  init'[j] = init[j]
               \/ /\ init'[j].inserts = init[j].inserts
                  /\ init'[j].step \in {"done", "failed"}
    BY <1>7 DEF Commit, Fail, Goto, TypeOK
  <1>8. CASE UNCHANGED vars
    BY <1>8 DEF vars
  <1>9. ASSUME NEW i \in Inits, Skip(i)
        PROVE  init'[j] = init[j]
               \/ /\ init'[j].inserts = init[j].inserts
                  /\ init'[j].step = "done"
    BY <1>9 DEF Skip, Goto, TypeOK
  <1> QED
    BY <1>1, <1>2, <1>3, <1>4, <1>5, <1>6, <1>7, <1>8, <1>9 DEF Next, Ingest

(* A commit adds no row that collides with one another ingest has inserted.*)
LEMMA NoNewCollision ==
    ASSUME IInv, [Next]_vars, NEW j \in Inits, init[j].step = "inserted",
           init'[j].step = "inserted", init'[j].deletes = init[j].deletes,
           NEW row \in init[j].inserts
    PROVE  ~Collides(j, row)'
  <1>1. ~Collides(j, row)
    BY DEF IInv, Inserted
  <1>2. CASE UNCHANGED rows
    BY <1>1, <1>2 DEF Collides
  <1>3. ASSUME NEW i \in Inits, Commit(i), NEW other \in rows',
               other \notin init[j].deletes, other.document = row.document
        PROVE  Index(other) # Index(row)
    <2>1. i # j /\ init[i].step = "inserted"
      BY <1>3 DEF Commit, Goto, At, IInv, TypeOK
    <2>2. other \notin init[i].inserts
      BY <1>3, <2>1 DEF IInv, Apart, Open
    <2>3. other \in rows
      BY <1>3, <2>2 DEF Commit
    <2> QED
      BY <1>1, <1>3, <2>3 DEF Collides
  <1> QED
    BY <1>2, <1>3, Writers DEF Collides

(* Every step keeps what is known of the open transactions.                *)
LEMMA InsertedStep == IInv /\ [Next]_vars => Inserted'
  <1> SUFFICES ASSUME IInv, [Next]_vars, NEW j \in Inits
               PROVE  /\ init'[j].step \in {"open", "deleting"} =>
                             init'[j].inserts = {}
                      /\ init'[j].step \in {"new", "read", "compared"} =>
                             init'[j].inserts = {}
                      /\ init'[j].step = "inserted" =>
                             /\ init'[j].inserts =
                                    Image(j, init'[j].files, init'[j].changed)
                             /\ \A row \in init'[j].inserts : ~Collides(j, row)'
    BY DEF Inserted, Image
  <1>1. CASE Insert(j)
    <2>1. init'[j].step \in {"inserted", "failed"} /\ UNCHANGED rows
      <3> DEFINE new == Image(j, init[j].files, init[j].changed)
      <3>1. init'[j].step = Outcome(j, new)
        BY <1>1 DEF Insert, IInv, TypeOK
      <3> QED
        BY <1>1, <3>1 DEF Insert, Outcome
    <2>2. ASSUME init'[j].step = "inserted"
          PROVE  /\ init'[j].inserts =
                        Image(j, init'[j].files, init'[j].changed)
                 /\ init'[j].deletes = init[j].deletes
                 /\ \A row \in init'[j].inserts : ~Collides(j, row)
      BY <1>1, <2>2, InsertFacts DEF Open
    <2>3. ASSUME init'[j].step = "inserted", NEW row \in init'[j].inserts
          PROVE  ~Collides(j, row)'
      BY <2>1, <2>2, <2>3 DEF Collides
    <2> QED
      BY <2>1, <2>2, <2>3
  <1>2. CASE ~Insert(j)
    <2>1. ASSUME init'[j].step = "inserted", NEW row \in init'[j].inserts
          PROVE  ~Collides(j, row)'
      BY <1>2, <2>1, InsertsKept, NoNewCollision
    <2> QED
      BY <1>2, <2>1, InsertsKept DEF IInv, Inserted
  <1> QED
    BY <1>1, <1>2

(* Every step keeps open transactions apart.                               *)
LEMMA ApartStep == IInv /\ [Next]_vars => Apart'
  <1> SUFFICES ASSUME IInv, [Next]_vars, NEW i \in Inits, NEW j \in Inits,
                      i # j, init'[i].step \in Open, init'[j].step \in Open,
                      NEW row \in init'[i].inserts, NEW other \in init'[j].inserts
               PROVE  row.document # other.document
    BY DEF Apart
  <1>1. ASSUME NEW k \in Inits, NEW l \in Inits, k # l, Insert(k)
        PROVE  init'[l] = init[l]
    BY <1>1 DEF Insert, IInv, TypeOK
  <1>2. CASE Insert(i)
    <2>1. init'[i].inserts = Image(i, init[i].files, init[i].changed)
      BY <1>2, InsertFacts
    <2>2. init[j].step \in Open /\ other \in init[j].inserts
      BY <1>1, <1>2
    <2> QED
      BY <1>2, <2>1, <2>2, InsertFacts
  <1>3. CASE Insert(j)
    <2>1. init'[j].inserts = Image(j, init[j].files, init[j].changed)
      BY <1>3, InsertFacts
    <2>2. init[i].step \in Open /\ row \in init[i].inserts
      BY <1>1, <1>3
    <2> QED
      BY <1>3, <2>1, <2>2, InsertFacts
  <1>4. CASE ~Insert(i) /\ ~Insert(j)
    <2>1. row \in init[i].inserts /\ other \in init[j].inserts
      BY <1>4, InsertsKept
    <2>2. init[i].step \in Open /\ init[j].step \in Open
      BY <1>4, <2>1, InsertsKept DEF IInv, Inserted, Open
    <2> QED
      BY <2>1, <2>2 DEF IInv, Apart
  <1> QED
    BY <1>2, <1>3, <1>4

-----------------------------------------------------------------------------
(* Results.                                                                *)

(* The empty table and the ingests that have not begun satisfy IInv.       *)
LEMMA InitHolds == Init => IInv
  <1> SUFFICES ASSUME Init PROVE IInv
    OBVIOUS
  <1>1. NoFiles \in Files
    BY DEF NoFiles, Files
  <1>2. TypeOK
    BY <1>1 DEF Init, TypeOK, Steps
  <1>3. WholeDocuments /\ Unwritten /\ Together
    BY DEF Init, WholeDocuments, Unwritten, Together, TogetherIn
  <1>4. Inserted /\ Apart
    BY DEF Init, Inserted, Apart, Open
  <1> QED
    BY <1>2, <1>3, <1>4 DEF IInv

(* The invariant of the ingests.                                           *)
THEOREM IngestInductive == Spec => []IInv
  <1>1. IInv /\ [Next]_vars => IInv'
    BY TypeStep, WholeStep, UnwrittenStep, TogetherStep, InsertedStep, ApartStep
       DEF IInv
  <1> QED
    BY InitHolds, <1>1, PTL DEF Spec

(* The table and the ingests keep their types.                             *)
THEOREM IngestTypes == Spec => []TypeOK
  <1>1. IInv => TypeOK
    BY DEF IInv
  <1> QED
    BY IngestInductive, <1>1, PTL

(* Whatever ingests run at once, the stored chunks of a document are those *)
(* of one text.                                                            *)
THEOREM DocumentsAreWhole == Spec => []WholeDocuments
  <1>1. IInv => WholeDocuments
    BY DEF IInv
  <1> QED
    BY IngestInductive, <1>1, PTL

(* Whole documents of whole texts miss no character.                       *)
LEMMA WholeCovers == IInv => TextsCovered
  <1> SUFFICES ASSUME IInv, NEW row \in rows,
                      NEW n \in 0 .. Length[row.version] - 1,
                      n \notin Blanks[row.version]
               PROVE  \E other \in rows :
                          /\ other.document = row.document
                          /\ other.start <= n
                          /\ n < ChunkEnd(other.version, other.start)
    BY DEF TextsCovered
  <1> DEFINE d == row.document
             v == row.version
  <1>1. d \in Documents /\ v \in Versions
    BY RowFields DEF IInv, TypeOK
  <1>2. PICK start \in Starts(v) : start <= n /\ n < ChunkEnd(v, start)
    BY <1>1, ChunksCover
  <1>3. Row(d, start, v, row.by) \in Image(row.by, [NoFiles EXCEPT ![d] = v], {d})
    BY <1>1, DocumentRows
  <1>4. {x \in rows : x.document = d}
            = Image(row.by, [NoFiles EXCEPT ![d] = v], {d})
    BY <1>1 DEF IInv, WholeDocuments
  <1>5. Row(d, start, v, row.by) \in rows
    BY <1>3, <1>4
  <1> QED
    BY <1>2, <1>5 DEF Row

(* Retrieval can find every character of a stored document but its blanks, *)
(* whatever the sizes of chunks and overlaps are.                          *)
THEOREM CharactersAreCovered == Spec => []TextsCovered
  BY IngestInductive, WholeCovers, PTL

-----------------------------------------------------------------------------
(* An ingest that nobody disturbs.                                         *)

(* What an ingest is to delete: the documents that are gone or changed.    *)
Stale(i) ==
    {row \in rows : \/ init[i].files[row.document] = None
                    \/ row.document \in init[i].changed}

(* What an ingest has read and deleted is still what is stored.            *)
Current(i) ==
    LET st == init[i] IN
    /\ st.step \in {"new", "read", "compared"} => st.deletes = {}
    /\ st.step \in {"compared"} \cup Open =>
           st.changed = {d \in Documents : st.files[d] # None /\ Differs(i, d)}
    /\ st.step \in Open =>
           st.deletes \cup st.target \cup {row \in rows : row.document \in st.todo}
               = Stale(i)
    /\ st.step \in {"open", "inserted"} => st.target = {}
    /\ st.step = "inserted" => st.todo = {}

(* The stored texts are those of a set of files.                           *)
Stores(i, files) == Texts(rows) = Texts(Image(i, files, Documents))

(* Its own steps keep what it knows.                                       *)
LEMMA CurrentStep ==
    ASSUME TypeOK, NEW i \in Inits, Ingest(i), Current(i)
    PROVE  Current(i)'
  <1> USE DEF Open, Ended
  <1>0. ASSUME rows' = rows, init'[i].files = init[i].files,
               init'[i].changed = init[i].changed
        PROVE  /\ {d \in Documents : init'[i].files[d] # None /\ Differs(i, d)'}
                     = {d \in Documents : init[i].files[d] # None /\ Differs(i, d)}
               /\ Stale(i)' = Stale(i)
    BY <1>0 DEF Differs, Stale
  <1>1. CASE Compare(i)
    <2>1. /\ rows' = rows
          /\ init'[i].step = "compared" /\ init'[i].files = init[i].files
          /\ init'[i].deletes = init[i].deletes
          /\ init'[i].changed = {d \in Documents : init[i].files[d] # None
                                                   /\ Differs(i, d)}
      BY <1>1 DEF Compare, TypeOK
    <2>2. init[i].step = "read"
      BY <1>1 DEF Compare, At
    <2> QED
      BY <2>1, <2>2 DEF Current, Differs
  <1>2. CASE Begin(i)
    <2>1. /\ rows' = rows
          /\ init'[i].step = "deleting" /\ init'[i].files = init[i].files
          /\ init'[i].deletes = init[i].deletes
          /\ init'[i].changed = init[i].changed
          /\ init'[i].todo = init[i].changed /\ init'[i].target = Removed(i)
      BY <1>2 DEF Begin, TypeOK
    <2>2. init[i].step = "compared"
      BY <1>2 DEF Begin, At
    <2> QED
      BY <2>1, <2>2 DEF Current, Differs, Stale, Removed
  <1>3. ASSUME NEW d \in Documents, StartDelete(i, d)
        PROVE  Current(i)'
    <2>1. /\ rows' = rows
          /\ init'[i].step = "deleting" /\ init'[i].files = init[i].files
          /\ init'[i].deletes = init[i].deletes
          /\ init'[i].changed = init[i].changed
          /\ init'[i].todo = init[i].todo \ {d}
          /\ init'[i].target = {row \in rows : row.document = d}
      BY <1>3 DEF StartDelete, TypeOK
    <2>2. init[i].step = "open" /\ d \in init[i].todo
      BY <1>3 DEF StartDelete, At
    <2>3. {row \in rows : row.document \in init[i].todo}
              = {row \in rows : row.document = d}
                \cup {row \in rows : row.document \in init[i].todo \ {d}}
      BY <2>2
    <2>4. /\ init[i].changed = {e \in Documents : init[i].files[e] # None
                                                  /\ Differs(i, e)}
          /\ init[i].target = {}
          /\ init[i].deletes \cup {row \in rows : row.document \in init[i].todo}
                 = Stale(i)
      BY <2>2 DEF Current
    <2>5. init'[i].deletes \cup init'[i].target
              \cup {row \in rows' : row.document \in init'[i].todo} = Stale(i)'
      BY <1>0, <2>1, <2>3, <2>4
    <2>6. init'[i].changed = {e \in Documents : init'[i].files[e] # None
                                                 /\ Differs(i, e)'}
      BY <1>0, <2>1, <2>4
    <2> QED
      BY <2>1, <2>5, <2>6 DEF Current
  <1>4. CASE EndDelete(i)
    <2>1. /\ rows' = rows
          /\ init'[i].step = "open" /\ init'[i].files = init[i].files
          /\ init'[i].deletes = init[i].deletes \cup (init[i].target \cap rows)
          /\ init'[i].changed = init[i].changed
          /\ init'[i].todo = init[i].todo /\ init'[i].target = {}
      BY <1>4 DEF EndDelete, TypeOK
    <2>2. init[i].step = "deleting"
      BY <1>4 DEF EndDelete, At
    <2>3. init[i].target \subseteq rows
      BY <2>2 DEF Current, Stale
    <2>4. init'[i].deletes = init[i].deletes \cup init[i].target
      BY <2>1, <2>3
    <2>5. /\ init'[i].changed = {e \in Documents : init'[i].files[e] # None
                                                   /\ Differs(i, e)'}
          /\ Stale(i)' = Stale(i)
      BY <1>0, <2>1, <2>2 DEF Current
    <2> QED
      BY <2>1, <2>2, <2>4, <2>5 DEF Current
  <1>5. CASE Insert(i)
    <2> DEFINE outcome == Outcome(i, Image(i, init[i].files, init[i].changed))
               inserts == IF outcome = "inserted"
                          THEN Image(i, init[i].files, init[i].changed) ELSE {}
    <2>1. outcome \in {"failed", "inserted"}
      BY DEF Outcome
    <2>2. /\ init[i].step = "open" /\ init[i].todo = {} /\ rows' = rows
          /\ init' = [init EXCEPT ![i].step = outcome, ![i].inserts = inserts]
      BY <1>5 DEF Insert, At
    <2> HIDE DEF outcome, inserts
    <2>3. /\ init'[i].step \in {"failed", "inserted"}
          /\ init'[i].files = init[i].files /\ init'[i].deletes = init[i].deletes
          /\ init'[i].changed = init[i].changed
          /\ init'[i].todo = init[i].todo /\ init'[i].target = init[i].target
      BY <2>1, <2>2 DEF TypeOK
    <2>4. /\ init[i].changed = {d \in Documents : init[i].files[d] # None
                                                  /\ Differs(i, d)}
          /\ init[i].deletes \cup {} \cup {row \in rows : row.document \in {}}
                 = Stale(i)
          /\ init[i].target = {}
      BY <2>2 DEF Current
    <2>5. /\ init'[i].changed = {e \in Documents : init'[i].files[e] # None
                                                   /\ Differs(i, e)'}
          /\ Stale(i)' = Stale(i)
      BY <1>0, <2>2, <2>3, <2>4
    <2>6. init'[i].deletes \cup {} \cup {row \in rows' : row.document \in {}}
              = Stale(i)'
      BY <2>3, <2>4, <2>5
    <2> QED
      BY <2>2, <2>3, <2>4, <2>5, <2>6 DEF Current
  <1>6. CASE Commit(i) \/ Fail(i)
    <2>1. init'[i].step \in {"done", "failed"}
      BY <1>6 DEF Commit, Fail, Goto, TypeOK
    <2> QED
      BY <2>1 DEF Current
  <1> QED
    BY <1>1, <1>2, <1>3, <1>4, <1>5, <1>6 DEF Ingest

(* The texts of an image, one by one.                                      *)
LEMMA ImageTexts ==
    ASSUME NEW i, NEW files, NEW documents, NEW text
    PROVE  text \in Texts(Image(i, files, documents)) <=>
               \E d \in documents : files[d] # None /\
                   \E n \in Starts(files[d]) : text = <<d, n, files[d]>>
  <1>1. \A d, n, v : /\ Row(d, n, v, i).document = d
                     /\ Row(d, n, v, i).start = n
                     /\ Row(d, n, v, i).version = v
    BY DEF Row
  <1> DEFINE image == Image(i, files, documents)
  <1> HIDE DEF image
  <1>2. ASSUME NEW row
        PROVE  row \in image <=>
                   \E d \in documents : files[d] # None /\
                       \E n \in Starts(files[d]) : row = Row(d, n, files[d], i)
    BY DEF image, Image, Row
  <1>3. text \in Texts(image) <=>
            \E row \in image : text = <<row.document, row.start, row.version>>
    BY DEF Texts
  <1>4. ASSUME text \in Texts(image)
        PROVE  \E d \in documents : files[d] # None /\
                   \E n \in Starts(files[d]) : text = <<d, n, files[d]>>
    <2>1. PICK row \in image : text = <<row.document, row.start, row.version>>
      BY <1>3, <1>4
    <2>2. PICK d \in documents : files[d] # None /\
              \E n \in Starts(files[d]) : row = Row(d, n, files[d], i)
      BY <1>2
    <2> QED
      BY <1>1, <2>1, <2>2
  <1>5. ASSUME NEW d \in documents, files[d] # None, NEW n \in Starts(files[d]),
               text = <<d, n, files[d]>>
        PROVE  text \in Texts(image)
    <2>1. Row(d, n, files[d], i) \in image
      BY <1>2, <1>5
    <2> QED
      BY <1>1, <1>3, <1>5, <2>1
  <1> QED
    BY <1>4, <1>5 DEF image

(* A stored document that an ingest has found unchanged is its file's.     *)
LEMMA UnchangedTexts ==
    ASSUME IInv, NEW i \in Inits, NEW d \in Documents,
           init[i].files[d] # None, ~Differs(i, d)
    PROVE  \A text : text \in Texts({row \in rows : row.document = d}) <=>
               \E n \in Starts(init[i].files[d]) :
                   text = <<d, n, init[i].files[d]>>
  <1> DEFINE v == init[i].files[d]
             stored == {row \in rows : row.document = d}
  <1>1. {row.version : row \in stored} = {v}
    BY DEF Differs
  <1>2. PICK row \in stored : row.version = v
    BY <1>1
  <1>3. v \in Versions
    BY DEF IInv, TypeOK, Files
  <1>4. stored = Image(row.by, [NoFiles EXCEPT ![d] = v], {d})
    BY <1>2 DEF IInv, WholeDocuments
  <1> HIDE DEF stored, v
  <1>5. \A x : x \in stored <=> \E n \in Starts(v) : x = Row(d, n, v, row.by)
    BY <1>3, <1>4, DocumentRows
  <1>6. \A n : /\ Row(d, n, v, row.by).document = d
               /\ Row(d, n, v, row.by).start = n
               /\ Row(d, n, v, row.by).version = v
    BY DEF Row
  <1>7. \A text : text \in Texts(stored) <=> \E n \in Starts(v) : text = <<d, n, v>>
    BY <1>5, <1>6 DEF Texts
  <1> QED
    BY <1>7 DEF stored, v

(* "changed, added, or removed documents are synchronized": the commit of  *)
(* an ingest nobody has disturbed leaves the texts of its files.           *)
LEMMA CommitSynchronizes ==
    ASSUME IInv, NEW i \in Inits, Current(i), Commit(i)
    PROVE  Texts(rows') = Texts(Image(i, init[i].files, Documents))
  <1> DEFINE files == init[i].files
             changed == init[i].changed
             inserts == Image(i, files, changed)
  <1>1. init[i].step = "inserted" /\ rows' = (rows \ init[i].deletes) \cup inserts
    BY DEF Commit, At, IInv, Inserted
  <1>2. init[i].deletes = Stale(i)
    BY <1>1 DEF Current, Open
  <1>3. changed = {d \in Documents : files[d] # None /\ Differs(i, d)}
    BY <1>1 DEF Current, Open
  <1>4. \A row \in rows : row.document \in Documents
    BY RowFields DEF IInv, TypeOK
  <1> HIDE DEF changed, inserts
  <1>5. ASSUME NEW text
        PROVE  text \in Texts(rows') <=>
                   \E d \in Documents : files[d] # None /\
                       \E n \in Starts(files[d]) : text = <<d, n, files[d]>>
    <2>1. text \in Texts(rows') <=>
              text \in Texts(inserts) \/ text \in Texts(rows \ Stale(i))
      BY <1>1, <1>2 DEF Texts
    <2>2. text \in Texts(inserts) <=>
              \E d \in changed : files[d] # None /\
                  \E n \in Starts(files[d]) : text = <<d, n, files[d]>>
      BY ImageTexts DEF inserts
    <2>3. text \in Texts(rows \ Stale(i)) <=>
              \E d \in Documents \ changed : files[d] # None /\
                  \E n \in Starts(files[d]) : text = <<d, n, files[d]>>
      <3>1. text \in Texts(rows \ Stale(i)) <=>
                \E d \in Documents \ changed : files[d] # None /\
                    text \in Texts({row \in rows : row.document = d})
        BY <1>4 DEF Stale, Texts, changed
      <3>2. \A d \in Documents \ changed : files[d] # None => ~Differs(i, d)
        BY <1>3
      <3>3. ASSUME NEW d \in Documents \ changed, files[d] # None
            PROVE  text \in Texts({row \in rows : row.document = d}) <=>
                       \E n \in Starts(files[d]) : text = <<d, n, files[d]>>
        BY <3>2, <3>3, UnchangedTexts
      <3> QED
        BY <3>1, <3>3
    <2>4. changed \subseteq Documents
      BY <1>3
    <2> QED
      BY <2>1, <2>2, <2>3, <2>4
  <1>6. \A text : text \in Texts(rows') <=>
                      text \in Texts(Image(i, files, Documents))
    BY <1>5, ImageTexts
  <1> HIDE DEF files
  <1>7. Texts(rows') = Texts(Image(i, files, Documents))
    BY <1>6
  <1> QED
    BY <1>7 DEF files

=============================================================================
