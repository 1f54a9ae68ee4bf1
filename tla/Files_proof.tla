---------------------------- MODULE Files_proof -----------------------------
(***************************************************************************)
(* Proofs about what is stored beside the database: the documents of the   *)
(* knowledge base (KnowledgeBase) and the files of the conversations       *)
(* (Attachments).  For any number of documents, requests and workers, and  *)
(* any limits with the hard time limit below the sweep's threshold, a      *)
(* document is ingested by one worker at a time, what can be retrieved is  *)
(* whole, outcomes stand, and objects follow their rows; for any number of *)
(* callers and files, the files of internal notes stay internal.           *)
(***************************************************************************)
EXTENDS KnowledgeBase, Attachments, TLAPS

-----------------------------------------------------------------------------
(* KnowledgeBase *)

\* What each request under way knows of its document: an upload's is its own
\* until it is registered, a deletion's was registered.
UploadsInv ==
    /\ \A e \in Editors : edits[e].pc = "stored" =>
          docs[edits[e].doc].status = "none" /\ docs[edits[e].doc].object = "stored"
    /\ \A e, f \in Editors : e # f /\ edits[e].pc = "stored" /\ edits[f].pc = "stored" =>
          edits[e].doc # edits[f].doc
    /\ \A e \in Editors : edits[e].pc \in {"found", "removed"} =>
          docs[edits[e].doc].status # "none"
    /\ \A e \in Editors : edits[e].pc = "removed" => docs[edits[e].doc].object # "stored"
    /\ \A d \in Docs : docs[d].upload => docs[d].object # "none"

\* A claim is as old as the run that made it at most.
ClaimsAreYoung ==
    \A w \in Ingesters : ingesters[w].pc \in {"claimed", "read"} =>
       docs[ingesters[w].doc].age <= ingesters[w].age

KInv ==
    /\ KnowledgeTypeOK /\ RetrievedIsWhole /\ ClaimedByOne /\ ClaimsAreYoung
    /\ UploadsInv /\ ObjectsFollowRows

-----------------------------------------------------------------------------
LEMMA AnyDocIsOne == AnyDoc \in Docs
  BY IngestAssumption DEF AnyDoc

LEMMA InitHolds == KnowledgeInit => KInv
<1> SUFFICES ASSUME KnowledgeInit PROVE KInv  OBVIOUS
<1> USE IngestAssumption, AnyDocIsOne DEF KnowledgeInit
<1>1. KnowledgeTypeOK  BY DEF KnowledgeTypeOK, Doc, Edit, Ingester
<1>2. RetrievedIsWhole  BY DEF RetrievedIsWhole, Searchable
<1>3. ClaimedByOne /\ ClaimsAreYoung  BY DEF ClaimedByOne, ClaimsAreYoung
<1>4. UploadsInv /\ ObjectsFollowRows  BY DEF UploadsInv, ObjectsFollowRows, Exists
<1> QED  BY <1>1, <1>2, <1>3, <1>4 DEF KInv

-----------------------------------------------------------------------------
(* The API: requests move, workers and their messages stay. *)

\* The row d becomes new: what that says of every row.
LEMMA RowChange ==
    ASSUME KnowledgeTypeOK, NEW d \in Docs, NEW new \in Doc, docs' = [docs EXCEPT ![d] = new]
    PROVE  /\ docs' \in [Docs -> Doc] /\ docs'[d] = new
           /\ \A c \in Docs : c # d => docs'[c] = docs[c]
  BY DEF KnowledgeTypeOK

\* A request moves: what that says of every request.
LEMMA RequestMove ==
    ASSUME KnowledgeTypeOK, NEW e \in Editors, NEW d \in Docs,
           NEW pc \in {"idle", "stored", "registered", "found", "removed"}, EditOf(e, pc, d)
    PROVE  /\ edits' \in [Editors -> Edit] /\ edits'[e].pc = pc /\ edits'[e].doc = d
           /\ \A f \in Editors : f # e => edits'[f] = edits[f]
  BY DEF KnowledgeTypeOK, EditOf, Edit

\* An upload's object, and no row yet.
LEMMA StoreObjectHolds ==
    ASSUME KInv, NEW e \in Editors, NEW d \in Docs, StoreObject(e, d) PROVE KInv'
<1> DEFINE new == [docs[d] EXCEPT !.upload = TRUE, !.object = "stored"]
<1>1. /\ KnowledgeTypeOK /\ RetrievedIsWhole /\ ClaimedByOne /\ ClaimsAreYoung
      /\ UploadsInv /\ ObjectsFollowRows
  BY DEF KInv
<1>2. /\ edits[e].pc = "idle" /\ docs[d].status = "none" /\ docs[d].object = "none"
      /\ docs' = [docs EXCEPT ![d] = new] /\ EditOf(e, "stored", d)
      /\ errands' = errands /\ ingesters' = ingesters /\ lost' = lost /\ broken' = broken
  BY DEF StoreObject
<1>3. d \in Docs /\ docs[d] \in Doc  BY <1>1 DEF KnowledgeTypeOK, Edit
<1>4. /\ new \in Doc /\ new.status = "none" /\ new.upload /\ new.object = "stored"
      /\ new.published = docs[d].published /\ new.chunks = docs[d].chunks
      /\ new.age = docs[d].age
  BY <1>2, <1>3 DEF Doc
<1> HIDE DEF new
<1>5. /\ docs' \in [Docs -> Doc] /\ docs'[d] = new
      /\ \A c \in Docs : c # d => docs'[c] = docs[c]
  BY <1>1, <1>2, <1>3, <1>4, RowChange
<1>6. /\ edits' \in [Editors -> Edit] /\ edits'[e].pc = "stored" /\ edits'[e].doc = d
      /\ \A f \in Editors : f # e => edits'[f] = edits[f]
  BY <1>1, <1>2, <1>3, RequestMove
<1>7. KnowledgeTypeOK'  BY <1>1, <1>2, <1>5, <1>6 DEF KnowledgeTypeOK
<1>8. RetrievedIsWhole'  BY <1>1, <1>2, <1>4, <1>5 DEF RetrievedIsWhole, Searchable
<1>9. ClaimedByOne' /\ ClaimsAreYoung'
  <2>1. ingesters \in [Ingesters -> Ingester]  BY <1>1 DEF KnowledgeTypeOK
  <2>2. \A w \in Ingesters : ingesters[w].age \in Nat  BY <2>1, IngestAssumption DEF Ingester
  <2> QED  BY <2>2, <1>1, <1>2, <1>4, <1>5 DEF ClaimedByOne, ClaimsAreYoung
<1>10. UploadsInv'  BY <1>1, <1>2, <1>4, <1>5, <1>6 DEF UploadsInv
<1>11. ObjectsFollowRows'
  BY <1>1, <1>2, <1>4, <1>5, <1>6 DEF ObjectsFollowRows, Exists, UploadsInv
<1> QED  BY <1>7, <1>8, <1>9, <1>10, <1>11 DEF KInv

\* The upload's row: nobody else stored an object for it.
LEMMA RegisterUploadHolds ==
    ASSUME KInv, NEW e \in Editors, RegisterUpload(e) PROVE KInv'
<1> DEFINE d == edits[e].doc
           new == [docs[d] EXCEPT !.status = "pending"]
<1>1. /\ KnowledgeTypeOK /\ RetrievedIsWhole /\ ClaimedByOne /\ ClaimsAreYoung
      /\ UploadsInv /\ ObjectsFollowRows
  BY DEF KInv
<1>2. /\ edits[e].pc = "stored" /\ edits[e].doc = d
      /\ docs' = [docs EXCEPT ![d] = new] /\ EditOf(e, "registered", d)
      /\ errands' = errands /\ ingesters' = ingesters /\ lost' = lost /\ broken' = broken
  BY DEF RegisterUpload
<1>3. d \in Docs /\ docs[d] \in Doc  BY <1>1 DEF KnowledgeTypeOK, Edit
<1>4. /\ new \in Doc /\ new.status = "pending" /\ new.upload = docs[d].upload /\ new.object = docs[d].object
      /\ new.published = docs[d].published /\ new.chunks = docs[d].chunks
      /\ new.age = docs[d].age
  BY <1>2, <1>3 DEF Doc
<1> HIDE DEF new, d
<1>5. /\ docs' \in [Docs -> Doc] /\ docs'[d] = new
      /\ \A c \in Docs : c # d => docs'[c] = docs[c]
  BY <1>1, <1>2, <1>3, <1>4, RowChange
<1>6. /\ edits' \in [Editors -> Edit] /\ edits'[e].pc = "registered" /\ edits'[e].doc = d
      /\ \A f \in Editors : f # e => edits'[f] = edits[f]
  BY <1>1, <1>2, <1>3, RequestMove
<1>7. KnowledgeTypeOK'  BY <1>1, <1>2, <1>5, <1>6 DEF KnowledgeTypeOK
<1>8. RetrievedIsWhole'  BY <1>1, <1>2, <1>4, <1>5 DEF RetrievedIsWhole, Searchable, UploadsInv
<1>9. ClaimedByOne' /\ ClaimsAreYoung'
  <2>1. ingesters \in [Ingesters -> Ingester]  BY <1>1 DEF KnowledgeTypeOK
  <2>2. \A w \in Ingesters : ingesters[w].age \in Nat  BY <2>1, IngestAssumption DEF Ingester
  <2> QED  BY <2>2, <1>1, <1>2, <1>4, <1>5 DEF ClaimedByOne, ClaimsAreYoung, UploadsInv
<1>10. UploadsInv'  BY <1>1, <1>2, <1>4, <1>5, <1>6 DEF UploadsInv
<1>11. ObjectsFollowRows'
  BY <1>1, <1>2, <1>4, <1>5, <1>6 DEF ObjectsFollowRows, Exists, UploadsInv
<1> QED  BY <1>7, <1>8, <1>9, <1>10, <1>11 DEF KInv

\* A row without an object.
LEMMA RegisterTextHolds ==
    ASSUME KInv, NEW e \in Editors, NEW d \in Docs, RegisterText(e, d) PROVE KInv'
<1> DEFINE new == [docs[d] EXCEPT !.status = "pending"]
<1>1. /\ KnowledgeTypeOK /\ RetrievedIsWhole /\ ClaimedByOne /\ ClaimsAreYoung
      /\ UploadsInv /\ ObjectsFollowRows
  BY DEF KInv
<1>2. /\ edits[e].pc = "idle" /\ docs[d].status = "none" /\ docs[d].object = "none"
      /\ docs' = [docs EXCEPT ![d] = new] /\ EditOf(e, "registered", d)
      /\ errands' = errands /\ ingesters' = ingesters /\ lost' = lost /\ broken' = broken
  BY DEF RegisterText
<1>3. d \in Docs /\ docs[d] \in Doc  BY <1>1 DEF KnowledgeTypeOK, Edit
<1>4. /\ new \in Doc /\ new.status = "pending" /\ new.upload = docs[d].upload /\ new.object = "none"
      /\ new.published = docs[d].published /\ new.chunks = docs[d].chunks
      /\ new.age = docs[d].age
  BY <1>2, <1>3 DEF Doc
<1> HIDE DEF new
<1>5. /\ docs' \in [Docs -> Doc] /\ docs'[d] = new
      /\ \A c \in Docs : c # d => docs'[c] = docs[c]
  BY <1>1, <1>2, <1>3, <1>4, RowChange
<1>6. /\ edits' \in [Editors -> Edit] /\ edits'[e].pc = "registered" /\ edits'[e].doc = d
      /\ \A f \in Editors : f # e => edits'[f] = edits[f]
  BY <1>1, <1>2, <1>3, RequestMove
<1>7. KnowledgeTypeOK'  BY <1>1, <1>2, <1>5, <1>6 DEF KnowledgeTypeOK
<1>8. RetrievedIsWhole'  BY <1>1, <1>2, <1>4, <1>5 DEF RetrievedIsWhole, Searchable
<1>9. ClaimedByOne' /\ ClaimsAreYoung'
  <2>1. ingesters \in [Ingesters -> Ingester]  BY <1>1 DEF KnowledgeTypeOK
  <2>2. \A w \in Ingesters : ingesters[w].age \in Nat  BY <2>1, IngestAssumption DEF Ingester
  <2> QED  BY <2>2, <1>1, <1>2, <1>4, <1>5 DEF ClaimedByOne, ClaimsAreYoung
<1>10. UploadsInv'  BY <1>1, <1>2, <1>4, <1>5, <1>6 DEF UploadsInv
<1>11. ObjectsFollowRows'
  BY <1>1, <1>2, <1>4, <1>5, <1>6 DEF ObjectsFollowRows, Exists, UploadsInv
<1> QED  BY <1>7, <1>8, <1>9, <1>10, <1>11 DEF KInv

\* A deletion removes the object of a row that was registered.
LEMMA DeleteObjectHolds ==
    ASSUME KInv, NEW e \in Editors, DeleteObject(e) PROVE KInv'
<1> DEFINE d == edits[e].doc
           new == [docs[d] EXCEPT !.object = IF @ = "stored" THEN "gone" ELSE @]
<1>1. /\ KnowledgeTypeOK /\ RetrievedIsWhole /\ ClaimedByOne /\ ClaimsAreYoung
      /\ UploadsInv /\ ObjectsFollowRows
  BY DEF KInv
<1>2. /\ edits[e].pc = "found" /\ edits[e].doc = d
      /\ docs' = [docs EXCEPT ![d] = new] /\ EditOf(e, "removed", d)
      /\ errands' = errands /\ ingesters' = ingesters /\ lost' = lost /\ broken' = broken
  BY DEF DeleteObject
<1>3. d \in Docs /\ docs[d] \in Doc  BY <1>1 DEF KnowledgeTypeOK, Edit
<1>4. /\ new \in Doc /\ new.status = docs[d].status /\ new.upload = docs[d].upload
      /\ new.object = (IF docs[d].object = "stored" THEN "gone" ELSE docs[d].object)
      /\ new.published = docs[d].published /\ new.chunks = docs[d].chunks
      /\ new.age = docs[d].age
  BY <1>2, <1>3 DEF Doc
<1> HIDE DEF new, d
<1>5. /\ docs' \in [Docs -> Doc] /\ docs'[d] = new
      /\ \A c \in Docs : c # d => docs'[c] = docs[c]
  BY <1>1, <1>2, <1>3, <1>4, RowChange
<1>6. /\ edits' \in [Editors -> Edit] /\ edits'[e].pc = "removed" /\ edits'[e].doc = d
      /\ \A f \in Editors : f # e => edits'[f] = edits[f]
  BY <1>1, <1>2, <1>3, RequestMove
<1>7. KnowledgeTypeOK'  BY <1>1, <1>2, <1>5, <1>6 DEF KnowledgeTypeOK
<1>8. RetrievedIsWhole'  BY <1>1, <1>2, <1>4, <1>5 DEF RetrievedIsWhole, Searchable
<1>9. ClaimedByOne' /\ ClaimsAreYoung'
  <2>1. ingesters \in [Ingesters -> Ingester]  BY <1>1 DEF KnowledgeTypeOK
  <2>2. \A w \in Ingesters : ingesters[w].age \in Nat  BY <2>1, IngestAssumption DEF Ingester
  <2> QED  BY <2>2, <1>1, <1>2, <1>4, <1>5 DEF ClaimedByOne, ClaimsAreYoung
<1>10. UploadsInv'  BY <1>1, <1>2, <1>4, <1>5, <1>6 DEF UploadsInv
<1>11. ObjectsFollowRows'
  BY <1>1, <1>2, <1>4, <1>5, <1>6 DEF ObjectsFollowRows, Exists, UploadsInv
<1> QED  BY <1>7, <1>8, <1>9, <1>10, <1>11 DEF KInv

\* ... and then the row: its object is gone by now.
LEMMA DeleteRowHolds ==
    ASSUME KInv, NEW e \in Editors, DeleteRow(e) PROVE KInv'
<1> DEFINE d == edits[e].doc
           new == [docs[d] EXCEPT !.status = "deleted", !.published = FALSE, !.chunks = "none",
                                !.age = 0]
<1>1. /\ KnowledgeTypeOK /\ RetrievedIsWhole /\ ClaimedByOne /\ ClaimsAreYoung
      /\ UploadsInv /\ ObjectsFollowRows
  BY DEF KInv
<1>2. /\ edits[e].pc = "removed" /\ edits[e].doc = d
      /\ docs' = [docs EXCEPT ![d] = new] /\ EditOf(e, "idle", AnyDoc)
      /\ errands' = errands /\ ingesters' = ingesters /\ lost' = lost /\ broken' = broken
  BY DEF DeleteRow
<1>3. d \in Docs /\ docs[d] \in Doc  BY <1>1 DEF KnowledgeTypeOK, Edit
<1>4. /\ new \in Doc /\ new.status = "deleted" /\ new.upload = docs[d].upload /\ new.object = docs[d].object
      /\ ~ new.published /\ new.chunks = "none" /\ new.age = 0
  <2>1. 0 \in 0 .. IngestPatience + 1  BY IngestAssumption
  <2>2. docs[d].status \in {"none", "pending", "processing", "completed", "failed", "deleted"}
        /\ docs[d].upload \in BOOLEAN /\ docs[d].object \in {"none", "stored", "gone"}
    BY <1>3 DEF Doc
  <2> HIDE DEF d
  <2> QED  BY <1>3, <2>1, <2>2 DEF Doc
<1> HIDE DEF new, d
<1>5. /\ docs' \in [Docs -> Doc] /\ docs'[d] = new
      /\ \A c \in Docs : c # d => docs'[c] = docs[c]
  BY <1>1, <1>2, <1>3, <1>4, RowChange
<1>6. /\ edits' \in [Editors -> Edit] /\ edits'[e].pc = "idle" /\ edits'[e].doc = AnyDoc
      /\ \A f \in Editors : f # e => edits'[f] = edits[f]
  BY <1>1, <1>2, <1>3, AnyDocIsOne, RequestMove
<1>7. KnowledgeTypeOK'  BY <1>1, <1>2, <1>5, <1>6 DEF KnowledgeTypeOK
<1>8. RetrievedIsWhole'  BY <1>1, <1>2, <1>4, <1>5 DEF RetrievedIsWhole, Searchable
<1>9. ClaimedByOne' /\ ClaimsAreYoung'
  <2>1. ingesters \in [Ingesters -> Ingester]  BY <1>1 DEF KnowledgeTypeOK
  <2>2. \A w \in Ingesters : ingesters[w].age \in Nat  BY <2>1, IngestAssumption DEF Ingester
  <2> QED  BY <2>2, <1>1, <1>2, <1>4, <1>5 DEF ClaimedByOne, ClaimsAreYoung
<1>10. UploadsInv'  BY <1>1, <1>2, <1>4, <1>5, <1>6 DEF UploadsInv
<1>11. ObjectsFollowRows'
  BY <1>1, <1>2, <1>4, <1>5, <1>6 DEF ObjectsFollowRows, Exists, UploadsInv
<1> QED  BY <1>7, <1>8, <1>9, <1>10, <1>11 DEF KInv

\* Requests that move and leave the rows alone.
LEMMA RequestHolds ==
    ASSUME KInv, NEW e \in Editors, NEW d \in Docs,
           EnqueueIngestion(e) \/ FindDocument(e, d) \/ GiveUp(e)
    PROVE  KInv'
<1>1. /\ KnowledgeTypeOK /\ RetrievedIsWhole /\ ClaimedByOne /\ ClaimsAreYoung
      /\ UploadsInv /\ ObjectsFollowRows
  BY DEF KInv
<1>2. /\ docs' = docs /\ ingesters' = ingesters /\ lost' = lost
      /\ edits[e].doc \in Docs
  BY <1>1 DEF EnqueueIngestion, FindDocument, GiveUp, KnowledgeTypeOK, Edit
<1>3. RetrievedIsWhole' /\ ClaimedByOne' /\ ClaimsAreYoung'
  BY <1>1, <1>2 DEF RetrievedIsWhole, Searchable, ClaimedByOne, ClaimsAreYoung
<1>4. CASE EnqueueIngestion(e) \/ GiveUp(e)
  <2>1. /\ edits' \in [Editors -> Edit] /\ edits'[e].pc = "idle"
        /\ \A f \in Editors : f # e => edits'[f] = edits[f]
    BY <1>1, <1>4, AnyDocIsOne, RequestMove DEF EnqueueIngestion, GiveUp
  <2>2. errands' \subseteq Docs /\ broken' \subseteq Docs /\ broken \subseteq broken'
    BY <1>1, <1>2, <1>4 DEF EnqueueIngestion, GiveUp, KnowledgeTypeOK
  <2>3. edits[e].pc = "removed" => edits[e].doc \in broken'
    BY <1>4 DEF EnqueueIngestion, GiveUp
  <2>4. KnowledgeTypeOK'  BY <1>1, <1>2, <2>1, <2>2 DEF KnowledgeTypeOK
  <2>5. UploadsInv'  BY <1>1, <1>2, <2>1 DEF UploadsInv
  <2>6. ObjectsFollowRows'  BY <1>1, <1>2, <2>1, <2>2, <2>3 DEF ObjectsFollowRows, Exists
  <2> QED  BY <1>3, <2>4, <2>5, <2>6 DEF KInv
<1>5. CASE FindDocument(e, d)
  <2>1. /\ edits' \in [Editors -> Edit] /\ edits'[e].pc = "found" /\ edits'[e].doc = d
        /\ \A f \in Editors : f # e => edits'[f] = edits[f]
    BY <1>1, <1>5, RequestMove DEF FindDocument
  <2>2. errands' = errands /\ broken' = broken /\ Exists(d) /\ edits[e].pc = "idle"
    BY <1>5 DEF FindDocument
  <2>3. KnowledgeTypeOK'  BY <1>1, <1>2, <2>1, <2>2 DEF KnowledgeTypeOK
  <2>4. UploadsInv'  BY <1>1, <1>2, <2>1, <2>2 DEF UploadsInv, Exists
  <2>5. ObjectsFollowRows'  BY <1>1, <1>2, <2>1, <2>2 DEF ObjectsFollowRows, Exists
  <2> QED  BY <1>3, <2>3, <2>4, <2>5 DEF KInv
<1> QED  BY <1>4, <1>5

-----------------------------------------------------------------------------
(* Ingestion: workers move, requests stay. *)

\* A worker moves: what that says of every worker.
LEMMA WorkerMove ==
    ASSUME KnowledgeTypeOK, NEW w \in Ingesters, NEW d \in Docs,
           NEW pc \in {"idle", "taken", "claimed", "read"}, NEW age \in 0 .. IngestLimit,
           AtDoc(w, pc, d, age)
    PROVE  /\ ingesters' \in [Ingesters -> Ingester]
           /\ ingesters'[w].pc = pc /\ ingesters'[w].doc = d /\ ingesters'[w].age = age
           /\ \A v \in Ingesters : v # w => ingesters'[v] = ingesters[v]
  BY DEF KnowledgeTypeOK, AtDoc, Ingester

LEMMA WorkerHome ==
    ASSUME KnowledgeTypeOK, NEW w \in Ingesters, Home(w)
    PROVE  /\ ingesters' \in [Ingesters -> Ingester] /\ ingesters'[w].pc = "idle"
           /\ \A v \in Ingesters : v # w => ingesters'[v] = ingesters[v]
  BY WorkerMove, AnyDocIsOne, IngestAssumption DEF Home

\* Workers that end a run, or go on with the claim they have.
LEMMA RunsGoOn ==
    ASSUME KInv, docs' = docs, edits' = edits, broken' = broken,
           errands' \subseteq Docs, lost' \in 0 .. IngestFaults,
           ingesters' \in [Ingesters -> Ingester],
           \A v \in Ingesters : ingesters'[v].pc \in {"claimed", "read"} =>
              /\ ingesters[v].pc \in {"claimed", "read"}
              /\ ingesters'[v].doc = ingesters[v].doc /\ ingesters'[v].age = ingesters[v].age
    PROVE  KInv'
<1>1. /\ KnowledgeTypeOK /\ RetrievedIsWhole /\ ClaimedByOne /\ ClaimsAreYoung
      /\ UploadsInv /\ ObjectsFollowRows
  BY DEF KInv
<1>2. KnowledgeTypeOK'  BY <1>1 DEF KnowledgeTypeOK
<1>3. RetrievedIsWhole' /\ UploadsInv' /\ ObjectsFollowRows'
  BY <1>1 DEF RetrievedIsWhole, Searchable, UploadsInv, ObjectsFollowRows, Exists
<1>4. ClaimedByOne' /\ ClaimsAreYoung'  BY <1>1 DEF ClaimedByOne, ClaimsAreYoung
<1> QED  BY <1>2, <1>3, <1>4 DEF KInv

LEMMA WorkerHolds ==
    ASSUME KInv, NEW w \in Ingesters,
           (\E d \in Docs : Fetch(w, d)) \/ ReadSource(w) \/ LoseIngester(w) \/ RepeatErrand(w)
              \/ StopIngester(w)
    PROVE  KInv'
<1>1. KnowledgeTypeOK  BY DEF KInv
<1>2. ingesters[w] \in Ingester /\ ingesters[w].doc \in Docs
      /\ ingesters[w].age \in 0 .. IngestLimit
  BY <1>1 DEF KnowledgeTypeOK, Ingester
<1>3. ASSUME NEW d \in Docs, Fetch(w, d) PROVE KInv'
  <2>1. 0 \in 0 .. IngestLimit  BY IngestAssumption
  <2>2. /\ ingesters' \in [Ingesters -> Ingester] /\ ingesters'[w].pc = "taken"
        /\ \A v \in Ingesters : v # w => ingesters'[v] = ingesters[v]
    BY <1>1, <1>3, <2>1, WorkerMove DEF Fetch
  <2> QED  BY <1>1, <1>3, <2>2, RunsGoOn DEF Fetch, KnowledgeTypeOK
<1>4. CASE ReadSource(w)
  <2>1. /\ ingesters' \in [Ingesters -> Ingester] /\ ingesters[w].pc = "claimed"
        /\ ingesters'[w].doc = ingesters[w].doc /\ ingesters'[w].age = ingesters[w].age
        /\ \A v \in Ingesters : v # w => ingesters'[v] = ingesters[v]
    BY <1>1, <1>2, <1>4, WorkerMove DEF ReadSource
  <2> QED  BY <1>1, <1>4, <2>1, RunsGoOn DEF ReadSource, KnowledgeTypeOK
<1>5. CASE LoseIngester(w) \/ StopIngester(w)
  <2>1. /\ ingesters' \in [Ingesters -> Ingester] /\ ingesters'[w].pc = "idle"
        /\ \A v \in Ingesters : v # w => ingesters'[v] = ingesters[v]
    BY <1>1, <1>5, WorkerHome DEF LoseIngester, StopIngester
  <2>2. /\ docs' = docs /\ edits' = edits /\ broken' = broken
        /\ errands' \subseteq Docs /\ lost' \in 0 .. IngestFaults
    BY <1>1, <1>2, <1>5, IngestAssumption DEF LoseIngester, StopIngester, KnowledgeTypeOK
  <2> QED  BY <2>1, <2>2, RunsGoOn
<1>6. CASE RepeatErrand(w)
  <2>1. /\ docs' = docs /\ edits' = edits /\ broken' = broken /\ ingesters' = ingesters
        /\ errands' \subseteq Docs /\ lost' \in 0 .. IngestFaults
        /\ ingesters \in [Ingesters -> Ingester]
    BY <1>1, <1>2, <1>6, IngestAssumption DEF RepeatErrand, KnowledgeTypeOK
  <2> QED  BY <2>1, RunsGoOn
<1> QED  BY <1>3, <1>4, <1>5, <1>6

\* A claim: the row was pending, so nobody else holds it.
LEMMA ClaimHolds == ASSUME KInv, NEW w \in Ingesters, ClaimDocument(w) PROVE KInv'
<1> DEFINE d == ingesters[w].doc
           age == ingesters[w].age
           new == [docs[d] EXCEPT !.status = "processing", !.age = 0]
<1>1. /\ KnowledgeTypeOK /\ RetrievedIsWhole /\ ClaimedByOne /\ ClaimsAreYoung
      /\ UploadsInv /\ ObjectsFollowRows
  BY DEF KInv
<1>2. /\ edits' = edits /\ broken' = broken /\ errands' = errands /\ lost' = lost
  BY DEF ClaimDocument
<1>3. /\ d \in Docs /\ docs[d] \in Doc /\ ingesters[w].age \in 0 .. IngestLimit
  BY <1>1 DEF KnowledgeTypeOK, Ingester
<1>4. CASE docs[d].status = "pending"
  <2>1. docs' = [docs EXCEPT ![d] = new] /\ AtDoc(w, "claimed", d, age)
    BY <1>4 DEF ClaimDocument
  <2>2. 0 \in 0 .. IngestPatience + 1  BY IngestAssumption
  <2>3. 0 <= age  BY <1>3, IngestAssumption
  <2> HIDE DEF d, age
  <2>4. /\ new \in Doc /\ new.status = "processing" /\ new.age = 0
        /\ new.upload = docs[d].upload /\ new.object = docs[d].object
        /\ new.published = docs[d].published /\ new.chunks = docs[d].chunks
    BY <1>3, <2>2 DEF Doc
  <2> HIDE DEF new
  <2>5. /\ docs' \in [Docs -> Doc] /\ docs'[d] = new
        /\ \A c \in Docs : c # d => docs'[c] = docs[c]
    BY <1>1, <1>3, <2>1, <2>4, RowChange
  <2>6. /\ ingesters' \in [Ingesters -> Ingester]
        /\ ingesters'[w].doc = d /\ ingesters'[w].age = age
        /\ \A v \in Ingesters : v # w => ingesters'[v] = ingesters[v]
    BY <1>1, <1>3, <2>1, WorkerMove DEF age
  <2>7. KnowledgeTypeOK'  BY <1>1, <1>2, <2>5, <2>6 DEF KnowledgeTypeOK
  <2>8. RetrievedIsWhole'  BY <1>1, <1>4, <2>4, <2>5 DEF RetrievedIsWhole, Searchable, d
  <2>9. \A v \in Ingesters : v # w /\ ingesters[v].pc \in {"claimed", "read"} =>
           ingesters[v].doc # d
    BY <1>1, <1>4 DEF ClaimedByOne, d
  <2>10. \A v \in Ingesters : ingesters[v].doc \in Docs  BY <1>1 DEF KnowledgeTypeOK, Ingester
  <2>11. ClaimedByOne'
    BY <1>1, <1>3, <2>4, <2>5, <2>6, <2>9, <2>10 DEF ClaimedByOne
  <2>12. ClaimsAreYoung'
    BY <1>1, <1>3, <2>3, <2>4, <2>5, <2>6, <2>9, <2>10 DEF ClaimsAreYoung
  <2>13. UploadsInv'
    <3>1. docs[d].status = "pending"  BY <1>4 DEF d
    <3>2. \A c \in Docs :
            /\ docs'[c].status = "none" <=> docs[c].status = "none"
            /\ docs'[c].object = docs[c].object /\ docs'[c].upload = docs[c].upload
      BY <3>1, <2>4, <2>5
    <3>3. \A e \in Editors : edits[e].doc \in Docs  BY <1>1 DEF KnowledgeTypeOK, Edit
    <3> QED  BY <3>2, <3>3, <1>1, <1>2 DEF UploadsInv
  <2>14. ObjectsFollowRows'
    <3>1. docs[d].status = "pending"  BY <1>4 DEF d
    <3> QED  BY <3>1, <1>1, <1>2, <2>4, <2>5 DEF ObjectsFollowRows, Exists
  <2> QED  BY <2>7, <2>8, <2>11, <2>12, <2>13, <2>14 DEF KInv
<1>5. CASE docs[d].status # "pending"
  <2>1. docs' = docs /\ Home(w)  BY <1>5 DEF ClaimDocument
  <2>2. /\ ingesters' \in [Ingesters -> Ingester] /\ ingesters'[w].pc = "idle"
        /\ \A v \in Ingesters : v # w => ingesters'[v] = ingesters[v]
    BY <1>1, <2>1, WorkerHome
  <2> QED  BY <1>1, <1>2, <2>1, <2>2, RunsGoOn DEF KnowledgeTypeOK
<1> QED  BY <1>4, <1>5

\* An outcome: of a row this worker holds alone, with all of its chunks or none.
LEMMA OutcomeHolds ==
    ASSUME KInv, NEW w \in Ingesters, StoreChunks(w) \/ FailDocument(w) PROVE KInv'
<1>1. /\ KnowledgeTypeOK /\ RetrievedIsWhole /\ ClaimedByOne /\ ClaimsAreYoung
      /\ UploadsInv /\ ObjectsFollowRows
  BY DEF KInv
<1>2. /\ edits' = edits /\ broken' = broken /\ errands' = errands /\ lost' = lost /\ Home(w)
      /\ ingesters[w].pc \in {"claimed", "read"}
  BY DEF StoreChunks, FailDocument
<1>3. /\ ingesters' \in [Ingesters -> Ingester] /\ ingesters'[w].pc = "idle"
      /\ \A v \in Ingesters : v # w => ingesters'[v] = ingesters[v]
  BY <1>1, <1>2, WorkerHome
<1>4. PICK d \in Docs : d = ingesters[w].doc  BY <1>1 DEF KnowledgeTypeOK, Ingester
<1>5. docs[d] \in Doc /\ docs[d].status \in {"processing", "deleted"}
  BY <1>1, <1>2, <1>4 DEF KnowledgeTypeOK, ClaimedByOne
<1>6. CASE ~ Exists(d)
  <2>1. docs' = docs  BY <1>4, <1>6 DEF StoreChunks, FailDocument
  <2> QED  BY <1>1, <1>2, <1>3, <2>1, RunsGoOn DEF KnowledgeTypeOK
<1>7. CASE Exists(d)
  <2>1. docs[d].status = "processing"  BY <1>5, <1>7 DEF Exists
  <2>2. 0 \in 0 .. IngestPatience + 1  BY IngestAssumption
  <2>3. PICK new \in Doc :
           /\ docs' = [docs EXCEPT ![d] = new] /\ new.status \in {"completed", "failed"}
           /\ new.status = "completed" => new.chunks = "all" /\ new.published
           /\ new.status = "failed" => new.chunks = docs[d].chunks
                                        /\ new.published = docs[d].published
           /\ new.upload = docs[d].upload /\ new.object = docs[d].object
    <3>1. CASE StoreChunks(w)
      <4> DEFINE new == [docs[d] EXCEPT !.status = "completed", !.published = TRUE,
                                        !.chunks = "all", !.age = 0]
      <4>1. docs' = [docs EXCEPT ![d] = new]  BY <1>4, <1>7, <3>1 DEF StoreChunks
      <4>2. /\ new \in Doc /\ new.status = "completed" /\ new.chunks = "all" /\ new.published
            /\ new.upload = docs[d].upload /\ new.object = docs[d].object
        BY <1>5, <2>2 DEF Doc
      <4> HIDE DEF new
      <4> QED  BY <4>1, <4>2
    <3>2. CASE FailDocument(w)
      <4> DEFINE new == [docs[d] EXCEPT !.status = "failed", !.age = 0]
      <4>1. docs' = [docs EXCEPT ![d] = new]  BY <1>4, <1>7, <3>2 DEF FailDocument
      <4>2. /\ new \in Doc /\ new.status = "failed"
            /\ new.chunks = docs[d].chunks /\ new.published = docs[d].published
            /\ new.upload = docs[d].upload /\ new.object = docs[d].object
        BY <1>5, <2>2 DEF Doc
      <4> HIDE DEF new
      <4> QED  BY <4>1, <4>2
    <3> QED  BY <3>1, <3>2
  <2>4. /\ docs' \in [Docs -> Doc] /\ docs'[d] = new
        /\ \A c \in Docs : c # d => docs'[c] = docs[c]
    BY <1>1, <2>3, RowChange
  <2>5. KnowledgeTypeOK'  BY <1>1, <1>2, <1>3, <2>4 DEF KnowledgeTypeOK
  <2>6. RetrievedIsWhole'  BY <1>1, <2>1, <2>3, <2>4 DEF RetrievedIsWhole, Searchable
  <2>7. \A v \in Ingesters : v # w /\ ingesters[v].pc \in {"claimed", "read"} =>
           ingesters[v].doc # d /\ ingesters[v].doc \in Docs
    BY <1>1, <1>2, <1>4 DEF ClaimedByOne, KnowledgeTypeOK, Ingester
  <2>8. ClaimedByOne' /\ ClaimsAreYoung'
    BY <1>1, <1>3, <2>4, <2>7 DEF ClaimedByOne, ClaimsAreYoung
  <2>9. UploadsInv'
    <3>1. \A c \in Docs :
            /\ docs'[c].status = "none" <=> docs[c].status = "none"
            /\ docs'[c].object = docs[c].object /\ docs'[c].upload = docs[c].upload
      BY <2>1, <2>3, <2>4
    <3>2. \A e \in Editors : edits[e].doc \in Docs  BY <1>1 DEF KnowledgeTypeOK, Edit
    <3> QED  BY <3>1, <3>2, <1>1, <1>2 DEF UploadsInv
  <2>10. ObjectsFollowRows'
    BY <1>1, <1>2, <2>1, <2>3, <2>4 DEF ObjectsFollowRows, Exists
  <2> QED  BY <2>5, <2>6, <2>8, <2>9, <2>10 DEF KInv
<1> QED  BY <1>6, <1>7

\* The sweep fails what is older than any run can be.
LEMMA SweepHolds == ASSUME KInv, ReapDocuments PROVE KInv'
<1>1. /\ KnowledgeTypeOK /\ RetrievedIsWhole /\ ClaimedByOne /\ ClaimsAreYoung
      /\ UploadsInv /\ ObjectsFollowRows
  BY DEF KInv
<1> DEFINE Swept(c) == [docs[c] EXCEPT !.status = "failed", !.published = FALSE,
                                       !.chunks = "none", !.age = 0]
<1>2. /\ docs' = [c \in Docs |-> IF c \in AbandonedDocs THEN Swept(c) ELSE docs[c]]
      /\ edits' = edits /\ broken' = broken /\ errands' = errands /\ lost' = lost
      /\ ingesters' = ingesters
  BY DEF ReapDocuments
<1>3. ASSUME NEW c \in Docs
      PROVE  /\ Swept(c) \in Doc /\ Swept(c).status = "failed" /\ Swept(c).chunks = "none"
             /\ ~ Swept(c).published
             /\ Swept(c).upload = docs[c].upload /\ Swept(c).object = docs[c].object
  <2>1. docs[c] \in Doc  BY <1>1 DEF KnowledgeTypeOK
  <2>2. 0 \in 0 .. IngestPatience + 1  BY IngestAssumption
  <2> QED  BY <2>1, <2>2 DEF Doc
<1> HIDE DEF Swept
<1>4. docs' \in [Docs -> Doc]  BY <1>1, <1>2, <1>3 DEF KnowledgeTypeOK
<1>5. KnowledgeTypeOK'  BY <1>1, <1>2, <1>4 DEF KnowledgeTypeOK
<1>6. RetrievedIsWhole'  BY <1>1, <1>2, <1>3 DEF RetrievedIsWhole, Searchable
<1>7. ASSUME NEW w \in Ingesters, ingesters[w].pc \in {"claimed", "read"}
      PROVE  ingesters[w].doc \in Docs /\ ingesters[w].doc \notin AbandonedDocs
  <2>1. /\ ingesters[w].doc \in Docs /\ ingesters[w].age \in 0 .. IngestLimit
        /\ docs[ingesters[w].doc] \in Doc
    BY <1>1 DEF KnowledgeTypeOK, Ingester
  <2>2. docs[ingesters[w].doc].age \in 0 .. IngestPatience + 1  BY <2>1 DEF Doc
  <2>3. docs[ingesters[w].doc].age <= ingesters[w].age  BY <1>1, <1>7 DEF ClaimsAreYoung
  <2> QED  BY <2>1, <2>2, <2>3, IngestAssumption DEF AbandonedDocs
<1>8. ClaimedByOne' /\ ClaimsAreYoung'
  BY <1>1, <1>2, <1>7 DEF ClaimedByOne, ClaimsAreYoung
<1>9. \A c \in Docs :
        /\ docs'[c].status = "none" <=> docs[c].status = "none"
        /\ docs'[c].status = "deleted" <=> docs[c].status = "deleted"
        /\ docs'[c].object = docs[c].object /\ docs'[c].upload = docs[c].upload
  BY <1>2, <1>3 DEF AbandonedDocs
<1>10. \A e \in Editors : edits[e].doc \in Docs  BY <1>1 DEF KnowledgeTypeOK, Edit
<1>11. UploadsInv'  BY <1>1, <1>2, <1>9, <1>10 DEF UploadsInv
<1>12. ObjectsFollowRows'  BY <1>1, <1>2, <1>9 DEF ObjectsFollowRows, Exists
<1> QED  BY <1>5, <1>6, <1>8, <1>11, <1>12 DEF KInv

\* Claims and the runs that hold them grow older together.
LEMMA MinuteHolds == ASSUME KInv, Minute PROVE KInv'
<1>1. /\ KnowledgeTypeOK /\ RetrievedIsWhole /\ ClaimedByOne /\ ClaimsAreYoung
      /\ UploadsInv /\ ObjectsFollowRows
  BY DEF KInv
<1> DEFINE Aged(c) == [docs[c] EXCEPT !.age = @ + 1]
           Grown(w) == [ingesters[w] EXCEPT !.age = @ + 1]
<1>2. /\ docs' = [c \in Docs |->
            IF docs[c].status = "processing" /\ docs[c].age <= IngestPatience
            THEN Aged(c) ELSE docs[c]]
      /\ ingesters' = [w \in Ingesters |->
            IF ingesters[w].pc = "idle" THEN ingesters[w] ELSE Grown(w)]
      /\ \A w \in Ingesters : ingesters[w].pc # "idle" => ingesters[w].age < IngestLimit
      /\ edits' = edits /\ broken' = broken /\ errands' = errands /\ lost' = lost
  BY DEF Minute
<1>3. ASSUME NEW c \in Docs
      PROVE  /\ docs[c].age \in Nat
             /\ docs[c].age <= IngestPatience => Aged(c) \in Doc
             /\ Aged(c).status = docs[c].status /\ Aged(c).chunks = docs[c].chunks
             /\ Aged(c).published = docs[c].published /\ Aged(c).upload = docs[c].upload
             /\ Aged(c).object = docs[c].object /\ Aged(c).age = docs[c].age + 1
  <2>1. docs[c] \in Doc  BY <1>1 DEF KnowledgeTypeOK
  <2> QED  BY <2>1, IngestAssumption DEF Doc
<1>4. ASSUME NEW w \in Ingesters
      PROVE  /\ ingesters[w].age \in Nat /\ ingesters[w].doc \in Docs
             /\ ingesters[w].age < IngestLimit => Grown(w) \in Ingester
             /\ Grown(w).pc = ingesters[w].pc /\ Grown(w).doc = ingesters[w].doc
             /\ Grown(w).age = ingesters[w].age + 1
  <2>1. ingesters[w] \in Ingester  BY <1>1 DEF KnowledgeTypeOK
  <2> QED  BY <2>1, IngestAssumption DEF Ingester
<1> HIDE DEF Aged, Grown
<1>5. docs' \in [Docs -> Doc]  BY <1>1, <1>2, <1>3 DEF KnowledgeTypeOK
<1>6. ingesters' \in [Ingesters -> Ingester]  BY <1>1, <1>2, <1>4 DEF KnowledgeTypeOK
<1>7. KnowledgeTypeOK'  BY <1>1, <1>2, <1>5, <1>6 DEF KnowledgeTypeOK
<1>8. \A c \in Docs :
        /\ docs'[c].status = docs[c].status /\ docs'[c].chunks = docs[c].chunks
        /\ docs'[c].published = docs[c].published
        /\ docs'[c].object = docs[c].object /\ docs'[c].upload = docs[c].upload
        /\ docs'[c].age \in {docs[c].age, docs[c].age + 1}
  BY <1>2, <1>3
<1>9. \A w \in Ingesters :
        /\ ingesters'[w].pc = ingesters[w].pc
        /\ ingesters'[w].doc = ingesters[w].doc
        /\ ingesters[w].pc # "idle" => ingesters'[w].age = ingesters[w].age + 1
  BY <1>2, <1>4
<1>10. RetrievedIsWhole'  BY <1>1, <1>8 DEF RetrievedIsWhole, Searchable
<1>11. ClaimedByOne'  BY <1>1, <1>4, <1>8, <1>9 DEF ClaimedByOne
<1>12. ClaimsAreYoung'
  <2> SUFFICES ASSUME NEW w \in Ingesters, ingesters[w].pc \in {"claimed", "read"}
               PROVE  docs'[ingesters[w].doc].age <= ingesters[w].age + 1
    BY <1>9 DEF ClaimsAreYoung
  <2>1. docs[ingesters[w].doc].age <= ingesters[w].age  BY <1>1 DEF ClaimsAreYoung
  <2>2. docs[ingesters[w].doc].age \in Nat /\ ingesters[w].age \in Nat  BY <1>3, <1>4
  <2> QED  BY <2>1, <2>2, <1>4, <1>8
<1>13. \A e \in Editors : edits[e].doc \in Docs  BY <1>1 DEF KnowledgeTypeOK, Edit
<1>14. UploadsInv'  BY <1>1, <1>2, <1>8, <1>13 DEF UploadsInv
<1>15. ObjectsFollowRows'  BY <1>1, <1>2, <1>8 DEF ObjectsFollowRows, Exists
<1> QED  BY <1>7, <1>10, <1>11, <1>12, <1>14, <1>15 DEF KInv

-----------------------------------------------------------------------------
LEMMA NextHolds == KInv /\ [KnowledgeNext]_knowledgeVars => KInv'
<1> SUFFICES ASSUME KInv, [KnowledgeNext]_knowledgeVars PROVE KInv'  OBVIOUS
<1>1. CASE UNCHANGED knowledgeVars
  <2>1. /\ docs' = docs /\ edits' = edits /\ broken' = broken /\ errands' = errands
        /\ lost' = lost /\ ingesters' = ingesters
    BY <1>1 DEF knowledgeVars
  <2> QED  BY <2>1, RunsGoOn DEF KInv, KnowledgeTypeOK
<1>2. ASSUME NEW e \in Editors, RegisterUpload(e) \/ DeleteObject(e) \/ DeleteRow(e) PROVE KInv'
  BY <1>2, RegisterUploadHolds, DeleteObjectHolds, DeleteRowHolds
<1>3. ASSUME NEW e \in Editors, EnqueueIngestion(e) \/ GiveUp(e) PROVE KInv'
  BY <1>3, AnyDocIsOne, RequestHolds
<1>4. ASSUME NEW e \in Editors, NEW d \in Docs,
             StoreObject(e, d) \/ RegisterText(e, d) \/ FindDocument(e, d)
      PROVE  KInv'
  BY <1>4, StoreObjectHolds, RegisterTextHolds, RequestHolds
<1>5. ASSUME NEW w \in Ingesters,
             IngesterStep(w) \/ LoseIngester(w) \/ RepeatErrand(w) \/ StopIngester(w)
      PROVE  KInv'
  BY <1>5, WorkerHolds, ClaimHolds, OutcomeHolds DEF IngesterStep
<1>6. CASE ReapDocuments \/ Minute  BY <1>6, SweepHolds, MinuteHolds
<1> QED  BY <1>1, <1>2, <1>3, <1>4, <1>5, <1>6 DEF KnowledgeNext

\* The inductive invariant of ingestion (run_ingestion, claim_pending_document,
\* fail_abandoned_documents, create_upload, delete_document).
THEOREM Ingestion == KnowledgeSpec => []KInv
  BY InitHolds, NextHolds, PTL DEF KnowledgeSpec

\* Shapes, whole retrieval, exclusive claims, and claims no older than their runs.
THEOREM Knowledge == KnowledgeSpec => []KnowledgeInv
<1>1. KInv => KnowledgeInv  BY DEF KInv, KnowledgeInv, ClaimsAreYoung
<1> QED  BY <1>1, Ingestion, PTL

\* What search_chunks may return has every chunk of its text, and no other
\* document leaves chunks behind.
THEOREM WholeRetrieval == KnowledgeSpec => []RetrievedIsWhole
<1>1. KInv => RetrievedIsWhole  BY DEF KInv
<1> QED  BY <1>1, Ingestion, PTL

\* Redeliveries, time limits and the sweep notwithstanding, a document is
\* ingested by one worker at a time, on a claim nobody takes away.
THEOREM ExclusiveIngestion == KnowledgeSpec => []ClaimedByOne
<1>1. KInv => ClaimedByOne  BY DEF KInv
<1> QED  BY <1>1, Ingestion, PTL

\* No deletion, finished or stopped half way, leaves an object that no row names.
THEOREM ObjectsNamed == KnowledgeSpec => []ObjectsFollowRows
<1>1. KInv => ObjectsFollowRows  BY DEF KInv
<1> QED  BY <1>1, Ingestion, PTL

\* A row that was registered, given an outcome or deleted by each kind of step.
LEMMA StatusStep ==
    ASSUME KInv, [KnowledgeNext]_knowledgeVars, NEW d \in Docs
    PROVE  /\ docs[d].status \in {"completed", "failed"} =>
                 docs'[d].status \in {docs[d].status, "deleted"}
           /\ docs[d].status = "deleted" => docs'[d].status = "deleted"
<1>1. /\ KnowledgeTypeOK /\ UploadsInv /\ ClaimedByOne  BY DEF KInv
<1>2. CASE docs' = docs  BY <1>2
<1>3. ASSUME NEW e \in Editors, NEW c \in Docs,
             StoreObject(e, c) \/ RegisterText(e, c)
      PROVE  docs[c].status = "none" /\ (d # c => docs'[d] = docs[d])
  BY <1>1, <1>3 DEF StoreObject, RegisterText, KnowledgeTypeOK
<1>4. ASSUME NEW e \in Editors, RegisterUpload(e)
      PROVE  docs[edits[e].doc].status = "none" /\ (d # edits[e].doc => docs'[d] = docs[d])
  BY <1>1, <1>4 DEF RegisterUpload, KnowledgeTypeOK, UploadsInv
<1>5. ASSUME NEW e \in Editors, DeleteObject(e)
      PROVE  docs'[d].status = docs[d].status
  BY <1>1, <1>5 DEF DeleteObject, KnowledgeTypeOK, Doc
<1>6. ASSUME NEW e \in Editors, DeleteRow(e)
      PROVE  docs'[d].status \in {docs[d].status, "deleted"}
  BY <1>1, <1>6 DEF DeleteRow, KnowledgeTypeOK, Doc
<1>7. ASSUME NEW w \in Ingesters, ClaimDocument(w)
      PROVE  docs'[d] = docs[d] \/ docs[d].status = "pending"
  BY <1>1, <1>7 DEF ClaimDocument, KnowledgeTypeOK
<1>8. ASSUME NEW w \in Ingesters, StoreChunks(w) \/ FailDocument(w)
      PROVE  docs'[d] = docs[d] \/ docs[d].status = "processing"
  BY <1>1, <1>8 DEF StoreChunks, FailDocument, KnowledgeTypeOK, ClaimedByOne, Exists
<1>9. ASSUME ReapDocuments PROVE docs'[d] = docs[d] \/ docs[d].status = "processing"
  BY <1>9 DEF ReapDocuments, AbandonedDocs
<1>10. ASSUME Minute PROVE docs'[d] = docs[d] \/ docs[d].status = "processing"
  BY <1>10 DEF Minute
<1>11. \/ docs' = docs
       \/ \E e \in Editors, c \in Docs : StoreObject(e, c) \/ RegisterText(e, c)
       \/ \E e \in Editors : RegisterUpload(e) \/ DeleteObject(e) \/ DeleteRow(e)
       \/ \E w \in Ingesters : ClaimDocument(w) \/ StoreChunks(w) \/ FailDocument(w)
       \/ ReapDocuments \/ Minute
  BY DEF KnowledgeNext, knowledgeVars, IngesterStep, EnqueueIngestion, GiveUp, FindDocument,
     Fetch, ReadSource, LoseIngester, RepeatErrand, StopIngester
<1> QED  BY <1>2, <1>3, <1>4, <1>5, <1>6, <1>7, <1>8, <1>9, <1>10, <1>11

\* An outcome of run_ingestion stands until the document is deleted, and a
\* deletion for ever.
THEOREM OutcomesStand == KnowledgeSpec => IngestionOutcomeStands
<1>1. KInv /\ [KnowledgeNext]_knowledgeVars =>
         [\A d \in Docs :
             /\ docs[d].status \in {"completed", "failed"} =>
                   docs'[d].status \in {docs[d].status, "deleted"}
             /\ docs[d].status = "deleted" => docs'[d].status = "deleted"]_knowledgeVars
  BY StatusStep
<1> QED  BY <1>1, Ingestion, PTL DEF KnowledgeSpec, IngestionOutcomeStands

-----------------------------------------------------------------------------
(* Attachments *)

\* The bytes begin as the type says.
Fits(media, begins) == IF media \in Signed THEN begins = media ELSE begins \notin Signed

InUpload == {"named", "valid", "stored"}

\* One request: what it uploads has no row yet, what it reads it may read, and
\* once its ticket has been checked it was theirs.
CallerHolds(p, c) ==
    /\ c \in Caller
    /\ c.pc \in InUpload => ~ rows[c.file].there
    /\ c.pc \in {"valid", "stored"} => Fits(c.media, c.begins)
    /\ c.pc = "stored" => c.file \in objects
    /\ c.pc \in {"found", "allowed"} => Readable(p, c.file)
    /\ c.pc = "found" /\ Sees(p, holder) => c.theirs
    /\ c.pc = "allowed" => c.theirs

RowsHold ==
    \A f \in Files :
       /\ rows[f].there => f \in objects /\ Fits(rows[f].media, rows[f].begins)
       /\ rows[f].internal => rows[f].there

MentionedHold == \A f \in mentioned : rows[f].there /\ ~ rows[f].internal

DownloadsHold == \A d \in downloads : d[3] /\ Readable(d[1], d[2])

\* Two uploads are of two files.
UploadsApart ==
    \A p, q \in Clients :
       callers[p].pc \in InUpload /\ callers[q].pc \in InUpload /\ p # q =>
          callers[p].file # callers[q].file

FilesInv ==
    /\ AttachmentTypeOK /\ RowsHold /\ MentionedHold /\ DownloadsHold /\ UploadsApart
    /\ \A p \in Clients : CallerHolds(p, callers[p])

LEMMA FilesBegin == AttachmentInit => FilesInv
<1> SUFFICES ASSUME AttachmentInit PROVE FilesInv  OBVIOUS
<1> DEFINE row == [there |-> FALSE, internal |-> FALSE, media |-> AnyMedia, begins |-> "nothing"]
           file == CHOOSE f \in Files : TRUE
           caller == [pc |-> "idle", file |-> file, internal |-> FALSE,
                      media |-> AnyMedia, begins |-> "nothing", theirs |-> FALSE]
<1>1. AnyMedia \in MediaTypes /\ file \in Files  BY AttachmentAssumption DEF AnyMedia
<1> HIDE DEF file
<1>2. row \in Attached /\ caller \in Caller /\ ~ row.there /\ ~ row.internal /\ caller.pc = "idle"
  BY <1>1 DEF Attached, Caller
<1>3. rows = [f \in Files |-> row] /\ callers = [p \in Clients |-> caller]
  BY DEF AttachmentInit, file
<1> HIDE DEF row, caller
<1>4. /\ holder = Nobody /\ objects = {} /\ mentioned = {} /\ downloads = {}
      /\ fileFaults = 0 /\ fileFaults \in 0 .. FileFaults
  BY AttachmentAssumption DEF AttachmentInit
<1>5. rows \in [Files -> Attached] /\ callers \in [Clients -> Caller]  BY <1>2, <1>3
<1>7. AttachmentTypeOK  BY <1>4, <1>5 DEF AttachmentTypeOK
<1>8. RowsHold /\ MentionedHold /\ DownloadsHold
  BY <1>2, <1>3, <1>4 DEF RowsHold, MentionedHold, DownloadsHold
<1>6. UploadsApart /\ \A p \in Clients : CallerHolds(p, callers[p])
  BY <1>2, <1>3 DEF UploadsApart, CallerHolds, InUpload
<1> QED  BY <1>6, <1>7, <1>8 DEF FilesInv

\* A request moves; neither rows nor the ticket do, and no object is lost.
LEMMA CallerMoves ==
    ASSUME FilesInv, NEW p \in Clients, NEW c \in Caller,
           callers' = [callers EXCEPT ![p] = c], CallerHolds(p, c)',
           c.pc \in InUpload => \A q \in Clients \ {p} :
              callers[q].pc \in InUpload => callers[q].file # c.file,
           rows' = rows, holder' = holder, objects \subseteq objects', objects' \subseteq Files,
           mentioned' = mentioned, downloads' = downloads, fileFaults' \in 0 .. FileFaults
    PROVE  FilesInv'
<1>1. callers' \in [Clients -> Caller] /\ callers'[p] = c
      /\ \A q \in Clients \ {p} : callers'[q] = callers[q]
  BY DEF FilesInv, AttachmentTypeOK
<1>2. AttachmentTypeOK'  BY <1>1 DEF FilesInv, AttachmentTypeOK
<1>3. RowsHold' /\ MentionedHold' /\ DownloadsHold'
  BY DEF FilesInv, RowsHold, MentionedHold, DownloadsHold, Readable
<1>4. UploadsApart'  BY <1>1 DEF FilesInv, UploadsApart
<1>5. ASSUME NEW q \in Clients PROVE CallerHolds(q, callers[q])'
  BY <1>1 DEF FilesInv, CallerHolds, Readable, Sees
<1> QED  BY <1>2, <1>3, <1>4, <1>5 DEF FilesInv

\* A request that ends, or goes no further.
LEMMA CallerIdles ==
    ASSUME FilesInv, NEW p \in Clients, callers' = Idling(p),
           rows' = rows, holder' = holder, objects' = objects,
           mentioned' = mentioned, downloads' = downloads, fileFaults' \in 0 .. FileFaults
    PROVE  FilesInv'
<1>1. callers[p] \in Caller /\ objects \subseteq Files  BY DEF FilesInv, AttachmentTypeOK
<1>0. PICK c \in Caller : c = [callers[p] EXCEPT !.pc = "idle"]  BY <1>1 DEF Caller
<1>2. c \in Caller /\ c.pc = "idle"  BY <1>0, <1>1 DEF Caller
<1>3. callers' = [callers EXCEPT ![p] = c]  BY <1>0 DEF Idling, FilesInv, AttachmentTypeOK
<1>4. CallerHolds(p, c)'  BY <1>2 DEF CallerHolds, InUpload
<1>5. c.pc \notin InUpload  BY <1>2 DEF InUpload
<1> QED  BY <1>1, <1>2, <1>3, <1>4, <1>5, CallerMoves

LEMMA FaultCounts ==
    ASSUME FilesInv, fileFaults < FileFaults
    PROVE  fileFaults + 1 \in 0 .. FileFaults
  BY AttachmentAssumption DEF FilesInv, AttachmentTypeOK

LEMMA FaultsHold ==
    ASSUME FilesInv, NEW p \in Clients, PutFails(p) \/ RollbackFile(p) \/ StreamFails(p)
    PROVE  FilesInv'
<1>1. fileFaults' \in 0 .. FileFaults /\ callers' = Idling(p)
  BY FaultCounts DEF PutFails, RollbackFile, StreamFails
<1>2. rows' = rows /\ holder' = holder /\ objects' = objects /\ mentioned' = mentioned
      /\ downloads' = downloads
  BY DEF PutFails, RollbackFile, StreamFails
<1> QED  BY <1>1, <1>2, CallerIdles

LEMMA NameHolds ==
    ASSUME FilesInv, NEW p \in Clients, NEW f \in Files, NEW internal \in BOOLEAN,
           NameMessage(p, f, internal)
    PROVE  FilesInv'
<1>1. callers[p] \in Caller /\ objects \subseteq Files /\ fileFaults \in 0 .. FileFaults
  BY DEF FilesInv, AttachmentTypeOK
<1>0. PICK c \in Caller : c = [callers[p] EXCEPT !.pc = "named", !.file = f,
                                               !.internal = internal, !.theirs = TRUE]
  BY <1>1 DEF Caller
<1>2. c \in Caller /\ c.pc = "named" /\ c.file = f  BY <1>0, <1>1 DEF Caller
<1>3. callers' = [callers EXCEPT ![p] = c]  BY <1>0 DEF NameMessage
<1>4. CallerHolds(p, c)'  BY <1>2 DEF NameMessage, CallerHolds, InUpload
<1>5. \A q \in Clients \ {p} : callers[q].pc \in InUpload => callers[q].file # c.file
  BY <1>2 DEF NameMessage, InUpload
<1> QED  BY <1>1, <1>2, <1>3, <1>4, <1>5, CallerMoves DEF NameMessage

LEMMA InspectHolds ==
    ASSUME FilesInv, NEW p \in Clients, NEW extension \in MediaTypes, NEW declared \in MediaTypes,
           NEW begins \in MediaTypes \cup {"nothing"}, NEW sizeFits \in BOOLEAN,
           Inspect(p, extension, declared, begins, sizeFits)
    PROVE  FilesInv'
<1>1. callers[p] \in Caller /\ objects \subseteq Files /\ fileFaults \in 0 .. FileFaults
      /\ CallerHolds(p, callers[p]) /\ callers[p].pc = "named"
  BY DEF FilesInv, AttachmentTypeOK, Inspect
<1>2. CASE ~ (sizeFits /\ Validates(extension, declared, begins))
  BY <1>1, <1>2, CallerIdles DEF Inspect
<1>3. CASE sizeFits /\ Validates(extension, declared, begins)
  <2>0. PICK c \in Caller : c = [callers[p] EXCEPT !.pc = "valid", !.media = declared,
                                                 !.begins = begins]
    BY <1>1 DEF Caller
  <2>1. /\ c \in Caller /\ c.pc = "valid" /\ c.file = callers[p].file
        /\ c.media = declared /\ c.begins = begins
    BY <2>0, <1>1 DEF Caller
  <2>2. callers' = [callers EXCEPT ![p] = c]  BY <2>0, <1>3 DEF Inspect
  <2>3. Fits(declared, begins)  BY <1>3, AttachmentAssumption DEF Validates, Fits
  <2>4. CallerHolds(p, c)'
    BY <1>1, <2>1, <2>3 DEF Inspect, CallerHolds, InUpload, Fits
  <2>5. \A q \in Clients \ {p} : callers[q].pc \in InUpload => callers[q].file # c.file
    BY <1>1, <2>1 DEF FilesInv, UploadsApart, InUpload
  <2> QED  BY <1>1, <2>1, <2>2, <2>4, <2>5, CallerMoves DEF Inspect
<1> QED  BY <1>2, <1>3

LEMMA PutHolds == ASSUME FilesInv, NEW p \in Clients, PutFile(p) PROVE FilesInv'
<1>1. callers[p] \in Caller /\ objects \subseteq Files /\ fileFaults \in 0 .. FileFaults
      /\ CallerHolds(p, callers[p]) /\ callers[p].pc = "valid"
  BY DEF FilesInv, AttachmentTypeOK, PutFile
<1>0. PICK c \in Caller : c = [callers[p] EXCEPT !.pc = "stored"]  BY <1>1 DEF Caller
<1>2. /\ c \in Caller /\ c.pc = "stored" /\ c.file = callers[p].file /\ c.file \in Files
      /\ c.media = callers[p].media /\ c.begins = callers[p].begins
  BY <1>0, <1>1 DEF Caller
<1>3. callers' = [callers EXCEPT ![p] = c]
  BY <1>0 DEF PutFile, Moved, FilesInv, AttachmentTypeOK
<1>4. CallerHolds(p, c)'
  BY <1>1, <1>2 DEF PutFile, CallerHolds, InUpload, Fits
<1>5. \A q \in Clients \ {p} : callers[q].pc \in InUpload => callers[q].file # c.file
  BY <1>1, <1>2 DEF FilesInv, UploadsApart, InUpload
<1> QED  BY <1>1, <1>2, <1>3, <1>4, <1>5, CallerMoves DEF PutFile

LEMMA FindHolds ==
    ASSUME FilesInv, NEW p \in Clients, NEW f \in Files, FindFile(p, f) PROVE FilesInv'
<1>1. callers[p] \in Caller /\ objects \subseteq Files /\ fileFaults \in 0 .. FileFaults
  BY DEF FilesInv, AttachmentTypeOK
<1>2. Sees(p, holder) \in BOOLEAN  BY DEF Sees
<1>0. PICK c \in Caller : c = [callers[p] EXCEPT !.pc = "found", !.file = f,
                                               !.theirs = Sees(p, holder)]
  BY <1>1, <1>2 DEF Caller
<1>3. c \in Caller /\ c.pc = "found" /\ c.file = f /\ c.theirs = Sees(p, holder)
  BY <1>0, <1>1, <1>2 DEF Caller
<1>4. callers' = [callers EXCEPT ![p] = c]  BY <1>0 DEF FindFile
<1>5. CallerHolds(p, c)'
  BY <1>3 DEF FindFile, CallerHolds, InUpload, Readable, Sees
<1>6. c.pc \notin InUpload  BY <1>3 DEF InUpload
<1> QED  BY <1>1, <1>3, <1>4, <1>5, <1>6, CallerMoves DEF FindFile

LEMMA CheckHolds == ASSUME FilesInv, NEW p \in Clients, CheckTicket(p) PROVE FilesInv'
<1>1. callers[p] \in Caller /\ objects \subseteq Files /\ fileFaults \in 0 .. FileFaults
      /\ CallerHolds(p, callers[p]) /\ callers[p].pc = "found"
  BY DEF FilesInv, AttachmentTypeOK, CheckTicket
<1>2. CASE ~ Sees(p, holder)  BY <1>1, <1>2, CallerIdles DEF CheckTicket
<1>3. CASE Sees(p, holder)
  <2>0. PICK c \in Caller : c = [callers[p] EXCEPT !.pc = "allowed"]  BY <1>1 DEF Caller
  <2>1. /\ c \in Caller /\ c.pc = "allowed" /\ c.file = callers[p].file
        /\ c.theirs = callers[p].theirs
    BY <2>0, <1>1 DEF Caller
  <2>2. callers' = [callers EXCEPT ![p] = c]
    BY <2>0, <1>3 DEF CheckTicket, Moved, FilesInv, AttachmentTypeOK
  <2>3. CallerHolds(p, c)'
    BY <1>1, <1>3, <2>1 DEF CheckTicket, CallerHolds, InUpload, Readable
  <2>4. c.pc \notin InUpload  BY <2>1 DEF InUpload
  <2> QED  BY <1>1, <2>1, <2>2, <2>3, <2>4, CallerMoves DEF CheckTicket
<1> QED  BY <1>2, <1>3

\* The file goes out; then the request ends as above.
LEMMA StreamHolds == ASSUME FilesInv, NEW p \in Clients, StreamFile(p) PROVE FilesInv'
<1> DEFINE c == [callers[p] EXCEPT !.pc = "idle"]
           d == <<p, callers[p].file, callers[p].theirs>>
<1>1. callers[p] \in Caller /\ CallerHolds(p, callers[p]) /\ callers[p].pc = "allowed"
      /\ callers \in [Clients -> Caller]
  BY DEF FilesInv, AttachmentTypeOK, StreamFile
<1>2. c \in Caller /\ c.pc = "idle" /\ callers[p].file \in Files /\ callers[p].theirs \in BOOLEAN
  BY <1>1 DEF Caller
<1>3. callers' = [callers EXCEPT ![p] = c]  BY <1>1 DEF StreamFile, Idling
<1> HIDE DEF c
<1>4. callers' \in [Clients -> Caller] /\ callers'[p].pc = "idle"
      /\ \A q \in Clients \ {p} : callers'[q] = callers[q]
  BY <1>1, <1>2, <1>3
<1>5. rows' = rows /\ holder' = holder /\ objects' = objects /\ mentioned' = mentioned
      /\ fileFaults' = fileFaults /\ downloads' = downloads \cup {d}
  BY DEF StreamFile
<1>6. d \in Clients \X Files \X BOOLEAN /\ d[3] /\ Readable(d[1], d[2])
  BY <1>1, <1>2 DEF CallerHolds
<1> HIDE DEF d
<1>7. AttachmentTypeOK'  BY <1>4, <1>5, <1>6 DEF FilesInv, AttachmentTypeOK
<1>8. RowsHold' /\ MentionedHold'  BY <1>5 DEF FilesInv, RowsHold, MentionedHold
<1>9. DownloadsHold'  BY <1>5, <1>6 DEF FilesInv, DownloadsHold, Readable
<1>10. UploadsApart'  BY <1>4 DEF FilesInv, UploadsApart, InUpload
<1>11. ASSUME NEW q \in Clients PROVE CallerHolds(q, callers[q])'
  BY <1>4, <1>5 DEF FilesInv, CallerHolds, InUpload, Readable, Sees
<1> QED  BY <1>7, <1>8, <1>9, <1>10, <1>11 DEF FilesInv

\* The row: no other request uploads this file, and none has found it yet.
LEMMA CommitHolds == ASSUME FilesInv, NEW p \in Clients, CommitFile(p) PROVE FilesInv'
<1> DEFINE file == callers[p].file
           c == [callers[p] EXCEPT !.pc = "idle"]
           row == [there |-> TRUE, internal |-> callers[p].internal, media |-> callers[p].media,
                   begins |-> callers[p].begins]
<1>1. callers[p] \in Caller /\ CallerHolds(p, callers[p]) /\ callers[p].pc = "stored"
      /\ callers \in [Clients -> Caller] /\ rows \in [Files -> Attached]
  BY DEF FilesInv, AttachmentTypeOK, CommitFile
<1>2. c \in Caller /\ c.pc = "idle" /\ file \in Files  BY <1>1 DEF Caller
<1>3. /\ row \in Attached /\ row.there /\ row.internal = callers[p].internal
      /\ Fits(row.media, row.begins) /\ file \in objects /\ ~ rows[file].there
  BY <1>1 DEF Caller, Attached, CallerHolds, InUpload
<1>4. callers' = [callers EXCEPT ![p] = c]  BY <1>1 DEF CommitFile, Idling
<1>5. rows' = [rows EXCEPT ![file] = row]  BY DEF CommitFile
<1>6. /\ holder' = holder /\ objects' = objects /\ downloads' = downloads
      /\ fileFaults' = fileFaults
      /\ mentioned' = IF callers[p].internal THEN mentioned ELSE mentioned \cup {file}
  BY DEF CommitFile, Mention
<1>7. \A q \in Clients \ {p} : callers[q].pc \in InUpload => callers[q].file # file
  BY <1>1 DEF FilesInv, UploadsApart, InUpload
<1> HIDE DEF file, c, row
<1>8. callers' \in [Clients -> Caller] /\ callers'[p].pc = "idle"
      /\ \A q \in Clients \ {p} : callers'[q] = callers[q]
  BY <1>1, <1>2, <1>4
<1>9. rows' \in [Files -> Attached] /\ rows'[file] = row
      /\ \A f \in Files \ {file} : rows'[f] = rows[f]
  BY <1>1, <1>2, <1>3, <1>5
<1>10. AttachmentTypeOK'  BY <1>2, <1>6, <1>8, <1>9 DEF FilesInv, AttachmentTypeOK
<1>11. RowsHold'  BY <1>3, <1>6, <1>9 DEF FilesInv, RowsHold, Fits
<1>12. MentionedHold'
  BY <1>3, <1>6, <1>9 DEF FilesInv, AttachmentTypeOK, MentionedHold
<1>13. DownloadsHold'
  BY <1>3, <1>6, <1>9 DEF FilesInv, AttachmentTypeOK, DownloadsHold, Readable
<1>14. UploadsApart'  BY <1>8 DEF FilesInv, UploadsApart, InUpload
<1>15. CallerHolds(p, callers[p])'  BY <1>8 DEF CallerHolds, InUpload
<1>16. ASSUME NEW q \in Clients \ {p} PROVE CallerHolds(q, callers[q])'
  <2>1. callers[q] \in Caller /\ callers[q].file \in Files /\ CallerHolds(q, callers[q])
    BY DEF FilesInv, AttachmentTypeOK, Caller
  <2>2. callers[q].pc \in InUpload => ~ rows'[callers[q].file].there
    BY <1>7, <1>9, <2>1 DEF CallerHolds
  <2>3. callers[q].pc \in {"found", "allowed"} => Readable(q, callers[q].file)'
    BY <1>3, <1>8, <1>9, <2>1 DEF CallerHolds, Readable
  <2> QED  BY <1>6, <1>8, <2>1, <2>2, <2>3 DEF CallerHolds, Sees, Fits
<1> QED  BY <1>10, <1>11, <1>12, <1>13, <1>14, <1>15, <1>16 DEF FilesInv

\* The ticket gets another agent: whoever sees it now has seen it.
LEMMA HandOverHolds ==
    ASSUME FilesInv, NEW agent \in Clients \cup {Nobody}, HandOver(agent) PROVE FilesInv'
<1> DEFINE After(p) == [callers[p] EXCEPT !.theirs = @ \/ Sees(p, agent)]
<1>1. callers' = [p \in Clients |-> After(p)]  BY DEF HandOver
<1>2. ASSUME NEW p \in Clients
      PROVE  /\ After(p) \in Caller /\ After(p).pc = callers[p].pc
             /\ After(p).file = callers[p].file /\ After(p).media = callers[p].media
             /\ After(p).begins = callers[p].begins
             /\ After(p).theirs = (callers[p].theirs \/ Sees(p, agent))
  <2>1. callers[p] \in Caller /\ Sees(p, agent) \in BOOLEAN
    BY DEF FilesInv, AttachmentTypeOK, Sees
  <2> QED  BY <2>1 DEF Caller
<1> HIDE DEF After
<1>3. rows' = rows /\ objects' = objects /\ mentioned' = mentioned /\ downloads' = downloads
      /\ fileFaults' = fileFaults /\ holder' = agent
  BY DEF HandOver
<1>4. callers' \in [Clients -> Caller] /\ \A p \in Clients : callers'[p] = After(p)
  BY <1>1, <1>2
<1>5. AttachmentTypeOK'  BY <1>3, <1>4 DEF FilesInv, AttachmentTypeOK
<1>6. RowsHold' /\ MentionedHold' /\ DownloadsHold'
  BY <1>3 DEF FilesInv, RowsHold, MentionedHold, DownloadsHold, Readable
<1>7. UploadsApart'  BY <1>2, <1>4 DEF FilesInv, UploadsApart
<1>8. ASSUME NEW p \in Clients PROVE CallerHolds(p, callers[p])'
  <2>1. Readable(p, callers[p].file) <=> Readable(p, callers[p].file)'
    BY <1>2, <1>3, <1>4 DEF Readable
  <2>2. CallerHolds(p, callers[p])  BY DEF FilesInv
  <2>3. callers'[p] = After(p)  BY <1>4
  <2> QED  BY <1>2, <1>3, <2>1, <2>2, <2>3 DEF CallerHolds, Fits
<1> QED  BY <1>5, <1>6, <1>7, <1>8 DEF FilesInv

LEMMA FilesKeep == FilesInv /\ [AttachmentNext]_attachmentVars => FilesInv'
<1> SUFFICES ASSUME FilesInv, [AttachmentNext]_attachmentVars PROVE FilesInv'  OBVIOUS
<1>1. CASE UNCHANGED attachmentVars
  <2>1. UNCHANGED <<holder, rows, objects, mentioned, callers, downloads, fileFaults>>
    BY <1>1 DEF attachmentVars
  <2> QED
    BY <2>1 DEF FilesInv, AttachmentTypeOK, RowsHold, MentionedHold, DownloadsHold,
                UploadsApart, CallerHolds, Readable, Sees
<1>2. CASE AttachmentNext
  BY <1>2, HandOverHolds, FindHolds, NameHolds, InspectHolds, PutHolds, CommitHolds,
     CheckHolds, StreamHolds, FaultsHold DEF AttachmentNext
<1> QED  BY <1>1, <1>2

\* A file of an internal note is never listed for the customer, named to them or
\* downloaded by them (_not_internal, create_attachment).
THEOREM NotesStayInternal == AttachmentSpec => []NoteFilesStayInternal
<1>1. ASSUME FilesInv PROVE NoteFilesStayInternal
  <2> SUFFICES ASSUME NEW f \in Files, rows[f].internal
               PROVE  /\ f \notin mentioned
                      /\ \A p \in Clients : ~ MayReadInternal(p) =>
                            /\ f \notin Listed(p)
                            /\ \A theirs \in BOOLEAN : <<p, f, theirs>> \notin downloads
    BY DEF NoteFilesStayInternal
  <2>1. f \notin mentioned  BY <1>1 DEF FilesInv, MentionedHold
  <2>2. ASSUME NEW p \in Clients, ~ MayReadInternal(p), NEW theirs \in BOOLEAN
        PROVE  f \notin Listed(p) /\ <<p, f, theirs>> \notin downloads
    <3>1. ~ Readable(p, f)  BY <2>2 DEF Readable
    <3>2. f \notin Listed(p)  BY <3>1 DEF Listed
    <3>3. ASSUME <<p, f, theirs>> \in downloads PROVE FALSE
      <4>1. Readable(<<p, f, theirs>>[1], <<p, f, theirs>>[2])
        BY <1>1, <3>3 DEF FilesInv, DownloadsHold
      <4> QED  BY <3>1, <4>1
    <3> QED  BY <3>2, <3>3
  <2> QED  BY <2>1, <2>2
<1> QED  BY <1>1, FilesBegin, FilesKeep, PTL DEF AttachmentSpec

\* Nobody downloads a file whose ticket was not theirs to see at any moment of
\* the request, whoever the ticket is handed to meanwhile (get_attachment).
THEOREM AllowedDownloads == AttachmentSpec => []DownloadsWereAllowed
<1>1. FilesInv => DownloadsWereAllowed  BY DEF FilesInv, DownloadsHold, DownloadsWereAllowed
<1> QED  BY <1>1, FilesBegin, FilesKeep, PTL DEF AttachmentSpec

\* Every row has its object and is what its bytes say, whatever fails in between
\* (create_attachment: the object first, then the row), and files go to nobody
\* they are not for.
THEOREM RowsHaveObjects == AttachmentSpec => []AttachmentInv
<1>1. FilesInv /\ NoteFilesStayInternal /\ DownloadsWereAllowed => AttachmentInv
  BY DEF FilesInv, RowsHold, CallerHolds, Fits, AttachmentInv
<1> QED
  BY <1>1, FilesBegin, FilesKeep, NotesStayInternal, AllowedDownloads, PTL DEF AttachmentSpec
=============================================================================
