--------------------------- MODULE KnowledgeBase ---------------------------
(***************************************************************************)
(* Knowledge documents from registration to retrieval                      *)
(* (services/knowledge_service.py, repositories/knowledge_repository.py,   *)
(* workers/knowledge_tasks.py, the sweep of workers/maintenance_tasks.py)  *)
(* and the objects uploads are stored as (core/storage.py).  A row and an  *)
(* object cannot be written together: uploads store the object first,      *)
(* deletions remove it first, and either may stop half way.  Ingestion     *)
(* claims a pending row, works without a transaction, and stores chunks,   *)
(* text and outcome in one commit.                                         *)
(***************************************************************************)
EXTENDS Naturals, FiniteSets

CONSTANTS
    Docs,             \* bound: how many documents are ever registered
    Editors,          \* API requests in flight together
    Ingesters,        \* worker processes on the knowledge queue
    IngestLimit,      \* task_time_limit
    IngestPatience,   \* ABANDONED_CLAIM_AFTER_SECONDS
    IngestFaults      \* bound: workers lost, and messages handed out twice

ASSUME IngestAssumption ==
    /\ IngestLimit \in Nat /\ IngestPatience \in Nat /\ IngestFaults \in Nat
    /\ IngestLimit < IngestPatience /\ Docs # {}

VARIABLES
    docs,       \* rows, their chunks, and the object an upload is stored as
    edits,      \* the API requests
    errands,    \* documents with a message in the queue
    ingesters,  \* the workers
    lost,       \* such faults so far
    broken      \* documents on which a request stopped half way

knowledgeVars == <<docs, edits, errands, ingesters, lost, broken>>

\* status "none": never registered; "deleted": its row is gone.  chunks: how
\* much of the text is stored as chunks.  age: time since the claim.
Doc == [status : {"none", "pending", "processing", "completed", "failed", "deleted"},
        upload : BOOLEAN, object : {"none", "stored", "gone"}, published : BOOLEAN,
        chunks : {"none", "some", "all"}, age : 0 .. IngestPatience + 1]

Edit == [pc : {"idle", "stored", "registered", "found", "removed"}, doc : Docs]

Ingester == [pc : {"idle", "taken", "claimed", "read"}, doc : Docs,
             age : 0 .. IngestLimit]

AnyDoc == CHOOSE d \in Docs : TRUE

\* A row there is.
Exists(d) == docs[d].status \notin {"none", "deleted"}

KnowledgeTypeOK ==
    /\ docs \in [Docs -> Doc]
    /\ edits \in [Editors -> Edit]
    /\ errands \subseteq Docs
    /\ ingesters \in [Ingesters -> Ingester]
    /\ lost \in 0 .. IngestFaults
    /\ broken \subseteq Docs

-----------------------------------------------------------------------------
(* The API *)

EditOf(e, pc, d) == edits' = [edits EXCEPT ![e] = [pc |-> pc, doc |-> d]]

\* create_upload: the file accepted, its row flushed but not committed, and its
\* object stored.  Each request has a document id of its own.
StoreObject(e, d) ==
    /\ edits[e].pc = "idle" /\ docs[d].status = "none" /\ docs[d].object = "none"
    /\ docs' = [docs EXCEPT ![d] = [@ EXCEPT !.upload = TRUE, !.object = "stored"]]
    /\ EditOf(e, "stored", d)
    /\ UNCHANGED <<errands, ingesters, lost, broken>>

\* _register: the row, pending, and the audit entry.
RegisterUpload(e) ==
    /\ edits[e].pc = "stored"
    /\ docs' = [docs EXCEPT ![edits[e].doc].status = "pending"]
    /\ EditOf(e, "registered", edits[e].doc)
    /\ UNCHANGED <<errands, ingesters, lost, broken>>

\* create_manual and create_from_url: a row and no object.
RegisterText(e, d) ==
    /\ edits[e].pc = "idle" /\ docs[d].status = "none" /\ docs[d].object = "none"
    /\ docs' = [docs EXCEPT ![d].status = "pending"]
    /\ EditOf(e, "registered", d)
    /\ UNCHANGED <<errands, ingesters, lost, broken>>

\* enqueue_ingestion, after the commit; a broker that refuses is only logged.
EnqueueIngestion(e) ==
    /\ edits[e].pc = "registered"
    /\ errands' \in {errands, errands \cup {edits[e].doc}}
    /\ EditOf(e, "idle", AnyDoc)
    /\ UNCHANGED <<docs, ingesters, lost, broken>>

\* delete_document: the row must be there.
FindDocument(e, d) ==
    /\ edits[e].pc = "idle" /\ Exists(d)
    /\ EditOf(e, "found", d)
    /\ UNCHANGED <<docs, errands, ingesters, lost, broken>>

\* ... an upload's object goes first; a store that fails refuses the request.
DeleteObject(e) ==
    /\ edits[e].pc = "found"
    /\ docs' = [docs EXCEPT ![edits[e].doc].object = IF @ = "stored" THEN "gone" ELSE @]
    /\ EditOf(e, "removed", edits[e].doc)
    /\ UNCHANGED <<errands, ingesters, lost, broken>>

\* ... then the row, and with it, by the foreign key, its chunks.
DeleteRow(e) ==
    /\ edits[e].pc = "removed"
    /\ docs' = [docs EXCEPT ![edits[e].doc] =
          [@ EXCEPT !.status = "deleted", !.published = FALSE, !.chunks = "none", !.age = 0]]
    /\ EditOf(e, "idle", AnyDoc)
    /\ UNCHANGED <<errands, ingesters, lost, broken>>

\* The request fails or its process stops: what was committed, and what the
\* object store did, stays.
GiveUp(e) ==
    /\ edits[e].pc # "idle"
    /\ EditOf(e, "idle", AnyDoc)
    /\ broken' = broken \cup {edits[e].doc}
    /\ UNCHANGED <<docs, errands, ingesters, lost>>

-----------------------------------------------------------------------------
(* Ingestion *)

AtDoc(w, pc, d, age) ==
    ingesters' = [ingesters EXCEPT ![w] = [pc |-> pc, doc |-> d, age |-> age]]

Home(w) == AtDoc(w, "idle", AnyDoc, 0)

Fetch(w, d) ==
    /\ ingesters[w].pc = "idle" /\ d \in errands
    /\ errands' = errands \ {d}
    /\ AtDoc(w, "taken", d, 0)
    /\ UNCHANGED <<docs, edits, lost, broken>>

\* claim_pending_document: one conditional UPDATE; anything but a pending row
\* ends the run.
ClaimDocument(w) ==
    LET d == ingesters[w].doc IN
    /\ ingesters[w].pc = "taken"
    /\ IF docs[d].status = "pending"
         THEN /\ docs' = [docs EXCEPT ![d] = [@ EXCEPT !.status = "processing", !.age = 0]]
              /\ AtDoc(w, "claimed", d, ingesters[w].age)
         ELSE UNCHANGED docs /\ Home(w)
    /\ UNCHANGED <<edits, errands, lost, broken>>

\* _source_text, chunk and _embed succeed: an upload's object has to be there.
ReadSource(w) ==
    LET d == ingesters[w].doc IN
    /\ ingesters[w].pc = "claimed"
    /\ docs[d].object # "gone"
    /\ AtDoc(w, "read", d, ingesters[w].age)
    /\ UNCHANGED <<docs, edits, errands, lost, broken>>

SlipStore(w) ==
    LET d == ingesters[w].doc IN
    /\ ingesters[w].pc = "read"
    /\ docs' = [docs EXCEPT ![d] = [@ EXCEPT !.published = TRUE, !.chunks = "some"]]
    /\ Home(w)
    /\ UNCHANGED <<edits, errands, lost, broken>>

\* The chunks, the text and the outcome, in one commit.  For a document deleted
\* meanwhile the commit fails, and with it the task.
StoreChunks(w) ==
    LET d == ingesters[w].doc IN
    /\ ingesters[w].pc = "read"
    /\ docs' = IF Exists(d)
                 THEN [docs EXCEPT ![d] = [@ EXCEPT !.status = "completed", !.published = TRUE,
                                                    !.chunks = "all", !.age = 0]]
                 ELSE docs
    /\ Home(w)
    /\ UNCHANGED <<edits, errands, lost, broken>>

\* _fail: unreadable, unreachable, no object, or no embedding.  The session's
\* row was loaded unpublished and without chunks, so only the status changes.
FailDocument(w) ==
    LET d == ingesters[w].doc IN
    /\ ingesters[w].pc = "claimed"
    /\ docs' = IF Exists(d) THEN [docs EXCEPT ![d] = [@ EXCEPT !.status = "failed", !.age = 0]]
               ELSE docs
    /\ Home(w)
    /\ UNCHANGED <<edits, errands, lost, broken>>

\* A lost worker's message goes back to the queue.
LoseIngester(w) ==
    /\ ingesters[w].pc # "idle" /\ lost < IngestFaults /\ lost' = lost + 1
    /\ errands' = errands \cup {ingesters[w].doc}
    /\ Home(w)
    /\ UNCHANGED <<docs, edits, broken>>

\* The broker loses a connection and hands the message out again, its worker
\* still at it.
RepeatErrand(w) ==
    /\ ingesters[w].pc # "idle" /\ lost < IngestFaults /\ lost' = lost + 1
    /\ errands' = errands \cup {ingesters[w].doc}
    /\ UNCHANGED <<docs, edits, ingesters, broken>>

\* The hard time limit: the message is acknowledged, the claim stays.
StopIngester(w) ==
    /\ ingesters[w].pc # "idle" /\ ingesters[w].age = IngestLimit
    /\ Home(w)
    /\ UNCHANGED <<docs, edits, errands, lost, broken>>

AbandonedDocs ==
    {d \in Docs : docs[d].status = "processing" /\ docs[d].age > IngestPatience}

SlipReapDocuments ==
    /\ AbandonedDocs # {}
    /\ docs' = [d \in Docs |-> IF d \in AbandonedDocs
                               THEN [docs[d] EXCEPT !.age = 0] ELSE docs[d]]
    /\ UNCHANGED <<edits, errands, ingesters, lost, broken>>

\* fail_abandoned_documents, in the sweep's one commit.
ReapDocuments ==
    /\ AbandonedDocs # {}
    /\ docs' = [d \in Docs |->
          IF d \in AbandonedDocs
          THEN [docs[d] EXCEPT !.status = "failed", !.published = FALSE,
                               !.chunks = "none", !.age = 0]
          ELSE docs[d]]
    /\ UNCHANGED <<edits, errands, ingesters, lost, broken>>

\* Time passes for claims and for runs; no run outlives the hard limit.
Minute ==
    /\ \A w \in Ingesters : ingesters[w].pc # "idle" => ingesters[w].age < IngestLimit
    /\ \E d \in Docs : docs[d].status = "processing" /\ docs[d].age <= IngestPatience
    /\ docs' = [d \in Docs |->
          IF docs[d].status = "processing" /\ docs[d].age <= IngestPatience
          THEN [docs[d] EXCEPT !.age = @ + 1] ELSE docs[d]]
    /\ ingesters' = [w \in Ingesters |->
          IF ingesters[w].pc = "idle" THEN ingesters[w]
          ELSE [ingesters[w] EXCEPT !.age = @ + 1]]
    /\ UNCHANGED <<edits, errands, lost, broken>>

\* has_published_chunks and search_chunks: the documents an answer may quote.
Searchable == {d \in Docs : docs[d].published /\ docs[d].status = "completed"}

-----------------------------------------------------------------------------
KnowledgeInit ==
    /\ docs = [d \in Docs |-> [status |-> "none", upload |-> FALSE, object |-> "none",
                               published |-> FALSE, chunks |-> "none", age |-> 0]]
    /\ edits = [e \in Editors |-> [pc |-> "idle", doc |-> AnyDoc]]
    /\ errands = {}
    /\ ingesters = [w \in Ingesters |-> [pc |-> "idle", doc |-> AnyDoc, age |-> 0]]
    /\ lost = 0 /\ broken = {}

IngesterStep(w) ==
    \/ \E d \in Docs : Fetch(w, d)
    \/ ClaimDocument(w) \/ ReadSource(w) \/ StoreChunks(w) \/ FailDocument(w)

KnowledgeNext ==
    \/ \E e \in Editors :
          \/ RegisterUpload(e) \/ EnqueueIngestion(e) \/ DeleteObject(e) \/ DeleteRow(e)
          \/ GiveUp(e)
          \/ \E d \in Docs : StoreObject(e, d) \/ RegisterText(e, d) \/ FindDocument(e, d)
    \/ \E w \in Ingesters : IngesterStep(w) \/ LoseIngester(w) \/ RepeatErrand(w) \/ StopIngester(w)
    \/ ReapDocuments \/ Minute

KnowledgeSpec == KnowledgeInit /\ [][KnowledgeNext]_knowledgeVars

\* Workers work until their limit, time passes and beat runs the sweep.
KnowledgeFair ==
    /\ \A w \in Ingesters :
          WF_knowledgeVars(IngesterStep(w)) /\ WF_knowledgeVars(StopIngester(w))
    /\ WF_knowledgeVars(Minute) /\ WF_knowledgeVars(ReapDocuments)

KnowledgeFairSpec == KnowledgeSpec /\ KnowledgeFair

-----------------------------------------------------------------------------
\* What can be retrieved is whole: every chunk of its text is there, and no
\* other document, failed, under way or deleted, leaves chunks behind.
RetrievedIsWhole ==
    \A d \in Docs : /\ d \in Searchable => docs[d].chunks = "all"
                    /\ d \notin Searchable => docs[d].chunks = "none" /\ ~ docs[d].published

\* A document is ingested by one worker, on a claim that the sweep leaves alone.
ClaimedByOne ==
    /\ \A v, w \in Ingesters :
          v # w /\ ingesters[v].pc \in {"claimed", "read"}
                /\ ingesters[w].pc \in {"claimed", "read"}
          => ingesters[v].doc # ingesters[w].doc
    /\ \A w \in Ingesters : ingesters[w].pc \in {"claimed", "read"} =>
          docs[ingesters[w].doc].status \in {"processing", "deleted"}

\* Why a deletion removes the object first: no deletion, finished or stopped
\* half way, leaves an object nobody can find.  The price: a stopped one leaves
\* a row whose object is gone, and only a stopped one does.
ObjectsFollowRows ==
    \A d \in Docs :
       /\ docs[d].status = "deleted" => docs[d].object # "stored"
       /\ Exists(d) /\ docs[d].upload /\ docs[d].object # "stored" =>
             d \in broken \/ \E e \in Editors : edits[e].doc = d /\ edits[e].pc = "removed"

\* An outcome stands until the document is deleted, and a deletion for ever.
IngestionOutcomeStands ==
    [][\A d \in Docs :
          /\ docs[d].status \in {"completed", "failed"} =>
                docs'[d].status \in {docs[d].status, "deleted"}
          /\ docs[d].status = "deleted" => docs'[d].status = "deleted"]_knowledgeVars

\* A claim does not outlive its worker for ever: the document reaches an outcome.
IngestionEnds ==
    \A d \in Docs : docs[d].status = "processing" ~> docs[d].status # "processing"

\* What the rest follows from: a claim is as old as the run that made it at most.
KnowledgeInv ==
    /\ KnowledgeTypeOK /\ RetrievedIsWhole /\ ClaimedByOne /\ ObjectsFollowRows
    /\ \A w \in Ingesters : ingesters[w].pc \in {"claimed", "read"} =>
          docs[ingesters[w].doc].age <= ingesters[w].age
=============================================================================
