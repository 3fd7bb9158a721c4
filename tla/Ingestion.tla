------------------------------ MODULE Ingestion ------------------------------
(***************************************************************************)
(* The life of a document: upload, replacement, deletion (api/documents.py, *)
(* db/documents_repo.py) and the background coroutine that parses, chunks, *)
(* embeds and stores it (tasks.py).                                        *)
(*                                                                         *)
(* Uploads, replacements and the coroutine run on the event loop of a      *)
(* server process, which they give up only at an await: loop[w] is what    *)
(* the loop of process w is in the middle of.  Deletions run on a thread   *)
(* and come between any two database calls.  A content is a file's hash;   *)
(* it is chunked into the pieces Parts.                                    *)
(***************************************************************************)
EXTENDS Naturals, FiniteSets

CONSTANTS
    Workers,       \* server processes, each with one event loop
    Contents,      \* file contents clients upload
    Deletable,     \* documents somebody may delete
    MaxDocuments,  \* documents created
    Seeded,        \* how many of them were uploaded and processed before
    MaxJobs,       \* coroutines started
    MaxFailures    \* deaths of a process, and database calls that fail with a request half done

ASSUME IngestionBounds ==
    /\ MaxDocuments \in Nat /\ Seeded \in 0..MaxDocuments /\ MaxJobs \in Nat /\ MaxFailures \in Nat
    /\ IsFiniteSet(Workers) /\ Workers # {} /\ Contents # {}
    /\ \E file \in [1..Seeded -> Contents] : \A d, e \in 1..Seeded : file[d] = file[e] => d = e

VARIABLES
    documents,   \* documents[d]: the record, its status and chunk_count
    chunks,      \* the chunks collection
    provenance,  \* current extracted_from edges: [doc, ontology, concept, run]
    jobs,        \* jobs[j]: the coroutine process_document
    loop,        \* loop[w]: the frame that holds the event loop
    deletion,    \* deletion[d]: where a confirmed deletion of d stands
    serving,     \* serving[d]: the process whose serving is at the deletion of d
    crashes,
    slips,
    mixed,       \* history: documents replaced, discarded or deleted while a coroutine or another request was
                 \* at work on them, or whose replacement or deletion stopped when their chunks were removed
    doubled      \* history: contents whose failed record was not dropped

ingestion == <<documents, chunks, provenance, jobs, loop, deletion, serving, crashes, slips, mixed, doubled>>

Documents == 1..MaxDocuments
Jobs == 1..MaxJobs
Parts == 1..2

InProgress == {"uploading", "parsing", "chunking", "embedding"}
Statuses == InProgress \cup {"ready", "failed"}
Absent == {"unused", "gone"}

Present(d) == documents[d].status \in Statuses
Named(c) == {d \in Documents : Present(d) /\ documents[d].content = c}

Free == [at |-> "free", doc |-> 0, content |-> "", job |-> 0]
Idle(w) == loop[w].at = "free"
Alive(j) == jobs[j].pc \notin {"none", "done"}
WorkedOn(d) == \E j \in Jobs : Alive(j) /\ jobs[j].doc = d
Handled(d) == \E w \in Workers : loop[w].doc = d
UnusedJobs == {j \in Jobs : jobs[j].pc = "none"}
UnusedDocuments == {d \in Documents : documents[d].status = "unused"}
Least(S) == CHOOSE x \in S : \A y \in S : x <= y

\* The contents of the documents that were uploaded before, one each.
Uploaded == CHOOSE file \in [1..Seeded -> Contents] : \A d, e \in 1..Seeded : file[d] = file[e] => d = e

IngestionInit ==
    /\ documents = [d \in Documents |->
           IF d <= Seeded
           THEN [status |-> "ready", content |-> Uploaded[d], count |-> Cardinality(Parts)]
           ELSE [status |-> "unused", content |-> "", count |-> 0]]
    /\ chunks = {k \in [doc : 1..Seeded, content : Contents, part : Parts, by : {0}] : k.content = Uploaded[k.doc]}
    /\ provenance = {}
    /\ jobs = [j \in Jobs |-> [pc |-> "none", doc |-> 0, content |-> "", stored |-> 0, at |-> CHOOSE w \in Workers : TRUE]]
    /\ loop = [w \in Workers |-> Free]
    /\ deletion = [d \in Documents |-> "none"]
    /\ serving = [d \in Documents |-> CHOOSE w \in Workers : TRUE]
    /\ crashes = 0 /\ slips = 0 /\ mixed = {} /\ doubled = {}

\* asyncio.create_task: the coroutine runs when the loop is next free.
Schedule(w, d, c) ==
    jobs' = [jobs EXCEPT ![Least(UnusedJobs)] = [pc |-> "queued", doc |-> d, content |-> c,
                                         stored |-> 0, at |-> w]]

WithoutChunks(d) == {k \in chunks : k.doc # d}

Slip == crashes + slips < MaxFailures /\ slips' = slips + 1

-----------------------------------------------------------------------------
(* POST /upload, after the file has been read.                              *)

\* Identical content: a failed record is discarded first, any other reused.
BeginUpload(w, c) ==
    /\ Idle(w) /\ UnusedJobs # {} /\ UnusedDocuments # {}
    /\ \/ /\ Named(c) = {}
          /\ loop' = [loop EXCEPT ![w] = [Free EXCEPT !.at = "create", !.content = c]]
          /\ UNCHANGED mixed
       \/ \E d \in Named(c) :
             /\ documents[d].status = "failed"
             /\ loop' = [loop EXCEPT ![w] = [Free EXCEPT !.at = "dropChunks", !.doc = d, !.content = c]]
             /\ mixed' = IF WorkedOn(d) \/ Handled(d) \/ deletion[d] # "none" THEN mixed \cup {d} ELSE mixed
    /\ UNCHANGED <<documents, chunks, provenance, jobs, deletion, serving, crashes, slips, doubled>>

DropChunks(w) ==
    /\ loop[w].at = "dropChunks"
    /\ chunks' = WithoutChunks(loop[w].doc)
    /\ loop' = [loop EXCEPT ![w].at = "dropRecord"]
    /\ UNCHANGED <<documents, provenance, jobs, deletion, serving, crashes, slips, mixed, doubled>>

\* hard_delete_document answers False for a record that is gone already, and
\* for one it could not delete: the upload goes on to a second record.
DropRecord(w) ==
    /\ loop[w].at = "dropRecord"
    /\ \/ /\ documents' = [documents EXCEPT ![loop[w].doc].status = "gone"]
          /\ UNCHANGED <<slips, doubled>>
       \/ /\ Present(loop[w].doc) /\ Slip
          /\ doubled' = doubled \cup {loop[w].content}
          /\ UNCHANGED documents
    /\ loop' = [loop EXCEPT ![w].at = "create", ![w].doc = 0]
    /\ UNCHANGED <<chunks, provenance, jobs, deletion, serving, crashes, mixed>>

CreateDocument(w) ==
    /\ loop[w].at = "create" /\ UnusedDocuments # {} /\ UnusedJobs # {}
    /\ LET d == Least(UnusedDocuments) IN
       /\ documents' = [documents EXCEPT ![d] =
              [status |-> "uploading", content |-> loop[w].content, count |-> 0]]
       /\ Schedule(w, d, loop[w].content)
    /\ loop' = [loop EXCEPT ![w] = Free]
    /\ UNCHANGED <<chunks, provenance, deletion, serving, crashes, slips, mixed, doubled>>

-----------------------------------------------------------------------------
(* PUT /{doc_id}.  The record was found before the file was read, so it may *)
(* be gone by now.                                                          *)

\* Mutant: the chunks of the old content are left for the new ones to join.
BeginReplaceKeepsChunks(w, d, c) ==
    /\ Idle(w) /\ UnusedJobs # {}
    /\ documents[d].status # "unused"
    /\ Named(c) = {} \/ d \in Named(c)
    /\ loop' = [loop EXCEPT ![w] = [Free EXCEPT !.at = "rename", !.doc = d, !.content = c]]
    /\ mixed' = IF WorkedOn(d) \/ Handled(d) \/ deletion[d] # "none" THEN mixed \cup {d} ELSE mixed
    /\ UNCHANGED <<documents, chunks, provenance, jobs, deletion, serving, crashes, slips, doubled>>

\* Mutant: another document with the content is no conflict.
BeginReplaceUnchecked(w, d, c) ==
    /\ Idle(w) /\ UnusedJobs # {}
    /\ documents[d].status # "unused"
    /\ chunks' = WithoutChunks(d)
    /\ loop' = [loop EXCEPT ![w] = [Free EXCEPT !.at = "rename", !.doc = d, !.content = c]]
    /\ mixed' = IF WorkedOn(d) \/ Handled(d) \/ deletion[d] # "none" THEN mixed \cup {d} ELSE mixed
    /\ UNCHANGED <<documents, provenance, jobs, deletion, serving, crashes, slips, doubled>>

BeginReplace(w, d, c) ==
    /\ Idle(w) /\ UnusedJobs # {}
    /\ documents[d].status # "unused"
    /\ Named(c) = {} \/ d \in Named(c)   \* the record found by hash is this one, else 409
    /\ chunks' = WithoutChunks(d)
    /\ loop' = [loop EXCEPT ![w] = [Free EXCEPT !.at = "rename", !.doc = d, !.content = c]]
    /\ mixed' = IF WorkedOn(d) \/ Handled(d) \/ deletion[d] # "none" THEN mixed \cup {d} ELSE mixed
    /\ UNCHANGED <<documents, provenance, jobs, deletion, serving, crashes, slips, doubled>>

\* An update of a record that is gone raises and ends the request.
Rename(w) ==
    LET d == loop[w].doc IN
    /\ loop[w].at = "rename"
    /\ IF Present(d)
       THEN /\ documents' = [documents EXCEPT ![d].content = loop[w].content, ![d].count = 0]
            /\ loop' = [loop EXCEPT ![w].at = "restart"]
       ELSE /\ loop' = [loop EXCEPT ![w] = Free]
            /\ UNCHANGED documents
    /\ UNCHANGED <<chunks, provenance, jobs, deletion, serving, crashes, slips, mixed, doubled>>

Restart(w) ==
    LET d == loop[w].doc IN
    /\ loop[w].at = "restart"
    /\ IF Present(d) /\ UnusedJobs # {}
       THEN /\ documents' = [documents EXCEPT ![d].status = "uploading"]
            /\ Schedule(w, d, loop[w].content)
       ELSE UNCHANGED <<documents, jobs>>
    /\ loop' = [loop EXCEPT ![w] = Free]
    /\ UNCHANGED <<chunks, provenance, deletion, serving, crashes, slips, mixed, doubled>>

\* A database call raises and ends the request.  A replacement that ends here
\* at "rename" has removed the chunks and left the record as it was.
RequestRaises(w) ==
    /\ loop[w].at \in {"dropChunks", "create", "rename", "restart"}
    /\ Slip
    /\ loop' = [loop EXCEPT ![w] = Free]
    /\ mixed' = IF loop[w].at = "rename" THEN mixed \cup {loop[w].doc} ELSE mixed
    /\ UNCHANGED <<documents, chunks, provenance, jobs, deletion, serving, crashes, doubled>>

-----------------------------------------------------------------------------
(* DELETE /{doc_id}?confirm=true, on a thread of the pool.                  *)

BeginDelete(w, d) ==
    /\ d \in Deletable /\ Present(d) /\ deletion[d] = "none"
    /\ provenance' = {e \in provenance : e.doc # d}
    /\ deletion' = [deletion EXCEPT ![d] = "chunks"]
    /\ serving' = [serving EXCEPT ![d] = w]
    /\ mixed' = IF WorkedOn(d) \/ Handled(d) THEN mixed \cup {d} ELSE mixed
    /\ UNCHANGED <<documents, chunks, jobs, loop, crashes, slips, doubled>>

\* It raises, and the request ends, or removes them all.
DeleteChunks(d) ==
    /\ deletion[d] = "chunks"
    /\ \/ /\ chunks' = WithoutChunks(d)
          /\ deletion' = [deletion EXCEPT ![d] = "record"]
          /\ UNCHANGED slips
       \/ /\ Slip
          /\ deletion' = [deletion EXCEPT ![d] = "none"]
          /\ UNCHANGED chunks
    /\ UNCHANGED <<documents, provenance, jobs, loop, serving, crashes, mixed, doubled>>

\* A record that could not be deleted stays, without its chunks; the answer
\* is "deleted" all the same.
DeleteRecord(d) ==
    /\ deletion[d] = "record"
    /\ \/ /\ documents' = [documents EXCEPT ![d].status = "gone"]
          /\ UNCHANGED <<slips, mixed>>
       \/ /\ Present(d) /\ Slip
          /\ mixed' = mixed \cup {d}
          /\ UNCHANGED documents
    /\ deletion' = [deletion EXCEPT ![d] = "none"]
    /\ UNCHANGED <<chunks, provenance, jobs, loop, serving, crashes, doubled>>

-----------------------------------------------------------------------------
(* process_document, from one await to the next; the storing part has none  *)
(* and holds the loop, one action per database call.                        *)

At(j, pc) == jobs[j].pc = pc
HasLoop(j) == loop[jobs[j].at].job = j
Ends(j) == jobs' = [jobs EXCEPT ![j].pc = "done"]
GivesLoop(j) == loop' = IF HasLoop(j) THEN [loop EXCEPT ![jobs[j].at] = Free] ELSE loop

\* Mutant: the handler logs the exception and leaves the status.
FailsSilently(j) ==
    /\ Ends(j) /\ GivesLoop(j)
    /\ UNCHANGED <<documents, chunks, provenance, deletion, serving, crashes, slips, mixed, doubled>>

\* The except clause.  On a record that is gone it raises again, and on any
\* other it may: the status stays.
Fails(j) ==
    LET d == jobs[j].doc IN
    /\ \/ /\ Present(d)
          /\ documents' = [documents EXCEPT ![d].status = "failed"]
          /\ UNCHANGED slips
       \/ ~Present(d) /\ UNCHANGED <<documents, slips>>
       \/ Present(d) /\ Slip /\ UNCHANGED documents
    /\ Ends(j) /\ GivesLoop(j)
    /\ UNCHANGED <<chunks, provenance, deletion, serving, crashes, mixed, doubled>>

BeginParse(j) ==
    LET d == jobs[j].doc IN
    /\ At(j, "queued") /\ Idle(jobs[j].at)
    /\ \/ Fails(j)
       \/ /\ Present(d)
          /\ documents' = [documents EXCEPT ![d].status = "parsing"]
          /\ jobs' = [jobs EXCEPT ![j].pc = "parsing"]
          /\ UNCHANGED <<chunks, provenance, loop, deletion, serving, crashes, slips, mixed, doubled>>

\* The parser may raise; a document without text is ready with no chunks.
Chunk(j) ==
    LET d == jobs[j].doc IN
    /\ At(j, "parsing") /\ Idle(jobs[j].at)
    /\ \/ Fails(j)
       \/ /\ Present(d)
          /\ \/ /\ documents' = [documents EXCEPT ![d].status = "ready"]
                /\ Ends(j)
             \/ /\ documents' = [documents EXCEPT ![d].status = "embedding"]
                /\ jobs' = [jobs EXCEPT ![j].pc = "embedding"]
          /\ UNCHANGED <<chunks, provenance, loop, deletion, serving, crashes, slips, mixed, doubled>>

\* create_chunks: an insert that fails is skipped, unless all of them do.
Store(j) ==
    /\ At(j, "embedding") /\ Idle(jobs[j].at)
    /\ \/ Fails(j)
       \/ \E stored \in SUBSET Parts \ {{}} :
             /\ chunks' = chunks \cup
                    {[doc |-> jobs[j].doc, content |-> jobs[j].content, part |-> n, by |-> j] : n \in stored}
             /\ loop' = [loop EXCEPT ![jobs[j].at] =
                    [Free EXCEPT !.at = "count", !.doc = jobs[j].doc, !.job = j]]
             /\ jobs' = [jobs EXCEPT ![j].pc = "storing", ![j].stored = Cardinality(stored)]
             /\ UNCHANGED <<documents, provenance, deletion, serving, crashes, slips, mixed, doubled>>

\* Mutant: the count of the chunks that were asked for, not of those stored.
CountRequested(j) ==
    LET d == jobs[j].doc IN
    /\ At(j, "storing") /\ loop[jobs[j].at].at = "count"
    /\ \/ Fails(j)
       \/ /\ Present(d)
          /\ documents' = [documents EXCEPT ![d].count = Cardinality(Parts)]
          /\ loop' = [loop EXCEPT ![jobs[j].at].at = "index"]
          /\ UNCHANGED <<chunks, provenance, jobs, deletion, serving, crashes, slips, mixed, doubled>>

CountChunks(j) ==
    LET d == jobs[j].doc IN
    /\ At(j, "storing") /\ loop[jobs[j].at].at = "count"
    /\ \/ Fails(j)
       \/ /\ Present(d)
          /\ documents' = [documents EXCEPT ![d].count = jobs[j].stored]
          /\ loop' = [loop EXCEPT ![jobs[j].at].at = "index"]
          /\ UNCHANGED <<chunks, provenance, jobs, deletion, serving, crashes, slips, mixed, doubled>>

\* _ensure_vector_index raises when the index cannot be built in time.
IndexAndFinish(j) ==
    LET d == jobs[j].doc IN
    /\ At(j, "storing") /\ loop[jobs[j].at].at = "index"
    /\ \/ Fails(j)
       \/ /\ Present(d)
          /\ documents' = [documents EXCEPT ![d].status = "ready"]
          /\ Ends(j) /\ GivesLoop(j)
          /\ UNCHANGED <<chunks, provenance, deletion, serving, crashes, slips, mixed, doubled>>

\* The process dies and a new one takes its place; nothing resumes the work,
\* nor the deletions its threads were at.
Crash(w) ==
    /\ crashes + slips < MaxFailures
    /\ crashes' = crashes + 1
    /\ loop' = [loop EXCEPT ![w] = Free]
    /\ jobs' = [j \in Jobs |-> IF Alive(j) /\ jobs[j].at = w
                               THEN [jobs[j] EXCEPT !.pc = "done"] ELSE jobs[j]]
    /\ deletion' = [d \in Documents |-> IF serving[d] = w THEN "none" ELSE deletion[d]]
    /\ mixed' = mixed \cup ({loop[w].doc} \ {0})
                      \cup {d \in Documents : serving[d] = w /\ deletion[d] = "record"}
    /\ UNCHANGED <<documents, chunks, provenance, serving, slips, doubled>>

-----------------------------------------------------------------------------
Requests(w) ==
    \/ DropChunks(w) \/ DropRecord(w) \/ CreateDocument(w)
    \/ Rename(w) \/ Restart(w) \/ RequestRaises(w)

Process(j) == BeginParse(j) \/ Chunk(j) \/ Store(j) \/ CountChunks(j) \/ IndexAndFinish(j)

ClientNext ==
    \/ \E w \in Workers, c \in Contents :
          BeginUpload(w, c) \/ \E d \in Documents : BeginReplace(w, d, c)
    \/ \E w \in Workers, d \in Documents : BeginDelete(w, d)

ServerNext ==
    \/ \E w \in Workers : Requests(w)
    \/ \E d \in Documents : DeleteChunks(d) \/ DeleteRecord(d)
    \/ \E j \in Jobs : Process(j)

IngestionNext == ClientNext \/ ServerNext \/ \E w \in Workers : Crash(w)

IngestionFairness ==
    /\ \A w \in Workers : WF_ingestion(Requests(w))
    /\ \A d \in Documents : WF_ingestion(DeleteChunks(d) \/ DeleteRecord(d))
    /\ \A j \in Jobs : SF_ingestion(Process(j))

IngestionSpec == IngestionInit /\ [][IngestionNext]_ingestion /\ IngestionFairness

-----------------------------------------------------------------------------
IngestionTypes ==
    /\ documents \in [Documents -> [status : Statuses \cup Absent, content : Contents \cup {""},
                                    count : 0..Cardinality(Parts)]]
    /\ chunks \subseteq [doc : Documents, content : Contents, part : Parts, by : Jobs \cup {0}]
    /\ jobs \in [Jobs -> [pc : {"none", "queued", "parsing", "embedding", "storing", "done"},
                          doc : Documents \cup {0}, content : Contents \cup {""},
                          stored : 0..Cardinality(Parts), at : Workers]]
    /\ deletion \in [Documents -> {"none", "chunks", "record"}] /\ serving \in [Documents -> Workers]
    /\ slips \in Nat /\ mixed \subseteq Documents /\ doubled \subseteq Contents

(* A content is in one document (documents.py:261 "A different document     *)
(* with identical content already exists"): with one process, whatever      *)
(* uploads, replacements, deletions and failures overlap.  A content is     *)
(* excepted once hard_delete_document failed on a record of it that an      *)
(* upload was to replace (documents.py:141): that upload leaves two.        *)
UniqueContent ==
    Cardinality(Workers) = 1 => \A c \in Contents \ doubled : Cardinality(Named(c)) <= 1

(* A ready document has the chunks of its own content, once, and chunk_count *)
(* says how many: repeated replacement, failed attempts and uploads of a    *)
(* failed content leave nothing of what was there before.  Excepted is a    *)
(* document that was replaced, discarded or deleted while a coroutine or    *)
(* another request was at work on it, and one whose replacement or deletion *)
(* stopped, by a call that failed (documents.py:275, documents_repo.py:271) *)
(* or by the death of the process, when its chunks were removed already.    *)
ReadyIsWhole ==
    \A d \in Documents \ mixed : documents[d].status = "ready" /\ deletion[d] = "none"
        /\ ~Handled(d) =>
        LET own == {k \in chunks : k.doc = d} IN
        /\ \A k \in own : k.content = documents[d].content
        /\ Cardinality(own) = documents[d].count

(* While no process dies and no call fails where nothing catches it, every  *)
(* document that is being processed comes to be ready, failed or gone,      *)
(* whatever raises (tasks.py:150).                                          *)
IngestionEnds ==
    \A d \in Documents :
        (documents[d].status \in InProgress /\ crashes = 0 /\ slips = 0)
            ~> (documents[d].status \notin InProgress \/ crashes > 0 \/ slips > 0)
=============================================================================
