--------------------------- MODULE PipelineProofs ---------------------------
(***************************************************************************)
(* Invariance proofs for the ingestion of documents and for the extraction *)
(* runs over them: for any number of documents, contents, parts, runs,     *)
(* ontologies, concepts, processes, deaths and failed calls.               *)
(*                                                                         *)
(* Ingestion: the types; who holds each process's loop; that a record not  *)
(* yet used is blank; with one process, that the request which holds the   *)
(* loop knows which documents have its content; and for each document that *)
(* nobody touched in the middle of its processing, that its status, its    *)
(* chunks and the one coroutine at work on it agree.                       *)
(*                                                                         *)
(* Extraction runs: for each run, how far its thread has come and what it  *)
(* has written so far; for each ontology that two threads never wrote to   *)
(* at once, that what its only writer found there is still so.             *)
(*                                                                         *)
(* The repair of range edges: what a round of repairs can add, so that a   *)
(* second round over what the first left adds nothing.                     *)
(***************************************************************************)
EXTENDS ExtractionRun, EdgeRepair, FiniteSetTheorems, SequenceTheorems, WellFoundedInduction, TLAPS

-----------------------------------------------------------------------------
(* Ingestion.                                                               *)

Frames ==
    [at : {"free", "create", "dropChunks", "dropRecord", "rename", "restart", "count", "index"},
     doc : Documents \cup {0}, content : Contents \cup {""}, job : Jobs \cup {0}]

DocumentRecords == [status : Statuses \cup Absent, content : Contents \cup {""}, count : 0..Cardinality(Parts)]
ChunkRecords == [doc : Documents, content : Contents, part : Parts, by : Jobs \cup {0}]
JobRecords == [pc : {"none", "queued", "parsing", "embedding", "storing", "done"},
               doc : Documents \cup {0}, content : Contents \cup {""},
               stored : 0..Cardinality(Parts), at : Workers]

IngestionTyped ==
    /\ documents \in [Documents -> DocumentRecords]
    /\ chunks \subseteq ChunkRecords
    /\ jobs \in [Jobs -> JobRecords]
    /\ deletion \in [Documents -> {"none", "chunks", "record"}]
    /\ serving \in [Documents -> Workers]
    /\ mixed \subseteq Documents /\ doubled \subseteq Contents
    /\ loop \in [Workers -> Frames]
    /\ crashes \in Nat /\ slips \in Nat

\* A coroutine that stores its chunks holds its loop, and nobody else does.
FrameHeld(w) ==
    LET f == loop[w] IN
    /\ f.at = "free" => f.doc = 0
    /\ f.at = "create" => f.doc = 0
    /\ f.at \notin {"free", "count", "index"} => f.content \in Contents
    /\ f.at \in {"count", "index"} <=> f.job # 0
    /\ f.job # 0 => jobs[f.job].pc = "storing" /\ jobs[f.job].at = w /\ jobs[f.job].doc = f.doc
    /\ f.doc # 0 => documents[f.doc].status # "unused"
    /\ f.at \notin {"free", "create"} => f.doc # 0

JobHeld(j) ==
    /\ jobs[j].pc = "storing" => loop[jobs[j].at].job = j
    /\ jobs[j].pc # "none" => jobs[j].doc # 0 /\ jobs[j].content \in Contents
    /\ Alive(j) => documents[jobs[j].doc].status # "unused"

LoopsHeld == (\A w \in Workers : FrameHeld(w)) /\ (\A j \in Jobs : JobHeld(j))

ChunksOf(d) == {k \in chunks : k.doc = d}

UnusedIsFresh ==
    \A d \in Documents : documents[d].status = "unused" => ChunksOf(d) = {} /\ deletion[d] = "none"

\* With one process: what the request that holds the loop knows of the names.
FrameNames(w) ==
    LET f == loop[w] IN
    f.content \notin doubled =>
        /\ f.at = "create" => Named(f.content) = {}
        /\ f.at \in {"dropChunks", "dropRecord", "rename"} => Named(f.content) \subseteq {f.doc}

NamesUnique ==
    /\ \A c \in Contents \ doubled : \A d, e \in Named(c) : d = e
    /\ \A w \in Workers : FrameNames(w)

\* Nothing is said of d any more: it is gone, its deletion has removed the
\* chunks, it was touched while something was at work on it, or a replacement
\* or deletion of it stopped half way.
Doomed(d) == d \in mixed \/ ~Present(d) \/ deletion[d] = "record"

StatusAt(pc) ==
    CASE pc = "queued" -> "uploading" [] pc = "parsing" -> "parsing"
      [] OTHER -> "embedding"

Own(d, c, n) == (\A k \in ChunksOf(d) : k.content = c) /\ Cardinality(ChunksOf(d)) = n

FrameSays(d, w) ==
    /\ loop[w].at \in {"dropChunks", "dropRecord"} => ~WorkedOn(d) /\ documents[d].status = "failed"
    /\ loop[w].at \in {"rename", "restart"} => ~WorkedOn(d) /\ ChunksOf(d) = {}
    /\ loop[w].at = "restart" => documents[d].content = loop[w].content /\ documents[d].count = 0
    /\ loop[w].at = "index" => documents[d].count = jobs[loop[w].job].stored

JobSays(d, j) ==
    /\ documents[d].status = StatusAt(jobs[j].pc) /\ documents[d].content = jobs[j].content
    /\ jobs[j].pc # "storing" => ~Handled(d) /\ ChunksOf(d) = {} /\ documents[d].count = 0
    /\ jobs[j].pc = "storing" => Own(d, jobs[j].content, jobs[j].stored)

AtWork(j, d) == Alive(j) /\ jobs[j].doc = d

Coherent(d) ==
    /\ \A j, i \in Jobs : AtWork(j, d) /\ AtWork(i, d) => i = j
    /\ \A w, v \in Workers : loop[w].doc = d /\ loop[v].doc = d => v = w
    /\ \A w \in Workers : loop[w].doc = d => FrameSays(d, w)
    /\ \A j \in Jobs : AtWork(j, d) => JobSays(d, j)
    /\ documents[d].status = "ready" /\ ~Handled(d) => Own(d, documents[d].content, documents[d].count)

Sound(d) == ~Doomed(d) => Coherent(d)

IngestionInv ==
    /\ IngestionTyped /\ LoopsHeld /\ UnusedIsFresh
    /\ Cardinality(Workers) = 1 => NamesUnique
    /\ \A d \in Documents : Sound(d)
-----------------------------------------------------------------------------
\* A non-empty set of numbers has its least member.
LEMMA LeastIsIn ==
    ASSUME NEW S \in SUBSET Nat, S # {}
    PROVE  Least(S) \in S
<1>1. PICK x \in S : \A y \in S : ~(<<y, x>> \in OpToRel(<, Nat))
  BY NatLessThanWellFounded, WFMin
<1>2. ASSUME NEW y \in S, y < x PROVE <<y, x>> \in OpToRel(<, Nat)
  BY <1>2 DEF OpToRel
<1>3. \A y \in S : ~(y < x)
  BY <1>1, <1>2
<1>4. \A y \in S : x <= y
  BY <1>3
<1> QED BY <1>4 DEF Least

\* The parts of a document can be counted.
LEMMA PartsCounted ==
    /\ IsFiniteSet(Parts) /\ Cardinality(Parts) = 2
    /\ \A S \in SUBSET Parts : IsFiniteSet(S) /\ Cardinality(S) \in 0..Cardinality(Parts)
<1>1. IsFiniteSet(Parts) /\ Cardinality(Parts) = 2
  <2>1. IsFiniteSet(1..2) /\ Cardinality(1..2) = IF 1 > 2 THEN 0 ELSE 2 - 1 + 1
    BY FS_Interval, 1 \in Int, 2 \in Int, Zenon
  <2> QED BY <2>1 DEF Parts
<1>2. \A S \in SUBSET Parts : IsFiniteSet(S) /\ Cardinality(S) \in Nat /\ Cardinality(S) <= 2
  BY <1>1, FS_Subset, FS_CardinalityType
<1> QED BY <1>1, <1>2

\* The coroutine the next upload gets.
LEMMA LeastJob == UnusedJobs # {} => Least(UnusedJobs) \in Jobs /\ jobs[Least(UnusedJobs)].pc = "none"
<1>1. UnusedJobs \in SUBSET Nat /\ UnusedJobs \subseteq Jobs
  BY IngestionBounds DEF UnusedJobs, Jobs
<1> QED BY <1>1, LeastIsIn DEF UnusedJobs

\* The record the next upload gets.
LEMMA LeastDocument ==
    UnusedDocuments # {} => /\ Least(UnusedDocuments) \in Documents
                            /\ documents[Least(UnusedDocuments)].status = "unused"
<1>1. UnusedDocuments \in SUBSET Nat /\ UnusedDocuments \subseteq Documents
  BY IngestionBounds DEF UnusedDocuments, Documents
<1> QED BY <1>1, LeastIsIn DEF UnusedDocuments
\* The proof's types say what the run's type invariant says.
LEMMA TypedIsTypes == IngestionTyped => IngestionTypes
BY DEF IngestionTyped, IngestionTypes, DocumentRecords, ChunkRecords, JobRecords

\* A loop that nobody holds.
LEMMA FreeIsFrame == Free \in Frames /\ Free.at = "free" /\ Free.doc = 0 /\ Free.job = 0
BY DEF Free, Frames

\* What one step may write: the fields of the frames and records it makes.
LEMMA IngestionTypesStep ==
    ASSUME IngestionTyped, LoopsHeld, [IngestionNext]_ingestion
    PROVE  IngestionTyped'
<1> USE DEF IngestionTyped
<1>1. Documents \subseteq Nat /\ Jobs \subseteq Nat
  BY IngestionBounds DEF Documents, Jobs
<1>a. 0 \in 0..Cardinality(Parts) /\ 0 \notin Documents
  BY PartsCounted DEF Documents
<1>2. ASSUME NEW w \in Workers, NEW c \in Contents, BeginUpload(w, c) PROVE IngestionTyped'
  <2>1. \A d \in Named(c) : d \in Documents
    BY DEF Named
  <2>2. [Free EXCEPT !.at = "create", !.content = c] \in Frames
    BY DEF Free, Frames
  <2>3. \A d \in Documents : [Free EXCEPT !.at = "dropChunks", !.doc = d, !.content = c] \in Frames
    BY DEF Free, Frames
  <2>4. PICK g \in Frames : loop' = [loop EXCEPT ![w] = g]
    BY <1>2, <2>1, <2>2, <2>3 DEF BeginUpload
  <2>5. mixed' \subseteq Documents
    BY <1>2, <2>1 DEF BeginUpload
  <2> QED BY <1>2, <2>4, <2>5 DEF BeginUpload
<1>3. ASSUME NEW w \in Workers, NEW c \in Contents, NEW d \in Documents, BeginReplace(w, d, c)
      PROVE  IngestionTyped'
  <2>1. [Free EXCEPT !.at = "rename", !.doc = d, !.content = c] \in Frames
    BY DEF Free, Frames
  <2>2. loop' \in [Workers -> Frames] /\ mixed' \subseteq Documents /\ chunks' \subseteq ChunkRecords
    BY <1>3, <2>1 DEF BeginReplace, WithoutChunks
  <2> QED BY <1>3, <2>2 DEF BeginReplace
<1>b. Slip => slips' \in Nat
  BY DEF Slip
<1>d. ASSUME NEW d \in Documents, documents' = [documents EXCEPT ![d].status = "gone"]
      PROVE  documents' \in [Documents -> DocumentRecords]
  BY ZenonT(40), <1>d DEF DocumentRecords, Absent
<1>4. ASSUME NEW w \in Workers, NEW d \in Documents, BeginDelete(w, d) \/ DeleteChunks(d) \/ DeleteRecord(d)
      PROVE  IngestionTyped'
  <2>1. CASE BeginDelete(w, d)
    BY <2>1 DEF BeginDelete
  <2>2. CASE DeleteChunks(d)
    BY <1>b, <2>2 DEF DeleteChunks, WithoutChunks
  <2>3. CASE DeleteRecord(d)
    <3>1. documents' \in [Documents -> DocumentRecords]
      BY <1>d, <2>3 DEF DeleteRecord
    <3>2. mixed' \subseteq Documents /\ slips' \in Nat /\ deletion' \in [Documents -> {"none", "chunks", "record"}]
      BY <1>b, <2>3 DEF DeleteRecord
    <3> QED BY <2>3, <3>1, <3>2 DEF DeleteRecord
  <2> QED BY <1>4, <2>1, <2>2, <2>3
<1>5. ASSUME NEW w \in Workers, DropChunks(w) \/ DropRecord(w) \/ Rename(w)
      PROVE  IngestionTyped'
  <2>1. \A a \in {"dropRecord", "create", "restart"} : [loop EXCEPT ![w].at = a] \in [Workers -> Frames]
    BY ZenonT(40) DEF Frames
  <2>2. CASE DropChunks(w)
    BY <2>1, <2>2 DEF DropChunks, WithoutChunks
  <2>3. CASE DropRecord(w)
    <3>1. loop' \in [Workers -> Frames]
      <4>1. [loop[w] EXCEPT !.at = "create", !.doc = 0] \in Frames
        BY DEF Frames
      <4> QED BY <2>3, <4>1 DEF DropRecord
    <3>a. loop[w].doc \in Documents
      BY <2>3 DEF DropRecord, LoopsHeld, FrameHeld, Frames
    <3>2. documents' \in [Documents -> DocumentRecords]
      BY <1>d, <2>3, <3>a DEF DropRecord
    <3>3. loop[w].content \in Contents
      BY <2>3 DEF DropRecord, LoopsHeld, FrameHeld
    <3>4. doubled' \subseteq Contents /\ slips' \in Nat
      BY <1>b, <2>3, <3>3 DEF DropRecord
    <3> QED BY <2>3, <3>1, <3>2, <3>4 DEF DropRecord
  <2>4. CASE Rename(w)
    <3>1. loop[w].content \in Contents \cup {""}
      BY DEF Frames
    <3>2. documents' \in [Documents -> DocumentRecords]
      <4>1. CASE Present(loop[w].doc)
        <5> DEFINE c == loop[w].content
        <5>1. documents' = [documents EXCEPT ![loop[w].doc].content = c, ![loop[w].doc].count = 0]
          BY <2>4, <4>1 DEF Rename
        <5> HIDE DEF c
        <5> QED BY ZenonT(40), <1>a, <3>1, <5>1 DEF DocumentRecords, c
      <4>2. CASE ~Present(loop[w].doc)
        BY <2>4, <4>2 DEF Rename
      <4> QED BY <4>1, <4>2
    <3>3. loop' \in [Workers -> Frames]
      BY <2>1, <2>4, FreeIsFrame DEF Rename
    <3> QED BY <2>4, <3>2, <3>3 DEF Rename
  <2> QED BY <1>5, <2>2, <2>3, <2>4
<1>6. ASSUME NEW w \in Workers, NEW d \in Documents, UnusedJobs # {}, Schedule(w, d, loop[w].content)
      PROVE  jobs' \in [Jobs -> JobRecords]
  <2>1. [pc |-> "queued", doc |-> d, content |-> loop[w].content, stored |-> 0, at |-> w] \in JobRecords
    BY <1>a DEF JobRecords, Frames
  <2> QED BY <1>6, <2>1, LeastJob DEF Schedule
<1>7. ASSUME NEW w \in Workers, CreateDocument(w) PROVE IngestionTyped'
  <2>1. [status |-> "uploading", content |-> loop[w].content, count |-> 0] \in DocumentRecords
    BY <1>a DEF DocumentRecords, Frames, Statuses, InProgress
  <2>2. documents' \in [Documents -> DocumentRecords]
    BY <1>7, <2>1, LeastDocument DEF CreateDocument
  <2>3. jobs' \in [Jobs -> JobRecords]
    BY <1>6, <1>7, LeastDocument DEF CreateDocument
  <2> QED BY <1>7, <2>2, <2>3, FreeIsFrame DEF CreateDocument
<1>8. ASSUME NEW w \in Workers, Restart(w) PROVE IngestionTyped'
  <2>1. CASE Present(loop[w].doc) /\ UnusedJobs # {}
    <3>1. documents' = [documents EXCEPT ![loop[w].doc].status = "uploading"]
      BY <1>8, <2>1 DEF Restart
    <3>2. documents' \in [Documents -> DocumentRecords]
      BY ZenonT(40), <3>1 DEF DocumentRecords, Statuses, InProgress
    <3>3. loop[w].doc \in Documents \cup {0} /\ loop[w].content \in Contents \cup {""}
      BY DEF Frames
    <3>4. jobs' \in [Jobs -> JobRecords]
      <4>1. [pc |-> "queued", doc |-> loop[w].doc, content |-> loop[w].content, stored |-> 0, at |-> w] \in JobRecords
        BY <1>a, <3>3 DEF JobRecords
      <4> QED BY <1>8, <2>1, <4>1, LeastJob DEF Schedule, Restart
    <3> QED BY <1>8, <3>2, <3>4, FreeIsFrame DEF Restart
  <2>2. CASE ~(Present(loop[w].doc) /\ UnusedJobs # {})
    BY <1>8, <2>2, FreeIsFrame DEF Restart
  <2> QED BY <2>1, <2>2
<1>c. ASSUME NEW w \in Workers, RequestRaises(w) PROVE IngestionTyped'
  <2>1. loop' \in [Workers -> Frames] /\ slips' \in Nat
    BY <1>b, <1>c, FreeIsFrame DEF RequestRaises
  <2>2. mixed' \subseteq Documents
    <3>1. loop[w].at = "rename" => loop[w].doc \in Documents
      BY DEF LoopsHeld, FrameHeld, Frames
    <3> QED BY <1>c, <3>1 DEF RequestRaises
  <2> QED BY <1>c, <2>1, <2>2 DEF RequestRaises
<1>9. ASSUME NEW j \in Jobs, Ends(j) PROVE jobs' \in [Jobs -> JobRecords]
  BY ZenonT(40), <1>9 DEF Ends, JobRecords
<1>10. ASSUME NEW j \in Jobs, GivesLoop(j) PROVE loop' \in [Workers -> Frames]
  BY <1>10, FreeIsFrame DEF GivesLoop
<1>11. ASSUME NEW d, NEW s \in Statuses, documents' = [documents EXCEPT ![d].status = s]
       PROVE  documents' \in [Documents -> DocumentRecords]
  BY <1>11 DEF DocumentRecords
<1>12. ASSUME NEW j \in Jobs, Fails(j) PROVE IngestionTyped'
  <2>1. documents' \in [Documents -> DocumentRecords]
    BY <1>11, <1>12 DEF Fails, Statuses
  <2>2. slips' \in Nat
    BY <1>b, <1>12 DEF Fails
  <2> QED BY <1>9, <1>10, <1>12, <2>1, <2>2 DEF Fails
<1>13. ASSUME NEW j \in Jobs, BeginParse(j) \/ Chunk(j) PROVE IngestionTyped'
  <2>1. \A pc \in {"parsing", "embedding"} : [jobs EXCEPT ![j].pc = pc] \in [Jobs -> JobRecords]
    BY ZenonT(40) DEF JobRecords
  <2>2. CASE BeginParse(j)
    BY <1>11, <1>12, <2>1, <2>2 DEF BeginParse, Statuses, InProgress
  <2>3. CASE Chunk(j)
    <3>1. "ready" \in Statuses /\ "embedding" \in Statuses
      BY DEF Statuses, InProgress
    <3>2. CASE Fails(j)
      BY <1>12, <3>2
    <3>3. CASE ~Fails(j)
      BY <1>9, <1>11, <2>1, <2>3, <3>1, <3>3 DEF Chunk
    <3> QED BY <3>2, <3>3
  <2> QED BY <1>13, <2>2, <2>3
<1>14. ASSUME NEW j \in Jobs, Store(j) PROVE IngestionTyped'
  <2>1. CASE Fails(j)
    BY <1>12, <2>1
  <2>2. CASE ~Fails(j)
    <3>1. PICK stored \in SUBSET Parts \ {{}} :
             /\ chunks' = chunks \cup
                    {[doc |-> jobs[j].doc, content |-> jobs[j].content, part |-> n, by |-> j] : n \in stored}
             /\ loop' = [loop EXCEPT ![jobs[j].at] =
                    [Free EXCEPT !.at = "count", !.doc = jobs[j].doc, !.job = j]]
             /\ jobs' = [jobs EXCEPT ![j].pc = "storing", ![j].stored = Cardinality(stored)]
             /\ UNCHANGED <<documents, provenance, deletion, serving, crashes, slips, mixed, doubled>>
      BY <1>14, <2>2 DEF Store
    <3>2. jobs' \in [Jobs -> JobRecords]
      <4>1. PICK n \in 0..Cardinality(Parts) : n = Cardinality(stored)
        BY PartsCounted
      <4>2. jobs' = [jobs EXCEPT ![j].pc = "storing", ![j].stored = n]
        BY <3>1, <4>1
      <4>3. [jobs[j] EXCEPT !.pc = "storing", !.stored = n] \in JobRecords
        BY ZenonT(40), <4>1 DEF JobRecords
      <4> QED BY <4>2, <4>3
    <3>3. [Free EXCEPT !.at = "count", !.doc = jobs[j].doc, !.job = j] \in Frames
      BY DEF Free, Frames, JobRecords
    <3>4. loop' \in [Workers -> Frames]
      BY <3>1, <3>3
    <3>5. chunks' \subseteq ChunkRecords
      <4>1. jobs[j].doc \in Documents /\ jobs[j].content \in Contents
        BY <1>14 DEF Store, At, Alive, LoopsHeld, JobHeld, JobRecords
      <4>2. \A n \in stored :
               [doc |-> jobs[j].doc, content |-> jobs[j].content, part |-> n, by |-> j] \in ChunkRecords
        BY <4>1 DEF ChunkRecords
      <4> QED BY <3>1, <4>2
    <3> QED BY <3>1, <3>2, <3>4, <3>5
  <2> QED BY <2>1, <2>2
<1>15. ASSUME NEW j \in Jobs, CountChunks(j) \/ IndexAndFinish(j) PROVE IngestionTyped'
  <2>1. CASE Fails(j)
    BY <1>12, <2>1
  <2>2. CASE CountChunks(j) /\ ~Fails(j)
    <3>1. jobs[j].stored \in 0..Cardinality(Parts)
      BY DEF JobRecords
    <3>2. /\ documents' = [documents EXCEPT ![jobs[j].doc].count = jobs[j].stored]
          /\ loop' = [loop EXCEPT ![jobs[j].at].at = "index"]
          /\ UNCHANGED <<chunks, provenance, jobs, deletion, serving, crashes, slips, mixed, doubled>>
      BY <2>2 DEF CountChunks
    <3>3. documents' \in [Documents -> DocumentRecords]
      BY ZenonT(40), <3>1, <3>2 DEF DocumentRecords
    <3>4. loop' \in [Workers -> Frames]
      <4>1. \A w \in Workers : [loop[w] EXCEPT !.at = "index"] \in Frames
        BY DEF Frames
      <4>2. jobs[j].at \in Workers
        BY DEF JobRecords
      <4> QED BY <3>2, <4>1, <4>2
    <3> QED BY <3>2, <3>3, <3>4
  <2>3. CASE IndexAndFinish(j) /\ ~Fails(j)
    BY <1>9, <1>10, <1>11, <2>3 DEF IndexAndFinish, Statuses
  <2> QED BY <1>15, <2>1, <2>2, <2>3
<1>16. ASSUME NEW w \in Workers, Crash(w) PROVE IngestionTyped'
  <2>1. jobs' \in [Jobs -> JobRecords]
    <3>1. \A j \in Jobs : [jobs[j] EXCEPT !.pc = "done"] \in JobRecords
      BY DEF JobRecords
    <3> QED BY <1>16, <3>1 DEF Crash
  <2>2. loop' \in [Workers -> Frames] /\ loop[w].doc \in Documents \cup {0}
    BY <1>16, FreeIsFrame DEF Crash, Frames
  <2> QED BY <1>16, <2>1, <2>2 DEF Crash
<1>17. CASE UNCHANGED ingestion
  BY <1>17 DEF ingestion
<1>18. CASE IngestionNext
  BY <1>18, <1>c, <1>2, <1>3, <1>4, <1>5, <1>7, <1>8, <1>13, <1>14, <1>15, <1>16
     DEF IngestionNext, ClientNext, ServerNext, Requests, Process
<1> QED BY <1>17, <1>18

-----------------------------------------------------------------------------
(* What each step changes, field by field.                                  *)

DocumentBecomes(d, status, content, count) ==
    /\ documents'[d].status = status /\ documents'[d].content = content /\ documents'[d].count = count
    /\ \A e \in Documents : e # d => documents'[e] = documents[e]

FrameBecomes(w, at, doc, content, job) ==
    /\ loop'[w].at = at /\ loop'[w].doc = doc /\ loop'[w].content = content /\ loop'[w].job = job
    /\ \A v \in Workers : v # w => loop'[v] = loop[v]

JobBecomes(j, pc, doc, content, stored, at) ==
    /\ jobs'[j].pc = pc /\ jobs'[j].doc = doc /\ jobs'[j].content = content
    /\ jobs'[j].stored = stored /\ jobs'[j].at = at
    /\ \A i \in Jobs : i # j => jobs'[i] = jobs[i]

\* The documents and jobs after asyncio.create_task.
Queues(w, d, c) == \E j \in Jobs : jobs[j].pc = "none" /\ JobBecomes(j, "queued", d, c, 0, w)

JobEnds(j) == JobBecomes(j, "done", jobs[j].doc, jobs[j].content, jobs[j].stored, jobs[j].at)

\* An update of a record, field by field.
LEMMA DocumentWritten ==
    ASSUME IngestionTyped, NEW d \in Documents, NEW s, NEW c, NEW n
    PROVE  /\ documents' = [documents EXCEPT ![d] = [status |-> s, content |-> c, count |-> n]]
                  => DocumentBecomes(d, s, c, n)
           /\ documents' = [documents EXCEPT ![d].status = s]
                  => DocumentBecomes(d, s, documents[d].content, documents[d].count)
           /\ documents' = [documents EXCEPT ![d].content = c, ![d].count = n]
                  => DocumentBecomes(d, documents[d].status, c, n)
           /\ documents' = [documents EXCEPT ![d].count = n]
                  => DocumentBecomes(d, documents[d].status, documents[d].content, n)
<1> USE DEF DocumentBecomes
<1>1. documents \in [Documents -> DocumentRecords] /\ documents[d] \in DocumentRecords
  BY DEF IngestionTyped
<1>2. ASSUME documents' = [documents EXCEPT ![d] = [status |-> s, content |-> c, count |-> n]]
      PROVE  DocumentBecomes(d, s, c, n)
  BY <1>1, <1>2
<1>3. ASSUME documents' = [documents EXCEPT ![d].status = s]
      PROVE  DocumentBecomes(d, s, documents[d].content, documents[d].count)
  BY <1>1, <1>3 DEF DocumentRecords
<1>4. ASSUME documents' = [documents EXCEPT ![d].content = c, ![d].count = n]
      PROVE  DocumentBecomes(d, documents[d].status, c, n)
  BY <1>1, <1>4 DEF DocumentRecords
<1>5. ASSUME documents' = [documents EXCEPT ![d].count = n]
      PROVE  DocumentBecomes(d, documents[d].status, documents[d].content, n)
  BY <1>1, <1>5 DEF DocumentRecords
<1> QED BY <1>2, <1>3, <1>4, <1>5

\* An update of a loop, field by field.
LEMMA FrameWritten ==
    ASSUME IngestionTyped, NEW w \in Workers, NEW a, NEW d, NEW c, NEW j
    PROVE  /\ loop' = [loop EXCEPT ![w] = Free] => FrameBecomes(w, "free", 0, "", 0)
           /\ loop' = [loop EXCEPT ![w].at = a, ![w].doc = d]
                  => FrameBecomes(w, a, d, loop[w].content, loop[w].job)
           /\ loop' = [loop EXCEPT ![w].at = a]
                  => FrameBecomes(w, a, loop[w].doc, loop[w].content, loop[w].job)
           /\ loop' = [loop EXCEPT ![w] = [Free EXCEPT !.at = a, !.content = c]]
                  => FrameBecomes(w, a, 0, c, 0)
           /\ loop' = [loop EXCEPT ![w] = [Free EXCEPT !.at = a, !.doc = d, !.content = c]]
                  => FrameBecomes(w, a, d, c, 0)
           /\ loop' = [loop EXCEPT ![w] = [Free EXCEPT !.at = a, !.doc = d, !.job = j]]
                  => FrameBecomes(w, a, d, "", j)
<1> USE DEF FrameBecomes
<1>1. loop \in [Workers -> Frames] /\ loop[w] \in Frames
  BY DEF IngestionTyped
<1>2. ASSUME loop' = [loop EXCEPT ![w] = Free]
      PROVE  FrameBecomes(w, "free", 0, "", 0)
  BY <1>1, <1>2 DEF Free
<1>3. ASSUME loop' = [loop EXCEPT ![w].at = a]
      PROVE  FrameBecomes(w, a, loop[w].doc, loop[w].content, loop[w].job)
  BY <1>1, <1>3 DEF Frames
<1>a. ASSUME loop' = [loop EXCEPT ![w].at = a, ![w].doc = d]
      PROVE  FrameBecomes(w, a, d, loop[w].content, loop[w].job)
  BY <1>1, <1>a DEF Frames
<1>4. ASSUME NEW g, loop' = [loop EXCEPT ![w] = g]
      PROVE  FrameBecomes(w, g.at, g.doc, g.content, g.job)
  BY <1>1, <1>4
<1>5. /\ LET g == [Free EXCEPT !.at = a, !.content = c]
         IN g.at = a /\ g.doc = 0 /\ g.content = c /\ g.job = 0
      /\ LET g == [Free EXCEPT !.at = a, !.doc = d, !.content = c]
         IN g.at = a /\ g.doc = d /\ g.content = c /\ g.job = 0
      /\ LET g == [Free EXCEPT !.at = a, !.doc = d, !.job = j]
         IN g.at = a /\ g.doc = d /\ g.content = "" /\ g.job = j
  BY DEF Free
<1>6. ASSUME loop' = [loop EXCEPT ![w] = [Free EXCEPT !.at = a, !.content = c]]
      PROVE  FrameBecomes(w, a, 0, c, 0)
  BY <1>4, <1>5, <1>6
<1>7. ASSUME loop' = [loop EXCEPT ![w] = [Free EXCEPT !.at = a, !.doc = d, !.content = c]]
      PROVE  FrameBecomes(w, a, d, c, 0)
  BY <1>4, <1>5, <1>7
<1>8. ASSUME loop' = [loop EXCEPT ![w] = [Free EXCEPT !.at = a, !.doc = d, !.job = j]]
      PROVE  FrameBecomes(w, a, d, "", j)
  BY <1>4, <1>5, <1>8
<1> QED BY <1>2, <1>3, <1>a, <1>6, <1>7, <1>8

\* An update of a coroutine, field by field.
LEMMA JobWritten ==
    ASSUME IngestionTyped, NEW j \in Jobs, NEW pc, NEW n
    PROVE  /\ Ends(j) => JobEnds(j)
           /\ jobs' = [jobs EXCEPT ![j].pc = pc]
                  => JobBecomes(j, pc, jobs[j].doc, jobs[j].content, jobs[j].stored, jobs[j].at)
           /\ jobs' = [jobs EXCEPT ![j].pc = pc, ![j].stored = n]
                  => JobBecomes(j, pc, jobs[j].doc, jobs[j].content, n, jobs[j].at)
<1> USE DEF JobBecomes
<1>1. jobs \in [Jobs -> JobRecords] /\ jobs[j] \in JobRecords
  BY DEF IngestionTyped
<1>2. ASSUME jobs' = [jobs EXCEPT ![j].pc = pc]
      PROVE  JobBecomes(j, pc, jobs[j].doc, jobs[j].content, jobs[j].stored, jobs[j].at)
  BY <1>1, <1>2 DEF JobRecords
<1>3. ASSUME jobs' = [jobs EXCEPT ![j].pc = "done"] PROVE JobEnds(j)
  BY <1>1, <1>3 DEF JobRecords, JobEnds
<1>4. ASSUME jobs' = [jobs EXCEPT ![j].pc = pc, ![j].stored = n]
      PROVE  JobBecomes(j, pc, jobs[j].doc, jobs[j].content, n, jobs[j].at)
  BY <1>1, <1>4 DEF JobRecords
<1> QED BY <1>2, <1>3, <1>4 DEF Ends

\* asyncio.create_task: a fresh coroutine waits for its turn.
LEMMA ScheduleEffect ==
    ASSUME IngestionTyped, NEW w \in Workers, NEW d, NEW c, UnusedJobs # {}, Schedule(w, d, c)
    PROVE  Queues(w, d, c)
<1>1. PICK j \in Jobs : jobs[j].pc = "none" /\ j = Least(UnusedJobs)
  BY LeastJob
<1>2. JobBecomes(j, "queued", d, c, 0, w)
  BY <1>1 DEF Schedule, IngestionTyped, JobBecomes
<1> QED BY <1>1, <1>2 DEF Queues

\* An upload ends with a 409, or goes on with one document or a new one.
LEMMA UploadEffect ==
    ASSUME IngestionTyped, NEW w \in Workers, NEW c \in Contents, BeginUpload(w, c)
    PROVE  /\ loop[w].at = "free"
           /\ documents' = documents /\ chunks' = chunks /\ jobs' = jobs /\ deletion' = deletion
           /\ \/ Named(c) = {} /\ FrameBecomes(w, "create", 0, c, 0) /\ mixed' = mixed
              \/ \E d \in Named(c) :
                    /\ documents[d].status = "failed" /\ FrameBecomes(w, "dropChunks", d, c, 0)
                    /\ mixed' = IF WorkedOn(d) \/ Handled(d) \/ deletion[d] # "none" THEN mixed \cup {d} ELSE mixed
<1>1. CASE /\ Named(c) = {}
           /\ loop' = [loop EXCEPT ![w] = [Free EXCEPT !.at = "create", !.content = c]] /\ mixed' = mixed
  <2>1. FrameBecomes(w, "create", 0, c, 0)
    BY <1>1, FrameWritten
  <2> QED BY <1>1, <2>1 DEF BeginUpload, Idle
<1>2. CASE \E d \in Named(c) :
             /\ documents[d].status = "failed"
             /\ loop' = [loop EXCEPT ![w] = [Free EXCEPT !.at = "dropChunks", !.doc = d, !.content = c]]
             /\ mixed' = IF WorkedOn(d) \/ Handled(d) \/ deletion[d] # "none" THEN mixed \cup {d} ELSE mixed
  <2>1. PICK d \in Named(c) :
             /\ documents[d].status = "failed"
             /\ loop' = [loop EXCEPT ![w] = [Free EXCEPT !.at = "dropChunks", !.doc = d, !.content = c]]
             /\ mixed' = IF WorkedOn(d) \/ Handled(d) \/ deletion[d] # "none" THEN mixed \cup {d} ELSE mixed
    BY <1>2
  <2>2. FrameBecomes(w, "dropChunks", d, c, 0)
    BY <2>1, FrameWritten
  <2> QED BY <2>1, <2>2 DEF BeginUpload, Idle
<1> QED BY <1>1, <1>2 DEF BeginUpload

\* A replacement takes the loop for its document.
LEMMA ReplaceEffect ==
    ASSUME IngestionTyped, NEW w \in Workers, NEW c \in Contents, NEW d \in Documents, BeginReplace(w, d, c)
    PROVE  /\ loop[w].at = "free" /\ documents[d].status # "unused"
           /\ Named(c) = {} \/ d \in Named(c)
           /\ documents' = documents /\ jobs' = jobs /\ deletion' = deletion
           /\ chunks' = WithoutChunks(d) /\ FrameBecomes(w, "rename", d, c, 0)
           /\ mixed' = IF WorkedOn(d) \/ Handled(d) \/ deletion[d] # "none" THEN mixed \cup {d} ELSE mixed
<1>1. FrameBecomes(w, "rename", d, c, 0)
  BY FrameWritten DEF BeginReplace
<1> QED BY <1>1 DEF BeginReplace, Idle

\* The steps of a request that hold the loop w and work on its document.
LEMMA DropEffect ==
    ASSUME IngestionTyped, LoopsHeld, NEW w \in Workers, DropChunks(w) \/ DropRecord(w)
    PROVE  LET f == loop[w] IN
           /\ f.doc \in Documents
           /\ jobs' = jobs /\ deletion' = deletion /\ mixed' = mixed
           /\ \/ /\ f.at = "dropChunks" /\ FrameBecomes(w, "dropRecord", f.doc, f.content, f.job)
                 /\ chunks' = WithoutChunks(f.doc) /\ documents' = documents
              \/ /\ f.at = "dropRecord" /\ FrameBecomes(w, "create", 0, f.content, f.job)
                 /\ chunks' = chunks
                 /\ \/ DocumentBecomes(f.doc, "gone", documents[f.doc].content, documents[f.doc].count)
                    \/ documents' = documents /\ f.content \in doubled'
<1>1. loop[w].doc \in Documents
  BY DEF IngestionTyped, LoopsHeld, FrameHeld, Frames, DropChunks, DropRecord
<1>2. CASE DropChunks(w)
  <2>1. FrameBecomes(w, "dropRecord", loop[w].doc, loop[w].content, loop[w].job)
    BY <1>2, FrameWritten DEF DropChunks
  <2> QED BY <1>1, <1>2, <2>1 DEF DropChunks
<1>3. CASE DropRecord(w)
  <2>1. FrameBecomes(w, "create", 0, loop[w].content, loop[w].job)
    BY <1>3, FrameWritten DEF DropRecord
  <2>2. \/ DocumentBecomes(loop[w].doc, "gone", documents[loop[w].doc].content, documents[loop[w].doc].count)
        \/ documents' = documents /\ loop[w].content \in doubled'
    BY <1>1, <1>3, DocumentWritten DEF DropRecord
  <2> QED BY <1>1, <1>3, <2>1, <2>2 DEF DropRecord
<1> QED BY <1>2, <1>3

\* An upload writes a fresh record.
LEMMA CreateEffect ==
    ASSUME IngestionTyped, NEW w \in Workers, CreateDocument(w)
    PROVE  /\ loop[w].at = "create" /\ chunks' = chunks /\ deletion' = deletion /\ mixed' = mixed
           /\ FrameBecomes(w, "free", 0, "", 0)
           /\ \E d \in Documents : /\ documents[d].status = "unused"
                                   /\ DocumentBecomes(d, "uploading", loop[w].content, 0)
                                   /\ Queues(w, d, loop[w].content)
<1>1. PICK d \in Documents : documents[d].status = "unused" /\ d = Least(UnusedDocuments)
  BY LeastDocument DEF CreateDocument
<1>2. DocumentBecomes(d, "uploading", loop[w].content, 0)
  BY <1>1, DocumentWritten DEF CreateDocument
<1>3. Queues(w, d, loop[w].content)
  BY <1>1, ScheduleEffect DEF CreateDocument
<1>4. FrameBecomes(w, "free", 0, "", 0)
  BY FrameWritten DEF CreateDocument
<1> QED BY <1>1, <1>2, <1>3, <1>4 DEF CreateDocument

\* A replaced record takes the new name and content.
LEMMA RenameEffect ==
    ASSUME IngestionTyped, LoopsHeld, NEW w \in Workers, Rename(w)
    PROVE  LET f == loop[w] IN
           /\ f.at = "rename" /\ f.doc \in Documents
           /\ chunks' = chunks /\ jobs' = jobs /\ deletion' = deletion /\ mixed' = mixed
           /\ \/ /\ Present(f.doc) /\ FrameBecomes(w, "restart", f.doc, f.content, f.job)
                 /\ DocumentBecomes(f.doc, documents[f.doc].status, f.content, 0)
              \/ /\ ~Present(f.doc) /\ FrameBecomes(w, "free", 0, "", 0)
                 /\ documents' = documents
<1>1. loop[w].doc \in Documents
  BY DEF IngestionTyped, LoopsHeld, FrameHeld, Frames, Rename
<1>2. CASE Present(loop[w].doc)
  <2>1. FrameBecomes(w, "restart", loop[w].doc, loop[w].content, loop[w].job)
    BY <1>2, FrameWritten DEF Rename
  <2>2. DocumentBecomes(loop[w].doc, documents[loop[w].doc].status, loop[w].content, 0)
    BY <1>1, <1>2, DocumentWritten DEF Rename
  <2> QED BY <1>1, <1>2, <2>1, <2>2 DEF Rename
<1>3. CASE ~Present(loop[w].doc)
  <2>1. FrameBecomes(w, "free", 0, "", 0)
    BY <1>3, FrameWritten DEF Rename
  <2> QED BY <1>1, <1>3, <2>1 DEF Rename
<1> QED BY <1>2, <1>3

\* A replaced record starts over.
LEMMA RestartEffect ==
    ASSUME IngestionTyped, LoopsHeld, NEW w \in Workers, Restart(w)
    PROVE  LET f == loop[w] IN
           /\ f.at = "restart" /\ f.doc \in Documents
           /\ FrameBecomes(w, "free", 0, "", 0)
           /\ chunks' = chunks /\ deletion' = deletion /\ mixed' = mixed
           /\ \/ /\ Present(f.doc) /\ Queues(w, f.doc, f.content)
                 /\ DocumentBecomes(f.doc, "uploading", documents[f.doc].content, documents[f.doc].count)
              \/ documents' = documents /\ jobs' = jobs
<1>1. loop[w].doc \in Documents
  BY DEF IngestionTyped, LoopsHeld, FrameHeld, Frames, Restart
<1>2. FrameBecomes(w, "free", 0, "", 0)
  BY FrameWritten DEF Restart
<1>3. CASE Present(loop[w].doc) /\ UnusedJobs # {}
  <2>1. DocumentBecomes(loop[w].doc, "uploading", documents[loop[w].doc].content, documents[loop[w].doc].count)
    BY <1>1, <1>3, DocumentWritten DEF Restart
  <2>2. Queues(w, loop[w].doc, loop[w].content)
    BY <1>3, ScheduleEffect DEF Restart
  <2> QED BY <1>1, <1>2, <1>3, <2>1, <2>2 DEF Restart
<1>4. CASE ~(Present(loop[w].doc) /\ UnusedJobs # {})
  BY <1>1, <1>2, <1>4 DEF Restart
<1> QED BY <1>3, <1>4

\* A request ends where a call raises.
LEMMA RaisesEffect ==
    ASSUME IngestionTyped, NEW w \in Workers, RequestRaises(w)
    PROVE  /\ loop[w].at \in {"dropChunks", "create", "rename", "restart"}
           /\ FrameBecomes(w, "free", 0, "", 0)
           /\ documents' = documents /\ chunks' = chunks /\ jobs' = jobs /\ deletion' = deletion
           /\ mixed' = IF loop[w].at = "rename" THEN mixed \cup {loop[w].doc} ELSE mixed
<1>1. FrameBecomes(w, "free", 0, "", 0)
  BY FrameWritten DEF RequestRaises
<1> QED BY <1>1 DEF RequestRaises

\* A deletion, step by step.
LEMMA DeleteEffect ==
    ASSUME IngestionTyped, NEW w \in Workers, NEW d \in Documents,
           BeginDelete(w, d) \/ DeleteChunks(d) \/ DeleteRecord(d)
    PROVE  /\ jobs' = jobs /\ loop' = loop
           /\ \A e \in Documents : e # d => deletion'[e] = deletion[e]
           /\ mixed \subseteq mixed' /\ mixed' \subseteq mixed \cup {d}
           /\ Present(d) \/ deletion[d] # "none"
           /\ \/ documents' = documents /\ deletion[d] # "record" /\ chunks' = chunks
              \/ documents' = documents /\ deletion'[d] = "record" /\ chunks' = WithoutChunks(d)
              \/ documents' = documents /\ d \in mixed' /\ chunks' = chunks
              \/ chunks' = chunks /\ DocumentBecomes(d, "gone", documents[d].content, documents[d].count)
<1>1. CASE BeginDelete(w, d)
  BY <1>1 DEF BeginDelete, IngestionTyped
<1>2. CASE DeleteChunks(d)
  BY <1>2 DEF DeleteChunks, IngestionTyped
<1>3. CASE DeleteRecord(d)
  <2>1. \/ DocumentBecomes(d, "gone", documents[d].content, documents[d].count) /\ mixed' = mixed
        \/ documents' = documents /\ mixed' = mixed \cup {d}
    BY <1>3, DocumentWritten DEF DeleteRecord
  <2> QED BY <1>3, <2>1 DEF DeleteRecord, IngestionTyped
<1> QED BY <1>1, <1>2, <1>3

\* A coroutine at work.
LEMMA JobPlaces ==
    ASSUME IngestionTyped, LoopsHeld, NEW j \in Jobs, Alive(j)
    PROVE  /\ jobs[j].doc \in Documents /\ jobs[j].at \in Workers /\ jobs[j].content \in Contents
           /\ HasLoop(j) <=> jobs[j].pc = "storing"
<1>1. j # 0
  BY DEF Jobs
<1> QED BY ZenonT(40), <1>1 DEF IngestionTyped, LoopsHeld, FrameHeld, JobHeld, JobRecords, Alive, HasLoop

\* What raises ends the coroutine and leaves the record failed, if that write
\* does not fail too.
LEMMA FailsEffect ==
    ASSUME IngestionTyped, LoopsHeld, NEW j \in Jobs, Alive(j), Fails(j)
    PROVE  LET d == jobs[j].doc IN
           /\ JobEnds(j) /\ chunks' = chunks /\ deletion' = deletion /\ mixed' = mixed
           /\ \/ Present(d) /\ DocumentBecomes(d, "failed", documents[d].content, documents[d].count)
              \/ documents' = documents
           /\ \/ jobs[j].pc = "storing" /\ FrameBecomes(jobs[j].at, "free", 0, "", 0)
              \/ jobs[j].pc # "storing" /\ loop' = loop
<1> DEFINE d == jobs[j].doc
<1>1. d \in Documents /\ jobs[j].at \in Workers /\ (HasLoop(j) <=> jobs[j].pc = "storing")
  BY JobPlaces
<1>2. JobEnds(j)
  BY JobWritten DEF Fails
<1>3. \/ Present(d) /\ DocumentBecomes(d, "failed", documents[d].content, documents[d].count)
      \/ documents' = documents
  BY <1>1, DocumentWritten DEF Fails
<1>4. \/ jobs[j].pc = "storing" /\ FrameBecomes(jobs[j].at, "free", 0, "", 0)
      \/ jobs[j].pc # "storing" /\ loop' = loop
  BY <1>1, FrameWritten DEF Fails, GivesLoop
<1> QED BY <1>2, <1>3, <1>4 DEF Fails

\* A coroutine parses, or its document is gone.
LEMMA ParseEffect ==
    ASSUME IngestionTyped, LoopsHeld, NEW j \in Jobs, BeginParse(j)
    PROVE  LET d == jobs[j].doc IN
           /\ jobs[j].pc = "queued" /\ Alive(j)
           /\ \/ Fails(j)
              \/ /\ Present(d)
                 /\ DocumentBecomes(d, "parsing", documents[d].content, documents[d].count)
                 /\ JobBecomes(j, "parsing", d, jobs[j].content, jobs[j].stored, jobs[j].at)
                 /\ chunks' = chunks /\ loop' = loop /\ deletion' = deletion /\ mixed' = mixed
<1>1. jobs[j].pc = "queued" /\ Alive(j)
  BY DEF BeginParse, At, Alive
<1>2. jobs[j].doc \in Documents
  BY <1>1, JobPlaces
<1>3. CASE ~Fails(j)
  <2>1. DocumentBecomes(jobs[j].doc, "parsing", documents[jobs[j].doc].content, documents[jobs[j].doc].count)
    BY <1>2, <1>3, DocumentWritten DEF BeginParse
  <2>2. JobBecomes(j, "parsing", jobs[j].doc, jobs[j].content, jobs[j].stored, jobs[j].at)
    BY <1>3, JobWritten DEF BeginParse
  <2> QED BY <1>1, <1>3, <2>1, <2>2 DEF BeginParse
<1> QED BY <1>1, <1>3

\* A coroutine cuts its chunks, and takes the loop.
LEMMA ChunkEffect ==
    ASSUME IngestionTyped, LoopsHeld, NEW j \in Jobs, Chunk(j)
    PROVE  LET d == jobs[j].doc IN
           /\ jobs[j].pc = "parsing" /\ Alive(j)
           /\ \/ Fails(j)
              \/ /\ Present(d) /\ chunks' = chunks /\ loop' = loop /\ deletion' = deletion /\ mixed' = mixed
                 /\ \/ /\ DocumentBecomes(d, "ready", documents[d].content, documents[d].count)
                       /\ JobEnds(j)
                    \/ /\ DocumentBecomes(d, "embedding", documents[d].content, documents[d].count)
                       /\ JobBecomes(j, "embedding", d, jobs[j].content, jobs[j].stored, jobs[j].at)
<1>1. jobs[j].pc = "parsing" /\ Alive(j)
  BY DEF Chunk, At, Alive
<1>2. jobs[j].doc \in Documents
  BY <1>1, JobPlaces
<1>3. CASE ~Fails(j)
  <2>1. CASE documents' = [documents EXCEPT ![jobs[j].doc].status = "ready"] /\ Ends(j)
    <3>1. DocumentBecomes(jobs[j].doc, "ready", documents[jobs[j].doc].content, documents[jobs[j].doc].count)
      BY <1>2, <2>1, DocumentWritten
    <3>2. JobEnds(j)
      BY <2>1, JobWritten
    <3> QED BY <1>1, <1>3, <3>1, <3>2 DEF Chunk
  <2>2. CASE documents' = [documents EXCEPT ![jobs[j].doc].status = "embedding"] /\ jobs' = [jobs EXCEPT ![j].pc = "embedding"]
    <3>1. DocumentBecomes(jobs[j].doc, "embedding", documents[jobs[j].doc].content, documents[jobs[j].doc].count)
      BY <1>2, <2>2, DocumentWritten
    <3>2. JobBecomes(j, "embedding", jobs[j].doc, jobs[j].content, jobs[j].stored, jobs[j].at)
      BY <2>2, JobWritten
    <3> QED BY <1>1, <1>3, <3>1, <3>2 DEF Chunk
  <2> QED BY <1>3, <2>1, <2>2 DEF Chunk
<1> QED BY <1>1, <1>3

\* The chunks of one part are written.
LEMMA StoreEffect ==
    ASSUME IngestionTyped, LoopsHeld, NEW j \in Jobs, Store(j)
    PROVE  LET d == jobs[j].doc IN
           /\ jobs[j].pc = "embedding" /\ Alive(j)
           /\ \/ Fails(j)
              \/ \E stored \in SUBSET Parts :
                    /\ loop[jobs[j].at].at = "free"
                    /\ chunks' = chunks \cup {[doc |-> d, content |-> jobs[j].content, part |-> n, by |-> j] : n \in stored}
                    /\ FrameBecomes(jobs[j].at, "count", d, "", j)
                    /\ JobBecomes(j, "storing", d, jobs[j].content, Cardinality(stored), jobs[j].at)
                    /\ documents' = documents /\ deletion' = deletion /\ mixed' = mixed
<1>1. jobs[j].pc = "embedding" /\ Alive(j) /\ loop[jobs[j].at].at = "free"
  BY DEF Store, At, Alive, Idle
<1>2. jobs[j].doc \in Documents /\ jobs[j].at \in Workers
  BY <1>1, JobPlaces
<1>3. CASE ~Fails(j)
  <2>1. PICK stored \in SUBSET Parts \ {{}} :
           /\ chunks' = chunks \cup
                  {[doc |-> jobs[j].doc, content |-> jobs[j].content, part |-> n, by |-> j] : n \in stored}
           /\ loop' = [loop EXCEPT ![jobs[j].at] =
                  [Free EXCEPT !.at = "count", !.doc = jobs[j].doc, !.job = j]]
           /\ jobs' = [jobs EXCEPT ![j].pc = "storing", ![j].stored = Cardinality(stored)]
           /\ UNCHANGED <<documents, provenance, deletion, serving, crashes, slips, mixed, doubled>>
    BY <1>3 DEF Store
  <2>2. FrameBecomes(jobs[j].at, "count", jobs[j].doc, "", j)
    BY <1>2, <2>1, FrameWritten
  <2>3. JobBecomes(j, "storing", jobs[j].doc, jobs[j].content, Cardinality(stored), jobs[j].at)
    BY <2>1, JobWritten
  <2> QED BY <1>1, <2>1, <2>2, <2>3
<1> QED BY <1>1, <1>3

\* The record is told how many chunks it has.
LEMMA CountEffect ==
    ASSUME IngestionTyped, LoopsHeld, NEW j \in Jobs, CountChunks(j)
    PROVE  LET d == jobs[j].doc
               f == loop[jobs[j].at] IN
           /\ jobs[j].pc = "storing" /\ Alive(j) /\ f.at = "count"
           /\ \/ Fails(j)
              \/ /\ Present(d) /\ jobs' = jobs /\ chunks' = chunks /\ deletion' = deletion /\ mixed' = mixed
                 /\ DocumentBecomes(d, documents[d].status, documents[d].content, jobs[j].stored)
                 /\ FrameBecomes(jobs[j].at, "index", f.doc, f.content, f.job)
<1>1. jobs[j].pc = "storing" /\ Alive(j) /\ loop[jobs[j].at].at = "count"
  BY DEF CountChunks, At, Alive
<1>2. jobs[j].doc \in Documents /\ jobs[j].at \in Workers
  BY <1>1, JobPlaces
<1>3. CASE ~Fails(j)
  <2>1. DocumentBecomes(jobs[j].doc, documents[jobs[j].doc].status, documents[jobs[j].doc].content, jobs[j].stored)
    BY <1>2, <1>3, DocumentWritten DEF CountChunks
  <2>2. FrameBecomes(jobs[j].at, "index", loop[jobs[j].at].doc, loop[jobs[j].at].content, loop[jobs[j].at].job)
    BY <1>2, <1>3, FrameWritten DEF CountChunks
  <2> QED BY <1>1, <1>3, <2>1, <2>2 DEF CountChunks
<1> QED BY <1>1, <1>3

\* The record is made ready and the loop given back.
LEMMA FinishEffect ==
    ASSUME IngestionTyped, LoopsHeld, NEW j \in Jobs, IndexAndFinish(j)
    PROVE  LET d == jobs[j].doc
               f == loop[jobs[j].at] IN
           /\ jobs[j].pc = "storing" /\ Alive(j) /\ f.at = "index"
           /\ \/ Fails(j)
              \/ /\ Present(d) /\ JobEnds(j) /\ chunks' = chunks /\ deletion' = deletion /\ mixed' = mixed
                 /\ DocumentBecomes(d, "ready", documents[d].content, documents[d].count)
                 /\ FrameBecomes(jobs[j].at, "free", 0, "", 0)
<1>1. jobs[j].pc = "storing" /\ Alive(j) /\ loop[jobs[j].at].at = "index"
  BY DEF IndexAndFinish, At, Alive
<1>2. jobs[j].doc \in Documents /\ jobs[j].at \in Workers /\ HasLoop(j)
  BY <1>1, JobPlaces
<1>3. CASE ~Fails(j)
  <2>1. DocumentBecomes(jobs[j].doc, "ready", documents[jobs[j].doc].content, documents[jobs[j].doc].count)
    BY <1>2, <1>3, DocumentWritten DEF IndexAndFinish
  <2>2. FrameBecomes(jobs[j].at, "free", 0, "", 0)
    BY <1>2, <1>3, FrameWritten DEF IndexAndFinish, GivesLoop
  <2>3. JobEnds(j)
    BY <1>3, JobWritten DEF IndexAndFinish
  <2> QED BY <1>1, <1>3, <2>1, <2>2, <2>3 DEF IndexAndFinish
<1> QED BY <1>1, <1>3

\* A process dies: its loop is free, its coroutines are gone, and so are the
\* deletions its threads were at.
LEMMA CrashEffect ==
    ASSUME IngestionTyped, NEW w \in Workers, Crash(w)
    PROVE  /\ documents' = documents /\ chunks' = chunks
           /\ FrameBecomes(w, "free", 0, "", 0)
           /\ mixed \subseteq mixed' /\ {loop[w].doc} \ {0} \subseteq mixed'
           /\ \A d \in Documents : /\ deletion'[d] \in {"none", deletion[d]}
                                   /\ deletion[d] = "record" => deletion'[d] = "record" \/ d \in mixed'
           /\ \A j \in Jobs :
                 IF Alive(j) /\ jobs[j].at = w
                 THEN /\ jobs'[j].pc = "done" /\ jobs'[j].doc = jobs[j].doc
                      /\ jobs'[j].content = jobs[j].content /\ jobs'[j].stored = jobs[j].stored
                      /\ jobs'[j].at = jobs[j].at
                 ELSE jobs'[j] = jobs[j]
<1>1. FrameBecomes(w, "free", 0, "", 0)
  BY FrameWritten DEF Crash
<1>2. \A j \in Jobs : jobs'[j] = IF Alive(j) /\ jobs[j].at = w THEN [jobs[j] EXCEPT !.pc = "done"] ELSE jobs[j]
  BY DEF Crash
<1>3. \A j \in Jobs : jobs[j] \in JobRecords
  BY DEF IngestionTyped
<1>4. \A d \in Documents : /\ deletion'[d] \in {"none", deletion[d]}
                          /\ deletion[d] = "record" => deletion'[d] = "record" \/ d \in mixed'
  BY DEF Crash
<1>5. mixed \subseteq mixed' /\ {loop[w].doc} \ {0} \subseteq mixed'
  BY DEF Crash
<1> QED BY <1>1, <1>2, <1>3, <1>4, <1>5 DEF Crash, JobRecords

-----------------------------------------------------------------------------
(* Who holds the loops.                                                     *)

\* No record comes back: what is in use or gone stays so.
Advances ==
    \A d \in Documents : /\ documents[d].status # "unused" => documents'[d].status # "unused"
                         /\ documents[d].status = "gone" => documents'[d].status = "gone"

\* A loop left alone is still held rightly.
LEMMA FrameKept ==
    ASSUME NEW w \in Workers, FrameHeld(w), Advances, loop[w].doc \in Documents \cup {0}, loop'[w] = loop[w],
           loop[w].job # 0 => /\ jobs'[loop[w].job].pc = jobs[loop[w].job].pc
                              /\ jobs'[loop[w].job].at = jobs[loop[w].job].at
                              /\ jobs'[loop[w].job].doc = jobs[loop[w].job].doc
    PROVE  FrameHeld(w)'
BY DEF FrameHeld, Advances

\* A coroutine left alone still holds what it held.
LEMMA JobKept ==
    ASSUME NEW j \in Jobs, JobHeld(j), Advances, jobs[j].doc \in Documents \cup {0}, jobs'[j] = jobs[j],
           jobs[j].pc = "storing" => loop'[jobs[j].at].job = loop[jobs[j].at].job
    PROVE  JobHeld(j)'
<1>1. Alive(j) => jobs[j].doc \in Documents
  BY DEF JobHeld, Alive
<1>2. jobs[j].pc = "storing" => loop'[jobs'[j].at].job = j
  BY DEF JobHeld
<1>3. jobs[j].pc \notin {"none", "done"} => documents'[jobs'[j].doc].status # "unused"
  BY <1>1 DEF JobHeld, Advances, Alive
<1>4. jobs'[j].pc = jobs[j].pc
  OBVIOUS
<1>5. jobs'[j].pc # "none" => jobs'[j].doc # 0 /\ jobs'[j].content \in Contents
  BY DEF JobHeld
<1> QED BY <1>2, <1>3, <1>4, <1>5 DEF JobHeld, Alive

\* Documents and coroutines are numbered from one.
LEMMA HeldTypes ==
    ASSUME IngestionTyped
    PROVE  /\ \A w \in Workers : /\ loop[w].doc \in Documents \cup {0} /\ loop[w].job \in Jobs \cup {0}
                                 /\ loop[w].content \in Contents \cup {""}
           /\ \A j \in Jobs : jobs[j].doc \in Documents \cup {0} /\ jobs[j].at \in Workers
           /\ 0 \notin Documents /\ 0 \notin Jobs
<1>1. \A w \in Workers : /\ loop[w].doc \in Documents \cup {0} /\ loop[w].job \in Jobs \cup {0}
                         /\ loop[w].content \in Contents \cup {""}
  BY DEF IngestionTyped, Frames
<1>2. \A j \in Jobs : jobs[j].doc \in Documents \cup {0} /\ jobs[j].at \in Workers
  BY DEF IngestionTyped, JobRecords
<1>3. 0 \notin Documents /\ 0 \notin Jobs
  BY DEF Documents, Jobs
<1> QED BY <1>1, <1>2, <1>3

\* Writing one record brings none back.
LEMMA DocumentAdvances ==
    ASSUME NEW d \in Documents, NEW s, NEW c, NEW n, DocumentBecomes(d, s, c, n),
           s # "unused", documents[d].status = "gone" => s = "gone"
    PROVE  Advances
BY DEF DocumentBecomes, Advances

\* A record that is there has been used.
LEMMA PresentIsUsed == \A d \in Documents : Present(d) => documents[d].status \notin {"unused", "gone"}
BY DEF Present, Statuses, InProgress

\* A step that touches the frame w and the job j at most.
LEMMA OthersHeld ==
    ASSUME IngestionTyped, LoopsHeld, Advances, NEW w \in Workers, NEW j,
           \A v \in Workers : v # w => loop'[v] = loop[v],
           \A i \in Jobs : i # j => jobs'[i] = jobs[i],
           FrameHeld(w)', j \in Jobs => JobHeld(j)',
           \A v \in Workers : v # w /\ loop[v].job # 0 => loop[v].job # j,
           \A i \in Jobs : i # j /\ jobs[i].pc = "storing" => jobs[i].at # w
    PROVE  LoopsHeld'
<1>1. ASSUME NEW v \in Workers, v # w PROVE FrameHeld(v)'
  <2>1. loop[v].doc \in Documents \cup {0} /\ loop[v].job \in Jobs \cup {0} /\ FrameHeld(v) /\ loop'[v] = loop[v]
    BY <1>1, HeldTypes DEF LoopsHeld
  <2>2. loop[v].job # 0 => jobs'[loop[v].job] = jobs[loop[v].job]
    BY <1>1, <2>1
  <2> QED BY <2>1, <2>2, FrameKept
<1>2. ASSUME NEW i \in Jobs, i # j PROVE JobHeld(i)'
  <2>1. /\ jobs[i].doc \in Documents \cup {0} /\ jobs[i].at \in Workers /\ JobHeld(i) /\ jobs'[i] = jobs[i]
    BY <1>2, HeldTypes DEF LoopsHeld
  <2>2. jobs[i].pc = "storing" => loop'[jobs[i].at].job = loop[jobs[i].at].job
    BY <1>2, <2>1
  <2> QED BY <2>1, <2>2, JobKept
<1> QED BY <1>1, <1>2 DEF LoopsHeld

\* A request's frame: no coroutine holds its loop.
LEMMA RequestHolds ==
    ASSUME IngestionTyped, LoopsHeld, NEW w \in Workers, loop[w].at \notin {"count", "index"}
    PROVE  loop[w].job = 0 /\ \A i \in Jobs : jobs[i].pc = "storing" => jobs[i].at # w
<1>1. loop[w].job = 0
  BY DEF LoopsHeld, FrameHeld
<1>2. \A i \in Jobs : jobs[i].pc = "storing" => loop[jobs[i].at].job = i
  BY DEF LoopsHeld, JobHeld
<1> QED BY <1>1, <1>2, HeldTypes

\* A request moves its frame on, and nothing else but a record.
LEMMA RequestStep ==
    ASSUME IngestionTyped, LoopsHeld, Advances, NEW w \in Workers, NEW a, NEW d, NEW c,
           loop[w].at \notin {"count", "index"}, jobs' = jobs, FrameBecomes(w, a, d, c, 0),
           a \notin {"count", "index"}, a = "free" => d = 0, a \notin {"free", "create"} => d # 0,
           a # "free" => c \in Contents,
           d # 0 => d \in Documents /\ documents[d].status # "unused",
           a = "create" => d = 0
    PROVE  LoopsHeld'
<1>1. FrameHeld(w)'
  BY DEF FrameBecomes, FrameHeld, Advances
<1>2. \A v \in Workers : v # w => loop'[v] = loop[v]
  BY DEF FrameBecomes
<1>3. \A i \in Jobs : jobs[i].pc = "storing" => jobs[i].at # w
  BY RequestHolds
<1>4. \A v \in Workers : loop[v].job \in Jobs \cup {0}
  BY HeldTypes
<1>5. 0 \notin Jobs
  BY HeldTypes
<1> QED BY <1>1, <1>2, <1>3, <1>5, OthersHeld

\* A request ends with a coroutine scheduled.
LEMMA QueueStep ==
    ASSUME IngestionTyped, LoopsHeld, Advances, NEW w \in Workers, NEW d \in Documents, NEW c \in Contents,
           loop[w].at \notin {"count", "index"}, FrameBecomes(w, "free", 0, "", 0), Queues(w, d, c),
           documents'[d].status # "unused"
    PROVE  LoopsHeld'
<1>1. PICK j \in Jobs : jobs[j].pc = "none" /\ JobBecomes(j, "queued", d, c, 0, w)
  BY DEF Queues
<1>2. FrameHeld(w)'
  BY DEF FrameBecomes, FrameHeld
<1>3. JobHeld(j)'
  BY <1>1, HeldTypes DEF JobBecomes, JobHeld, Alive
<1>4. \A i \in Jobs : jobs[i].pc = "storing" => jobs[i].at # w
  BY RequestHolds
<1>5. \A v \in Workers : loop[v].job # 0 => jobs[loop[v].job].pc = "storing"
  BY DEF LoopsHeld, FrameHeld
<1>6. \A v \in Workers : v # w => loop'[v] = loop[v]
  BY DEF FrameBecomes
<1>7. \A i \in Jobs : i # j => jobs'[i] = jobs[i]
  BY <1>1 DEF JobBecomes
<1>8. \A v \in Workers : v # w /\ loop[v].job # 0 => loop[v].job # j
  BY <1>1, <1>5
<1> QED BY <1>2, <1>3, <1>4, <1>6, <1>7, <1>8, OthersHeld

\* A coroutine that does not hold the loop moves on, or ends.
LEMMA WaitingStep ==
    ASSUME IngestionTyped, LoopsHeld, Advances, NEW j \in Jobs, Alive(j), jobs[j].pc # "storing", loop' = loop,
           NEW pc, pc \notin {"none", "storing"},
           JobBecomes(j, pc, jobs[j].doc, jobs[j].content, jobs[j].stored, jobs[j].at)
    PROVE  LoopsHeld'
<1>1. jobs[j].at \in Workers /\ jobs[j].doc \in Documents
  BY JobPlaces
<1>2. \A v \in Workers : loop[v].job # 0 => jobs[loop[v].job].pc = "storing"
  BY DEF LoopsHeld, FrameHeld
<1>3. ASSUME NEW v \in Workers PROVE FrameHeld(v)'
  <2>1. loop[v].doc \in Documents \cup {0} /\ loop[v].job \in Jobs \cup {0} /\ FrameHeld(v) /\ loop'[v] = loop[v]
    BY HeldTypes DEF LoopsHeld
  <2>2. loop[v].job # 0 => jobs'[loop[v].job] = jobs[loop[v].job]
    BY <1>2, <2>1 DEF JobBecomes
  <2> QED BY <2>1, <2>2, FrameKept
<1>4. ASSUME NEW i \in Jobs, i # j PROVE JobHeld(i)'
  <2>1. jobs[i].doc \in Documents \cup {0} /\ JobHeld(i) /\ jobs'[i] = jobs[i]
    BY <1>4, HeldTypes DEF LoopsHeld, JobBecomes
  <2> QED BY <2>1, JobKept
<1>5. JobHeld(j)'
  <2>1. JobHeld(j) /\ documents[jobs[j].doc].status # "unused"
    BY DEF LoopsHeld, JobHeld
  <2>2. documents'[jobs[j].doc].status # "unused"
    BY <1>1, <2>1 DEF Advances
  <2> QED BY <2>1, <2>2 DEF JobHeld, JobBecomes, Alive
<1> QED BY <1>3, <1>4, <1>5 DEF LoopsHeld

\* A coroutine that holds the loop gives it back and ends.
LEMMA EndingStep ==
    ASSUME IngestionTyped, LoopsHeld, Advances, NEW j \in Jobs, jobs[j].pc = "storing",
           FrameBecomes(jobs[j].at, "free", 0, "", 0), JobEnds(j)
    PROVE  LoopsHeld'
<1>1. PICK w \in Workers : w = jobs[j].at /\ jobs[j].doc \in Documents /\ loop[w].job = j
  BY JobPlaces DEF LoopsHeld, JobHeld, Alive
<1>2. FrameHeld(w)'
  BY <1>1 DEF FrameBecomes, FrameHeld
<1>3. JobHeld(j)'
  BY <1>1 DEF JobEnds, JobBecomes, JobHeld, Alive, LoopsHeld
<1>4. \A v \in Workers : loop[v].job # 0 => jobs[loop[v].job].at = v
  BY DEF LoopsHeld, FrameHeld
<1>5. \A i \in Jobs : jobs[i].pc = "storing" => loop[jobs[i].at].job = i
  BY DEF LoopsHeld, JobHeld
<1>6. \A v \in Workers : v # w => loop'[v] = loop[v]
  BY <1>1 DEF FrameBecomes
<1>7. \A i \in Jobs : i # j => jobs'[i] = jobs[i]
  BY DEF JobEnds, JobBecomes
<1>8. \A v \in Workers : v # w /\ loop[v].job # 0 => loop[v].job # j
  BY <1>1, <1>4
<1>9. \A i \in Jobs : i # j /\ jobs[i].pc = "storing" => jobs[i].at # w
  BY <1>1, <1>5
<1>10. JobHeld(j)' /\ j \in Jobs /\ w \in Workers
  BY <1>3
<1> QED BY <1>2, <1>6, <1>7, <1>8, <1>9, <1>10, OthersHeld

\* Every action leaves the loops with those who hold them.
LEMMA LoopsStep ==
    ASSUME IngestionTyped, LoopsHeld, IngestionNext
    PROVE  Advances /\ LoopsHeld'
<1> DEFINE Goal == Advances /\ LoopsHeld'
<1> USE DEF LoopsHeld
<1>a. documents' = documents => Advances
  BY DEF Advances
<1>2. ASSUME NEW w \in Workers, NEW c \in Contents, BeginUpload(w, c) PROVE Goal
  <2>1. loop[w].at = "free" /\ documents' = documents /\ jobs' = jobs
    BY <1>2, UploadEffect
  <2>2. CASE FrameBecomes(w, "create", 0, c, 0)
    BY <1>a, <2>1, <2>2, RequestStep
  <2>3. CASE \E d \in Named(c) : FrameBecomes(w, "dropChunks", d, c, 0)
    <3>1. PICK d \in Named(c) : FrameBecomes(w, "dropChunks", d, c, 0)
      BY <2>3
    <3>2. d \in Documents /\ d # 0 /\ documents[d].status # "unused"
      BY PresentIsUsed, HeldTypes DEF Named
    <3> QED BY <1>a, <2>1, <3>1, <3>2, RequestStep
  <2> QED BY <1>2, <2>2, <2>3, UploadEffect
<1>3. ASSUME NEW w \in Workers, NEW c \in Contents, NEW d \in Documents, BeginReplace(w, d, c)
      PROVE  Goal
  <2>1. /\ loop[w].at = "free" /\ documents' = documents /\ jobs' = jobs /\ FrameBecomes(w, "rename", d, c, 0)
        /\ documents[d].status # "unused"
    BY <1>3, ReplaceEffect
  <2>2. d # 0
    BY HeldTypes
  <2> QED BY <1>a, <2>1, <2>2, RequestStep
<1>4. ASSUME NEW w \in Workers, NEW d \in Documents, BeginDelete(w, d) \/ DeleteChunks(d) \/ DeleteRecord(d)
      PROVE  Goal
  <2>1. jobs' = jobs /\ loop' = loop
    BY <1>4, DeleteEffect
  <2>2. Advances
    <3>1. CASE documents' = documents
      BY <1>a, <3>1
    <3>2. CASE DocumentBecomes(d, "gone", documents[d].content, documents[d].count)
      BY <3>2, DocumentAdvances
    <3> QED BY <1>4, <3>1, <3>2, DeleteEffect
  <2>3. \A v \in Workers : FrameHeld(v)'
    BY <2>1, <2>2, FrameKept, HeldTypes
  <2>4. \A j \in Jobs : JobHeld(j)'
    BY <2>1, <2>2, JobKept, HeldTypes
  <2> QED BY <2>2, <2>3, <2>4
<1>5. ASSUME NEW w \in Workers, DropChunks(w) \/ DropRecord(w) PROVE Goal
  <2>1. loop[w].doc \in Documents /\ loop[w].doc # 0 /\ jobs' = jobs /\ loop[w].at \in {"dropChunks", "dropRecord"}
    BY <1>5, DropEffect, HeldTypes
  <2>2. loop[w].job = 0 /\ documents[loop[w].doc].status # "unused"
    BY <2>1, RequestHolds DEF FrameHeld
  <2>3. loop[w].content \in Contents
    BY <2>1 DEF FrameHeld
  <2>4. CASE documents' = documents /\ FrameBecomes(w, "dropRecord", loop[w].doc, loop[w].content, loop[w].job)
    <3>1. Advances
      BY <1>a, <2>4
    <3>2. FrameBecomes(w, "dropRecord", loop[w].doc, loop[w].content, 0)
      BY <2>2, <2>4
    <3>3. LoopsHeld'
      BY <2>1, <2>2, <2>3, <3>1, <3>2, RequestStep
    <3> QED BY <3>1, <3>3
  <2>5. CASE /\ FrameBecomes(w, "create", 0, loop[w].content, loop[w].job)
             /\ \/ documents' = documents
                \/ DocumentBecomes(loop[w].doc, "gone", documents[loop[w].doc].content, documents[loop[w].doc].count)
    <3>1. Advances
      BY <1>a, <2>1, <2>5, DocumentAdvances
    <3>2. FrameBecomes(w, "create", 0, loop[w].content, 0)
      BY <2>2, <2>5
    <3>3. LoopsHeld'
      <4>1. "create" \notin {"count", "index"} /\ ("create" = "free" => 0 = 0)
            /\ ~("create" \notin {"free", "create"}) /\ ~(0 # 0) /\ ("create" = "create" => 0 = 0)
        OBVIOUS
      <4> HIDE DEF LoopsHeld
      <4>2. LoopsHeld
        BY DEF LoopsHeld
      <4> QED BY <2>1, <2>3, <3>1, <3>2, <4>1, <4>2, RequestStep
    <3> QED BY <3>1, <3>3
  <2> QED BY <1>5, <2>4, <2>5, DropEffect
<1>6. ASSUME NEW w \in Workers, CreateDocument(w) PROVE Goal
  <2>1. PICK d \in Documents : /\ documents[d].status = "unused"
                               /\ DocumentBecomes(d, "uploading", loop[w].content, 0)
                               /\ Queues(w, d, loop[w].content)
    BY <1>6, CreateEffect
  <2>2. loop[w].at = "create" /\ FrameBecomes(w, "free", 0, "", 0) /\ loop[w].content \in Contents
    BY <1>6, CreateEffect DEF FrameHeld
  <2>3. Advances /\ documents'[d].status # "unused"
    BY <2>1, DocumentAdvances DEF DocumentBecomes
  <2> QED BY <2>1, <2>2, <2>3, QueueStep
<1>c. ASSUME NEW w \in Workers, loop[w].at \notin {"count", "index"}, jobs' = jobs, Advances,
             FrameBecomes(w, "free", 0, "", 0)
      PROVE  LoopsHeld'
  <2>1. "free" \notin {"count", "index"} /\ ("free" = "free" => 0 = 0) /\ ~("free" \notin {"free", "create"})
        /\ ~("free" # "free") /\ ~(0 # 0) /\ "free" # "create"
    OBVIOUS
  <2> HIDE DEF LoopsHeld
  <2>2. LoopsHeld
    BY DEF LoopsHeld
  <2> QED BY <1>c, <2>1, <2>2, RequestStep
<1>d. ASSUME NEW w \in Workers, RequestRaises(w) PROVE Goal
  <2>1. loop[w].at \notin {"count", "index"} /\ documents' = documents /\ jobs' = jobs /\ FrameBecomes(w, "free", 0, "", 0)
    BY <1>d, RaisesEffect
  <2> QED BY <1>a, <1>c, <2>1
<1>7. ASSUME NEW w \in Workers, Rename(w) PROVE Goal
  <2>1. loop[w].at = "rename" /\ loop[w].doc \in Documents /\ loop[w].doc # 0 /\ jobs' = jobs
    BY <1>7, RenameEffect, HeldTypes
  <2>2. loop[w].job = 0 /\ documents[loop[w].doc].status # "unused" /\ loop[w].content \in Contents
    BY <2>1, RequestHolds DEF FrameHeld
  <2>3. CASE documents' = documents /\ FrameBecomes(w, "free", 0, "", 0)
    BY <1>a, <1>c, <2>1, <2>3
  <2>4. CASE /\ FrameBecomes(w, "restart", loop[w].doc, loop[w].content, loop[w].job)
             /\ DocumentBecomes(loop[w].doc, documents[loop[w].doc].status, loop[w].content, 0)
    <3>1. Advances
      BY <2>1, <2>2, <2>4, DocumentAdvances
    <3> QED BY <2>1, <2>2, <2>4, <3>1, RequestStep
  <2> QED BY <1>7, <2>3, <2>4, RenameEffect
<1>8. ASSUME NEW w \in Workers, Restart(w) PROVE Goal
  <2>1. loop[w].at = "restart" /\ loop[w].doc \in Documents /\ loop[w].content \in Contents
        /\ FrameBecomes(w, "free", 0, "", 0)
    BY <1>8, RestartEffect DEF FrameHeld
  <2>2. CASE documents' = documents /\ jobs' = jobs
    BY <1>a, <1>c, <2>1, <2>2
  <2>3. CASE /\ Present(loop[w].doc) /\ Queues(w, loop[w].doc, loop[w].content)
             /\ DocumentBecomes(loop[w].doc, "uploading", documents[loop[w].doc].content, documents[loop[w].doc].count)
    <3>1. Advances /\ documents'[loop[w].doc].status # "unused"
      BY <2>1, <2>3, DocumentAdvances, PresentIsUsed DEF DocumentBecomes
    <3> QED BY <2>1, <2>3, <3>1, QueueStep
  <2> QED BY <1>8, <2>2, <2>3, RestartEffect
<1>b. ASSUME NEW d \in Documents, Present(d), NEW s, NEW c, NEW n, s # "unused", DocumentBecomes(d, s, c, n)
      PROVE  Advances
  BY <1>b, DocumentAdvances, PresentIsUsed
<1>9. ASSUME NEW j \in Jobs, Alive(j), Fails(j) PROVE Goal
  <2>1. jobs[j].doc \in Documents /\ JobEnds(j)
    BY <1>9, JobPlaces, FailsEffect
  <2>2. Advances
    BY <1>9, <1>a, <1>b, <2>1, FailsEffect
  <2>3. CASE jobs[j].pc = "storing" /\ FrameBecomes(jobs[j].at, "free", 0, "", 0)
    BY <2>1, <2>2, <2>3, EndingStep
  <2>4. CASE jobs[j].pc # "storing" /\ loop' = loop
    <3>1. JobBecomes(j, "done", jobs[j].doc, jobs[j].content, jobs[j].stored, jobs[j].at)
      BY <2>1 DEF JobEnds
    <3>2. "done" \notin {"none", "storing"}
      OBVIOUS
    <3>3. LoopsHeld'
      BY <1>9, <2>2, <2>4, <3>1, <3>2, WaitingStep
    <3> QED BY <2>2, <3>3
  <2> QED BY <1>9, <2>3, <2>4, FailsEffect
<1>10. ASSUME NEW j \in Jobs, BeginParse(j) PROVE Goal
  <2>1. jobs[j].pc = "queued" /\ Alive(j) /\ jobs[j].doc \in Documents
    BY <1>10, ParseEffect, JobPlaces
  <2>2. CASE Fails(j)
    BY <1>9, <2>1, <2>2
  <2>3. CASE ~Fails(j)
    <3>1. Advances
      BY <1>10, <1>b, <2>1, <2>3, ParseEffect
    <3> QED BY <1>10, <2>1, <2>3, <3>1, ParseEffect, WaitingStep
  <2> QED BY <2>2, <2>3
<1>11. ASSUME NEW j \in Jobs, Chunk(j) PROVE Goal
  <2>1. jobs[j].pc = "parsing" /\ Alive(j) /\ jobs[j].doc \in Documents
    BY <1>11, ChunkEffect, JobPlaces
  <2>2. CASE Fails(j)
    BY <1>9, <2>1, <2>2
  <2>3. CASE ~Fails(j)
    <3>1. Advances
      BY <1>11, <1>b, <2>1, <2>3, ChunkEffect
    <3>2. \E pc \in {"done", "embedding"} :
             JobBecomes(j, pc, jobs[j].doc, jobs[j].content, jobs[j].stored, jobs[j].at)
      BY <1>11, <2>3, ChunkEffect DEF JobEnds
    <3> QED BY <1>11, <2>1, <2>3, <3>1, <3>2, ChunkEffect, WaitingStep
  <2> QED BY <2>2, <2>3
<1>12. ASSUME NEW j \in Jobs, Store(j) PROVE Goal
  <2>1. jobs[j].pc = "embedding" /\ Alive(j) /\ jobs[j].doc \in Documents /\ jobs[j].doc # 0
    BY <1>12, StoreEffect, JobPlaces, HeldTypes
  <2>2. CASE Fails(j)
    BY <1>9, <2>1, <2>2
  <2>3. CASE ~Fails(j)
    <3>1. PICK stored \in SUBSET Parts :
                    /\ loop[jobs[j].at].at = "free"
                    /\ FrameBecomes(jobs[j].at, "count", jobs[j].doc, "", j)
                    /\ JobBecomes(j, "storing", jobs[j].doc, jobs[j].content, Cardinality(stored), jobs[j].at)
                    /\ documents' = documents
      BY <1>12, <2>3, StoreEffect
    <3>2. PICK w \in Workers : w = jobs[j].at
      BY <2>1, JobPlaces
    <3>3. documents[jobs[j].doc].status # "unused" /\ jobs[j].content \in Contents
      BY <2>1, JobPlaces DEF JobHeld
    <3>4. FrameHeld(w)' /\ j # 0
      BY ZenonT(40), <2>1, <3>1, <3>2, <3>3, HeldTypes DEF FrameBecomes, JobBecomes, FrameHeld
    <3>5. JobHeld(j)'
      BY <2>1, <3>1, <3>2, <3>3 DEF FrameBecomes, JobBecomes, JobHeld, Alive
    <3>6. \A i \in Jobs : jobs[i].pc = "storing" => jobs[i].at # w
      BY <3>1, <3>2, RequestHolds
    <3>7. \A v \in Workers : loop[v].job # 0 => jobs[loop[v].job].pc = "storing"
      BY DEF FrameHeld
    <3>8. \A v \in Workers : v # w => loop'[v] = loop[v]
      BY <3>1, <3>2 DEF FrameBecomes
    <3>9. \A i \in Jobs : i # j => jobs'[i] = jobs[i]
      BY <3>1 DEF JobBecomes
    <3>10. \A v \in Workers : v # w /\ loop[v].job # 0 => loop[v].job # j
      BY <2>1, <3>7
    <3>11. Advances
      BY <1>a, <3>1
    <3>12. LoopsHeld'
      BY <3>4, <3>5, <3>6, <3>8, <3>9, <3>10, <3>11, OthersHeld
    <3> QED BY <3>11, <3>12
  <2> QED BY <2>2, <2>3
<1>13. ASSUME NEW j \in Jobs, CountChunks(j) PROVE Goal
  <2>1. jobs[j].pc = "storing" /\ Alive(j) /\ jobs[j].doc \in Documents /\ loop[jobs[j].at].at = "count"
    BY <1>13, CountEffect, JobPlaces
  <2>2. CASE Fails(j)
    BY <1>9, <2>1, <2>2
  <2>3. CASE ~Fails(j)
    <3>1. PICK w \in Workers : w = jobs[j].at
      BY <2>1, JobPlaces
    <3>2. /\ jobs' = jobs
          /\ FrameBecomes(w, "index", loop[w].doc, loop[w].content, loop[w].job)
          /\ DocumentBecomes(jobs[j].doc, documents[jobs[j].doc].status, documents[jobs[j].doc].content, jobs[j].stored)
          /\ Present(jobs[j].doc)
      BY <1>13, <2>3, <3>1, CountEffect
    <3>3. Advances
      BY <1>b, <2>1, <3>2, PresentIsUsed
    <3>4. FrameHeld(w) /\ loop[w].at = "count" /\ loop[w].doc \in Documents \cup {0}
      BY <2>1, <3>1, HeldTypes
    <3>5. FrameHeld(w)'
      BY <3>2, <3>3, <3>4 DEF FrameHeld, FrameBecomes, Advances
    <3>6. \A v \in Workers : v # w => FrameHeld(v)'
      BY <3>2, <3>3, FrameKept, HeldTypes DEF FrameBecomes
    <3>7. ASSUME NEW i \in Jobs PROVE JobHeld(i)'
      <4>1. jobs[i].at \in Workers /\ jobs[i].doc \in Documents \cup {0} /\ jobs'[i] = jobs[i] /\ JobHeld(i)
        BY <3>2, HeldTypes
      <4>2. loop'[jobs[i].at].job = loop[jobs[i].at].job
        BY <3>2, <4>1 DEF FrameBecomes
      <4> QED BY <3>3, <4>1, <4>2, JobKept
    <3> QED BY <3>3, <3>5, <3>6, <3>7
  <2> QED BY <2>2, <2>3
<1>14. ASSUME NEW j \in Jobs, IndexAndFinish(j) PROVE Goal
  <2>1. jobs[j].pc = "storing" /\ Alive(j) /\ jobs[j].doc \in Documents
    BY <1>14, FinishEffect, JobPlaces
  <2>2. CASE Fails(j)
    BY <1>9, <2>1, <2>2
  <2>3. CASE ~Fails(j)
    <3>1. Advances
      BY <1>14, <1>b, <2>1, <2>3, FinishEffect
    <3> QED BY <1>14, <2>1, <2>3, <3>1, FinishEffect, EndingStep
  <2> QED BY <2>2, <2>3
<1>15. ASSUME NEW w \in Workers, Crash(w) PROVE Goal
  <2>1. /\ Advances /\ FrameBecomes(w, "free", 0, "", 0)
        /\ \A j \in Jobs :
              IF Alive(j) /\ jobs[j].at = w
              THEN /\ jobs'[j].pc = "done" /\ jobs'[j].doc = jobs[j].doc
                   /\ jobs'[j].content = jobs[j].content /\ jobs'[j].stored = jobs[j].stored
                   /\ jobs'[j].at = jobs[j].at
              ELSE jobs'[j] = jobs[j]
    BY <1>15, <1>a, CrashEffect
  <2>2. FrameHeld(w)'
    BY <2>1 DEF FrameBecomes, FrameHeld
  <2>3. ASSUME NEW v \in Workers, v # w PROVE FrameHeld(v)'
    <3>1. loop[v].doc \in Documents \cup {0} /\ loop[v].job \in Jobs \cup {0} /\ loop'[v] = loop[v] /\ FrameHeld(v)
      BY <2>1, <2>3, HeldTypes DEF FrameBecomes
    <3>2. loop[v].job # 0 => jobs[loop[v].job].at = v
      BY <3>1 DEF FrameHeld
    <3>3. loop[v].job # 0 => jobs'[loop[v].job] = jobs[loop[v].job]
      BY <2>1, <2>3, <3>1, <3>2
    <3> QED BY <2>1, <3>1, <3>3, FrameKept
  <2>4. ASSUME NEW j \in Jobs PROVE JobHeld(j)'
    <3>1. JobHeld(j) /\ jobs[j].at \in Workers /\ jobs[j].doc \in Documents \cup {0}
      BY HeldTypes
    <3>2. CASE Alive(j) /\ jobs[j].at = w
      BY <2>1, <3>1, <3>2 DEF JobHeld, Alive
    <3>3. CASE ~Alive(j)
      <4>1. jobs'[j] = jobs[j] /\ jobs[j].pc # "storing"
        BY <2>1, <3>3 DEF Alive
      <4> QED BY <2>1, <3>1, <4>1, JobKept
    <3>4. CASE Alive(j) /\ jobs[j].at # w
      <4>1. jobs'[j] = jobs[j] /\ loop'[jobs[j].at] = loop[jobs[j].at]
        BY <2>1, <3>1, <3>4 DEF FrameBecomes
      <4> QED BY <2>1, <3>1, <4>1, JobKept
    <3> QED BY <3>2, <3>3, <3>4
  <2> QED BY <2>1, <2>2, <2>3, <2>4
<1>o. PICK w \in Workers : TRUE
  BY IngestionBounds
<1> QED BY <1>o, <1>d, <1>2, <1>3, <1>4, <1>5, <1>6, <1>7, <1>8, <1>10, <1>11, <1>12, <1>13, <1>14, <1>15
     DEF IngestionNext, ClientNext, ServerNext, Requests, Process

-----------------------------------------------------------------------------
(* A record nobody has used yet has no chunks and no deletion.              *)

\* No action writes chunks under an unused record.
LEMMA FreshStep ==
    ASSUME IngestionTyped, LoopsHeld, UnusedIsFresh, IngestionNext
    PROVE  UnusedIsFresh'
<1>a. ASSUME \A d \in Documents : documents'[d].status = "unused" => documents[d].status = "unused",
             \A k \in chunks' \ chunks : documents[k.doc].status # "unused",
             \A d \in Documents : documents[d].status = "unused" => deletion'[d] \in {"none", deletion[d]}
      PROVE  UnusedIsFresh'
  BY <1>a DEF UnusedIsFresh, ChunksOf
<1>b. ASSUME NEW d \in Documents, NEW s, NEW c, NEW n, s # "unused", DocumentBecomes(d, s, c, n)
      PROVE  \A e \in Documents : documents'[e].status = "unused" => documents[e].status = "unused"
  BY <1>b DEF DocumentBecomes
<1>c. \A d \in Documents : WithoutChunks(d) \subseteq chunks
  BY DEF WithoutChunks
<1>2. ASSUME NEW w \in Workers, NEW c \in Contents, BeginUpload(w, c) PROVE UnusedIsFresh'
  BY <1>2, <1>a, UploadEffect
<1>3. ASSUME NEW w \in Workers, NEW c \in Contents, NEW d \in Documents, BeginReplace(w, d, c)
      PROVE  UnusedIsFresh'
  BY <1>3, <1>a, <1>c, ReplaceEffect
<1>4. ASSUME NEW w \in Workers, NEW d \in Documents, BeginDelete(w, d) \/ DeleteChunks(d) \/ DeleteRecord(d)
      PROVE  UnusedIsFresh'
  <2>1. documents[d].status # "unused" /\ \A e \in Documents : e # d => deletion'[e] = deletion[e]
    BY <1>4, DeleteEffect, PresentIsUsed DEF UnusedIsFresh
  <2>2. chunks' \subseteq chunks
    BY <1>4, <1>c, DeleteEffect
  <2>3. \A e \in Documents : documents'[e].status = "unused" => documents[e].status = "unused"
    <3>1. CASE documents' = documents
      BY <3>1
    <3>2. CASE DocumentBecomes(d, "gone", documents[d].content, documents[d].count)
      BY <1>b, <3>2
    <3> QED BY <1>4, <3>1, <3>2, DeleteEffect
  <2> QED BY <1>a, <2>1, <2>2, <2>3
<1>5. ASSUME NEW w \in Workers, DropChunks(w) \/ DropRecord(w) PROVE UnusedIsFresh'
  <2>1. loop[w].doc \in Documents /\ deletion' = deletion /\ chunks' \subseteq chunks
    BY <1>5, <1>c, DropEffect
  <2>2. CASE documents' = documents
    BY <1>a, <2>1, <2>2
  <2>3. CASE DocumentBecomes(loop[w].doc, "gone", documents[loop[w].doc].content, documents[loop[w].doc].count)
    BY <1>a, <1>b, <2>1, <2>3
  <2> QED BY <1>5, <2>2, <2>3, DropEffect
<1>6. ASSUME NEW w \in Workers, CreateDocument(w) PROVE UnusedIsFresh'
  <2>1. PICK d \in Documents : DocumentBecomes(d, "uploading", loop[w].content, 0)
    BY <1>6, CreateEffect
  <2> QED BY <1>6, <1>a, <1>b, <2>1, CreateEffect
<1>7. ASSUME NEW w \in Workers, Rename(w) \/ Restart(w) PROVE UnusedIsFresh'
  <2>1. loop[w].doc \in Documents /\ deletion' = deletion /\ chunks' = chunks
    BY <1>7, RenameEffect, RestartEffect
  <2>2. CASE documents' = documents
    BY <1>a, <2>1, <2>2
  <2>3. CASE /\ Present(loop[w].doc)
             /\ \E s \in {documents[loop[w].doc].status, "uploading"} : \E c, n : DocumentBecomes(loop[w].doc, s, c, n)
    <3>1. PICK s \in {documents[loop[w].doc].status, "uploading"} : \E c, n : DocumentBecomes(loop[w].doc, s, c, n)
      BY <2>3
    <3>2. s # "unused"
      BY <2>1, <2>3, PresentIsUsed
    <3> QED BY <1>a, <1>b, <2>1, <3>1, <3>2
  <2> QED BY <1>7, <2>2, <2>3, RenameEffect, RestartEffect
<1>8. ASSUME NEW j \in Jobs, Process(j) PROVE UnusedIsFresh'
  <2>1. Alive(j)
    BY <1>8, ParseEffect, ChunkEffect, StoreEffect, CountEffect, FinishEffect DEF Process
  <2>2. jobs[j].doc \in Documents /\ documents[jobs[j].doc].status # "unused"
    BY <2>1, JobPlaces DEF LoopsHeld, JobHeld
  <2>3. deletion' = deletion
    BY <1>8, <2>1, FailsEffect, ParseEffect, ChunkEffect, StoreEffect, CountEffect, FinishEffect DEF Process
  <2>4. \A k \in chunks' \ chunks : k.doc = jobs[j].doc
    <3>1. CASE Store(j) /\ ~Fails(j)
      <4>1. PICK stored \in SUBSET Parts :
               chunks' = chunks \cup {[doc |-> jobs[j].doc, content |-> jobs[j].content, part |-> n, by |-> j] : n \in stored}
        BY <3>1, StoreEffect
      <4> QED BY <4>1
    <3>2. CASE ~(Store(j) /\ ~Fails(j))
      BY <1>8, <2>1, <3>2, FailsEffect, ParseEffect, ChunkEffect, CountEffect, FinishEffect DEF Process
    <3> QED BY <3>1, <3>2
  <2>5. \/ documents' = documents
        \/ \E s \in {"failed", "parsing", "ready", "embedding", documents[jobs[j].doc].status} : \E c, n : DocumentBecomes(jobs[j].doc, s, c, n)
    <3>1. CASE Fails(j)
      BY <2>1, <3>1, FailsEffect
    <3>2. CASE ~Fails(j)
      BY <1>8, <3>2, ParseEffect, ChunkEffect, StoreEffect, CountEffect, FinishEffect DEF Process
    <3> QED BY <3>1, <3>2
  <2>6. \A e \in Documents : documents'[e].status = "unused" => documents[e].status = "unused"
    BY <1>b, <2>2, <2>5
  <2> QED BY <1>a, <2>2, <2>3, <2>4, <2>6
<1>9. ASSUME NEW w \in Workers, Crash(w) PROVE UnusedIsFresh'
  BY <1>9, <1>a, CrashEffect
<1>d. ASSUME NEW w \in Workers, RequestRaises(w) PROVE UnusedIsFresh'
  BY <1>d, <1>a, RaisesEffect
<1>o. PICK w \in Workers : TRUE
  BY IngestionBounds
<1> QED BY <1>o, <1>d, <1>2, <1>3, <1>4, <1>5, <1>6, <1>7, <1>8, <1>9
     DEF IngestionNext, ClientNext, ServerNext, Requests

-----------------------------------------------------------------------------
(* One process: no two documents of one content.                            *)

\* A content once excepted stays so.
LEMMA DoubledGrows == IngestionNext => doubled \subseteq doubled'
<1>1. ASSUME NEW w \in Workers, NEW c \in Contents, NEW d \in Documents, BeginReplace(w, d, c)
      PROVE  doubled' = doubled
  BY <1>1 DEF BeginReplace
<1>2. ASSUME NEW w \in Workers, NEW d \in Documents, BeginDelete(w, d) \/ DeleteChunks(d) \/ DeleteRecord(d)
      PROVE  doubled' = doubled
  BY <1>2 DEF BeginDelete, DeleteChunks, DeleteRecord
<1>3. ASSUME NEW w \in Workers, Requests(w) PROVE doubled \subseteq doubled'
  BY <1>3 DEF Requests, DropChunks, DropRecord, CreateDocument, Rename, Restart, RequestRaises
<1>4. ASSUME NEW j \in Jobs, Process(j) PROVE doubled' = doubled
  <2>1. CASE Fails(j)
    BY <2>1 DEF Fails
  <2>2. CASE ~Fails(j)
    BY <1>4, <2>2 DEF Process, BeginParse, Chunk, Store, CountChunks, IndexAndFinish
  <2> QED BY <2>1, <2>2
<1>5. ASSUME NEW w \in Workers, Crash(w) PROVE doubled' = doubled
  BY <1>5 DEF Crash
<1>6. ASSUME NEW w \in Workers, NEW c \in Contents, BeginUpload(w, c) PROVE doubled' = doubled
  BY <1>6 DEF BeginUpload
<1>o. PICK w \in Workers : TRUE
  BY IngestionBounds
<1> QED BY <1>o, <1>1, <1>2, <1>3, <1>4, <1>5, <1>6 DEF IngestionNext, ClientNext, ServerNext

NamesShrink == \A c \in Contents : Named(c)' \subseteq Named(c)

\* A change of status gives no content a new document.
LEMMA StatusShrinks ==
    ASSUME NEW d \in Documents, NEW s, NEW n, Present(d) \/ s = "gone",
           DocumentBecomes(d, s, documents[d].content, n)
    PROVE  NamesShrink
<1>1. "gone" \notin Statuses
  BY DEF Statuses, InProgress
<1>2. \A e \in Documents : Present(e)' => Present(e) /\ documents'[e].content = documents[e].content
  BY <1>1 DEF DocumentBecomes, Present
<1> QED BY <1>2 DEF NamesShrink, Named

\* The names shrink, and whoever holds the loop says nothing new about them.
LEMMA NamesKept ==
    ASSUME IngestionTyped, LoopsHeld, NamesUnique, NamesShrink, doubled \subseteq doubled',
           \A w \in Workers : loop'[w] = loop[w] \/ loop'[w].at \in {"free", "restart", "count", "index"}
    PROVE  NamesUnique'
<1>1. ASSUME NEW w \in Workers PROVE FrameNames(w)'
  <2>1. CASE loop'[w].at \in {"free", "restart", "count", "index"}
    BY <2>1 DEF FrameNames
  <2>2. CASE loop'[w] = loop[w] /\ loop[w].at \notin {"free", "restart", "count", "index"}
    <3>1. PICK c \in Contents : c = loop[w].content
      BY <2>2 DEF LoopsHeld, FrameHeld
    <3>2. Named(c)' \subseteq Named(c)
      BY DEF NamesShrink
    <3>3. Named(loop[w].content)' = Named(c)'
      BY <2>2, <3>1 DEF Named
    <3> QED BY <2>2, <3>1, <3>2, <3>3 DEF NamesUnique, FrameNames
  <2> QED BY <2>1, <2>2
<1> QED BY <1>1 DEF NamesUnique, NamesShrink

\* With one process, each action keeps the names unique.
LEMMA NamesStep ==
    ASSUME IngestionTyped, LoopsHeld, NEW one, Workers = {one}, NamesUnique, IngestionNext
    PROVE  NamesUnique'
<1>a. documents' = documents => NamesShrink /\ \A c \in Contents : Named(c)' = Named(c)
  BY DEF NamesShrink, Named, Present
<1>d. doubled \subseteq doubled'
  BY DoubledGrows
<1>b. ASSUME NEW w \in Workers, \A c \in Contents \ doubled' : \A d, e \in Named(c)' : d = e, FrameNames(w)'
      PROVE  NamesUnique'
  BY <1>b DEF NamesUnique
<1>2. ASSUME NEW w \in Workers, NEW c \in Contents, BeginUpload(w, c) PROVE NamesUnique'
  <2>1. documents' = documents
    BY <1>2, UploadEffect
  <2>2. CASE Named(c) = {} /\ FrameBecomes(w, "create", 0, c, 0)
    <3>1. FrameNames(w)'
      BY <1>a, <2>1, <2>2 DEF FrameNames, FrameBecomes
    <3> QED BY <1>a, <1>b, <1>d, <2>1, <3>1 DEF NamesUnique
  <2>3. CASE \E d \in Named(c) : FrameBecomes(w, "dropChunks", d, c, 0)
    <3>1. PICK d \in Named(c) : FrameBecomes(w, "dropChunks", d, c, 0)
      BY <2>3
    <3>2. c \notin doubled' => Named(c) \subseteq {d}
      BY <1>d DEF NamesUnique
    <3>3. FrameNames(w)'
      BY <1>a, <2>1, <3>1, <3>2 DEF FrameNames, FrameBecomes
    <3> QED BY <1>a, <1>b, <1>d, <2>1, <3>3 DEF NamesUnique
  <2> QED BY <1>2, <2>2, <2>3, UploadEffect
<1>3. ASSUME NEW w \in Workers, NEW c \in Contents, NEW d \in Documents, BeginReplace(w, d, c)
      PROVE  NamesUnique'
  <2>1. documents' = documents /\ (Named(c) = {} \/ d \in Named(c)) /\ FrameBecomes(w, "rename", d, c, 0)
    BY <1>3, ReplaceEffect
  <2>3. c \notin doubled' => Named(c) \subseteq {d}
    BY <1>d, <2>1 DEF NamesUnique
  <2>2. FrameNames(w)'
    BY <1>a, <2>1, <2>3 DEF FrameNames, FrameBecomes
  <2> QED BY <1>a, <1>b, <1>d, <2>1, <2>2 DEF NamesUnique
<1>4. ASSUME NEW w \in Workers, NEW d \in Documents, BeginDelete(w, d) \/ DeleteChunks(d) \/ DeleteRecord(d)
      PROVE  NamesUnique'
  <2>1. NamesShrink
    <3>1. CASE documents' = documents
      BY <1>a, <3>1
    <3>2. CASE DocumentBecomes(d, "gone", documents[d].content, documents[d].count)
      BY <3>2, StatusShrinks
    <3> QED BY <1>4, <3>1, <3>2, DeleteEffect
  <2>2. loop' = loop
    BY <1>4, DeleteEffect
  <2> QED BY <1>d, <2>1, <2>2, NamesKept
<1>5. ASSUME NEW w \in Workers, DropChunks(w) \/ DropRecord(w) PROVE NamesUnique'
  <2>1. PICK d \in Documents, c \in Contents : d = loop[w].doc /\ c = loop[w].content
    BY <1>5, DropEffect DEF LoopsHeld, FrameHeld
  <2>2. c \notin doubled' => Named(c) \subseteq {d}
    BY <1>5, <1>d, <2>1, DropEffect DEF NamesUnique, FrameNames
  <2>3. CASE documents' = documents /\ FrameBecomes(w, "dropRecord", loop[w].doc, loop[w].content, loop[w].job)
    <3>1. FrameNames(w)'
      BY <1>a, <2>1, <2>2, <2>3 DEF FrameNames, FrameBecomes
    <3> QED BY <1>a, <1>b, <1>d, <2>3, <3>1 DEF NamesUnique
  <2>4. CASE /\ FrameBecomes(w, "create", 0, loop[w].content, loop[w].job)
             /\ DocumentBecomes(loop[w].doc, "gone", documents[loop[w].doc].content, documents[loop[w].doc].count)
    <3>1. NamesShrink
      BY <2>1, <2>4, StatusShrinks
    <3>2. d \notin Named(c)'
      BY <2>1, <2>4 DEF Named, Present, Statuses, InProgress, DocumentBecomes
    <3>3. c \notin doubled' => Named(c)' = {}
      BY <2>2, <3>1, <3>2 DEF NamesShrink
    <3>4. FrameNames(w)'
      <4>1. loop'[w].content = c /\ loop'[w].at = "create"
        BY <2>1, <2>4 DEF FrameBecomes
      <4>2. Named(loop[w].content)' = Named(c)'
        BY <4>1 DEF Named
      <4> QED BY <3>3, <4>1, <4>2 DEF FrameNames
    <3> QED BY <1>b, <1>d, <3>1, <3>4 DEF NamesUnique, NamesShrink
  <2>5. CASE /\ FrameBecomes(w, "create", 0, loop[w].content, loop[w].job)
             /\ documents' = documents /\ loop[w].content \in doubled'
    <3>1. FrameNames(w)'
      BY <2>5 DEF FrameNames, FrameBecomes
    <3> QED BY <1>a, <1>b, <1>d, <2>5, <3>1 DEF NamesUnique
  <2> QED BY <1>5, <2>3, <2>4, <2>5, DropEffect
<1>6. ASSUME NEW w \in Workers, CreateDocument(w) PROVE NamesUnique'
  <2>1. PICK c \in Contents : c = loop[w].content /\ (c \notin doubled => Named(c) = {})
    BY <1>6, CreateEffect DEF LoopsHeld, FrameHeld, NamesUnique, FrameNames
  <2>2. PICK d \in Documents : DocumentBecomes(d, "uploading", c, 0)
    BY <1>6, <2>1, CreateEffect
  <2>3. Named(c)' \subseteq Named(c) \cup {d} /\ \A b \in Contents : b # c => Named(b)' \subseteq Named(b)
    BY <2>1, <2>2 DEF DocumentBecomes, Named, Present
  <2>4. FrameNames(w)'
    BY <1>6, CreateEffect DEF FrameNames, FrameBecomes
  <2>5. ASSUME NEW b \in Contents \ doubled', NEW x \in Named(b)', NEW y \in Named(b)' PROVE x = y
    <3>1. CASE b = c
      BY <1>d, <2>1, <2>3, <3>1
    <3>2. CASE b # c
      BY <1>d, <2>3, <3>2 DEF NamesUnique
    <3> QED BY <3>1, <3>2
  <2> QED BY <1>b, <2>4, <2>5
<1>e. ASSUME NEW w \in Workers, RequestRaises(w) PROVE NamesUnique'
  <2>1. documents' = documents /\ FrameBecomes(w, "free", 0, "", 0)
    BY <1>e, RaisesEffect
  <2> QED BY <1>a, <1>d, <2>1, NamesKept DEF FrameBecomes
<1>7. ASSUME NEW w \in Workers, Rename(w) PROVE NamesUnique'
  <2>1. loop[w].at = "rename" /\ loop[w].doc \in Documents
    BY <1>7, RenameEffect
  <2>2. PICK c \in Contents : c = loop[w].content
    BY <2>1 DEF LoopsHeld, FrameHeld
  <2>3. CASE documents' = documents /\ FrameBecomes(w, "free", 0, "", 0)
    BY <1>a, <1>d, <2>3, NamesKept DEF FrameBecomes
  <2>4. CASE /\ FrameBecomes(w, "restart", loop[w].doc, loop[w].content, loop[w].job)
             /\ DocumentBecomes(loop[w].doc, documents[loop[w].doc].status, loop[w].content, 0)
    <3>1. c \notin doubled' => Named(c) \subseteq {loop[w].doc}
      BY <1>d, <2>1, <2>2 DEF NamesUnique, FrameNames
    <3>2. /\ Named(c)' \subseteq Named(c) \cup {loop[w].doc}
          /\ \A b \in Contents : b # c => Named(b)' \subseteq Named(b)
      BY <2>1, <2>2, <2>4 DEF DocumentBecomes, Named, Present
    <3>3. FrameNames(w)'
      BY <2>4 DEF FrameNames, FrameBecomes
    <3>4. ASSUME NEW b \in Contents \ doubled', NEW x \in Named(b)', NEW y \in Named(b)' PROVE x = y
      <4>1. CASE b = c
        BY <3>1, <3>2, <4>1
      <4>2. CASE b # c
        BY <1>d, <3>2, <4>2 DEF NamesUnique
      <4> QED BY <4>1, <4>2
    <3> QED BY <1>b, <3>3, <3>4
  <2> QED BY <1>7, <2>3, <2>4, RenameEffect
<1>8. ASSUME NEW w \in Workers, Restart(w) PROVE NamesUnique'
  <2>1. loop[w].doc \in Documents /\ FrameBecomes(w, "free", 0, "", 0)
    BY <1>8, RestartEffect
  <2>2. NamesShrink
    <3>1. CASE documents' = documents
      BY <1>a, <3>1
    <3>2. CASE /\ Present(loop[w].doc)
               /\ DocumentBecomes(loop[w].doc, "uploading", documents[loop[w].doc].content, documents[loop[w].doc].count)
      BY <2>1, <3>2, StatusShrinks
    <3> QED BY <1>8, <3>1, <3>2, RestartEffect
  <2> QED BY <1>d, <2>1, <2>2, NamesKept DEF FrameBecomes
<1>9. ASSUME NEW j \in Jobs, Process(j) PROVE NamesUnique'
  <2>1. Alive(j)
    BY <1>9, ParseEffect, ChunkEffect, StoreEffect, CountEffect, FinishEffect DEF Process
  <2>2. jobs[j].doc \in Documents
    BY <2>1, JobPlaces
  <2>3. NamesShrink
    <3>1. CASE documents' = documents
      BY <1>a, <3>1
    <3>2. CASE Present(jobs[j].doc) /\ \E s, n : DocumentBecomes(jobs[j].doc, s, documents[jobs[j].doc].content, n)
      BY <2>2, <3>2, StatusShrinks
    <3>3. CASE Fails(j)
      BY <2>1, <3>1, <3>2, <3>3, FailsEffect
    <3>4. CASE ~Fails(j)
      BY <1>9, <3>1, <3>2, <3>4, ParseEffect, ChunkEffect, StoreEffect, CountEffect, FinishEffect DEF Process
    <3> QED BY <3>3, <3>4
  <2>4. \A w \in Workers : loop'[w] = loop[w] \/ loop'[w].at \in {"free", "restart", "count", "index"}
    <3>1. \/ loop' = loop
          \/ \E a \in {"free", "count", "index"} : \E d, c, i : FrameBecomes(jobs[j].at, a, d, c, i)
      <4>1. CASE Fails(j)
        BY <2>1, <4>1, FailsEffect
      <4>2. CASE ~Fails(j)
        BY <1>9, <4>2, ParseEffect, ChunkEffect, StoreEffect, CountEffect, FinishEffect DEF Process
      <4> QED BY <4>1, <4>2
    <3> QED BY <3>1 DEF FrameBecomes
  <2> QED BY <1>d, <2>3, <2>4, NamesKept
<1>10. ASSUME NEW w \in Workers, Crash(w) PROVE NamesUnique'
  <2>1. documents' = documents /\ FrameBecomes(w, "free", 0, "", 0)
    BY <1>10, CrashEffect
  <2> QED BY <1>a, <1>d, <2>1, NamesKept DEF FrameBecomes
<1>o. PICK w \in Workers : TRUE
  BY IngestionBounds
<1> QED BY <1>o, <1>e, <1>2, <1>3, <1>4, <1>5, <1>6, <1>7, <1>8, <1>9, <1>10
     DEF IngestionNext, ClientNext, ServerNext, Requests

-----------------------------------------------------------------------------
(* What is known of a document, its frame and its coroutine.                *)

\* A step that leaves d, its chunks, its frames and its coroutines alone, or
\* ends some of the coroutines.
LEMMA Untouched ==
    ASSUME IngestionTyped, LoopsHeld, NEW d \in Documents, Sound(d), documents'[d] = documents[d], mixed \subseteq mixed',
           deletion[d] = "record" => deletion'[d] = "record" \/ d \in mixed', ChunksOf(d)' = ChunksOf(d),
           \A w \in Workers : loop[w].doc = d \/ loop'[w].doc = d => loop'[w] = loop[w],
           \A w \in Workers : loop[w].doc = d /\ loop[w].job # 0 => jobs'[loop[w].job] = jobs[loop[w].job],
           \A j \in Jobs : AtWork(j, d)' => AtWork(j, d) /\ jobs'[j] = jobs[j]
    PROVE  Sound(d)'
<1> SUFFICES ASSUME ~Doomed(d)' PROVE Coherent(d)'
  BY DEF Sound
<1>1. Handled(d)' = Handled(d) /\ Present(d)' = Present(d) /\ (WorkedOn(d)' => WorkedOn(d))
  BY DEF Handled, Present, WorkedOn, AtWork
<1>2. ~Doomed(d)
  BY <1>1 DEF Doomed
<1>3. Coherent(d)
  BY <1>2 DEF Sound
<1>4. ASSUME NEW w \in Workers, loop'[w].doc = d PROVE FrameSays(d, w)'
  <2>1. loop'[w] = loop[w] /\ FrameSays(d, w) /\ FrameHeld(w) /\ loop[w].doc = d
    BY <1>3, <1>4 DEF Coherent, LoopsHeld
  <2>2. loop[w].at = "index" => jobs'[loop[w].job] = jobs[loop[w].job]
    BY <2>1 DEF FrameHeld
  <2> QED BY <1>1, <2>1, <2>2 DEF FrameSays
<1>5. ASSUME NEW j \in Jobs, AtWork(j, d)' PROVE JobSays(d, j)'
  <2>1. JobSays(d, j) /\ jobs'[j] = jobs[j]
    BY <1>3, <1>5 DEF Coherent
  <2>2. Own(d, jobs[j].content, jobs[j].stored)' = Own(d, jobs[j].content, jobs[j].stored)
    BY <2>1 DEF Own
  <2>3. StatusAt(jobs[j].pc)' = StatusAt(jobs[j].pc)
    BY <2>1 DEF StatusAt
  <2> QED BY <1>1, <2>1, <2>2, <2>3 DEF JobSays
<1>6. documents'[d].status = "ready" /\ ~Handled(d)' => Own(d, documents[d].content, documents[d].count)'
  BY <1>1, <1>3 DEF Coherent, Own
<1>7. /\ \A j, i \in Jobs : AtWork(j, d)' /\ AtWork(i, d)' => i = j
      /\ \A w, v \in Workers : loop'[w].doc = d /\ loop'[v].doc = d => v = w
  BY <1>3 DEF Coherent
<1> QED BY <1>4, <1>5, <1>6, <1>7 DEF Coherent

\* A step about the document t at most.
AboutOnly(t) ==
    /\ mixed \subseteq mixed'
    /\ \A d \in Documents \ {t} :
          documents'[d] = documents[d] /\ deletion'[d] = deletion[d] /\ ChunksOf(d)' = ChunksOf(d)
    /\ \A w \in Workers : \/ loop'[w] = loop[w]
                          \/ loop[w].doc \in {0, t} /\ loop'[w].doc \in {0, t}
    /\ \A j \in Jobs : jobs'[j] = jobs[j] \/ ((~Alive(j) \/ jobs[j].doc = t) /\ jobs'[j].doc = t)

\* What a step about t leaves alone stays sound.
LEMMA OthersSound ==
    ASSUME IngestionTyped, LoopsHeld, \A d \in Documents : Sound(d), NEW t, AboutOnly(t)
    PROVE  \A d \in Documents : d # t => Sound(d)'
<1> TAKE d \in Documents
<1> HAVE d # t
<1>1. d # 0
  BY DEF Documents
<1>2. documents'[d] = documents[d] /\ deletion'[d] = deletion[d] /\ ChunksOf(d)' = ChunksOf(d) /\ mixed \subseteq mixed'
  BY DEF AboutOnly
<1>3. \A w \in Workers : loop[w].doc = d \/ loop'[w].doc = d => loop'[w] = loop[w]
  BY <1>1 DEF AboutOnly
<1>4. \A j \in Jobs : AtWork(j, d)' => AtWork(j, d) /\ jobs'[j] = jobs[j]
  BY DEF AboutOnly, AtWork, Alive
<1>5. ASSUME NEW w \in Workers, loop[w].doc = d, loop[w].job # 0 PROVE jobs'[loop[w].job] = jobs[loop[w].job]
  <2>1. loop[w].job \in Jobs /\ jobs[loop[w].job].pc = "storing" /\ jobs[loop[w].job].doc = d
    BY <1>5, HeldTypes DEF LoopsHeld, FrameHeld
  <2> QED BY <2>1 DEF AboutOnly, Alive
<1> QED BY <1>2, <1>3, <1>4, <1>5, Untouched

\* The other documents are as before, t is made sure of.
LEMMA SoundStep ==
    ASSUME IngestionTyped, LoopsHeld, \A d \in Documents : Sound(d), NEW t, AboutOnly(t),
           t \in Documents => Sound(t)'
    PROVE  \A d \in Documents : Sound(d)'
BY OthersSound

\* A step that writes nothing about d keeps it as it was.
LEMMA KeptSound ==
    ASSUME IngestionTyped, LoopsHeld, NEW d \in Documents, Sound(d), documents' = documents, chunks' = chunks,
           jobs' = jobs, loop' = loop, mixed \subseteq mixed',
           deletion[d] = "record" => deletion'[d] = "record" \/ d \in mixed'
    PROVE  Sound(d)'
<1>1. ChunksOf(d)' = ChunksOf(d)
  BY DEF ChunksOf
<1>2. \A j \in Jobs : AtWork(j, d)' => AtWork(j, d) /\ jobs'[j] = jobs[j]
  BY DEF AtWork, Alive
<1> QED BY <1>1, <1>2, Untouched

\* Distinct labels count as many as what they label.
LEMMA Labelled ==
    ASSUME NEW S, IsFiniteSet(S), NEW T, NEW f \in [S -> T], \A m, n \in S : f[m] = f[n] => m = n
    PROVE  Cardinality({f[n] : n \in S}) = Cardinality(S)
<1>1. f \in Bijection(S, {f[n] : n \in S})
  BY DEF Bijection, Injection, Surjection, IsInjective
<1> QED BY <1>1, FS_Bijection DEF ExistsBijection

\* Without chunks, zero is the right count.
LEMMA NoChunks == \A d, c : ChunksOf(d) = {} => Own(d, c, 0)
BY FS_EmptySet DEF Own

DocumentOnly(t) == documents' = documents \/ \E s, c, n : DocumentBecomes(t, s, c, n)
FrameOnly(t) ==
    \/ loop' = loop
    \/ \E w \in Workers : /\ loop[w].doc \in {0, t}
                        /\ \E a, c, i : FrameBecomes(w, a, 0, c, i) \/ FrameBecomes(w, a, t, c, i)
JobOnly(t) ==
    \/ jobs' = jobs
    \/ \E j \in Jobs : (~Alive(j) \/ jobs[j].doc = t) /\ \E pc, c, n, v : JobBecomes(j, pc, t, c, n, v)

\* The ways a step can be about t at most.
LEMMA About ==
    ASSUME NEW t, mixed \subseteq mixed', DocumentOnly(t), FrameOnly(t), JobOnly(t),
           \A d \in Documents \ {t} : deletion'[d] = deletion[d],
           chunks' = chunks \/ chunks' = WithoutChunks(t)
               \/ (chunks \subseteq chunks' /\ \A k \in chunks' \ chunks : k.doc = t)
    PROVE  AboutOnly(t)
<1>1. \A d \in Documents \ {t} : documents'[d] = documents[d]
  BY DEF DocumentOnly, DocumentBecomes
<1>2. \A d \in Documents \ {t} : ChunksOf(d)' = ChunksOf(d)
  BY DEF ChunksOf, WithoutChunks
<1>3. \A w \in Workers : loop'[w] = loop[w] \/ (loop[w].doc \in {0, t} /\ loop'[w].doc \in {0, t})
  <2>1. CASE loop' = loop
    BY <2>1
  <2>2. CASE \E v \in Workers : /\ loop[v].doc \in {0, t}
                                /\ \E a, c, i : FrameBecomes(v, a, 0, c, i) \/ FrameBecomes(v, a, t, c, i)
    <3>1. PICK v \in Workers : /\ loop[v].doc \in {0, t}
                               /\ \E a, c, i : FrameBecomes(v, a, 0, c, i) \/ FrameBecomes(v, a, t, c, i)
      BY <2>2
    <3>2. loop'[v].doc \in {0, t} /\ \A w \in Workers : w # v => loop'[w] = loop[w]
      BY <3>1 DEF FrameBecomes
    <3> QED BY <3>1, <3>2
  <2> QED BY <2>1, <2>2 DEF FrameOnly
<1>4. \A j \in Jobs : jobs'[j] = jobs[j] \/ ((~Alive(j) \/ jobs[j].doc = t) /\ jobs'[j].doc = t)
  <2>1. CASE jobs' = jobs
    BY <2>1
  <2>2. CASE \E j \in Jobs : (~Alive(j) \/ jobs[j].doc = t) /\ \E pc, c, n, v : JobBecomes(j, pc, t, c, n, v)
    <3>1. PICK j \in Jobs : (~Alive(j) \/ jobs[j].doc = t) /\ \E pc, c, n, v : JobBecomes(j, pc, t, c, n, v)
      BY <2>2
    <3>2. jobs'[j].doc = t /\ \A i \in Jobs : i # j => jobs'[i] = jobs[i]
      BY <3>1 DEF JobBecomes
    <3> QED BY <3>1, <3>2
  <2> QED BY <2>1, <2>2 DEF JobOnly
<1> QED BY <1>1, <1>2, <1>3, <1>4 DEF AboutOnly

\* A request, as long as it holds its loop.
LEMMA SoundRequests ==
    ASSUME IngestionTyped, LoopsHeld, LoopsHeld', UnusedIsFresh, \A d \in Documents : Sound(d), NEW w \in Workers
    PROVE  /\ \A c \in Contents : BeginUpload(w, c) => \A e \in Documents : Sound(e)'
           /\ \A c \in Contents, d \in Documents : BeginReplace(w, d, c) => \A e \in Documents : Sound(e)'
           /\ DropChunks(w) \/ DropRecord(w) => \A e \in Documents : Sound(e)'
<1>a. loop[w].at = "free" => loop[w].doc = 0
  BY DEF LoopsHeld, FrameHeld
<1>b. 0 \notin Documents
  BY HeldTypes
<1>1. ASSUME NEW c \in Contents, BeginUpload(w, c) PROVE \A e \in Documents : Sound(e)'
  <2>1. /\ loop[w].doc = 0 /\ documents' = documents /\ chunks' = chunks /\ jobs' = jobs
        /\ deletion' = deletion
    BY <1>1, <1>a, UploadEffect
  <2>2. CASE FrameBecomes(w, "create", 0, c, 0) /\ mixed' = mixed
    <3>1. AboutOnly(0)
      BY <2>1, <2>2, About DEF DocumentOnly, FrameOnly, JobOnly
    <3> QED BY <1>b, <3>1, SoundStep
  <2>3. CASE \E d \in Named(c) :
                /\ documents[d].status = "failed" /\ FrameBecomes(w, "dropChunks", d, c, 0)
                /\ mixed' = IF WorkedOn(d) \/ Handled(d) \/ deletion[d] # "none" THEN mixed \cup {d} ELSE mixed
    <3>1. PICK d \in Named(c) :
                /\ documents[d].status = "failed" /\ FrameBecomes(w, "dropChunks", d, c, 0)
                /\ mixed' = IF WorkedOn(d) \/ Handled(d) \/ deletion[d] # "none" THEN mixed \cup {d} ELSE mixed
      BY <2>3
    <3>2. AboutOnly(d)
      <4>1. mixed \subseteq mixed'
        BY <3>1
      <4> QED BY <2>1, <3>1, <4>1, About DEF DocumentOnly, FrameOnly, JobOnly
    <3>3. ASSUME ~Doomed(d)' PROVE Coherent(d)'
      <4>1. ~WorkedOn(d) /\ ~Handled(d) /\ d \in Documents
        BY <3>1, <3>3 DEF Doomed, Named
      <4>2. ~WorkedOn(d)' /\ \A i \in Jobs : ~AtWork(i, d)'
        BY <2>1, <4>1 DEF WorkedOn, AtWork, Alive
      <4>3. \A v \in Workers : loop'[v].doc = d => v = w
        BY <3>1, <4>1 DEF Handled, FrameBecomes
      <4>4. FrameSays(d, w)'
        BY <2>1, <3>1, <4>2 DEF FrameSays, FrameBecomes
      <4>5. documents'[d].status # "ready"
        BY <2>1, <3>1
      <4> QED BY <4>2, <4>3, <4>4, <4>5 DEF Coherent
    <3> QED BY <3>2, <3>3, SoundStep DEF Sound
  <2> QED BY <1>1, <2>2, <2>3, UploadEffect
<1>2. ASSUME NEW c \in Contents, NEW d \in Documents, BeginReplace(w, d, c) PROVE \A e \in Documents : Sound(e)'
  <2>1. /\ loop[w].doc = 0 /\ documents' = documents /\ jobs' = jobs /\ deletion' = deletion
        /\ chunks' = WithoutChunks(d) /\ FrameBecomes(w, "rename", d, c, 0)
        /\ mixed' = IF WorkedOn(d) \/ Handled(d) \/ deletion[d] # "none" THEN mixed \cup {d} ELSE mixed
    BY <1>2, <1>a, ReplaceEffect
  <2>2. AboutOnly(d)
    <3>1. mixed \subseteq mixed'
      BY <2>1
    <3> QED BY <2>1, <3>1, About DEF DocumentOnly, FrameOnly, JobOnly
  <2>3. Sound(d)'
    <3> SUFFICES ASSUME ~Doomed(d)' PROVE Coherent(d)'
      BY DEF Sound
    <3>1. ~WorkedOn(d) /\ ~Handled(d)
      BY <2>1 DEF Doomed
    <3>2. ChunksOf(d)' = {} /\ ~WorkedOn(d)'
      BY <2>1, <3>1 DEF ChunksOf, WithoutChunks, WorkedOn, Alive
    <3>3. \A v \in Workers : loop'[v].doc = d => v = w
      BY <2>1, <3>1 DEF Handled, FrameBecomes
    <3>4. loop'[w].doc = d /\ loop'[w].at = "rename"
      BY <2>1 DEF FrameBecomes
    <3>5. FrameSays(d, w)'
      BY <3>2, <3>4 DEF FrameSays
    <3>6. Handled(d)' /\ \A j \in Jobs : ~AtWork(j, d)'
      BY <3>2, <3>4 DEF Handled, WorkedOn, AtWork
    <3> QED BY <3>3, <3>5, <3>6 DEF Coherent
  <2> QED BY <2>2, <2>3, SoundStep
<1>3. ASSUME DropChunks(w) \/ DropRecord(w) PROVE \A e \in Documents : Sound(e)'
  <2>1. PICK d \in Documents : d = loop[w].doc /\ jobs' = jobs /\ deletion' = deletion /\ mixed' = mixed
    BY <1>3, DropEffect
  <2>2. loop[w].at \in {"dropChunks", "dropRecord"}
    BY <1>3, DropEffect
  <2>3. ASSUME ~Doomed(d)
        PROVE  /\ documents[d].status = "failed" /\ ~WorkedOn(d) /\ \A i \in Jobs : ~AtWork(i, d)
               /\ \A v \in Workers : loop[v].doc = d => v = w
    BY <2>1, <2>2, <2>3 DEF Sound, Coherent, FrameSays, WorkedOn, AtWork
  <2>4. CASE /\ FrameBecomes(w, "dropRecord", d, loop[w].content, loop[w].job)
             /\ chunks' = WithoutChunks(d) /\ documents' = documents
    <3>1. AboutOnly(d)
      BY <2>1, <2>4, About DEF DocumentOnly, FrameOnly, JobOnly
    <3>2. ASSUME ~Doomed(d)' PROVE Coherent(d)'
      <4>1. ~Doomed(d)
        BY <2>1, <2>4, <3>2 DEF Doomed, Present
      <4>2. ~WorkedOn(d)' /\ (\A i \in Jobs : ~AtWork(i, d)') /\ documents'[d].status = "failed"
        BY <2>1, <2>3, <2>4, <4>1 DEF WorkedOn, AtWork, Alive
      <4>3. \A v \in Workers : loop'[v].doc = d => v = w
        BY <2>3, <2>4, <4>1 DEF FrameBecomes
      <4>4. FrameSays(d, w)'
        BY <2>4, <4>2 DEF FrameSays, FrameBecomes
      <4> QED BY <4>2, <4>3, <4>4 DEF Coherent
    <3> QED BY <3>1, <3>2, SoundStep DEF Sound
  <2>5. CASE /\ FrameBecomes(w, "create", 0, loop[w].content, loop[w].job) /\ chunks' = chunks
             /\ DocumentBecomes(d, "gone", documents[d].content, documents[d].count)
    <3>1. AboutOnly(d)
      BY <2>1, <2>5, About DEF DocumentOnly, FrameOnly, JobOnly
    <3>2. Sound(d)'
      BY <2>5 DEF Sound, Doomed, Present, Statuses, InProgress, DocumentBecomes
    <3> QED BY <3>1, <3>2, SoundStep
  <2>6. CASE /\ FrameBecomes(w, "create", 0, loop[w].content, loop[w].job) /\ chunks' = chunks
             /\ documents' = documents
    <3>1. AboutOnly(d)
      BY <2>1, <2>6, About DEF DocumentOnly, FrameOnly, JobOnly
    <3>2. ASSUME ~Doomed(d)' PROVE Coherent(d)'
      <4>1. ~Doomed(d)
        BY <2>1, <2>6, <3>2 DEF Doomed, Present
      <4>2. (\A i \in Jobs : ~AtWork(i, d)') /\ documents'[d].status # "ready"
        BY <2>1, <2>3, <2>6, <4>1 DEF AtWork, Alive
      <4>3. \A v \in Workers : loop'[v].doc # d
        BY <1>b, <2>3, <2>6, <4>1 DEF FrameBecomes
      <4> QED BY <4>2, <4>3 DEF Coherent
    <3> QED BY <3>1, <3>2, SoundStep DEF Sound
  <2> QED BY <1>3, <2>1, <2>4, <2>5, <2>6, DropEffect
<1> QED BY <1>1, <1>2, <1>3

\* A coroutine has been scheduled for d, which nobody else is at work on and
\* which has no chunks.
LEMMA SoundQueue ==
    ASSUME NEW w \in Workers, NEW d \in Documents, NEW c, FrameBecomes(w, "free", 0, "", 0), Queues(w, d, c),
           0 \notin Documents, \A v \in Workers : loop[v].doc = d => v = w, \A i \in Jobs : ~AtWork(i, d),
           chunks' = chunks, ChunksOf(d) = {}, DocumentBecomes(d, "uploading", c, 0)
    PROVE  Coherent(d)'
<1>1. PICK j \in Jobs : jobs[j].pc = "none" /\ JobBecomes(j, "queued", d, c, 0, w)
  BY DEF Queues
<1>2. \A v \in Workers : loop'[v].doc # d
  BY DEF FrameBecomes
<1>3. \A i \in Jobs : AtWork(i, d)' => i = j
  BY <1>1 DEF JobBecomes, AtWork, Alive
<1>4. ~Handled(d)' /\ ChunksOf(d)' = {}
  BY <1>2 DEF Handled, ChunksOf
<1>5. JobSays(d, j)'
  BY <1>1, <1>4 DEF JobSays, StatusAt, DocumentBecomes, JobBecomes
<1>6. documents'[d].status # "ready"
  BY DEF DocumentBecomes
<1> QED BY <1>2, <1>3, <1>5, <1>6 DEF Coherent

\* The steps that schedule the processing of a document.
LEMMA SoundReplaced ==
    ASSUME IngestionTyped, LoopsHeld, LoopsHeld', UnusedIsFresh, \A d \in Documents : Sound(d), NEW w \in Workers,
           CreateDocument(w) \/ Rename(w) \/ Restart(w) \/ RequestRaises(w)
    PROVE  \A e \in Documents : Sound(e)'
<1>b. 0 \notin Documents
  BY HeldTypes
<1>1. ASSUME CreateDocument(w) PROVE \A e \in Documents : Sound(e)'
  <2>1. PICK d \in Documents : /\ documents[d].status = "unused"
                               /\ DocumentBecomes(d, "uploading", loop[w].content, 0)
                               /\ Queues(w, d, loop[w].content)
    BY <1>1, CreateEffect
  <2>2. /\ loop[w].at = "create" /\ chunks' = chunks /\ deletion' = deletion /\ mixed' = mixed
        /\ FrameBecomes(w, "free", 0, "", 0)
    BY <1>1, CreateEffect
  <2>3. loop[w].doc = 0
    BY <2>2 DEF LoopsHeld, FrameHeld
  <2>4. JobOnly(d)
    BY <2>1 DEF JobOnly, Queues, Alive
  <2>5. AboutOnly(d)
    BY <2>1, <2>2, <2>3, <2>4, About DEF DocumentOnly, FrameOnly
  <2>6. \A v \in Workers : loop[v].doc # d
    BY <1>b, <2>1 DEF LoopsHeld, FrameHeld
  <2>7. \A i \in Jobs : ~AtWork(i, d)
    BY <2>1 DEF LoopsHeld, JobHeld, AtWork
  <2>8. ChunksOf(d) = {}
    BY <2>1 DEF UnusedIsFresh
  <2>9. Coherent(d)'
    BY <1>b, <2>1, <2>2, <2>6, <2>7, <2>8, SoundQueue
  <2> QED BY <2>5, <2>9, SoundStep DEF Sound
<1>4. ASSUME RequestRaises(w) PROVE \A e \in Documents : Sound(e)'
  <2>1. /\ loop[w].at \in {"dropChunks", "create", "rename", "restart"} /\ FrameBecomes(w, "free", 0, "", 0)
        /\ documents' = documents /\ chunks' = chunks /\ jobs' = jobs /\ deletion' = deletion
        /\ mixed' = IF loop[w].at = "rename" THEN mixed \cup {loop[w].doc} ELSE mixed
    BY <1>4, RaisesEffect
  <2>2. mixed \subseteq mixed'
    BY <2>1
  <2>3. PICK d \in Documents \cup {0} : d = loop[w].doc
    BY HeldTypes
  <2>4. AboutOnly(d)
    BY <2>1, <2>2, <2>3, About DEF DocumentOnly, FrameOnly, JobOnly
  <2>5. ASSUME d \in Documents, ~Doomed(d)' PROVE Coherent(d)'
    <3>1. ~Doomed(d) /\ loop[w].at # "rename" /\ loop[w].at # "create"
      BY <1>b, <2>1, <2>2, <2>3, <2>5 DEF Doomed, Present, LoopsHeld, FrameHeld
    <3>2. /\ ~WorkedOn(d) /\ \A v \in Workers : loop[v].doc = d => v = w
          /\ loop[w].at = "dropChunks" => documents[d].status = "failed"
          /\ loop[w].at = "restart" => ChunksOf(d) = {} /\ documents[d].count = 0
      BY <2>1, <2>3, <2>5, <3>1 DEF Sound, Coherent, FrameSays
    <3>3. \A i \in Jobs : ~AtWork(i, d)'
      BY <2>1, <3>2 DEF WorkedOn, AtWork, Alive
    <3>4. \A v \in Workers : loop'[v].doc # d
      BY <1>b, <2>1, <2>5, <3>2 DEF FrameBecomes
    <3>5. documents[d].status = "ready" => Own(d, documents[d].content, documents[d].count)
      BY <2>1, <3>1, <3>2, NoChunks
    <3>6. documents'[d].status = "ready" => Own(d, documents[d].content, documents[d].count)'
      BY <2>1, <3>5 DEF Own, ChunksOf
    <3> QED BY <3>3, <3>4, <3>6 DEF Coherent
  <2> QED BY <2>4, <2>5, SoundStep DEF Sound
<1>2. ASSUME Rename(w) PROVE \A e \in Documents : Sound(e)'
  <2>1. PICK d \in Documents : d = loop[w].doc /\ loop[w].at = "rename"
    BY <1>2, RenameEffect
  <2>2. chunks' = chunks /\ jobs' = jobs /\ deletion' = deletion /\ mixed' = mixed
    BY <1>2, RenameEffect
  <2>3. CASE /\ Present(d) /\ FrameBecomes(w, "restart", d, loop[w].content, loop[w].job)
             /\ DocumentBecomes(d, documents[d].status, loop[w].content, 0)
    <3>1. AboutOnly(d)
      BY <2>1, <2>2, <2>3, About DEF DocumentOnly, FrameOnly, JobOnly
    <3>2. ASSUME ~Doomed(d)' PROVE Coherent(d)'
      <4>1. ~Doomed(d)
        BY <2>1, <2>2, <2>3, <3>2 DEF Doomed, Present, FrameBecomes
      <4>2. Coherent(d)
        BY <4>1 DEF Sound
      <4>3. FrameSays(d, w) /\ \A v \in Workers : loop[v].doc = d => v = w
        BY <2>1, <4>2 DEF Coherent
      <4>4. ~WorkedOn(d) /\ ChunksOf(d) = {}
        BY <2>1, <4>3 DEF FrameSays
      <4>5. ~WorkedOn(d)' /\ ChunksOf(d)' = {}
        BY <2>2, <4>4 DEF WorkedOn, Alive, ChunksOf
      <4>6. \A v \in Workers : loop'[v].doc = d => v = w
        BY <2>3, <4>3 DEF FrameBecomes
      <4>7. FrameSays(d, w)'
        BY <2>3, <4>5 DEF FrameSays, FrameBecomes, DocumentBecomes
      <4>8. Handled(d)' /\ \A i \in Jobs : ~AtWork(i, d)'
        BY <2>3, <4>5 DEF Handled, WorkedOn, AtWork, FrameBecomes
      <4> QED BY <4>6, <4>7, <4>8 DEF Coherent
    <3> QED BY <3>1, <3>2, SoundStep DEF Sound
  <2>4. CASE ~Present(d) /\ FrameBecomes(w, "free", 0, "", 0) /\ documents' = documents
    <3>1. AboutOnly(d)
      BY <2>1, <2>2, <2>4, About DEF DocumentOnly, FrameOnly, JobOnly
    <3>2. Sound(d)'
      BY <2>4 DEF Sound, Doomed, Present
    <3> QED BY <3>1, <3>2, SoundStep
  <2> QED BY <1>2, <2>1, <2>3, <2>4, RenameEffect
<1>3. ASSUME Restart(w) PROVE \A e \in Documents : Sound(e)'
  <2>1. PICK d \in Documents : d = loop[w].doc /\ loop[w].at = "restart"
    BY <1>3, RestartEffect
  <2>2. chunks' = chunks /\ deletion' = deletion /\ mixed' = mixed /\ FrameBecomes(w, "free", 0, "", 0)
    BY <1>3, RestartEffect
  <2>3. ASSUME ~Doomed(d) PROVE
           /\ ~WorkedOn(d) /\ ChunksOf(d) = {} /\ documents[d].content = loop[w].content /\ documents[d].count = 0
           /\ \A v \in Workers : loop[v].doc = d => v = w
    BY <2>1, <2>3 DEF Sound, Coherent, FrameSays
  <2>4. ASSUME Present(d), ~Doomed(d)' PROVE ~Doomed(d)
    BY <2>1, <2>2, <2>4 DEF Doomed, Present, FrameBecomes
  <2>5. CASE /\ Present(d) /\ Queues(w, d, loop[w].content)
             /\ DocumentBecomes(d, "uploading", documents[d].content, documents[d].count)
    <3>1. JobOnly(d)
      BY <2>5 DEF JobOnly, Queues, Alive
    <3>2. AboutOnly(d)
      BY <2>1, <2>2, <2>5, <3>1, About DEF DocumentOnly, FrameOnly
    <3>3. ASSUME ~Doomed(d)' PROVE Coherent(d)'
      <4>1. /\ ~WorkedOn(d) /\ ChunksOf(d) = {} /\ documents[d].content = loop[w].content /\ documents[d].count = 0
            /\ \A v \in Workers : loop[v].doc = d => v = w
        BY <2>3, <2>4, <2>5, <3>3
      <4>2. \A i \in Jobs : ~AtWork(i, d)
        BY <4>1 DEF WorkedOn, AtWork
      <4>3. DocumentBecomes(d, "uploading", loop[w].content, 0)
        BY <2>5, <4>1
      <4> QED BY <1>b, <2>2, <2>5, <4>1, <4>2, <4>3, SoundQueue
    <3> QED BY <3>2, <3>3, SoundStep DEF Sound
  <2>6. CASE documents' = documents /\ jobs' = jobs
    <3>1. AboutOnly(d)
      BY <2>1, <2>2, <2>6, About DEF DocumentOnly, FrameOnly, JobOnly
    <3>2. ASSUME ~Doomed(d)' PROVE Coherent(d)'
      <4>1. Present(d)
        BY <2>6, <3>2 DEF Doomed, Present
      <4>2. /\ ~WorkedOn(d) /\ ChunksOf(d) = {} /\ documents[d].count = 0
            /\ \A v \in Workers : loop[v].doc = d => v = w
        BY <2>3, <2>4, <3>2, <4>1
      <4>3. \A i \in Jobs : ~AtWork(i, d)'
        BY <2>6, <4>2 DEF WorkedOn, AtWork, Alive
      <4>4. \A v \in Workers : loop'[v].doc # d
        BY <1>b, <2>2, <4>2 DEF FrameBecomes
      <4>5. Own(d, documents[d].content, documents[d].count)
        BY <4>2, NoChunks
      <4>6. Own(d, documents[d].content, documents[d].count)'
        BY <2>2, <2>6, <4>5 DEF Own, ChunksOf
      <4> QED BY <4>3, <4>4, <4>6 DEF Coherent
    <3> QED BY <3>1, <3>2, SoundStep DEF Sound
  <2> QED BY <1>3, <2>1, <2>5, <2>6, RestartEffect
<1> QED BY <1>1, <1>2, <1>3, <1>4

\* A step of the coroutine j: it alone is at work on its document, before and
\* after, and a request in the middle of it would have been noticed.
LEMMA SoundCoroutine ==
    ASSUME IngestionTyped, LoopsHeld, NEW j \in Jobs, Alive(j), NEW d \in Documents, d = jobs[j].doc, Sound(d),
           Present(d), deletion' = deletion, mixed' = mixed, ~Doomed(d)',
           \E pc, c, n, v : JobBecomes(j, pc, d, c, n, v) \/ jobs' = jobs
    PROVE  /\ Coherent(d) /\ AtWork(j, d) /\ JobSays(d, j)
           /\ \A i \in Jobs : AtWork(i, d) \/ AtWork(i, d)' => i = j
<1>3. Coherent(d)
  BY DEF Sound, Doomed
<1>4. \A i \in Jobs : i # j => jobs'[i] = jobs[i]
  BY DEF JobBecomes
<1>5. AtWork(j, d) /\ JobSays(d, j) /\ \A i \in Jobs : AtWork(i, d) => i = j
  BY <1>3 DEF Coherent, AtWork
<1>6. \A i \in Jobs : AtWork(i, d)' => i = j
  BY <1>4, <1>5 DEF AtWork, Alive
<1> QED BY <1>3, <1>5, <1>6

\* Each step of a coroutine.
LEMMA SoundProcess ==
    ASSUME IngestionTyped, LoopsHeld, \A d \in Documents : Sound(d), NEW j \in Jobs, Process(j)
    PROVE  \A e \in Documents : Sound(e)'
<1>1. Alive(j)
  BY ParseEffect, ChunkEffect, StoreEffect, CountEffect, FinishEffect DEF Process
<1>2. PICK d \in Documents, w \in Workers : d = jobs[j].doc /\ w = jobs[j].at
  BY <1>1, JobPlaces
<1>3. 0 \notin Documents /\ j # 0
  BY HeldTypes
<1>4. ~Present(d) /\ documents' = documents => ~Present(d)'
  BY DEF Present
<1>5. jobs[j].pc = "storing" => loop[w].job = j /\ loop[w].doc = d
  BY <1>2, <1>3 DEF LoopsHeld, JobHeld, FrameHeld
<1>6. loop[w].at = "free" => loop[w].doc = 0
  BY DEF LoopsHeld, FrameHeld
<1>7. ASSUME Fails(j) PROVE \A e \in Documents : Sound(e)'
  <2>1. JobEnds(j) /\ chunks' = chunks /\ deletion' = deletion /\ mixed' = mixed
    BY <1>1, <1>7, FailsEffect
  <2>2. \/ Present(d) /\ DocumentBecomes(d, "failed", documents[d].content, documents[d].count)
        \/ documents' = documents
    BY <1>1, <1>2, <1>7, FailsEffect
  <2>3. \/ jobs[j].pc = "storing" /\ FrameBecomes(w, "free", 0, "", 0)
        \/ jobs[j].pc # "storing" /\ loop' = loop
    BY <1>1, <1>2, <1>7, FailsEffect
  <2>4. JobOnly(d) /\ FrameOnly(d) /\ DocumentOnly(d)
    <3>1. JobOnly(d)
      BY <1>2, <2>1 DEF JobEnds, JobOnly
    <3>2. FrameOnly(d)
      BY <1>5, <2>3 DEF FrameOnly
    <3>3. DocumentOnly(d)
      BY <2>2 DEF DocumentOnly
    <3> QED BY <3>1, <3>2, <3>3
  <2>5. AboutOnly(d)
    BY <2>1, <2>4, About
  <2>6. ASSUME Present(d), ~Doomed(d)' PROVE Coherent(d)'
    <3>a. \E pc, c, n, v : JobBecomes(j, pc, d, c, n, v) \/ jobs' = jobs
      BY <1>2, <2>1 DEF JobEnds
    <3>1. /\ Coherent(d) /\ JobSays(d, j)
          /\ \A i \in Jobs : AtWork(i, d) \/ AtWork(i, d)' => i = j
      BY <1>1, <1>2, <2>1, <2>6, <3>a, SoundCoroutine
    <3>2. \A i \in Jobs : ~AtWork(i, d)'
      BY <2>1, <3>1 DEF JobEnds, JobBecomes, AtWork, Alive
    <3>3. \A v \in Workers : loop'[v].doc # d
      <4>1. CASE jobs[j].pc = "storing" /\ FrameBecomes(w, "free", 0, "", 0)
        BY <1>3, <1>5, <3>1, <4>1 DEF Coherent, FrameBecomes
      <4>2. CASE jobs[j].pc # "storing" /\ loop' = loop
        BY <3>1, <4>2 DEF JobSays, Handled
      <4> QED BY <2>3, <4>1, <4>2
    <3>4. documents'[d].status # "ready"
      BY <2>2, <3>1 DEF DocumentBecomes, JobSays, StatusAt
    <3> QED BY <3>2, <3>3, <3>4 DEF Coherent
  <2>7. Sound(d)'
    BY <1>4, <2>2, <2>6 DEF Sound, Doomed, Present
  <2> QED BY <2>5, <2>7, SoundStep
<1>8. ASSUME NEW pc \in {"parsing", "embedding"}, ~Fails(j), jobs[j].pc \in {"queued", "parsing"}, Present(d),
             chunks' = chunks, loop' = loop, deletion' = deletion, mixed' = mixed,
             DocumentBecomes(d, pc, documents[d].content, documents[d].count),
             JobBecomes(j, pc, d, jobs[j].content, jobs[j].stored, w)
      PROVE  \A e \in Documents : Sound(e)'
  <2>1. AboutOnly(d)
    <3>1. JobOnly(d)
      BY <1>2, <1>8 DEF JobOnly
    <3> QED BY <1>8, <3>1, About DEF DocumentOnly, FrameOnly
  <2>2. ASSUME ~Doomed(d)' PROVE Coherent(d)'
    <3>1. /\ Coherent(d) /\ JobSays(d, j)
          /\ \A i \in Jobs : AtWork(i, d) \/ AtWork(i, d)' => i = j
      BY <1>1, <1>2, <1>8, <2>2, SoundCoroutine
    <3>2. ~Handled(d) /\ ChunksOf(d) = {} /\ documents[d].count = 0 /\ documents[d].content = jobs[j].content
      BY <1>8, <3>1 DEF JobSays
    <3>3. ~Handled(d)' /\ ChunksOf(d)' = {}
      BY <1>8, <3>2 DEF Handled, ChunksOf
    <3>4. JobSays(d, j)'
      BY <1>8, <3>2, <3>3 DEF JobSays, StatusAt, DocumentBecomes, JobBecomes
    <3>5. documents'[d].status # "ready"
      BY <1>8 DEF DocumentBecomes
    <3> QED BY <3>1, <3>3, <3>4, <3>5 DEF Coherent, Handled
  <2> QED BY <2>1, <2>2, SoundStep DEF Sound
<1>9. ASSUME BeginParse(j) PROVE \A e \in Documents : Sound(e)'
  <2>1. CASE ~Fails(j)
    <3>1. /\ jobs[j].pc = "queued" /\ Present(d)
          /\ DocumentBecomes(d, "parsing", documents[d].content, documents[d].count)
          /\ JobBecomes(j, "parsing", d, jobs[j].content, jobs[j].stored, w)
          /\ chunks' = chunks /\ loop' = loop /\ deletion' = deletion /\ mixed' = mixed
      BY <1>2, <1>9, <2>1, ParseEffect
    <3> QED BY <1>8, <2>1, <3>1
  <2> QED BY <1>7, <2>1
<1>10. ASSUME Chunk(j) PROVE \A e \in Documents : Sound(e)'
  <2>1. CASE ~Fails(j)
    <3>1. /\ jobs[j].pc = "parsing" /\ Present(d) /\ chunks' = chunks /\ loop' = loop
          /\ deletion' = deletion /\ mixed' = mixed
      BY <1>2, <1>10, <2>1, ChunkEffect
    <3>2. CASE /\ DocumentBecomes(d, "embedding", documents[d].content, documents[d].count)
               /\ JobBecomes(j, "embedding", d, jobs[j].content, jobs[j].stored, w)
      BY <1>8, <2>1, <3>1, <3>2
    <3>3. CASE DocumentBecomes(d, "ready", documents[d].content, documents[d].count) /\ JobEnds(j)
      <4>1. AboutOnly(d)
        <5>1. JobOnly(d)
          BY <1>2, <3>3 DEF JobOnly, JobEnds
        <5> QED BY <3>1, <3>3, <5>1, About DEF DocumentOnly, FrameOnly
      <4>2. ASSUME ~Doomed(d)' PROVE Coherent(d)'
        <5>1. /\ Coherent(d) /\ JobSays(d, j)
              /\ \A i \in Jobs : AtWork(i, d) \/ AtWork(i, d)' => i = j
          BY <1>1, <1>2, <3>1, <3>3, <4>2, SoundCoroutine DEF JobEnds
        <5>2. ~Handled(d) /\ ChunksOf(d) = {} /\ documents[d].count = 0
          BY <3>1, <5>1 DEF JobSays
        <5>3. \A i \in Jobs : ~AtWork(i, d)'
          BY <3>3, <5>1 DEF JobEnds, JobBecomes, AtWork, Alive
        <5>4. ~Handled(d)' /\ ChunksOf(d)' = {} /\ documents'[d].count = 0
          BY <3>1, <3>3, <5>2 DEF Handled, ChunksOf, DocumentBecomes
        <5>5. Own(d, documents[d].content, documents[d].count)'
          BY <5>4, FS_EmptySet DEF Own
        <5> QED BY <5>3, <5>4, <5>5 DEF Coherent, Handled
      <4> QED BY <4>1, <4>2, SoundStep DEF Sound
    <3> QED BY <1>2, <1>10, <2>1, <3>2, <3>3, ChunkEffect
  <2> QED BY <1>7, <2>1
<1>11. ASSUME Store(j) PROVE \A e \in Documents : Sound(e)'
  <2>1. CASE ~Fails(j)
    <3> DEFINE record(n) == [doc |-> d, content |-> jobs[j].content, part |-> n, by |-> j]
    <3>0. PICK stored \in SUBSET Parts :
             /\ loop[jobs[j].at].at = "free"
             /\ chunks' = chunks \cup {[doc |-> jobs[j].doc, content |-> jobs[j].content, part |-> n, by |-> j] : n \in stored}
             /\ FrameBecomes(jobs[j].at, "count", jobs[j].doc, "", j)
             /\ JobBecomes(j, "storing", jobs[j].doc, jobs[j].content, Cardinality(stored), jobs[j].at)
             /\ documents' = documents /\ deletion' = deletion /\ mixed' = mixed
      BY <1>11, <2>1, StoreEffect
    <3>a. chunks' = chunks \cup {record(n) : n \in stored}
      BY <1>2, <3>0
    <3>b. \A n \in stored : record(n).doc = d /\ record(n).content = jobs[j].content /\ record(n).part = n
      OBVIOUS
    <3> HIDE DEF record
    <3>1. /\ loop[w].at = "free"
          /\ FrameBecomes(w, "count", d, "", j)
          /\ JobBecomes(j, "storing", d, jobs[j].content, Cardinality(stored), w)
          /\ documents' = documents /\ deletion' = deletion /\ mixed' = mixed
      BY <1>2, <3>0
    <3>2. jobs[j].pc = "embedding"
      BY <1>11, StoreEffect
    <3>3. AboutOnly(d)
      <4>1. JobOnly(d) /\ FrameOnly(d)
        BY <1>2, <1>6, <3>1 DEF JobOnly, FrameOnly
      <4>2. chunks \subseteq chunks' /\ \A k \in chunks' \ chunks : k.doc = d
        BY <3>a, <3>b
      <4> QED BY <3>1, <4>1, <4>2, About DEF DocumentOnly
    <3>4. ASSUME ~Doomed(d)' PROVE Coherent(d)'
      <4>1. Present(d)
        BY <3>1, <3>4 DEF Doomed, Present
      <4>2. /\ Coherent(d) /\ JobSays(d, j)
            /\ \A i \in Jobs : AtWork(i, d) \/ AtWork(i, d)' => i = j
        BY <1>1, <1>2, <3>1, <3>4, <4>1, SoundCoroutine
      <4>3. ~Handled(d) /\ ChunksOf(d) = {} /\ documents[d].status = "embedding" /\ documents[d].content = jobs[j].content
        BY <3>2, <4>2 DEF JobSays, StatusAt
      <4>4. ChunksOf(d)' = {record(n) : n \in stored}
        BY <3>a, <3>b, <4>3 DEF ChunksOf
      <4>5. Cardinality({record(n) : n \in stored}) = Cardinality(stored)
        <5> DEFINE f == [n \in stored |-> record(n)]
        <5>1. f \in [stored -> {record(n) : n \in stored}] /\ \A n \in stored : f[n] = record(n)
          OBVIOUS
        <5>2. \A m, n \in stored : f[m] = f[n] => m = n
          BY <3>b
        <5> HIDE DEF f
        <5>3. Cardinality({f[n] : n \in stored}) = Cardinality(stored)
          <6>1. IsFiniteSet(stored)
            BY PartsCounted
          <6> QED BY <5>1, <5>2, <6>1, Labelled
        <5>4. {f[n] : n \in stored} = {record(n) : n \in stored}
          BY <5>1
        <5> QED BY <5>3, <5>4
      <4>6. Own(d, jobs[j].content, jobs[j].stored)'
        <5>1. jobs'[j].content = jobs[j].content /\ jobs'[j].stored = Cardinality(stored)
          BY <3>1 DEF JobBecomes
        <5>2. Cardinality(ChunksOf(d)') = Cardinality(stored) /\ \A k \in ChunksOf(d)' : k.content = jobs[j].content
          BY <3>b, <4>4, <4>5
        <5> QED BY <5>1, <5>2 DEF Own
      <4>7. JobSays(d, j)'
        BY <3>1, <4>3, <4>6 DEF JobSays, StatusAt, JobBecomes
      <4>8. \A v \in Workers : loop'[v].doc = d => v = w
        BY <3>1, <4>3 DEF FrameBecomes, Handled
      <4>9. FrameSays(d, w)'
        BY <3>1 DEF FrameSays, FrameBecomes
      <4>10. documents'[d].status # "ready"
        BY <3>1, <4>3
      <4> QED BY <4>2, <4>7, <4>8, <4>9, <4>10 DEF Coherent
    <3> QED BY <3>3, <3>4, SoundStep DEF Sound
  <2> QED BY <1>7, <2>1
<1>12. ASSUME CountChunks(j) PROVE \A e \in Documents : Sound(e)'
  <2>1. CASE ~Fails(j)
    <3>1. /\ Present(d) /\ jobs' = jobs /\ chunks' = chunks /\ deletion' = deletion /\ mixed' = mixed
          /\ DocumentBecomes(d, documents[d].status, documents[d].content, jobs[j].stored)
          /\ FrameBecomes(w, "index", loop[w].doc, loop[w].content, loop[w].job)
      BY <1>2, <1>12, <2>1, CountEffect
    <3>2. jobs[j].pc = "storing" /\ loop[w].doc = d /\ loop[w].job = j
      BY <1>5, <1>12, CountEffect
    <3>3. AboutOnly(d)
      <4>1. FrameOnly(d)
        BY <3>1, <3>2 DEF FrameOnly
      <4> QED BY <3>1, <4>1, About DEF DocumentOnly, JobOnly
    <3>4. ASSUME ~Doomed(d)' PROVE Coherent(d)'
      <4>1. /\ Coherent(d) /\ JobSays(d, j)
            /\ \A i \in Jobs : AtWork(i, d) \/ AtWork(i, d)' => i = j
        BY <1>1, <1>2, <3>1, <3>2, <3>4, SoundCoroutine
      <4>2. JobSays(d, j)'
        BY <3>1, <3>2, <4>1 DEF JobSays, StatusAt, DocumentBecomes, Own, ChunksOf
      <4>3. \A v \in Workers : loop'[v].doc = d => v = w
        BY <3>1, <3>2, <4>1 DEF FrameBecomes, Coherent
      <4>4. FrameSays(d, w)'
        BY <3>1, <3>2 DEF FrameSays, FrameBecomes, DocumentBecomes
      <4>5. documents'[d].status # "ready"
        BY <3>1, <3>2, <4>1 DEF JobSays, StatusAt, DocumentBecomes
      <4> QED BY <4>1, <4>2, <4>3, <4>4, <4>5 DEF Coherent
    <3> QED BY <3>3, <3>4, SoundStep DEF Sound
  <2> QED BY <1>7, <2>1
<1>13. ASSUME IndexAndFinish(j) PROVE \A e \in Documents : Sound(e)'
  <2>1. CASE ~Fails(j)
    <3>1. /\ Present(d) /\ JobEnds(j) /\ chunks' = chunks /\ deletion' = deletion /\ mixed' = mixed
          /\ DocumentBecomes(d, "ready", documents[d].content, documents[d].count)
          /\ FrameBecomes(w, "free", 0, "", 0)
      BY <1>2, <1>13, <2>1, FinishEffect
    <3>2. jobs[j].pc = "storing" /\ loop[w].doc = d /\ loop[w].job = j /\ loop[w].at = "index"
      BY <1>2, <1>5, <1>13, FinishEffect
    <3>3. AboutOnly(d)
      <4>1. FrameOnly(d) /\ JobOnly(d)
        BY <1>2, <3>1, <3>2 DEF FrameOnly, JobOnly, JobEnds
      <4> QED BY <3>1, <4>1, About DEF DocumentOnly
    <3>4. ASSUME ~Doomed(d)' PROVE Coherent(d)'
      <4>a. \E pc, c, n, v : JobBecomes(j, pc, d, c, n, v) \/ jobs' = jobs
        BY <1>2, <3>1 DEF JobEnds
      <4>1. /\ Coherent(d) /\ JobSays(d, j)
            /\ \A i \in Jobs : AtWork(i, d) \/ AtWork(i, d)' => i = j
        BY <1>1, <1>2, <3>1, <3>4, <4>a, SoundCoroutine
      <4>2. \A i \in Jobs : ~AtWork(i, d)'
        BY <3>1, <4>1 DEF JobEnds, JobBecomes, AtWork, Alive
      <4>3. \A v \in Workers : loop'[v].doc # d
        BY <1>3, <3>1, <3>2, <4>1 DEF Coherent, FrameBecomes
      <4>4. documents[d].count = jobs[j].stored
        BY <3>2, <4>1 DEF Coherent, FrameSays
      <4>5. Own(d, documents[d].content, documents[d].count)'
        BY <3>1, <3>2, <4>1, <4>4 DEF JobSays, Own, ChunksOf, DocumentBecomes
      <4> QED BY <4>2, <4>3, <4>5 DEF Coherent
    <3> QED BY <3>3, <3>4, SoundStep DEF Sound
  <2> QED BY <1>7, <2>1
<1> QED BY <1>9, <1>10, <1>11, <1>12, <1>13 DEF Process

\* Each step of a deletion.
LEMMA SoundDelete ==
    ASSUME IngestionTyped, LoopsHeld, \A d \in Documents : Sound(d), NEW w \in Workers, NEW d \in Documents,
           BeginDelete(w, d) \/ DeleteChunks(d) \/ DeleteRecord(d)
    PROVE  \A e \in Documents : Sound(e)'
<1>1. /\ jobs' = jobs /\ loop' = loop /\ mixed \subseteq mixed'
      /\ \A e \in Documents \ {d} : deletion'[e] = deletion[e]
      /\ chunks' = chunks \/ chunks' = WithoutChunks(d)
  BY DeleteEffect
<1>2. \/ documents' = documents
      \/ DocumentBecomes(d, "gone", documents[d].content, documents[d].count)
  BY DeleteEffect
<1>3. AboutOnly(d)
  BY <1>1, <1>2, About DEF DocumentOnly, FrameOnly, JobOnly
<1>4. CASE documents' = documents /\ deletion[d] # "record" /\ chunks' = chunks
  <2>1. Sound(d)'
    BY <1>1, <1>4, KeptSound
  <2> QED BY <1>3, <2>1, SoundStep
<1>5. CASE documents' = documents /\ (deletion'[d] = "record" \/ d \in mixed')
  <2>1. Sound(d)'
    BY <1>5 DEF Sound, Doomed
  <2> QED BY <1>3, <2>1, SoundStep
<1>6. CASE DocumentBecomes(d, "gone", documents[d].content, documents[d].count)
  <2>1. Sound(d)'
    BY <1>6 DEF Sound, Doomed, DocumentBecomes, Present, Statuses, InProgress
  <2> QED BY <1>3, <2>1, SoundStep
<1> QED BY <1>4, <1>5, <1>6, DeleteEffect

\* A process dies.
LEMMA SoundCrash ==
    ASSUME IngestionTyped, LoopsHeld, \A d \in Documents : Sound(d), NEW w \in Workers, Crash(w)
    PROVE  \A e \in Documents : Sound(e)'
<1> TAKE d \in Documents
<1>1. /\ documents' = documents /\ chunks' = chunks /\ mixed \subseteq mixed' /\ {loop[w].doc} \ {0} \subseteq mixed'
      /\ deletion[d] = "record" => deletion'[d] = "record" \/ d \in mixed'
      /\ FrameBecomes(w, "free", 0, "", 0)
      /\ \A j \in Jobs : (Alive(j) /\ jobs[j].at = w) \/ jobs'[j] = jobs[j]
      /\ \A j \in Jobs : Alive(j) /\ jobs[j].at = w => jobs'[j].pc = "done"
  BY CrashEffect
<1>2. d # 0
  BY HeldTypes
<1>3. CASE loop[w].doc = d
  BY <1>1, <1>2, <1>3 DEF Sound, Doomed
<1>4. CASE loop[w].doc # d
  <2>1. \A v \in Workers : loop[v].doc = d \/ loop'[v].doc = d => loop'[v] = loop[v] /\ v # w
    BY <1>1, <1>2, <1>4 DEF FrameBecomes
  <2>2. \A j \in Jobs : AtWork(j, d)' => AtWork(j, d) /\ jobs'[j] = jobs[j]
    BY <1>1 DEF AtWork, Alive
  <2>3. ASSUME NEW v \in Workers, loop[v].doc = d, loop[v].job # 0 PROVE jobs'[loop[v].job] = jobs[loop[v].job]
    <3>1. loop[v].job \in Jobs /\ jobs[loop[v].job].at = v
      BY <2>3, HeldTypes DEF LoopsHeld, FrameHeld
    <3> QED BY <1>1, <2>1, <2>3, <3>1
  <2>4. /\ documents'[d] = documents[d] /\ mixed \subseteq mixed' /\ ChunksOf(d)' = ChunksOf(d)
        /\ deletion[d] = "record" => deletion'[d] = "record" \/ d \in mixed'
    BY <1>1 DEF ChunksOf
  <2> QED BY <2>1, <2>2, <2>3, <2>4, Untouched
<1> QED BY <1>3, <1>4

-----------------------------------------------------------------------------
(* The invariant.                                                           *)

\* The documents uploaded before are whole.
LEMMA IngestionStarts == IngestionInit => IngestionInv
<1> SUFFICES ASSUME IngestionInit PROVE IngestionInv
  OBVIOUS
<1>1. Seeded \in 0..MaxDocuments /\ MaxDocuments \in Nat /\ MaxJobs \in Nat /\ 0 \in 0..Cardinality(Parts)
      /\ Cardinality(Parts) \in 0..Cardinality(Parts) /\ 0 \notin Documents /\ 0 \notin Jobs
  BY IngestionBounds, PartsCounted DEF Documents, Jobs
<1> DEFINE file == Uploaded
<1>2. file \in [1..Seeded -> Contents] /\ \A d, e \in 1..Seeded : file[d] = file[e] => d = e
  BY IngestionBounds DEF Uploaded
<1>a. /\ documents = [d \in Documents |->
                 IF d <= Seeded
                 THEN [status |-> "ready", content |-> file[d], count |-> Cardinality(Parts)]
                 ELSE [status |-> "unused", content |-> "", count |-> 0]]
      /\ chunks = {k \in [doc : 1..Seeded, content : Contents, part : Parts, by : {0}] : k.content = file[k.doc]}
      /\ mixed = {} /\ doubled = {} /\ crashes = 0 /\ slips = 0 /\ deletion = [d \in Documents |-> "none"]
      /\ loop = [w \in Workers |-> Free]
  BY DEF IngestionInit
<1>3. PICK first \in Workers :
         jobs = [j \in Jobs |-> [pc |-> "none", doc |-> 0, content |-> "", stored |-> 0, at |-> first]]
  <2> DEFINE first == CHOOSE w \in Workers : TRUE
  <2>1. first \in Workers
    BY IngestionBounds
  <2>2. jobs = [j \in Jobs |-> [pc |-> "none", doc |-> 0, content |-> "", stored |-> 0, at |-> first]]
    BY DEF IngestionInit
  <2> HIDE DEF first
  <2> QED BY <2>1, <2>2
<1> HIDE DEF file
<1>b. \A d : d \in 1..Seeded <=> d \in Documents /\ d <= Seeded
  BY <1>1 DEF Documents
<1>4. \A w \in Workers : loop[w] \in Frames /\ loop[w].at = "free" /\ loop[w].doc = 0 /\ loop[w].job = 0
  BY <1>a, FreeIsFrame
<1>5. \A j \in Jobs : jobs[j].pc = "none"
  BY <1>3
<1>6. \A d \in Documents :
         \/ d \in 1..Seeded /\ documents[d].status = "ready" /\ documents[d].content = file[d] /\ documents[d].count = Cardinality(Parts)
         \/ d \notin 1..Seeded /\ documents[d].status = "unused"
  BY <1>a, <1>b
<1>7. IngestionTyped
  <2>1. documents \in [Documents -> DocumentRecords]
    <3>1. \A d \in Documents : documents[d] \in DocumentRecords
      BY <1>1, <1>2, <1>a, <1>b DEF DocumentRecords, Statuses, Absent
    <3> QED BY <1>a, <3>1
  <2>2. chunks \subseteq ChunkRecords
    <3>1. 1..Seeded \subseteq Documents
      BY <1>b
    <3> QED BY <1>a, <3>1 DEF ChunkRecords
  <2>3. jobs \in [Jobs -> JobRecords]
    <3>1. [pc |-> "none", doc |-> 0, content |-> "", stored |-> 0, at |-> first] \in JobRecords
      BY <1>1 DEF JobRecords
    <3> QED BY <1>3, <3>1
  <2>4. loop \in [Workers -> Frames]
    BY <1>a, FreeIsFrame
  <2>5. serving \in [Documents -> Workers]
    <3> DEFINE initial == CHOOSE w \in Workers : TRUE
    <3>1. initial \in Workers
      BY IngestionBounds
    <3>2. serving = [d \in Documents |-> initial]
      BY DEF IngestionInit
    <3> HIDE DEF initial
    <3> QED BY <3>1, <3>2
  <2> QED BY <1>a, <2>1, <2>2, <2>3, <2>4, <2>5 DEF IngestionTyped
<1>8. LoopsHeld
  BY <1>1, <1>4, <1>5 DEF LoopsHeld, FrameHeld, JobHeld, Alive
<1>9. UnusedIsFresh
  <2>1. \A k \in chunks : k.doc \in 1..Seeded
    BY <1>a
  <2>2. \A d \in Documents : deletion[d] = "none"
    BY <1>a
  <2> QED BY <1>6, <2>1, <2>2 DEF UnusedIsFresh, ChunksOf
<1>10. NamesUnique
  <2>1. \A c \in Contents : \A d, e \in Named(c) : d = e
    <3>1. \A c : \A d \in Named(c) : d \in 1..Seeded /\ file[d] = c
      BY <1>6 DEF Named, Present, Statuses, InProgress
    <3> QED BY <1>2, <3>1
  <2> QED BY <1>4, <2>1 DEF NamesUnique, FrameNames
<1>11. ASSUME NEW d \in Documents, documents[d].status = "ready"
       PROVE  Own(d, documents[d].content, documents[d].count)
  <2>1. d \in 1..Seeded /\ documents[d].content = file[d] /\ documents[d].count = Cardinality(Parts)
    BY <1>6, <1>11
  <2> DEFINE f == [n \in Parts |-> [doc |-> d, content |-> file[d], part |-> n, by |-> 0]]
  <2>2. \A k : k \in ChunksOf(d) <=> \E n \in Parts : k = f[n]
    <3>1. \A n \in Parts : f[n] = [doc |-> d, content |-> file[d], part |-> n, by |-> 0]
      OBVIOUS
    <3>2. \A k : k \in ChunksOf(d) <=>
                k \in [doc : 1..Seeded, content : Contents, part : Parts, by : {0}] /\ k.content = file[k.doc] /\ k.doc = d
      BY <1>a DEF ChunksOf
    <3>3. file[d] \in Contents
      BY <1>2, <2>1
    <3>4. ASSUME NEW k \in ChunksOf(d) PROVE \E n \in Parts : k = f[n]
      <4>1. k = [doc |-> d, content |-> file[d], part |-> k.part, by |-> 0] /\ k.part \in Parts
        BY <3>2
      <4> QED BY <3>1, <4>1
    <3>5. ASSUME NEW n \in Parts PROVE f[n] \in ChunksOf(d)
      BY <2>1, <3>1, <3>2, <3>3
    <3> HIDE DEF f
    <3> QED BY <3>4, <3>5
  <2>3. \A n \in Parts : f[n].content = file[d] /\ f[n].part = n
    OBVIOUS
  <2>4. f \in [Parts -> {f[n] : n \in Parts}]
    OBVIOUS
  <2> HIDE DEF f
  <2>5. ChunksOf(d) = {f[n] : n \in Parts}
    BY <2>2
  <2>6. Cardinality({f[n] : n \in Parts}) = Cardinality(Parts)
    BY SMTT(40), <2>3, <2>4, PartsCounted, Labelled
  <2> QED BY <2>1, <2>3, <2>5, <2>6 DEF Own
<1>12. ASSUME NEW d \in Documents PROVE Sound(d)
  BY <1>1, <1>4, <1>5, <1>11 DEF Sound, Coherent, AtWork, Alive
<1> QED BY <1>7, <1>8, <1>9, <1>10, <1>12 DEF IngestionInv

\* The invariant is inductive.
LEMMA IngestionSteps == IngestionInv /\ [IngestionNext]_ingestion => IngestionInv'
<1> SUFFICES ASSUME IngestionInv, [IngestionNext]_ingestion PROVE IngestionInv'
  OBVIOUS
<1>1. IngestionTyped /\ LoopsHeld /\ UnusedIsFresh /\ \A d \in Documents : Sound(d)
  BY DEF IngestionInv
<1>2. IngestionTyped'
  BY <1>1, IngestionTypesStep
<1>3. CASE IngestionNext
  <2>1. LoopsHeld'
    BY <1>1, <1>3, LoopsStep
  <2>2. UnusedIsFresh'
    BY <1>1, <1>3, FreshStep
  <2>3. Cardinality(Workers) = 1 => NamesUnique'
    <3> SUFFICES ASSUME Cardinality(Workers) = 1 PROVE NamesUnique'
      OBVIOUS
    <3>1. PICK one : Workers = {one}
      BY IngestionBounds, FS_Singleton
    <3> QED BY <1>1, <1>3, <3>1, NamesStep DEF IngestionInv
  <2>4. \A d \in Documents : Sound(d)'
    <3>1. ASSUME NEW w \in Workers, Requests(w) PROVE \A d \in Documents : Sound(d)'
      BY <1>1, <2>1, <3>1, SoundRequests, SoundReplaced DEF Requests
    <3>2. ASSUME NEW w \in Workers, NEW d \in Documents, BeginDelete(w, d) \/ DeleteChunks(d) \/ DeleteRecord(d)
          PROVE  \A e \in Documents : Sound(e)'
      BY <1>1, <3>2, SoundDelete
    <3>3. PICK one \in Workers : TRUE
      BY IngestionBounds
    <3>4. ASSUME NEW w \in Workers, NEW c \in Contents,
                 BeginUpload(w, c) \/ \E d \in Documents : BeginReplace(w, d, c)
          PROVE  \A e \in Documents : Sound(e)'
      BY <1>1, <2>1, <3>4, SoundRequests
    <3>5. ASSUME NEW j \in Jobs, Process(j) PROVE \A e \in Documents : Sound(e)'
      BY <1>1, <3>5, SoundProcess
    <3>6. ASSUME NEW w \in Workers, Crash(w) PROVE \A e \in Documents : Sound(e)'
      BY <1>1, <3>6, SoundCrash
    <3> QED BY <1>3, <3>1, <3>2, <3>3, <3>4, <3>5, <3>6 DEF IngestionNext, ClientNext, ServerNext
  <2> QED BY <1>2, <2>1, <2>2, <2>3, <2>4 DEF IngestionInv
<1>4. CASE UNCHANGED ingestion
  <2> USE <1>4 DEF ingestion
  <2>1. LoopsHeld'
    BY <1>1 DEF LoopsHeld, FrameHeld, JobHeld, Alive
  <2>2. UnusedIsFresh'
    BY <1>1 DEF UnusedIsFresh, ChunksOf
  <2>3. NamesUnique => NamesUnique'
    BY DEF NamesUnique, FrameNames, Named, Present
  <2>4. \A d \in Documents : Sound(d)'
    <3>1. 0 \notin Documents /\ AboutOnly(0)
      BY HeldTypes, <1>1 DEF AboutOnly, ChunksOf
    <3> QED BY <1>1, <3>1, SoundStep
  <2> QED BY <1>2, <2>1, <2>2, <2>3, <2>4 DEF IngestionInv
<1> QED BY <1>3, <1>4

\* The invariant of the ingestion, for any number of documents, contents, jobs,
\* processes, deaths and failed calls.
THEOREM IngestionHolds == IngestionSpec => []IngestionInv
BY IngestionStarts, IngestionSteps, PTL DEF IngestionSpec

\* The records, chunks, coroutines and loops have the values the code gives them.
THEOREM IngestionTypesHold == IngestionSpec => []IngestionTypes
<1>1. IngestionInv => IngestionTypes
  BY TypedIsTypes DEF IngestionInv
<1> QED BY <1>1, IngestionHolds, PTL

\* With one process, a content is in one document (documents.py answers 409
\* otherwise), whatever uploads, replacements, deletions and failures overlap,
\* until a record of it that an upload was to replace could not be deleted
\* (hard_delete_document's answer is not looked at, documents.py:141).
THEOREM ContentIsUnique == IngestionSpec => []UniqueContent
<1>1. IngestionInv => UniqueContent
  <2> SUFFICES ASSUME IngestionInv, Cardinality(Workers) = 1, NEW c \in Contents \ doubled
               PROVE  Cardinality(Named(c)) <= 1
    BY DEF UniqueContent
  <2>1. \A d, e \in Named(c) : d = e
    BY DEF IngestionInv, NamesUnique
  <2>2. CASE Named(c) = {}
    BY <2>2, FS_EmptySet
  <2>3. CASE Named(c) # {}
    <3>1. PICK d : Named(c) = {d}
      BY <2>1, <2>3
    <3> QED BY <3>1, FS_Singleton
  <2> QED BY <2>2, <2>3
<1> QED BY <1>1, IngestionHolds, PTL

\* A ready document has the chunks of its own content and its chunk_count is
\* their number, unless it was replaced, discarded or deleted while something
\* was at work on it, or its replacement or deletion stopped, by a failed call
\* or a death of the process, when its chunks were removed already.
THEOREM ReadyDocumentsAreWhole == IngestionSpec => []ReadyIsWhole
<1>1. IngestionInv => ReadyIsWhole
  <2> SUFFICES ASSUME IngestionInv, NEW d \in Documents \ mixed, documents[d].status = "ready",
                      deletion[d] = "none", ~Handled(d)
               PROVE  Own(d, documents[d].content, documents[d].count)
    BY DEF ReadyIsWhole, Own, ChunksOf
  <2>1. ~Doomed(d)
    BY DEF Doomed, Handled, Present, Statuses
  <2> QED BY <2>1 DEF IngestionInv, Sound, Coherent
<1> QED BY <1>1, IngestionHolds, PTL

-----------------------------------------------------------------------------
(* Extraction runs.                                                         *)

RunStatuses == {"unused", "running", "failed", "gone"} \cup Successful
RunRecords ==
    [status : RunStatuses, docs : Seq(Documents), target : Ontologies \cup {None},
     bases : SUBSET Registered, ontology : Ontologies \cup {None}, retries : Runs \cup {0}]
ThreadRecords ==
    [pc : {"none", "load", "status", "store", "register", "link", "materialize", "attach", "relate", "finish", "done"},
     docs : Seq(Documents), result : SUBSET Concepts, status : Successful \cup {"failed", ""},
     ontology : Ontologies \cup {None}, doc : Nat, todo : SUBSET Concepts, found : BOOLEAN, at : Workers]
ClassDocuments == [base : {"none", "current", "expired"}, edits : Nat]

RunTyped ==
    /\ runs \in [Runs -> RunRecords] /\ thread \in [Runs -> ThreadRecords]
    /\ results \subseteq Runs /\ produced \subseteq Ontologies \X Runs /\ overlapped \subseteq Ontologies
    /\ stranded \subseteq Runs
    /\ domain \in [Ontologies -> [Concepts -> Nat]] /\ carried \in [Ontologies -> [Concepts -> Nat]]
    /\ vertices \in [Ontologies -> [Concepts -> ClassDocuments]]
    /\ crashes \in Nat

\* Every class found in the document has been written to the graph, or a write
\* of its own has failed.
DocumentLanded(r, i) == \A c \in thread[r].result : <<r, thread[r].docs[i], c>> \in landed \cup missed

\* What the thread of r knows of its record and of what has been written.
RunHolds(r) ==
    LET t == thread[r] IN
    /\ runs[r].status = "unused" => t.pc = "none"
    /\ t.pc = "none" => runs[r].status = "unused" \/ r \in stranded
    /\ runs[r].status # "unused" => runs[r].docs # <<>>
    /\ t.pc \in {"load", "status"} => runs[r].status \in {"running", "gone"}
    /\ t.pc = "status" => t.status \in Successful \cup {"failed"}
    /\ t.pc \in {"register", "link", "materialize", "attach", "relate", "finish"} /\ Exists(r) => r \in results
    /\ t.pc \in {"load", "status", "store", "register", "link"} => runs[r].ontology = None
    /\ t.pc = "link" \/ Writing(r) \/ t.pc = "finish" => t.ontology \in Ontologies
    /\ Writing(r) \/ t.pc = "finish" => runs[r].ontology = t.ontology
    /\ t.pc \in {"materialize", "attach"} => t.todo # {}
    /\ Writing(r) =>
          /\ \A i \in DOMAIN t.docs : i < t.doc => DocumentLanded(r, i)
          /\ \A c \in t.result \ t.todo : <<r, CurrentDoc(r), c>> \in landed \cup missed
    /\ t.pc = "relate" => t.todo = {}
    /\ t.pc = "finish" => \A i \in DOMAIN t.docs : DocumentLanded(r, i)
    /\ t.pc = "done" /\ crashes = 0 /\ runs[r].status \in Successful /\ r \notin stranded =>
          /\ r \in results
          /\ runs[r].ontology # None =>
                (\A i \in DOMAIN t.docs : DocumentLanded(r, i)) /\ <<runs[r].ontology, r>> \in produced \cup missed

Chosen(S) == CHOOSE x \in S : TRUE

\* Outside the overlaps one thread at a time writes to an ontology, and where it
\* has found no edge there is none when it inserts.
OntologyHolds(o) ==
    /\ \A c \in Concepts : domain[o][c] <= 1 /\ carried[o][c] <= vertices[o][c].edits
    /\ \A r, q \in Runs : Writing(r) /\ Writing(q) /\ thread[r].ontology = o /\ thread[q].ontology = o => q = r
    /\ \A r \in Runs : thread[r].pc = "attach" /\ thread[r].ontology = o =>
          (~thread[r].found => domain[o][Chosen(thread[r].todo)] = 0)

RunInv ==
    /\ RunTyped
    /\ \A r \in Runs : RunHolds(r)
    /\ \A o \in Ontologies \ overlapped : OntologyHolds(o)

-----------------------------------------------------------------------------
(* What each step changes, field by field.                                  *)

Pcs == {"none", "load", "status", "store", "register", "link", "materialize", "attach", "relate", "finish", "done"}

ThreadBecomes(r, pc, result, status, o, i, todo, found) ==
    /\ thread' \in [Runs -> ThreadRecords]
    /\ thread'[r].pc = pc /\ thread'[r].docs = thread[r].docs /\ thread'[r].result = result
    /\ thread'[r].status = status /\ thread'[r].ontology = o /\ thread'[r].doc = i
    /\ thread'[r].todo = todo /\ thread'[r].found = found
    /\ \A q \in Runs : q # r => thread'[q] = thread[q]

ThreadMoves(r, pc) ==
    LET t == thread[r] IN ThreadBecomes(r, pc, t.result, t.status, t.ontology, t.doc, t.todo, t.found)

RunBecomes(r, status, o) ==
    /\ runs' \in [Runs -> RunRecords]
    /\ runs'[r].status = status /\ runs'[r].ontology = o /\ runs'[r].docs = runs[r].docs
    /\ \A q \in Runs : q # r => runs'[q] = runs[q]

\* The record the next run gets.
LEMMA LeastRun == UnusedRuns # {} => Least(UnusedRuns) \in Runs /\ runs[Least(UnusedRuns)].status = "unused"
<1>1. UnusedRuns \in SUBSET Nat /\ UnusedRuns \subseteq Runs
  BY RunBounds DEF UnusedRuns, Runs
<1> QED BY <1>1, LeastIsIn DEF UnusedRuns

\* An update of a thread, field by field.
LEMMA ThreadWritten ==
    ASSUME RunTyped, NEW r \in Runs, NEW pc \in Pcs, NEW result \in SUBSET Concepts,
           NEW status \in Successful \cup {"failed"}, NEW o \in Ontologies \cup {None}, NEW i \in Nat,
           NEW todo \in SUBSET Concepts, NEW found \in BOOLEAN
    PROVE  LET t == thread[r] IN
           /\ Moves(r, pc) => ThreadMoves(r, pc)
           /\ thread' = [thread EXCEPT ![r].pc = pc, ![r].result = result, ![r].status = status]
                  => ThreadBecomes(r, pc, result, status, t.ontology, t.doc, t.todo, t.found)
           /\ thread' = [thread EXCEPT ![r].pc = pc, ![r].ontology = o]
                  => ThreadBecomes(r, pc, t.result, t.status, o, t.doc, t.todo, t.found)
           /\ thread' = [thread EXCEPT ![r] = [thread[r] EXCEPT !.pc = pc, !.doc = i, !.todo = todo]]
                  => ThreadBecomes(r, pc, t.result, t.status, t.ontology, i, todo, t.found)
           /\ thread' = [thread EXCEPT ![r].pc = pc, ![r].found = found]
                  => ThreadBecomes(r, pc, t.result, t.status, t.ontology, t.doc, t.todo, found)
           /\ thread' = [thread EXCEPT ![r].todo = todo, ![r].pc = pc]
                  => ThreadBecomes(r, pc, t.result, t.status, t.ontology, t.doc, todo, t.found)
           /\ thread' = [thread EXCEPT ![r] = [thread[r] EXCEPT !.pc = pc]] => ThreadMoves(r, pc)
<1> USE DEF ThreadBecomes, ThreadMoves, Pcs
<1>1. thread \in [Runs -> ThreadRecords] /\ thread[r] \in ThreadRecords
  BY DEF RunTyped
<1>2. ASSUME NEW t \in ThreadRecords, thread' = [thread EXCEPT ![r] = t], t.docs = thread[r].docs
      PROVE  ThreadBecomes(r, t.pc, t.result, t.status, t.ontology, t.doc, t.todo, t.found)
  BY <1>1, <1>2
<1>3. ASSUME Moves(r, pc) \/ thread' = [thread EXCEPT ![r] = [thread[r] EXCEPT !.pc = pc]] PROVE ThreadMoves(r, pc)
  <2>1. CASE Moves(r, pc)
    BY <1>1, <2>1 DEF Moves, ThreadRecords
  <2>2. CASE thread' = [thread EXCEPT ![r] = [thread[r] EXCEPT !.pc = pc]]
    BY <1>1, <2>2 DEF ThreadRecords
  <2> QED BY <1>3, <2>1, <2>2
<1>4. ASSUME thread' = [thread EXCEPT ![r].pc = pc, ![r].result = result, ![r].status = status]
      PROVE  ThreadBecomes(r, pc, result, status, thread[r].ontology, thread[r].doc, thread[r].todo, thread[r].found)
  BY ZenonT(40), <1>1, <1>4 DEF ThreadRecords
<1>5. ASSUME thread' = [thread EXCEPT ![r].pc = pc, ![r].ontology = o]
      PROVE  ThreadBecomes(r, pc, thread[r].result, thread[r].status, o, thread[r].doc, thread[r].todo, thread[r].found)
  BY ZenonT(40), <1>1, <1>5 DEF ThreadRecords
<1>6. ASSUME thread' = [thread EXCEPT ![r] = [thread[r] EXCEPT !.pc = pc, !.doc = i, !.todo = todo]]
      PROVE  ThreadBecomes(r, pc, thread[r].result, thread[r].status, thread[r].ontology, i, todo, thread[r].found)
  BY <1>1, <1>6 DEF ThreadRecords
<1>7. ASSUME thread' = [thread EXCEPT ![r].pc = pc, ![r].found = found]
      PROVE  ThreadBecomes(r, pc, thread[r].result, thread[r].status, thread[r].ontology, thread[r].doc, thread[r].todo, found)
  BY ZenonT(40), <1>1, <1>7 DEF ThreadRecords
<1>8. ASSUME thread' = [thread EXCEPT ![r].todo = todo, ![r].pc = pc]
      PROVE  ThreadBecomes(r, pc, thread[r].result, thread[r].status, thread[r].ontology, thread[r].doc, todo, thread[r].found)
  BY <1>1, <1>8 DEF ThreadRecords
<1> QED BY <1>3, <1>4, <1>5, <1>6, <1>7, <1>8

\* An update of a run record, field by field.
LEMMA RunWritten ==
    ASSUME RunTyped, NEW r \in Runs, NEW status \in RunStatuses, NEW o \in Ontologies \cup {None}
    PROVE  /\ runs' = [runs EXCEPT ![r].status = status] => RunBecomes(r, status, runs[r].ontology)
           /\ runs' = [runs EXCEPT ![r].ontology = o] => RunBecomes(r, runs[r].status, o)
<1> USE DEF RunBecomes
<1>1. runs \in [Runs -> RunRecords] /\ runs[r] \in RunRecords
  BY DEF RunTyped
<1>2. ASSUME runs' = [runs EXCEPT ![r].status = status] PROVE RunBecomes(r, status, runs[r].ontology)
  BY <1>1, <1>2 DEF RunRecords
<1>3. ASSUME runs' = [runs EXCEPT ![r].ontology = o] PROVE RunBecomes(r, runs[r].status, o)
  BY <1>1, <1>3 DEF RunRecords
<1> QED BY <1>2, <1>3

\* A run that has just been created, with its thread or without.
Launched(r, docs) ==
    /\ runs' \in [Runs -> RunRecords] /\ thread' \in [Runs -> ThreadRecords]
    /\ runs[r].status = "unused" /\ runs'[r].status = "running" /\ runs'[r].docs = docs /\ runs'[r].ontology = None
    /\ \/ thread'[r].pc = "load" /\ stranded' = stranded
       \/ thread'[r] = thread[r] /\ stranded' = stranded \cup {r}
    /\ \A q \in Runs : q # r => runs'[q] = runs[q] /\ thread'[q] = thread[q]

\* A run is launched with a fresh record and a fresh thread, if with any.
LEMMA LaunchEffect ==
    ASSUME RunTyped, UnusedRuns # {}, NEW w \in Workers, NEW docs \in Seq(Documents),
           NEW target \in Ontologies \cup {None}, NEW bases \in SUBSET Registered, NEW retries \in Runs \cup {0},
           Launch(Least(UnusedRuns), w, docs, target, bases, retries)
    PROVE  \E r \in Runs : Launched(r, docs)
<1>1. PICK r \in Runs : r = Least(UnusedRuns) /\ runs[r].status = "unused"
  BY LeastRun
<1>2. runs \in [Runs -> RunRecords] /\ thread \in [Runs -> ThreadRecords]
  BY DEF RunTyped
<1>3. PICK record \in RunRecords :
         record.status = "running" /\ record.docs = docs /\ record.ontology = None /\ runs' = [runs EXCEPT ![r] = record]
  <2> DEFINE record == [NoRun EXCEPT !.status = "running", !.docs = docs, !.target = target,
                                     !.bases = bases, !.retries = retries]
  <2>1. record \in RunRecords /\ record.status = "running" /\ record.docs = docs /\ record.ontology = None
    BY DEF NoRun, RunRecords, RunStatuses
  <2>2. runs' = [runs EXCEPT ![r] = record]
    BY <1>1 DEF Launch
  <2> HIDE DEF record
  <2> QED BY <2>1, <2>2
<1>4. \/ \E t \in ThreadRecords : t.pc = "load" /\ thread' = [thread EXCEPT ![r] = t] /\ stranded' = stranded
      \/ thread' = thread /\ stranded' = stranded \cup {r}
  <2> DEFINE t == [NoThread EXCEPT !.pc = "load", !.docs = docs, !.at = w]
  <2>1. t \in ThreadRecords /\ t.pc = "load"
    BY DEF NoThread, ThreadRecords
  <2>2. \/ thread' = [thread EXCEPT ![r] = t] /\ stranded' = stranded
        \/ thread' = thread /\ stranded' = stranded \cup {r}
    BY <1>1 DEF Launch
  <2> HIDE DEF t
  <2> QED BY <2>1, <2>2
<1>5. CASE \E t \in ThreadRecords : t.pc = "load" /\ thread' = [thread EXCEPT ![r] = t] /\ stranded' = stranded
  BY <1>1, <1>2, <1>3, <1>5 DEF Launched
<1>6. CASE thread' = thread /\ stranded' = stranded \cup {r}
  BY <1>1, <1>2, <1>3, <1>6 DEF Launched
<1> QED BY <1>4, <1>5, <1>6

-----------------------------------------------------------------------------
(* The record of a run, its thread and what it has written.                 *)

\* A step about the run r at most.
OtherRunsKept(r) ==
    /\ \A q \in Runs : q # r => /\ runs'[q] = runs[q] /\ thread'[q] = thread[q]
                                /\ q \in results => q \in results'
    /\ landed \subseteq landed' /\ missed \subseteq missed' /\ produced \subseteq produced'
    /\ stranded \subseteq stranded' /\ (crashes' = 0 => crashes = 0)

\* What is known of the other runs stays so.
LEMMA RunKept ==
    ASSUME NEW r, OtherRunsKept(r), \A q \in Runs : RunHolds(q), r \in Runs => RunHolds(r)'
    PROVE  \A q \in Runs : RunHolds(q)'
<1> SUFFICES ASSUME NEW q \in Runs, q # r PROVE RunHolds(q)'
  OBVIOUS
<1>1. /\ RunHolds(q) /\ runs'[q] = runs[q] /\ thread'[q] = thread[q] /\ (q \in results => q \in results')
      /\ landed \subseteq landed' /\ missed \subseteq missed' /\ produced \subseteq produced'
      /\ stranded \subseteq stranded' /\ (crashes' = 0 => crashes = 0)
  BY DEF OtherRunsKept
<1>2. \A i : DocumentLanded(q, i) => DocumentLanded(q, i)'
  BY <1>1 DEF DocumentLanded
<1>3. (Writing(q)' <=> Writing(q)) /\ (Exists(q)' <=> Exists(q)) /\ CurrentDoc(q)' = CurrentDoc(q)
  BY <1>1 DEF Writing, Exists, CurrentDoc
<1> QED BY <1>1, <1>2, <1>3 DEF RunHolds

\* What is known of the ontologies stays so.
LEMMA OntologiesKept ==
    ASSUME NEW r \in Runs, overlapped \subseteq overlapped', domain' = domain, carried' = carried, vertices' = vertices,
           \A q \in Runs : q # r => thread'[q] = thread[q],
           \/ ~Writing(r)'
           \/ Writing(r) /\ thread'[r].pc # "attach" /\ thread'[r].ontology = thread[r].ontology,
           \A o \in Ontologies \ overlapped : OntologyHolds(o)
    PROVE  \A o \in Ontologies \ overlapped' : OntologyHolds(o)'
<1> SUFFICES ASSUME NEW o \in Ontologies \ overlapped' PROVE OntologyHolds(o)'
  OBVIOUS
<1>1. OntologyHolds(o)
  OBVIOUS
<1>2. \A q \in Runs : Writing(q)' /\ thread'[q].ontology = o => Writing(q) /\ thread[q].ontology = o
  BY DEF Writing
<1>3. \A q \in Runs : thread'[q].pc = "attach" => thread'[q] = thread[q]
  BY DEF Writing
<1> QED BY <1>1, <1>2, <1>3 DEF OntologyHolds

\* What a step of the run r that writes nothing to the graph leaves alone.
NothingWritten(r) ==
    /\ domain' = domain /\ carried' = carried /\ vertices' = vertices /\ landed' = landed /\ missed' = missed
    /\ produced' = produced /\ overlapped' = overlapped /\ crashes' = crashes
    /\ stranded' = stranded \/ stranded' = stranded \cup {r}

\* The thread r moves on without writing to the graph.
LEMMA QuietStep ==
    ASSUME RunInv, NEW r \in Runs, NothingWritten(r),
           runs' \in [Runs -> RunRecords], thread' \in [Runs -> ThreadRecords], results' \subseteq Runs,
           \A q \in Runs : q # r => runs'[q] = runs[q] /\ thread'[q] = thread[q] /\ (q \in results => q \in results'),
           \/ ~Writing(r)'
           \/ Writing(r) /\ thread'[r].pc # "attach" /\ thread'[r].ontology = thread[r].ontology,
           RunHolds(r)'
    PROVE  RunInv'
<1>1. RunTyped'
  BY DEF RunInv, RunTyped, NothingWritten
<1>2. OtherRunsKept(r)
  BY DEF OtherRunsKept, NothingWritten
<1>3. \A q \in Runs : RunHolds(q)'
  BY <1>2, RunKept DEF RunInv
<1>4. \A o \in Ontologies \ overlapped' : OntologyHolds(o)'
  BY OntologiesKept DEF RunInv, NothingWritten
<1> QED BY <1>1, <1>3, <1>4 DEF RunInv

\* execute_run catches, and the record, if it is still there, is failed; or
\* nothing records the end.
LEMMA RaisesStep ==
    ASSUME RunInv, NEW r \in Runs, Working(r), Raises(r)
    PROVE  RunInv'
<1>1. RunTyped /\ RunHolds(r) /\ runs[r].status # "unused"
  BY DEF RunInv, RunHolds, Working
<1>2. ThreadMoves(r, "done")
  BY <1>1, ThreadWritten DEF Raises, Strands, Pcs, RunTyped
<1>3. NothingWritten(r) /\ results' = results
  BY DEF Raises, Strands, NothingWritten, ingestion, graph
<1>4. \/ Exists(r) /\ RunBecomes(r, "failed", runs[r].ontology)
      \/ ~Exists(r) /\ runs' = runs
      \/ r \in stranded' /\ runs' = runs
  <2>1. runs[r].ontology \in Ontologies \cup {None} /\ "failed" \in RunStatuses
    BY <1>1 DEF RunTyped, RunRecords, RunStatuses
  <2> QED BY <1>1, <2>1, RunWritten DEF Raises, Strands
<1>5. /\ runs'[r].status # "unused" /\ runs'[r].docs = runs[r].docs
      /\ runs'[r].status \notin Successful \/ r \in stranded'
  BY <1>1, <1>4 DEF Exists, Absent, Successful, RunBecomes
<1>6. RunHolds(r)'
  BY <1>1, <1>2, <1>5 DEF RunHolds, ThreadMoves, ThreadBecomes, Writing
<1>7. ~Writing(r)'
  BY <1>2 DEF ThreadMoves, ThreadBecomes, Writing
<1>8. runs' \in [Runs -> RunRecords] /\ thread' \in [Runs -> ThreadRecords] /\ results' \subseteq Runs
      /\ \A q \in Runs : q # r => runs'[q] = runs[q] /\ thread'[q] = thread[q]
  BY <1>1, <1>2, <1>3, <1>4 DEF RunTyped, RunBecomes, ThreadMoves, ThreadBecomes
<1> QED BY <1>3, <1>6, <1>7, <1>8, QuietStep

\* The agents come back with what they found, or raise.
LEMMA PipelineStep ==
    ASSUME RunInv, NEW r \in Runs, RunPipeline(r)
    PROVE  RunInv'
<1>1. RunTyped /\ RunHolds(r) /\ thread[r].pc = "load"
  BY DEF RunInv, RunPipeline, AtStep
<1>2. CASE Raises(r)
  BY <1>1, <1>2, RaisesStep DEF Working
<1>3. CASE ~Raises(r)
  <2>c. ~(Exists(r) /\ Strands(r))
    BY <1>3 DEF Raises
  <2>1. NothingWritten(r) /\ results' = results /\ runs' = runs
    BY <1>3, <2>c DEF RunPipeline, NothingWritten, ingestion, graph
  <2>2. CASE ~Exists(r) /\ Moves(r, "done")
    <3>1. ThreadMoves(r, "done")
      BY <1>1, <2>2, ThreadWritten DEF Pcs, RunTyped
    <3>2. RunHolds(r)'
      BY <1>1, <2>1, <2>2, <3>1 DEF RunHolds, Exists, Absent, Successful, ThreadMoves, ThreadBecomes, Writing
    <3> QED BY <1>1, <2>1, <3>1, <3>2, QuietStep DEF RunTyped, ThreadMoves, ThreadBecomes, Writing
  <2>3. CASE /\ Exists(r)
             /\ \E found \in Findings, status \in Successful \cup {"failed"} :
                   thread' = [thread EXCEPT ![r].pc = "status", ![r].result = found, ![r].status = status]
    <3>1. PICK found \in Findings, status \in Successful \cup {"failed"} :
                   thread' = [thread EXCEPT ![r].pc = "status", ![r].result = found, ![r].status = status]
      BY <2>3
    <3>2. found \in SUBSET Concepts /\ "status" \in Pcs
      BY RunBounds DEF Pcs
    <3>3. ThreadBecomes(r, "status", found, status, thread[r].ontology, thread[r].doc, thread[r].todo, thread[r].found)
      BY <1>1, <3>1, <3>2, ThreadWritten DEF RunTyped
    <3>4. RunHolds(r)'
      BY <1>1, <2>1, <3>3 DEF RunHolds, ThreadBecomes, Writing
    <3> QED BY <1>1, <2>1, <3>3, <3>4, QuietStep DEF RunTyped, ThreadBecomes, Writing
  <2> QED BY <1>3, <2>c, <2>2, <2>3 DEF RunPipeline
<1> QED BY <1>2, <1>3

\* The status is written to the record.
LEMMA StatusStep ==
    ASSUME RunInv, NEW r \in Runs, WriteStatus(r)
    PROVE  RunInv'
<1>1. RunTyped /\ RunHolds(r) /\ thread[r].pc = "status"
  BY DEF RunInv, WriteStatus, AtStep
<1>2. CASE Raises(r)
  BY <1>1, <1>2, RaisesStep DEF Working
<1>3. CASE Exists(r) /\ ~Raises(r)
  <2>1. NothingWritten(r) /\ results' = results
    BY <1>3 DEF WriteStatus, NothingWritten, ingestion, graph
  <2>2. thread[r].status \in Successful \cup {"failed"} /\ runs[r].status = "running"
    BY <1>1, <1>3 DEF RunHolds, Exists, Absent
  <2>3. RunBecomes(r, thread[r].status, runs[r].ontology)
    <3>1. thread[r].status \in RunStatuses /\ runs[r].ontology \in Ontologies \cup {None}
      BY <1>1, <2>2 DEF RunTyped, RunRecords, RunStatuses
    <3> QED BY <1>1, <1>3, <3>1, RunWritten DEF WriteStatus
  <2>4. PICK pc \in Pcs : pc = (IF thread[r].status = "failed" THEN "done" ELSE "store")
    BY DEF Pcs
  <2>5. ThreadMoves(r, pc)
    BY <1>1, <1>3, <2>4, ThreadWritten DEF WriteStatus, RunTyped
  <2>6. RunHolds(r)'
    <3>1. runs'[r].status # "unused" /\ runs'[r].docs = runs[r].docs /\ runs'[r].ontology = runs[r].ontology
      BY <2>2, <2>3 DEF RunBecomes, Successful
    <3>2. pc = "done" => runs'[r].status \notin Successful
      BY <2>3, <2>4 DEF RunBecomes, Successful
    <3> QED BY <1>1, <2>2, <2>4, <2>5, <3>1, <3>2 DEF RunHolds, ThreadMoves, ThreadBecomes, Writing
  <2>7. ~Writing(r)'
    BY <2>4, <2>5 DEF ThreadMoves, ThreadBecomes, Writing
  <2> QED BY <1>1, <2>1, <2>3, <2>5, <2>6, <2>7, QuietStep DEF RunTyped, ThreadMoves, ThreadBecomes, RunBecomes
<1> QED BY <1>2, <1>3 DEF WriteStatus

\* The results are stored.
LEMMA ResultsStep ==
    ASSUME RunInv, NEW r \in Runs, StoreResults(r)
    PROVE  RunInv'
<1>1. RunTyped /\ RunHolds(r) /\ thread[r].pc = "store"
  BY DEF RunInv, StoreResults, AtStep
<1>2. CASE Raises(r)
  BY <1>1, <1>2, RaisesStep DEF Working
<1>3. CASE ~Raises(r)
  <2>1. NothingWritten(r) /\ runs' = runs /\ results' = results \cup {r} /\ Moves(r, "register")
    BY <1>3 DEF StoreResults, NothingWritten, ingestion, graph
  <2>2. ThreadMoves(r, "register")
    BY <1>1, <2>1, ThreadWritten DEF Pcs, RunTyped
  <2>3. RunHolds(r)'
    BY <1>1, <2>1, <2>2 DEF RunHolds, ThreadMoves, ThreadBecomes, Writing
  <2>4. ~Writing(r)'
    BY <2>2 DEF ThreadMoves, ThreadBecomes, Writing
  <2> QED BY <1>1, <2>1, <2>2, <2>3, <2>4, QuietStep DEF RunTyped, ThreadMoves, ThreadBecomes
<1> QED BY <1>2, <1>3

\* The ontology is registered, or the run ends.
LEMMA RegisterStep ==
    ASSUME RunInv, NEW r \in Runs, UpdateExistingOntology(r) \/ AutoRegisterOntology(r)
    PROVE  RunInv'
<1>1. RunTyped /\ RunHolds(r) /\ thread[r].pc = "register"
  BY DEF RunInv, UpdateExistingOntology, AutoRegisterOntology, AtStep
<1>2. NothingWritten(r) /\ results' = results /\ runs' = runs
  BY DEF UpdateExistingOntology, AutoRegisterOntology, NothingWritten, ingestion
<1>3. \/ Moves(r, "done")
      \/ \E o \in Ontologies : thread' = [thread EXCEPT ![r].pc = "link", ![r].ontology = o]
  <2>1. CASE UpdateExistingOntology(r)
    <3>1. runs[r].target \in Ontologies
      BY <1>1, <2>1 DEF UpdateExistingOntology, RunTyped, RunRecords
    <3> QED BY <2>1, <3>1 DEF UpdateExistingOntology
  <2>2. CASE AutoRegisterOntology(r)
    <3>1. PICK o \in Ontologies : o = CHOOSE key \in Unregistered : TRUE
      BY <2>2 DEF AutoRegisterOntology, Unregistered
    <3> QED BY <2>2, <3>1 DEF AutoRegisterOntology
  <2> QED BY <2>1, <2>2
<1>4. CASE Moves(r, "done")
  <2>1. ThreadMoves(r, "done")
    BY <1>1, <1>4, ThreadWritten DEF Pcs, RunTyped
  <2>2. ~Writing(r)' /\ RunHolds(r)'
    BY <1>1, <1>2, <2>1 DEF RunHolds, ThreadMoves, ThreadBecomes, Writing, Exists, Absent, Successful
  <2> QED BY <1>1, <1>2, <2>1, <2>2, QuietStep DEF RunTyped, ThreadMoves, ThreadBecomes
<1>5. CASE \E o \in Ontologies : thread' = [thread EXCEPT ![r].pc = "link", ![r].ontology = o]
  <2>1. PICK o \in Ontologies : thread' = [thread EXCEPT ![r].pc = "link", ![r].ontology = o]
    BY <1>5
  <2>2. ThreadBecomes(r, "link", thread[r].result, thread[r].status, o, thread[r].doc, thread[r].todo, thread[r].found)
    BY <1>1, <2>1, ThreadWritten DEF Pcs, RunTyped
  <2>3. ~Writing(r)' /\ RunHolds(r)'
    BY <1>1, <1>2, <2>2 DEF RunHolds, ThreadBecomes, Writing, Exists
  <2> QED BY <1>1, <1>2, <2>2, <2>3, QuietStep DEF RunTyped, ThreadBecomes
<1> QED BY <1>3, <1>4, <1>5

\* The record is linked to its ontology, which may now have two writers.
LEMMA LinkStep ==
    ASSUME RunInv, NEW r \in Runs, LinkOntology(r)
    PROVE  RunInv'
<1>1. RunTyped /\ RunHolds(r) /\ thread[r].pc = "link"
  BY DEF RunInv, LinkOntology, AtStep
<1>2. CASE Raises(r)
  BY <1>1, <1>2, RaisesStep DEF Working
<1>3. CASE Exists(r) /\ ~Raises(r)
  <2>1. PICK o \in Ontologies : o = thread[r].ontology
    BY <1>1 DEF RunHolds
  <2>2. PICK result \in SUBSET Concepts : result = thread[r].result
    BY <1>1 DEF RunTyped, ThreadRecords
  <2>3. PICK pc \in {"relate", "materialize"} : pc = IF result = {} THEN "relate" ELSE "materialize"
    OBVIOUS
  <2>4. RunBecomes(r, runs[r].status, o)
    <3>1. runs[r].status \in RunStatuses
      BY <1>1 DEF RunTyped, RunRecords
    <3> QED BY <1>1, <1>3, <2>1, <3>1, RunWritten DEF LinkOntology
  <2>5. ThreadBecomes(r, pc, result, thread[r].status, o, 1, result, thread[r].found)
    <3>1. thread' = [thread EXCEPT ![r] = [thread[r] EXCEPT !.pc = pc, !.doc = 1, !.todo = result]]
      BY <1>3, <2>2, <2>3 DEF LinkOntology, Begins
    <3>2. pc \in Pcs /\ 1 \in Nat
      BY DEF Pcs
    <3> QED BY <1>1, <2>1, <2>2, <3>1, <3>2, ThreadWritten
  <2>6. /\ domain' = domain /\ carried' = carried /\ vertices' = vertices /\ landed' = landed /\ missed' = missed
        /\ produced' = produced /\ crashes' = crashes /\ results' = results /\ stranded' = stranded
        /\ overlapped' = IF \E q \in Runs \ {r} : Writing(q) /\ thread[q].ontology = o
                         THEN overlapped \cup {o} ELSE overlapped
    BY <1>3, <2>1 DEF LinkOntology, graph, ingestion
  <2>7. RunTyped'
    BY <1>1, <2>4, <2>5, <2>6 DEF RunTyped, RunBecomes, ThreadBecomes
  <2>8. OtherRunsKept(r)
    BY <2>4, <2>5, <2>6 DEF OtherRunsKept, RunBecomes, ThreadBecomes
  <2>9. RunHolds(r)'
    <3>1. thread[r].docs \in Seq(Documents)
      BY <1>1 DEF RunTyped, ThreadRecords
    <3>2. \A i \in DOMAIN thread[r].docs : ~(i < 1)
      BY <3>1
    <3>3. r \in results'
      BY <1>1, <1>3, <2>6 DEF RunHolds
    <3> QED BY <1>1, <2>1, <2>3, <2>4, <2>5, <3>2, <3>3 DEF RunHolds, RunBecomes, ThreadBecomes, Writing
  <2>10. ASSUME NEW k \in Ontologies \ overlapped' PROVE OntologyHolds(k)'
    <3>1. OntologyHolds(k)
      BY <2>6 DEF RunInv
    <3>2. \A q \in Runs \ {r} : thread'[q] = thread[q] /\ (Writing(q)' <=> Writing(q))
      BY <2>5 DEF ThreadBecomes, Writing
    <3>3. thread'[r].pc # "attach" /\ thread'[r].ontology = o
      BY <2>3, <2>5 DEF ThreadBecomes
    <3>4. CASE k = o
      <4>1. \A q \in Runs \ {r} : ~(Writing(q) /\ thread[q].ontology = o)
        BY <2>6, <3>4
      <4> QED BY <2>6, <3>1, <3>2, <3>3, <3>4, <4>1 DEF OntologyHolds, Writing
    <3>5. CASE k # o
      BY <2>6, <3>1, <3>2, <3>3, <3>5 DEF OntologyHolds
    <3> QED BY <3>4, <3>5
  <2> QED BY <2>7, <2>8, <2>9, <2>10, RunKept DEF RunInv
<1> QED BY <1>2, <1>3 DEF LinkOntology

\* The class that is written next is one of those left.
LEMMA ChosenIsIn == \A S : S # {} => Chosen(S) \in S
BY DEF Chosen

\* A class is written, after a look at the edges to its domain.
LEMMA MaterializeStep ==
    ASSUME RunInv, NEW r \in Runs, NEW c \in Concepts, MaterializeClass(r, c)
    PROVE  RunInv'
<1>1. RunTyped /\ RunHolds(r) /\ thread[r].pc = "materialize" /\ c = Chosen(thread[r].todo)
  BY DEF RunInv, MaterializeClass, AtStep, Chosen
<1>2. PICK o \in Ontologies : o = thread[r].ontology
  BY <1>1 DEF RunHolds, Writing
<1>3. PICK found \in BOOLEAN : found = (domain[o][c] > 0)
  <2>1. (domain[o][c] > 0) \in BOOLEAN
    BY <1>1 DEF RunTyped
  <2> QED BY <2>1
<1>4. ThreadBecomes(r, "attach", thread[r].result, thread[r].status, o, thread[r].doc, thread[r].todo, found)
  <2>1. thread' = [thread EXCEPT ![r].pc = "attach", ![r].found = found]
    BY <1>2, <1>3 DEF MaterializeClass
  <2>2. "attach" \in Pcs /\ "failed" \in Successful \cup {"failed"} /\ {} \in SUBSET Concepts /\ 0 \in Nat
    BY DEF Pcs
  <2>3. RunTyped
    BY <1>1
  <2>4. ThreadBecomes(r, "attach", thread[r].result, thread[r].status, thread[r].ontology, thread[r].doc, thread[r].todo, found)
    <3>1. thread \in [Runs -> ThreadRecords] /\ thread[r] \in ThreadRecords
      BY <2>3 DEF RunTyped
    <3> QED BY <1>3, <2>1, <2>2, <3>1 DEF ThreadBecomes, ThreadRecords
  <2> QED BY <1>2, <2>4
<1>5. /\ domain' = domain /\ carried' = carried /\ landed' = landed /\ missed \subseteq missed'
      /\ produced' = produced /\ overlapped' = overlapped /\ crashes' = crashes /\ stranded' = stranded
      /\ runs' = runs /\ results' = results
  BY DEF MaterializeClass, ingestion
<1>e. /\ vertices' \in [Ontologies -> [Concepts -> ClassDocuments]]
      /\ \A k \in Ontologies, b \in Concepts : vertices'[k][b].edits = vertices[k][b].edits
  <2>1. vertices \in [Ontologies -> [Concepts -> ClassDocuments]]
    BY <1>1 DEF RunTyped
  <2>2. vertices' = [vertices EXCEPT ![o][c].base = "current"] \/ vertices' = vertices
    BY <1>2 DEF MaterializeClass
  <2>3. CASE vertices' = [vertices EXCEPT ![o][c].base = "current"]
    <3>1. PICK old \in ClassDocuments : old = vertices[o][c]
      BY <2>1
    <3>2. PICK document \in ClassDocuments : document.edits = old.edits /\ document = [old EXCEPT !.base = "current"]
      BY DEF ClassDocuments
    <3>3. vertices' = [vertices EXCEPT ![o] = [vertices[o] EXCEPT ![c] = document]]
      BY <2>1, <2>3, <3>1, <3>2
    <3> QED BY <2>1, <3>1, <3>2, <3>3
  <2> QED BY <2>1, <2>2, <2>3
<1>6. RunTyped'
  BY <1>1, <1>4, <1>5, <1>e DEF RunTyped, ThreadBecomes
<1>7. OtherRunsKept(r)
  BY <1>4, <1>5 DEF OtherRunsKept, ThreadBecomes
<1>8. RunHolds(r)'
  <2>1. Writing(r) /\ Writing(r)' /\ thread'[r].pc = "attach" /\ (Exists(r)' <=> Exists(r))
    BY <1>1, <1>4, <1>5 DEF Writing, ThreadBecomes, Exists
  <2>2. \A i : DocumentLanded(r, i) => DocumentLanded(r, i)'
    BY <1>4, <1>5 DEF DocumentLanded, ThreadBecomes
  <2>3. CurrentDoc(r)' = CurrentDoc(r)
    BY <1>4 DEF CurrentDoc, ThreadBecomes
  <2>4. /\ thread'[r].docs = thread[r].docs /\ thread'[r].doc = thread[r].doc /\ thread'[r].result = thread[r].result
        /\ thread'[r].todo = thread[r].todo /\ thread'[r].ontology = thread[r].ontology
    BY <1>2, <1>4 DEF ThreadBecomes
  <2> QED BY <1>1, <1>5, <2>1, <2>2, <2>3, <2>4 DEF RunHolds
<1>9. ASSUME NEW k \in Ontologies \ overlapped' PROVE OntologyHolds(k)'
  <2>1. OntologyHolds(k) /\ domain' = domain /\ carried' = carried
    BY <1>5 DEF RunInv
  <2>2. \A q \in Runs : Writing(q)' <=> Writing(q)
    BY <1>1, <1>4 DEF ThreadBecomes, Writing
  <2>3. \A q \in Runs : thread'[q].ontology = thread[q].ontology
    BY <1>2, <1>4 DEF ThreadBecomes
  <2>4. ASSUME NEW q \in Runs, thread'[q].pc = "attach", thread'[q].ontology = k, ~thread'[q].found
        PROVE  domain[k][Chosen(thread'[q].todo)] = 0
    <3>1. CASE q = r
      <4>1. k = o /\ thread'[q].todo = thread[r].todo /\ ~(domain[o][c] > 0) /\ domain[o][c] \in Nat
        BY <1>1, <1>2, <1>3, <1>4, <2>3, <2>4, <3>1 DEF ThreadBecomes, RunTyped
      <4> QED BY <1>1, <4>1
    <3>2. CASE q # r
      BY <1>4, <2>1, <2>4, <3>2 DEF ThreadBecomes, OntologyHolds
    <3> QED BY <3>1, <3>2
  <2>5. \A q \in Runs : Chosen(thread[q].todo)' = Chosen(thread'[q].todo)
    BY DEF Chosen
  <2> QED BY <1>e, <2>1, <2>2, <2>3, <2>4, <2>5 DEF OntologyHolds
<1> QED BY <1>6, <1>7, <1>8, <1>9, RunKept DEF RunInv

\* The edge to the domain is inserted unless the look found one.
LEMMA AttachStep ==
    ASSUME RunInv, NEW r \in Runs, NEW c \in Concepts, AttachProperty(r, c)
    PROVE  RunInv'
<1>1. RunTyped /\ RunHolds(r) /\ thread[r].pc = "attach" /\ c = Chosen(thread[r].todo)
  BY DEF RunInv, AttachProperty, AtStep, Chosen
<1>2. PICK o \in Ontologies : o = thread[r].ontology
  BY <1>1 DEF RunHolds, Writing
<1>3. PICK rest \in SUBSET Concepts : rest = thread[r].todo \ {c}
  BY <1>1 DEF RunTyped, ThreadRecords
<1>4. PICK pc \in {"relate", "materialize"} : pc = IF rest = {} THEN "relate" ELSE "materialize"
  OBVIOUS
<1>5. ThreadBecomes(r, pc, thread[r].result, thread[r].status, o, thread[r].doc, rest, thread[r].found)
  <2>1. thread' = [thread EXCEPT ![r].todo = rest, ![r].pc = pc]
    BY <1>3, <1>4 DEF AttachProperty, GoesOn
  <2>2. pc \in Pcs
    BY DEF Pcs
  <2> QED BY <1>1, <1>2, <2>1, <2>2, ThreadWritten
<1>6. /\ landed \subseteq landed' /\ missed \subseteq missed' /\ <<r, CurrentDoc(r), c>> \in landed' \cup missed'
      /\ produced' = produced /\ overlapped' = overlapped /\ carried' = carried /\ vertices' = vertices
      /\ stranded' = stranded /\ crashes' = crashes /\ runs' = runs /\ results' = results
  <2>1. PICK written \in SUBSET {"property", "provenance"} : Lands(r, c, written)
    BY DEF AttachProperty
  <2>2. PICK this : this = <<r, CurrentDoc(r), c>>
    OBVIOUS
  <2>3. \/ landed' = landed \cup ({this} \ missed) /\ missed' = missed
        \/ landed' = landed /\ missed' = missed \cup {this}
    BY <2>1, <2>2 DEF Lands
  <2> QED BY <2>2, <2>3 DEF AttachProperty, GoesOn
<1>7. domain' = domain \/ (~thread[r].found /\ domain' = [domain EXCEPT ![o][c] = @ + 1])
  BY <1>2 DEF AttachProperty
<1>8. domain' \in [Ontologies -> [Concepts -> Nat]]
  <2>1. CASE domain' = domain
    BY <1>1, <2>1 DEF RunTyped
  <2>2. CASE domain' = [domain EXCEPT ![o][c] = @ + 1]
    BY <1>1, <2>2 DEF RunTyped
  <2> QED BY <1>7, <2>1, <2>2
<1>9. RunTyped'
  BY <1>1, <1>5, <1>6, <1>8 DEF RunTyped, ThreadBecomes
<1>10. OtherRunsKept(r)
  BY <1>5, <1>6 DEF OtherRunsKept, ThreadBecomes
<1>11. RunHolds(r)'
  <2>1. Writing(r) /\ Writing(r)' /\ thread'[r].pc \in {"relate", "materialize"} /\ (Exists(r)' <=> Exists(r))
    BY <1>1, <1>5, <1>6 DEF Writing, ThreadBecomes, Exists
  <2>2. \A i : DocumentLanded(r, i) => DocumentLanded(r, i)'
    BY <1>5, <1>6 DEF DocumentLanded, ThreadBecomes
  <2>3. CurrentDoc(r)' = CurrentDoc(r)
    BY <1>5 DEF CurrentDoc, ThreadBecomes
  <2>4. \A b \in thread[r].result \ rest : <<r, CurrentDoc(r), b>> \in landed' \cup missed'
    <3>1. \A b \in thread[r].result \ thread[r].todo : <<r, CurrentDoc(r), b>> \in landed \cup missed
      BY <1>1, <2>1 DEF RunHolds
    <3> QED BY <1>3, <1>6, <3>1
  <2>5. /\ thread'[r].docs = thread[r].docs /\ thread'[r].doc = thread[r].doc /\ thread'[r].result = thread[r].result
        /\ thread'[r].todo = rest /\ thread'[r].ontology = thread[r].ontology /\ thread'[r].pc = pc
    BY <1>2, <1>5 DEF ThreadBecomes
  <2> QED BY <1>1, <1>4, <1>6, <2>1, <2>2, <2>3, <2>4, <2>5 DEF RunHolds
<1>12. ASSUME NEW k \in Ontologies \ overlapped' PROVE OntologyHolds(k)'
  <2>1. OntologyHolds(k)
    BY <1>6 DEF RunInv
  <2>2. \A q \in Runs : (Writing(q)' <=> Writing(q)) /\ thread'[q].ontology = thread[q].ontology
    BY <1>1, <1>2, <1>5 DEF ThreadBecomes, Writing
  <2>3. \A q \in Runs : thread'[q].pc = "attach" => q # r /\ thread'[q] = thread[q]
    BY <1>5 DEF ThreadBecomes
  <2>4. CASE k # o
    <3>1. domain'[k] = domain[k]
      BY <1>1, <1>7, <2>4 DEF RunTyped
    <3>2. \A q \in Runs : thread'[q].pc = "attach" => Chosen(thread[q].todo)' = Chosen(thread[q].todo)
      BY <2>3 DEF Chosen
    <3> QED BY <1>6, <2>1, <2>2, <2>3, <3>1, <3>2 DEF OntologyHolds
  <2>5. CASE k = o
    <3>1. \A q \in Runs : Writing(q) /\ thread[q].ontology = o => q = r
      BY <1>1, <1>2, <2>1, <2>5 DEF OntologyHolds, Writing
    <3>2. \A q \in Runs : ~(thread'[q].pc = "attach" /\ thread'[q].ontology = o)
      BY <2>3, <3>1 DEF Writing
    <3>3. ~thread[r].found => domain[o][c] = 0
      BY <1>1, <1>2, <2>1, <2>5 DEF OntologyHolds
    <3>4. \A b \in Concepts : domain'[o][b] <= 1
      <4>1. \A b \in Concepts : domain[o][b] \in Nat /\ domain[o][b] <= 1
        BY <1>1, <2>1, <2>5 DEF OntologyHolds, RunTyped
      <4>2. CASE domain' = domain
        BY <4>1, <4>2
      <4>3. CASE ~thread[r].found /\ domain' = [domain EXCEPT ![o][c] = @ + 1]
        <5>1. domain'[o] = [domain[o] EXCEPT ![c] = domain[o][c] + 1]
          BY <1>1, <4>3 DEF RunTyped
        <5>2. domain[o][c] = 0
          BY <3>3, <4>3
        <5> QED BY <1>1, <4>1, <5>1, <5>2 DEF RunTyped
      <4> QED BY <1>7, <4>2, <4>3
    <3> QED BY <1>6, <2>1, <2>2, <2>5, <3>1, <3>2, <3>4 DEF OntologyHolds
  <2> QED BY <2>4, <2>5
<1> QED BY <1>9, <1>10, <1>11, <1>12, RunKept DEF RunInv

\* The document is done; the next one, or the end.
LEMMA RelateStep ==
    ASSUME RunInv, NEW r \in Runs, RelateClasses(r)
    PROVE  RunInv'
<1>1. RunTyped /\ RunHolds(r) /\ thread[r].pc = "relate" /\ Writing(r)
  BY DEF RunInv, RelateClasses, AtStep, Writing
<1>2. CASE Raises(r)
  BY <1>1, <1>2, RaisesStep DEF Working
<1>3. CASE ~Raises(r)
  <2>1. NothingWritten(r) /\ runs' = runs /\ results' = results
    BY <1>3 DEF RelateClasses, NothingWritten, ingestion
  <2>2. /\ thread[r].docs \in Seq(Documents) /\ thread[r].doc \in Nat /\ thread[r].result \in SUBSET Concepts
        /\ Len(thread[r].docs) \in Nat /\ DOMAIN thread[r].docs = 1..Len(thread[r].docs)
    <3>1. thread[r].docs \in Seq(Documents) /\ thread[r].doc \in Nat /\ thread[r].result \in SUBSET Concepts
      BY <1>1 DEF RunTyped, ThreadRecords
    <3> QED BY <3>1
  <2>3. \A i \in DOMAIN thread[r].docs : i <= thread[r].doc => DocumentLanded(r, i)
    <3>1. thread[r].todo = {} /\ \A i \in DOMAIN thread[r].docs : i < thread[r].doc => DocumentLanded(r, i)
      BY <1>1 DEF RunHolds
    <3>2. DocumentLanded(r, thread[r].doc)
      BY <1>1, <3>1 DEF RunHolds, DocumentLanded, CurrentDoc
    <3> QED BY <2>2, <3>1, <3>2
  <2>4. CASE thread[r].doc < Len(thread[r].docs)
    <3>1. PICK i \in Nat : i = thread[r].doc + 1
      BY <2>2
    <3>2. PICK pc \in {"relate", "materialize"} : pc = IF thread[r].result = {} THEN "relate" ELSE "materialize"
      OBVIOUS
    <3>3. ThreadBecomes(r, pc, thread[r].result, thread[r].status, thread[r].ontology, i, thread[r].result, thread[r].found)
      <4>1. thread' = [thread EXCEPT ![r] = [thread[r] EXCEPT !.pc = pc, !.doc = i, !.todo = thread[r].result]]
        BY <1>3, <2>4, <3>1, <3>2 DEF RelateClasses, Begins
      <4>2. pc \in Pcs
        BY DEF Pcs
      <4> QED BY <1>1, <2>2, <4>1, <4>2, ThreadWritten
    <3>4. \A j : DocumentLanded(r, j) => DocumentLanded(r, j)'
      BY <2>1, <3>3 DEF DocumentLanded, ThreadBecomes, NothingWritten
    <3>5. \A j \in DOMAIN thread[r].docs : j < i => DocumentLanded(r, j)'
      BY <2>2, <2>3, <3>1, <3>4
    <3>6. Writing(r)' /\ thread'[r].pc # "attach" /\ thread'[r].ontology = thread[r].ontology
      BY <3>3 DEF ThreadBecomes, Writing
    <3>7. RunHolds(r)'
      <4>1. Exists(r)' <=> Exists(r)
        BY <2>1 DEF Exists
      <4>2. /\ thread'[r].docs = thread[r].docs /\ thread'[r].doc = i /\ thread'[r].result = thread[r].result
            /\ thread'[r].todo = thread[r].result /\ thread'[r].ontology = thread[r].ontology /\ thread'[r].pc = pc
        BY <3>3 DEF ThreadBecomes
      <4> QED BY <1>1, <2>1, <3>2, <3>5, <3>6, <4>1, <4>2 DEF RunHolds
    <3> QED BY <1>1, <2>1, <3>3, <3>6, <3>7, QuietStep DEF RunTyped, ThreadBecomes
  <2>5. CASE ~(thread[r].doc < Len(thread[r].docs))
    <3>1. ThreadMoves(r, "finish")
      <4>1. thread' = [thread EXCEPT ![r] = [thread[r] EXCEPT !.pc = "finish"]]
        BY <1>3, <2>5 DEF RelateClasses
      <4> QED BY <1>1, <4>1, ThreadWritten DEF Pcs, RunTyped
    <3>2. \A j : DocumentLanded(r, j) => DocumentLanded(r, j)'
      BY <2>1, <3>1 DEF DocumentLanded, ThreadMoves, ThreadBecomes, NothingWritten
    <3>3. \A j \in DOMAIN thread[r].docs : DocumentLanded(r, j)'
      BY <2>2, <2>3, <2>5, <3>2
    <3>4. ~Writing(r)'
      BY <3>1 DEF ThreadMoves, ThreadBecomes, Writing
    <3>5. RunHolds(r)'
      <4>1. Exists(r)' <=> Exists(r)
        BY <2>1 DEF Exists
      <4>2. /\ thread'[r].docs = thread[r].docs /\ thread'[r].ontology = thread[r].ontology /\ thread'[r].pc = "finish"
        BY <3>1 DEF ThreadMoves, ThreadBecomes
      <4> QED BY <1>1, <2>1, <3>3, <3>4, <4>1, <4>2 DEF RunHolds
    <3> QED BY <1>1, <2>1, <3>1, <3>4, <3>5, QuietStep DEF RunTyped, ThreadMoves, ThreadBecomes
  <2> QED BY <2>4, <2>5
<1> QED BY <1>2, <1>3

\* The run is listed with what it produced.
LEMMA FinishStep ==
    ASSUME RunInv, NEW r \in Runs, FinishRun(r)
    PROVE  RunInv'
<1>1. RunTyped /\ RunHolds(r) /\ thread[r].pc = "finish"
  BY DEF RunInv, FinishRun, AtStep
<1>2. PICK o \in Ontologies : o = thread[r].ontology /\ runs[r].ontology = o
  BY <1>1 DEF RunHolds
<1>3. ThreadMoves(r, "done")
  BY <1>1, ThreadWritten DEF FinishRun, Pcs, RunTyped
<1>4. /\ produced \subseteq produced' /\ missed \subseteq missed' /\ <<o, r>> \in produced' \cup missed'
      /\ produced' \subseteq produced \cup {<<o, r>>} /\ landed' = landed /\ overlapped' = overlapped
      /\ domain' = domain /\ carried' = carried /\ vertices' = vertices /\ stranded' = stranded
      /\ crashes' = crashes /\ runs' = runs /\ results' = results
  <2>1. PICK this : this = <<o, r>>
    OBVIOUS
  <2>2. \/ produced' = produced \cup {this} /\ missed' = missed
        \/ produced' = produced /\ missed' = missed \cup {this}
    BY <1>2, <2>1 DEF FinishRun
  <2> QED BY <2>1, <2>2 DEF FinishRun, ingestion
<1>5. RunTyped'
  BY <1>1, <1>3, <1>4 DEF RunTyped, ThreadMoves, ThreadBecomes
<1>6. OtherRunsKept(r)
  BY <1>3, <1>4 DEF OtherRunsKept, ThreadMoves, ThreadBecomes
<1>7. RunHolds(r)'
  <2>1. \A i \in DOMAIN thread[r].docs : DocumentLanded(r, i)'
    BY <1>1, <1>3, <1>4 DEF RunHolds, DocumentLanded, ThreadMoves, ThreadBecomes
  <2>2. runs[r].status \in Successful => r \in results
    BY <1>1 DEF RunHolds, Exists, Absent, Successful
  <2>3. ~Writing(r)' /\ thread'[r].pc = "done" /\ thread'[r].docs = thread[r].docs
    BY <1>3 DEF ThreadMoves, ThreadBecomes, Writing
  <2> QED BY <1>1, <1>2, <1>4, <2>1, <2>2, <2>3 DEF RunHolds
<1>8. \A k \in Ontologies \ overlapped' : OntologyHolds(k)'
  <2>1. ~Writing(r)' /\ \A q \in Runs : q # r => thread'[q] = thread[q]
    BY <1>3 DEF ThreadMoves, ThreadBecomes, Writing
  <2> QED BY <1>4, <2>1, OntologiesKept DEF RunInv
<1> QED BY <1>5, <1>6, <1>7, <1>8, RunKept DEF RunInv

\* A launch leaves the other runs as they were.
LEMMA LaunchStep ==
    ASSUME RunInv, NEW r \in Runs, NEW docs \in Seq(Documents), docs # <<>>, Launched(r, docs), NothingWritten(r), results' = results
    PROVE  RunInv'
<1>1. RunHolds(r) /\ RunTyped
  BY DEF RunInv
<1>2. ~Writing(r)'
  BY <1>1 DEF Launched, RunHolds, Writing
<1>3. RunHolds(r)'
  BY <1>1, <1>2 DEF RunHolds, Launched, Successful
<1> QED BY <1>1, <1>2, <1>3, QuietStep DEF Launched, RunTyped

\* A run is asked for, or asked for again.
LEMMA StartStep ==
    ASSUME RunInv, NEW w \in Workers, (\E body \in Bodies : StartExtraction(w, body)) \/ (\E r \in Runs : RetryRun(w, r))
    PROVE  RunInv'
<1>1. RunTyped
  BY DEF RunInv
<1>2. ASSUME NEW body \in Bodies, StartExtraction(w, body) PROVE RunInv'
  <2>1. /\ body.docs \in Seq(Documents) /\ body.docs # <<>> /\ body.target \in Ontologies \cup {None}
        /\ body.bases \in SUBSET Registered /\ 0 \in Runs \cup {0}
    BY RunBounds
  <2>2. PICK r \in Runs : Launched(r, body.docs)
    BY <1>1, <1>2, <2>1, LaunchEffect DEF StartExtraction
  <2>3. NothingWritten(r) /\ results' = results
    BY <1>2, <2>2 DEF StartExtraction, Launched, NothingWritten, ingestion, graph
  <2> QED BY <2>1, <2>2, <2>3, LaunchStep
<1>3. ASSUME NEW r \in Runs, RetryRun(w, r) PROVE RunInv'
  <2>1. runs[r].status # "unused"
    BY <1>3 DEF RetryRun
  <2>2. runs[r].docs \in Seq(Documents) /\ runs[r].docs # <<>> /\ runs[r].target \in Ontologies \cup {None}
    BY <1>1, <2>1 DEF RunInv, RunHolds, RunTyped, RunRecords
  <2>3. PICK d \in Documents : d = runs[r].docs[1]
    <3>1. 1 \in DOMAIN runs[r].docs
      BY <2>2
    <3> QED BY <2>2, <3>1
  <2>4. <<d>> \in Seq(Documents) /\ <<d>> # <<>>
    OBVIOUS
  <2>5. {} \in SUBSET Registered /\ r \in Runs \cup {0}
    OBVIOUS
  <2>6. PICK q \in Runs : Launched(q, <<d>>)
    BY <1>1, <1>3, <2>2, <2>3, <2>4, <2>5, LaunchEffect DEF RetryRun
  <2>7. NothingWritten(q) /\ results' = results
    BY <1>3, <2>6 DEF RetryRun, Launched, NothingWritten, ingestion, graph
  <2> QED BY <2>4, <2>6, <2>7, LaunchStep
<1> QED BY <1>2, <1>3

\* A run record is deleted, whoever works for it.
LEMMA DeleteStep ==
    ASSUME RunInv, NEW r \in Runs, DeleteRun(r) \/ DeleteResults(r)
    PROVE  RunInv'
<1>1. RunTyped /\ RunHolds(r)
  BY DEF RunInv
<1>2. NothingWritten(r) /\ thread' = thread
  BY DEF DeleteRun, DeleteResults, NothingWritten, ingestion, graph
<1>3. results' \subseteq results /\ \A q \in Runs : q # r => (q \in results => q \in results')
  BY DEF DeleteRun, DeleteResults
<1>4. /\ runs' \in [Runs -> RunRecords] /\ runs'[r].status = "gone" /\ runs[r].status # "unused"
      /\ runs'[r].ontology = runs[r].ontology /\ runs'[r].docs = runs[r].docs
      /\ \A q \in Runs : q # r => runs'[q] = runs[q]
  <2>1. CASE DeleteRun(r)
    <3>1. "gone" \in RunStatuses /\ runs[r].ontology \in Ontologies \cup {None}
      BY <1>1 DEF RunStatuses, RunTyped, RunRecords
    <3>2. RunBecomes(r, "gone", runs[r].ontology)
      BY <1>1, <2>1, <3>1, RunWritten DEF DeleteRun
    <3> QED BY <2>1, <3>2 DEF RunBecomes, DeleteRun, Exists, Absent
  <2>2. CASE DeleteResults(r)
    BY <1>1, <2>2 DEF DeleteResults, RunTyped
  <2> QED BY <2>1, <2>2
<1>5. RunHolds(r)'
  <2>1. ~Exists(r)' /\ (Writing(r)' <=> Writing(r)) /\ CurrentDoc(r)' = CurrentDoc(r)
        /\ \A i : DocumentLanded(r, i)' <=> DocumentLanded(r, i)
    BY <1>2, <1>4 DEF Exists, Absent, Writing, CurrentDoc, DocumentLanded, NothingWritten
  <2> QED BY <1>1, <1>2, <1>4, <2>1 DEF RunHolds, NothingWritten, Successful
<1>6. RunTyped'
  BY <1>1, <1>2, <1>3, <1>4 DEF RunTyped, NothingWritten
<1>7. OtherRunsKept(r)
  BY <1>2, <1>3, <1>4 DEF OtherRunsKept, NothingWritten
<1>8. \A o \in Ontologies \ overlapped' : OntologyHolds(o)'
  BY <1>2 DEF RunInv, NothingWritten, OntologyHolds, Writing, Chosen
<1> QED BY <1>5, <1>6, <1>7, <1>8, RunKept DEF RunInv

\* The process dies: threads end, and what a completed run has landed is no
\* longer promised.
LEMMA DiesStep ==
    ASSUME RunInv, NEW w \in Workers, ProcessDies(w)
    PROVE  RunInv'
<1>1. RunTyped
  BY DEF RunInv
<1>2. /\ domain' = domain /\ carried' = carried /\ vertices' = vertices /\ landed' = landed /\ missed' = missed
      /\ produced' = produced /\ overlapped' = overlapped /\ stranded' = stranded
      /\ runs' = runs /\ results' = results /\ crashes' = crashes + 1 /\ crashes' \in Nat /\ crashes' # 0
  BY <1>1 DEF ProcessDies, graph, Crash, RunTyped
<1>3. /\ thread' \in [Runs -> ThreadRecords]
      /\ \A r \in Runs : \/ thread'[r] = thread[r]
                         \/ Working(r) /\ thread'[r].pc = "done"
  <2>1. \A r \in Runs : thread[r] \in ThreadRecords
    BY <1>1 DEF RunTyped
  <2>2. \A r \in Runs : LET t == [thread[r] EXCEPT !.pc = "done"] IN t \in ThreadRecords /\ t.pc = "done"
    BY <2>1 DEF ThreadRecords
  <2> QED BY <2>1, <2>2 DEF ProcessDies
<1>4. RunTyped'
  BY <1>1, <1>2, <1>3 DEF RunTyped
<1>5. ASSUME NEW r \in Runs PROVE RunHolds(r)'
  <2>1. RunHolds(r)
    BY DEF RunInv
  <2>2. CASE thread'[r] = thread[r]
    <3>1. (Exists(r)' <=> Exists(r)) /\ (Writing(r)' <=> Writing(r)) /\ CurrentDoc(r)' = CurrentDoc(r)
          /\ \A i : DocumentLanded(r, i)' <=> DocumentLanded(r, i)
      BY <1>2, <2>2 DEF Exists, Writing, CurrentDoc, DocumentLanded
    <3> QED BY <1>2, <2>1, <2>2, <3>1 DEF RunHolds
  <2>3. CASE Working(r) /\ thread'[r].pc = "done"
    BY <1>2, <2>1, <2>3 DEF RunHolds, Working, Writing
  <2> QED BY <1>3, <2>2, <2>3
<1>6. ASSUME NEW o \in Ontologies \ overlapped' PROVE OntologyHolds(o)'
  <2>1. OntologyHolds(o)
    BY <1>2 DEF RunInv
  <2>2. \A r \in Runs : Writing(r)' => thread'[r] = thread[r] /\ Writing(r)
    BY <1>3 DEF Writing
  <2>3. \A r \in Runs : thread'[r].pc = "attach" => thread'[r] = thread[r]
    BY <2>2 DEF Writing
  <2>4. \A r \in Runs : thread'[r].pc = "attach" => Chosen(thread[r].todo)' = Chosen(thread[r].todo)
    BY <2>3 DEF Chosen
  <2> QED BY <1>2, <2>1, <2>2, <2>3, <2>4 DEF OntologyHolds
<1> QED BY <1>4, <1>5, <1>6 DEF RunInv

\* The steps of the documents touch nothing of the runs.
LEMMA DocumentsAside == ClientNext \/ ServerNext => crashes' = crashes
BY DEF ClientNext, ServerNext, BeginUpload, BeginReplace, BeginDelete, DeleteChunks, DeleteRecord, Requests, RequestRaises, DropChunks,
   DropRecord, CreateDocument, Rename, Restart, Process, BeginParse, Chunk, Store, CountChunks, IndexAndFinish, Fails

\* A step that leaves the runs alone.
LEMMA AsideStep ==
    ASSUME RunInv,
           UNCHANGED <<runs, results, thread, domain, carried, vertices, landed, missed, produced, stranded, overlapped, crashes>>
    PROVE  RunInv'
<1>1. /\ runs' = runs /\ results' = results /\ thread' = thread /\ domain' = domain /\ carried' = carried
      /\ vertices' = vertices /\ landed' = landed /\ missed' = missed /\ produced' = produced
      /\ stranded' = stranded /\ overlapped' = overlapped /\ crashes' = crashes
  OBVIOUS
<1>2. RunTyped'
  BY <1>1 DEF RunInv, RunTyped
<1>3. OtherRunsKept(0)
  BY <1>1 DEF OtherRunsKept
<1>4. \A r \in Runs : RunHolds(r)'
  BY <1>3, RunKept DEF RunInv, Runs
<1>5. \A o \in Ontologies \ overlapped' : OntologyHolds(o)'
  BY <1>1 DEF RunInv, OntologyHolds, Writing, Chosen
<1> QED BY <1>2, <1>4, <1>5 DEF RunInv

\* An edit takes the edge, of which there is one at most, to a version more.
LEMMA EditStep ==
    ASSUME RunInv, NEW o \in Ontologies, NEW c \in Concepts, EditClass(o, c)
    PROVE  RunInv'
<1>1. RunTyped
  BY DEF RunInv
<1>2. /\ runs' = runs /\ results' = results /\ thread' = thread /\ landed' = landed /\ missed' = missed
      /\ produced' = produced /\ stranded' = stranded /\ overlapped' = overlapped /\ crashes' = crashes
  BY DEF EditClass, ingestion
<1>3. PICK there \in Nat : there = domain[o][c]
  BY <1>1 DEF RunTyped
<1>4. /\ domain' \in [Ontologies -> [Concepts -> Nat]] /\ domain'[o][c] = 0
      /\ \A k \in Ontologies, b \in Concepts : k # o \/ b # c => domain'[k][b] = domain[k][b]
  BY <1>1 DEF EditClass, RunTyped
<1>5. /\ carried' \in [Ontologies -> [Concepts -> Nat]] /\ carried'[o][c] = carried[o][c] + there
      /\ \A k \in Ontologies, b \in Concepts : k # o \/ b # c => carried'[k][b] = carried[k][b]
  BY <1>1, <1>3 DEF EditClass, RunTyped
<1>6. /\ vertices' \in [Ontologies -> [Concepts -> ClassDocuments]] /\ vertices'[o][c].edits = vertices[o][c].edits + 1
      /\ \A k \in Ontologies, b \in Concepts : k # o \/ b # c => vertices'[k][b] = vertices[k][b]
  <2>1. PICK edits \in Nat : edits = vertices[o][c].edits
    BY <1>1 DEF RunTyped, ClassDocuments
  <2>2. PICK document \in ClassDocuments : document.edits = edits + 1 /\ vertices' = [vertices EXCEPT ![o][c] = document]
    <3> DEFINE document == [base |-> "expired", edits |-> edits + 1]
    <3>1. document \in ClassDocuments /\ document.edits = edits + 1
      BY DEF ClassDocuments
    <3>2. vertices' = [vertices EXCEPT ![o][c] = document]
      BY <2>1 DEF EditClass
    <3> HIDE DEF document
    <3> QED BY <3>1, <3>2
  <2> QED BY <1>1, <2>1, <2>2 DEF RunTyped
<1>7. RunTyped'
  BY <1>1, <1>2, <1>4, <1>5, <1>6 DEF RunTyped
<1>8. OtherRunsKept(0)
  BY <1>2 DEF OtherRunsKept
<1>9. \A r \in Runs : RunHolds(r)'
  BY <1>8, RunKept DEF RunInv, Runs
<1>10. ASSUME NEW k \in Ontologies \ overlapped' PROVE OntologyHolds(k)'
  <2>1. OntologyHolds(k)
    BY <1>2 DEF RunInv
  <2>2. \A b \in Concepts : domain'[k][b] = domain[k][b] \/ domain'[k][b] = 0
    BY <1>4
  <2>3. ASSUME NEW b \in Concepts PROVE domain'[k][b] <= 1 /\ carried'[k][b] <= vertices'[k][b].edits
    <3>1. domain[k][b] <= 1 /\ carried[k][b] <= vertices[k][b].edits
      BY <2>1 DEF OntologyHolds
    <3>2. domain[k][b] \in Nat /\ carried[k][b] \in Nat /\ vertices[k][b].edits \in Nat
      BY <1>1 DEF RunTyped, ClassDocuments
    <3>3. CASE k = o /\ b = c
      BY <1>3, <1>4, <1>5, <1>6, <3>1, <3>2, <3>3
    <3>4. CASE k # o \/ b # c
      BY <1>4, <1>5, <1>6, <3>1, <3>4
    <3> QED BY <3>3, <3>4
  <2>4. \A r \in Runs : thread[r].pc = "attach" => Chosen(thread[r].todo) \in Concepts
    <3>1. \A r \in Runs : thread[r].pc = "attach" => thread[r].todo # {} /\ thread[r].todo \subseteq Concepts
      BY <1>1 DEF RunInv, RunHolds, RunTyped, ThreadRecords
    <3> QED BY <3>1, ChosenIsIn
  <2>5. \A r \in Runs : (Writing(r)' <=> Writing(r)) /\ Chosen(thread[r].todo)' = Chosen(thread[r].todo)
    BY <1>2 DEF Writing, Chosen
  <2> QED BY <1>2, <2>1, <2>2, <2>3, <2>4, <2>5 DEF OntologyHolds
<1> QED BY <1>7, <1>9, <1>10 DEF RunInv

\* The invariant is inductive.
LEMMA RunSteps == RunInv /\ [RunNext]_all => RunInv'
<1> SUFFICES ASSUME RunInv, [RunNext]_all PROVE RunInv'
  OBVIOUS
<1>1. CASE DocumentStep
  BY <1>1, DocumentsAside, AsideStep DEF DocumentStep, extraction, graph
<1>2. ASSUME NEW o \in Ontologies, NEW c \in Concepts, EditClass(o, c) PROVE RunInv'
  BY <1>2, EditStep
<1>3. CASE UNCHANGED all
  BY <1>3, AsideStep DEF all, ingestion, extraction, graph
<1>4. ASSUME NEW r \in Runs, ExecuteRun(r) PROVE RunInv'
  BY <1>4, PipelineStep, StatusStep, ResultsStep, RegisterStep, LinkStep, MaterializeStep, AttachStep, RelateStep, FinishStep
     DEF ExecuteRun
<1> QED BY <1>1, <1>2, <1>3, <1>4, StartStep, DeleteStep, DiesStep DEF RunNext

\* There are no runs at first.
LEMMA RunStarts == RunInit => RunInv
<1> SUFFICES ASSUME RunInit PROVE RunInv
  OBVIOUS
<1>1. NoRun \in RunRecords /\ NoRun.status = "unused" /\ NoRun.ontology = None
  BY DEF NoRun, RunRecords, RunStatuses
<1>2. PICK first \in ThreadRecords : NoThread = first /\ first.pc = "none"
  <2>1. (CHOOSE w \in Workers : TRUE) \in Workers
    BY IngestionBounds
  <2>2. NoThread \in ThreadRecords /\ NoThread.pc = "none"
    BY <2>1 DEF NoThread, ThreadRecords
  <2> QED BY <2>2
<1>3. /\ runs = [r \in Runs |-> NoRun] /\ thread = [r \in Runs |-> first] /\ results = {} /\ produced = {} /\ overlapped = {}
      /\ domain = [o \in Ontologies |-> [c \in Concepts |-> 0]] /\ carried = [o \in Ontologies |-> [c \in Concepts |-> 0]]
      /\ vertices = [o \in Ontologies |-> [c \in Concepts |-> [base |-> "none", edits |-> 0]]]
      /\ stranded = {} /\ crashes = 0
  BY <1>2 DEF RunInit, IngestionInit
<1>4. RunTyped
  BY <1>1, <1>2, <1>3 DEF RunTyped, ClassDocuments
<1>5. \A r \in Runs : runs[r].status = "unused" /\ thread[r].pc = "none"
  BY <1>1, <1>2, <1>3
<1>6. \A r \in Runs : RunHolds(r)
  BY <1>5 DEF RunHolds, Writing
<1>7. \A o \in Ontologies : OntologyHolds(o)
  BY <1>3, <1>5 DEF OntologyHolds, Writing
<1> QED BY <1>4, <1>6, <1>7 DEF RunInv

\* The invariant of the extraction runs, for any number of runs, ontologies,
\* concepts, documents and processes.
THEOREM RunsHold == RunSpec => []RunInv
BY RunStarts, RunSteps, PTL DEF RunSpec

\* The runs, threads and results have the values the code gives them.
THEOREM RunTypesHold == RunSpec => []RunTypes
<1>1. RunInv => RunTypes
  BY DEF RunInv, RunTyped, RunTypes, RunRecords, RunStatuses
<1> QED BY <1>1, RunsHold, PTL

\* A run that execute_run reports as completed has its results, and what was
\* found in each of its documents is in the graph but for what a failed write
\* of its own left out, unless a process died or its end was not recorded.
THEOREM CompletedRunsAreLanded == RunSpec => []CompletedIsLanded
<1>1. RunInv => CompletedIsLanded
  BY DEF RunInv, RunHolds, CompletedIsLanded, DocumentLanded, ToSet
<1> QED BY <1>1, RunsHold, PTL

\* In an ontology that one thread at a time writes to, the document of a class
\* has at most one edge of its property, and so have its edited versions each.
THEOREM OneEdgeToADomain == RunSpec => []OneDomainEdge
<1>1. RunInv => OneDomainEdge
  BY DEF RunInv, OntologyHolds, OneDomainEdge
<1> QED BY <1>1, RunsHold, PTL

-----------------------------------------------------------------------------
(* The repair of range edges.                                               *)

EdgeRepairSpec == EdgeRepairInit /\ [][EdgeRepairNext]_edgeRepair

Prop == [text : Texts, domains : DomainChoices]
StoredEdge == [from : Nat, to : Seq(Nat), live : BOOLEAN, repair : BOOLEAN]
RelationSets == [props : Seq(Prop), edges : Seq(StoredEdge)]

LEMMA FirstOf == ASSUME NEW S \in SUBSET Nat, S # {} PROVE \E n \in S : \A m \in S : n <= m
<1>1. PICK n \in S : \A m \in S : ~(<<m, n>> \in OpToRel(<, Nat))
  BY NatLessThanWellFounded, WFMin
<1>2. \A m \in S : m \in Nat /\ n \in Nat /\ ~(m < n)
  BY <1>1 DEF OpToRel
<1> QED BY <1>2

\* Sequences one after the other: the recursive function exists, and all it is
\* made of is in S.
Flattens(f, ss, m) == f = [i \in 1 .. m |-> IF i = 1 THEN ss[i] ELSE f[i - 1] \o ss[i]]

LEMMA FlatDefined == ASSUME NEW ss, NEW n \in Nat, n # 0 PROVE \E f : Flattens(f, ss, n)
<1> DEFINE Undefined == {m \in Nat \ {0} : \A f : ~Flattens(f, ss, m)}
<1>1. Undefined = {}
  <2> SUFFICES ASSUME Undefined # {} PROVE FALSE
    OBVIOUS
  <2>1. PICK m \in Undefined : \A k \in Undefined : m <= k
    BY FirstOf, Undefined \in SUBSET Nat
  <2>2. m # 1
    <3>1. Flattens([i \in 1 .. 1 |-> ss[i]], ss, 1)
      BY DEF Flattens
    <3> QED BY <2>1, <3>1
  <2>3. m - 1 \in Nat \ {0} /\ m - 1 \notin Undefined
    BY <2>1, <2>2
  <2>4. PICK f : Flattens(f, ss, m - 1)
    BY <2>3
  <2> DEFINE g == [i \in 1 .. m |-> IF i = 1 THEN ss[i] ELSE f[i - 1] \o ss[i]]
  <2>5. ASSUME NEW i \in 1 .. m, i # 1 PROVE g[i - 1] = f[i - 1]
    <3>1. i - 1 \in 1 .. m - 1 /\ i - 1 \in 1 .. m
      BY <2>3, <2>5
    <3>2. f[i - 1] = IF i - 1 = 1 THEN ss[i - 1] ELSE f[i - 1 - 1] \o ss[i - 1]
      BY <2>4, <3>1 DEF Flattens
    <3>3. g[i - 1] = IF i - 1 = 1 THEN ss[i - 1] ELSE f[i - 1 - 1] \o ss[i - 1]
      BY <3>1
    <3> QED BY <3>2, <3>3
  <2>6. g = [i \in 1 .. m |-> IF i = 1 THEN ss[i] ELSE g[i - 1] \o ss[i]]
    <3>1. \A i \in 1 .. m : (IF i = 1 THEN ss[i] ELSE f[i - 1] \o ss[i]) = IF i = 1 THEN ss[i] ELSE g[i - 1] \o ss[i]
      BY <2>5
    <3> QED BY <3>1
  <2> HIDE DEF g
  <2>7. Flattens(g, ss, m)
    BY <2>6 DEF Flattens
  <2> QED BY <2>1, <2>7
<1> QED BY <1>1

LEMMA Flat == ASSUME NEW S, NEW ss \in Seq(Seq(S)) PROVE FlattenSeq(ss) \in Seq(S)
<1> DEFINE n == Len(ss)
           f == CHOOSE g : Flattens(g, ss, n)
<1>1. CASE n = 0
  <2>1. FlattenSeq(ss) = <<>>
    BY <1>1 DEF FlattenSeq
  <2> QED BY <2>1
<1>2. CASE n # 0
  <2>1. FlattenSeq(ss) = f[n]
    BY <1>2 DEF FlattenSeq, Flattens
  <2>2. n \in Nat /\ \A i \in 1 .. n : ss[i] \in Seq(S)
    OBVIOUS
  <2> HIDE DEF n
  <2>3. Flattens(f, ss, n)
    BY <1>2, <2>2, FlatDefined
  <2> HIDE DEF f
  <2> DEFINE Wrong == {i \in 1 .. n : f[i] \notin Seq(S)}
  <2>4. Wrong = {}
    <3> SUFFICES ASSUME Wrong # {} PROVE FALSE
      OBVIOUS
    <3>1. PICK i \in Wrong : \A k \in Wrong : i <= k
      BY FirstOf, <2>2, Wrong \in SUBSET Nat
    <3>2. f[i] = IF i = 1 THEN ss[i] ELSE f[i - 1] \o ss[i]
      BY <2>3, <3>1 DEF Flattens
    <3>3. i # 1
      BY <2>2, <3>1, <3>2
    <3>4. i - 1 \in 1 .. n /\ i - 1 \notin Wrong
      BY <2>2, <3>1, <3>3
    <3>5. f[i - 1] \o ss[i] \in Seq(S)
      BY <2>2, <3>1, <3>4, ConcatProperties
    <3> QED BY <3>1, <3>2, <3>3, <3>5
  <2> QED BY <1>2, <2>1, <2>2, <2>4
<1> QED BY <1>1, <1>2


Longest(candidates, text) == LongestOf(candidates, LAMBDA name : NameIn(name, text))

\* Of finitely many candidates that pass one is the longest, and the first of those.
LEMMA LongestIsOne ==
    ASSUME NEW K, NEW candidates \in Seq([name : Seq(Nat), key : K]), NEW text,
           Longest(candidates, text).found
    PROVE  Longest(candidates, text).key \in K
<1> DEFINE hits == {i \in 1..Len(candidates) : candidates[i].name # <<>> /\ NameIn(candidates[i].name, text)}
           best == {i \in hits : \A j \in hits : Len(candidates[j].name) <= Len(candidates[i].name)}
           longer(i) == {j \in hits : Len(candidates[i].name) < Len(candidates[j].name)}
           first == CHOOSE i \in best : \A j \in best : i <= j
<1>1. hits # {} /\ Longest(candidates, text) = [found |-> TRUE, key |-> candidates[first].key]
  BY DEF Longest, LongestOf
<1>3. Len(candidates) \in Nat /\ \A i \in 1..Len(candidates) : /\ i \in Nat /\ candidates[i].key \in K
                                                                /\ Len(candidates[i].name) \in Nat
  <2>1. \A i \in 1..Len(candidates) : candidates[i] \in [name : Seq(Nat), key : K]
    BY ElementOfSeq
  <2> QED BY <2>1
<1>2. \A i \in hits : i \in 1..Len(candidates) /\ Len(candidates[i].name) \in Nat
  BY <1>3
<1>4. IsFiniteSet(hits)
  <2>1. IsFiniteSet(1..Len(candidates))
    BY <1>3, FS_Interval
  <2> QED BY <2>1, FS_Subset
<1> HIDE DEF hits
<1>5. best # {}
  <2> DEFINE H == {longer(i) : i \in hits}
  <2>1. H # {} /\ H \subseteq FiniteSubsetsOf(hits)
    <3>1. \A i \in hits : longer(i) \in FiniteSubsetsOf(hits)
      BY <1>4, FS_FiniteSubsetsOfFinite
    <3> QED BY ZenonT(40), <1>1, <3>1
  <2>2. PICK h \in H : \A k \in H : ~(<<k, h>> \in StrictSubsetOrdering(hits))
    BY <1>4, <2>1, FS_StrictSubsetOrderingWellFounded, WFMin
  <2>3. PICK i \in hits : h = longer(i)
    OBVIOUS
  <2>4. ASSUME NEW j \in longer(i) PROVE FALSE
    <3>1. j \in hits /\ Len(candidates[i].name) < Len(candidates[j].name)
      BY <2>4
    <3>2. longer(j) \subseteq longer(i) /\ j \notin longer(j)
      BY SMTT(40), <1>2, <2>3, <3>1
    <3>3. <<longer(j), h>> \in StrictSubsetOrdering(hits)
      BY <2>3, <2>4, <3>2 DEF StrictSubsetOrdering
    <3> QED BY <2>2, <3>1, <3>3
  <2>5. \A j \in hits : ~(Len(candidates[i].name) < Len(candidates[j].name))
    BY <2>4
  <2>6. i \in best
    BY SMTT(40), <1>2, <2>3, <2>5
  <2> QED BY <2>6
<1>6. best \subseteq hits
  OBVIOUS
<1> HIDE DEF best
<1>7. first \in best
  <2>1. best \in SUBSET Nat
    BY <1>2, <1>6
  <2> QED BY <1>5, <2>1, FirstOf
<1> QED BY <1>1, <1>2, <1>3, <1>6, <1>7

\* What is found is a class, and not the one the relation starts from.
LEMMA FoundElsewhere ==
    ASSUME NEW text, NEW own, FindRangeClass(text, RepairClasses, own).found
    PROVE  FindRangeClass(text, RepairClasses, own).key \in Seq(Nat) \ {own}
<1> DEFINE K == Seq(Nat) \ {own}
           Candidate == [name : Seq(Nat), key : K]
           named(name, v) == [name |-> name, key |-> v.key]
           names(v) == IF v.key = own THEN <<>> ELSE IF v.label = v.key THEN <<named(v.key, v)>>
                       ELSE <<named(v.key, v), named(v.label, v)>>
           offered == [i \in 1..Len(RepairClasses) |-> names(RepairClasses[i])]
<1>1. \A i \in 1..Len(RepairClasses) : names(RepairClasses[i]) \in Seq(Candidate)
  <2> TAKE i \in 1..Len(RepairClasses)
  <2>1. PICK v \in [key : Seq(Nat), label : Seq(Nat)] : v = RepairClasses[i]
    BY EdgeRepairAssumption, ElementOfSeq
  <2>2. v.key # own => named(v.key, v) \in Candidate /\ named(v.label, v) \in Candidate
    OBVIOUS
  <2> HIDE DEF Candidate, named
  <2> QED BY <2>1, <2>2
<1>2. Len(RepairClasses) \in Nat
  BY EdgeRepairAssumption
<1>3. offered \in Seq(Seq(Candidate))
  <2> HIDE DEF names, Candidate
  <2> QED BY <1>1, <1>2
<1>4. FlattenSeq(offered) \in Seq(Candidate)
  BY <1>3, Flat
<1>5. FindRangeClass(text, RepairClasses, own) = Longest(FlattenSeq(offered), text)
  BY DEF FindRangeClass, Longest
<1>6. FlattenSeq(offered) \in Seq([name : Seq(Nat), key : K])
  BY <1>4
<1> HIDE DEF offered, K
<1>7. Longest(FlattenSeq(offered), text).key \in K
  BY <1>5, <1>6, LongestIsOne
<1> QED BY <1>5, <1>7 DEF K


LEMMA RepairedElsewhere ==
    ASSUME NEW g, NEW p, Outcome(g, p).is = "repaired"
    PROVE  /\ ~Ranged(g, p) /\ g.props[p].domains # <<>>
           /\ Outcome(g, p).class \in Seq(Nat) \ {g.props[p].domains[1]}
<1> DEFINE match == FindRangeClass(g.props[p].text, RepairClasses, g.props[p].domains[1])
<1>1. ~Ranged(g, p) /\ g.props[p].domains # <<>> /\ match.found /\ Outcome(g, p).class = match.key
  <2> HIDE DEF match
  <2>1. Outcome(g, p) = CASE Ranged(g, p) -> [is |-> "ranged"]
         [] ~Ranged(g, p) /\ g.props[p].domains = <<>> -> [is |-> "no_domain"]
         [] ~Ranged(g, p) /\ g.props[p].domains # <<>> /\ ~match.found -> [is |-> "unrecoverable"]
         [] OTHER -> [is |-> "repaired", class |-> match.key]
    BY DEF Outcome, match
  <2> QED BY <2>1
<1> QED BY <1>1, FoundElsewhere

LEMMA OutcomeDepends ==
    ASSUME NEW g, NEW h, NEW p, g.props = h.props, Ranged(g, p) <=> Ranged(h, p)
    PROVE  Outcome(g, p) = Outcome(h, p)
<1> DEFINE match == FindRangeClass(g.props[p].text, RepairClasses, g.props[p].domains[1])
           outcome(ranged) == CASE ranged -> [is |-> "ranged"]
         [] ~ranged /\ g.props[p].domains = <<>> -> [is |-> "no_domain"]
         [] ~ranged /\ g.props[p].domains # <<>> /\ ~match.found -> [is |-> "unrecoverable"]
         [] OTHER -> [is |-> "repaired", class |-> match.key]
<1>1. Outcome(g, p) = outcome(Ranged(g, p)) /\ Outcome(h, p) = outcome(Ranged(h, p))
  BY DEF Outcome
<1>2. CASE Ranged(g, p)
  <2>1. Ranged(h, p)
    BY <1>2
  <2> QED BY <1>1, <1>2, <2>1
<1>3. CASE ~Ranged(g, p)
  <2>1. ~Ranged(h, p)
    BY <1>3
  <2> HIDE DEF match
  <2> QED BY <1>1, <1>3, <2>1
<1> QED BY <1>2, <1>3

\* The orphans are gone through in turn; the fold that does it exists.
Inserted(g, failing, p, edges) ==
    IF Outcome(g, p).is = "repaired" /\ p \notin failing
    THEN Append(edges, [from |-> p, to |-> Outcome(g, p).class, live |-> TRUE, repair |-> TRUE]) ELSE edges
WriteRound(g, failing, s, written) ==
    IF s = {} THEN g.edges
    ELSE Inserted(g, failing, [p \in 1..Len(g.props) |-> p][Max(s)], written[s \ {Max(s)}])
WritesAll(written, g, failing, n) == written = [s \in SUBSET (1..n) |-> WriteRound(g, failing, s, written)]

LEMMA GreatestOf == ASSUME NEW n \in Nat, NEW s \in SUBSET (1..n), s # {}
                    PROVE  Max(s) \in s /\ \A m \in s : m <= Max(s)
<1> DEFINE above == {m \in Nat : \A k \in s : k <= m}
<1>1. n \in above /\ above \in SUBSET Nat
  OBVIOUS
<1>2. PICK m \in above : \A k \in above : m <= k
  BY <1>1, FirstOf
<1>3. m \in s
  <2> SUFFICES ASSUME m \notin s PROVE FALSE
    OBVIOUS
  <2>1. PICK k : k \in s
    OBVIOUS
  <2>2. m - 1 \in Nat /\ \A j \in s : j <= m - 1
    BY <1>2, <2>1
  <2> QED BY <1>2, <2>2
<1>4. m \in s /\ \A k \in s : m >= k
  BY <1>2, <1>3
<1>5. Max(s) \in s /\ \A k \in s : Max(s) >= k
  BY <1>4 DEF Max
<1> QED BY <1>5

LEMMA WritesDefined == ASSUME NEW g, NEW failing, NEW n \in Nat PROVE \E written : WritesAll(written, g, failing, n)
<1> DEFINE Undefined == {m \in Nat : \A f : ~WritesAll(f, g, failing, m)}
<1>1. Undefined = {}
  <2> SUFFICES ASSUME Undefined # {} PROVE FALSE
    OBVIOUS
  <2>1. PICK m \in Undefined : \A k \in Undefined : m <= k
    BY FirstOf, Undefined \in SUBSET Nat
  <2>2. m # 0
    <3> DEFINE f == [s \in SUBSET (1..0) |-> g.edges]
    <3>1. \A s \in SUBSET (1..0) : s = {} /\ WriteRound(g, failing, s, f) = g.edges
      BY DEF WriteRound
    <3>2. WritesAll(f, g, failing, 0)
      BY <3>1 DEF WritesAll
    <3> QED BY <2>1, <3>2
  <2>3. m - 1 \in Nat /\ m - 1 \notin Undefined
    BY <2>1, <2>2
  <2>4. PICK f : WritesAll(f, g, failing, m - 1)
    BY <2>3
  <2> DEFINE h == [s \in SUBSET (1..m) |-> WriteRound(g, failing, s, f)]
  <2>5. \A s \in SUBSET (1..(m - 1)) : h[s] = f[s]
    <3> TAKE s \in SUBSET (1..(m - 1))
    <3>1. s \in SUBSET (1..m)
      BY <2>3
    <3>2. f[s] = WriteRound(g, failing, s, f)
      BY <2>4 DEF WritesAll
    <3> QED BY <3>1, <3>2
  <2> HIDE DEF h
  <2>6. ASSUME NEW s \in SUBSET (1..m)
        PROVE  WriteRound(g, failing, s, f) = WriteRound(g, failing, s, h)
    <3>1. CASE s = {}
      BY <3>1 DEF WriteRound
    <3>2. CASE s # {}
      <4>1. Max(s) \in s /\ \A k \in s : k <= Max(s)
        BY <2>3, <3>2, GreatestOf
      <4>2. s \ {Max(s)} \in SUBSET (1..(m - 1))
        <5> DEFINE x == Max(s)
        <5> HIDE DEF x
        <5>1. x \in s /\ \A k \in s : k <= x
          BY <4>1 DEF x
        <5>2. \A k \in s \ {x} : k \in 1..(m - 1)
          BY <2>3, <5>1
        <5>3. s \ {x} \in SUBSET (1..(m - 1))
          BY <5>2
        <5> QED BY <5>3 DEF x
      <4>3. h[s \ {Max(s)}] = f[s \ {Max(s)}]
        BY <2>5, <4>2
      <4> QED BY <4>3 DEF WriteRound
    <3> QED BY <3>1, <3>2
  <2>7. h = [s \in SUBSET (1..m) |-> WriteRound(g, failing, s, h)]
    BY <2>6 DEF h
  <2>8. WritesAll(h, g, failing, m)
    BY <2>7 DEF WritesAll
  <2> QED BY <2>1, <2>8
<1> QED BY <1>1

LEMMA WrittenInTurn ==
    ASSUME NEW g, NEW failing, Len(g.props) \in Nat
    PROVE  \E w : /\ w[0] = g.edges
                  /\ \A p \in 1..Len(g.props) : w[p] = Inserted(g, failing, p, w[p - 1])
                  /\ RepairOrphans(g, failing, FALSE).edges = w[Len(g.props)]
<1> DEFINE n == Len(g.props)
           written == CHOOSE f : WritesAll(f, g, failing, n)
           w == [p \in 0..n |-> written[1..p]]
<1>1. RepairOrphans(g, failing, FALSE).edges = written[1..n]
  <2>1. DOMAIN [p \in 1..n |-> p] = 1..n
    OBVIOUS
  <2> QED BY <2>1 DEF RepairOrphans, FoldLeft, MapThenFoldSet, WritesAll, WriteRound, Inserted
<1>2. WritesAll(written, g, failing, n)
  BY WritesDefined
<1> HIDE DEF written, n
<1>3. n \in Nat
  BY DEF n
<1>4. ASSUME NEW p \in 1..n PROVE Max(1..p) = p /\ (1..p) \ {p} = 1..(p - 1)
  <2>1. 1..p \in SUBSET (1..n) /\ p \in 1..p
    BY <1>3
  <2>2. Max(1..p) \in 1..p /\ \A m \in 1..p : m <= Max(1..p)
    BY <1>3, <2>1, GreatestOf
  <2>3. Max(1..p) = p
    BY <1>3, <2>1, <2>2
  <2> QED BY <1>3, <2>3
<1>5. \A p \in 0..n : 1..p \in SUBSET (1..n) /\ written[1..p] = WriteRound(g, failing, 1..p, written)
  BY <1>2, <1>3 DEF WritesAll
<1>6. w[0] = g.edges
  <2>1. 1..0 = {} /\ 0 \in 0..n
    BY <1>3
  <2> QED BY <1>5, <2>1 DEF WriteRound
<1>7. ASSUME NEW p \in 1..n PROVE w[p] = Inserted(g, failing, p, w[p - 1])
  <2>1. p \in 0..n /\ p - 1 \in 0..n /\ p \in 1..p
    BY <1>3
  <2>2. [q \in 1..Len(g.props) |-> q][p] = p
    BY DEF n
  <2>3. written[1..p] = Inserted(g, failing, p, written[1..(p - 1)])
    BY ZenonT(40), <1>4, <1>5, <2>1, <2>2 DEF WriteRound
  <2> QED BY <2>1, <2>3
<1>8. n \in 0..n
  BY <1>3
<1> QED BY <1>1, <1>6, <1>7, <1>8 DEF n


\* What a round has written when it is at property p.
Repairs(g, failing, p) == Outcome(g, p).is = "repaired" /\ p \notin failing
RepairEdge(g, p) == [from |-> p, to |-> Outcome(g, p).class, live |-> TRUE, repair |-> TRUE]
Extended(g, failing, p, edges) ==
    /\ edges \in Seq(StoredEdge) /\ Len(g.edges) <= Len(edges)
    /\ \A i \in 1..Len(g.edges) : edges[i] = g.edges[i]
    /\ \A i \in 1..Len(edges) : i > Len(g.edges) => \E q \in 1..p : Repairs(g, failing, q) /\ edges[i] = RepairEdge(g, q)
    /\ \A q \in 1..p : Repairs(g, failing, q) => \E i \in 1..Len(edges) : edges[i] = RepairEdge(g, q)

LEMMA InsertedExtends ==
    ASSUME NEW g \in RelationSets, NEW failing, NEW p \in Nat \ {0}, NEW edges, Extended(g, failing, p - 1, edges)
    PROVE  Extended(g, failing, p, Inserted(g, failing, p, edges))
<1>1. edges \in Seq(StoredEdge) /\ Len(edges) \in Nat /\ Len(g.edges) \in Nat /\ Len(g.edges) <= Len(edges)
  BY DEF Extended, RelationSets
<1>2. \A q \in 1..p : q \in 1..(p - 1) \/ q = p
  OBVIOUS
<1>3. \A q \in 1..(p - 1) : q \in 1..p
  OBVIOUS
<1>4. CASE ~Repairs(g, failing, p)
  <2>1. Inserted(g, failing, p, edges) = edges
    BY <1>4 DEF Inserted, Repairs
  <2>2. Extended(g, failing, p, edges)
    BY <1>2, <1>3, <1>4 DEF Extended
  <2> QED BY <2>1, <2>2
<1>5. CASE Repairs(g, failing, p)
  <2> DEFINE new == Append(edges, RepairEdge(g, p))
  <2>1. Inserted(g, failing, p, edges) = new
    BY <1>5 DEF Inserted, Repairs, RepairEdge
  <2>2. RepairEdge(g, p) \in StoredEdge
    BY <1>5, RepairedElsewhere DEF Repairs, RepairEdge, StoredEdge
  <2>3. /\ new \in Seq(StoredEdge) /\ Len(new) = Len(edges) + 1 /\ new[Len(edges) + 1] = RepairEdge(g, p)
        /\ \A i \in 1..Len(edges) : new[i] = edges[i]
    BY <1>1, <2>2
  <2> HIDE DEF new
  <2>4. ASSUME NEW i \in 1..Len(new), i > Len(g.edges)
        PROVE  \E q \in 1..p : Repairs(g, failing, q) /\ new[i] = RepairEdge(g, q)
    <3>1. CASE i = Len(edges) + 1
      BY <1>5, <2>3, <3>1
    <3>2. CASE i # Len(edges) + 1
      <4>1. i \in 1..Len(edges)
        BY <1>1, <2>3, <3>2
      <4>2. PICK q \in 1..(p - 1) : Repairs(g, failing, q) /\ edges[i] = RepairEdge(g, q)
        BY <2>4, <4>1 DEF Extended
      <4> QED BY <1>3, <2>3, <4>1, <4>2
    <3> QED BY <3>1, <3>2
  <2>5. ASSUME NEW q \in 1..p, Repairs(g, failing, q)
        PROVE  \E i \in 1..Len(new) : new[i] = RepairEdge(g, q)
    <3>1. CASE q = p
      <4>1. Len(edges) + 1 \in 1..Len(new)
        BY <1>1, <2>3
      <4> QED BY <2>3, <3>1, <4>1
    <3>2. CASE q # p
      <4>1. q \in 1..(p - 1)
        BY <1>2, <3>2
      <4>2. PICK i \in 1..Len(edges) : edges[i] = RepairEdge(g, q)
        BY <2>5, <4>1 DEF Extended
      <4>3. i \in 1..Len(new)
        BY <1>1, <2>3
      <4> QED BY <2>3, <4>2, <4>3
    <3> QED BY <3>1, <3>2
  <2>6. Len(g.edges) <= Len(new) /\ \A i \in 1..Len(g.edges) : new[i] = g.edges[i]
    <3>1. \A i \in 1..Len(g.edges) : i \in 1..Len(edges) /\ edges[i] = g.edges[i]
      BY <1>1 DEF Extended
    <3> QED BY <1>1, <2>3, <3>1
  <2>7. Extended(g, failing, p, new)
    BY <2>3, <2>4, <2>5, <2>6 DEF Extended
  <2> QED BY <2>1, <2>7
<1> QED BY <1>4, <1>5

LEMMA RoundExtends ==
    ASSUME NEW g \in RelationSets, NEW failing
    PROVE  Extended(g, failing, Len(g.props), RepairOrphans(g, failing, FALSE).edges)
<1> DEFINE n == Len(g.props)
<1>1. n \in Nat /\ g.edges \in Seq(StoredEdge) /\ Len(g.edges) \in Nat
  BY DEF RelationSets
<1>2. PICK w : /\ w[0] = g.edges /\ \A p \in 1..n : w[p] = Inserted(g, failing, p, w[p - 1])
               /\ RepairOrphans(g, failing, FALSE).edges = w[n]
  BY <1>1, WrittenInTurn
<1> HIDE DEF n
<1> DEFINE Wrong == {p \in 0..n : ~Extended(g, failing, p, w[p])}
<1>3. Wrong = {}
  <2> SUFFICES ASSUME Wrong # {} PROVE FALSE
    OBVIOUS
  <2>1. PICK p \in Wrong : \A q \in Wrong : p <= q
    BY <1>1, FirstOf, Wrong \in SUBSET Nat
  <2>2. p # 0
    <3>1. Extended(g, failing, 0, g.edges)
      BY <1>1 DEF Extended
    <3> QED BY <1>2, <2>1, <3>1
  <2>3. p \in Nat \ {0} /\ p \in 1..n /\ p - 1 \in 0..n /\ p - 1 \notin Wrong
    BY <1>1, <2>1, <2>2
  <2>4. Extended(g, failing, p, w[p])
    BY <1>2, <2>3, InsertedExtends
  <2> QED BY <2>1, <2>4
<1>4. n \in 0..n
  BY <1>1
<1> QED BY <1>2, <1>3, <1>4 DEF n

\* A round that has nothing to write writes nothing.
LEMMA NothingToWrite ==
    ASSUME NEW g \in RelationSets, NEW failing, \A p \in 1..Len(g.props) : ~Repairs(g, failing, p)
    PROVE  RepairOrphans(g, failing, FALSE).edges = g.edges
<1> DEFINE n == Len(g.props)
<1>1. n \in Nat
  BY DEF RelationSets
<1>2. PICK w : /\ w[0] = g.edges /\ \A p \in 1..n : w[p] = Inserted(g, failing, p, w[p - 1])
               /\ RepairOrphans(g, failing, FALSE).edges = w[n]
  BY <1>1, WrittenInTurn
<1>3. \A p \in 1..n : w[p] = w[p - 1]
  BY <1>2 DEF Inserted, Repairs
<1> HIDE DEF n
<1> DEFINE Wrong == {p \in 0..n : w[p] # g.edges}
<1>4. Wrong = {}
  <2> SUFFICES ASSUME Wrong # {} PROVE FALSE
    OBVIOUS
  <2>1. PICK p \in Wrong : \A q \in Wrong : p <= q
    BY <1>1, FirstOf, Wrong \in SUBSET Nat
  <2>2. p # 0
    BY <1>2, <2>1
  <2>3. p \in 1..n /\ p - 1 \in 0..n /\ p - 1 \notin Wrong
    BY <1>1, <2>1, <2>2
  <2> QED BY <1>3, <2>1, <2>3
<1>5. n \in 0..n
  BY <1>1
<1> QED BY <1>2, <1>4, <1>5

\* An edge that a round has added is not one back to where its relation starts.
LEMMA RoundRanges ==
    ASSUME NEW g \in RelationSets, NEW failing, NEW edges, Extended(g, failing, Len(g.props), edges), NEW p \in 1..Len(g.props)
    PROVE  /\ Ranged([g EXCEPT !.edges = edges], p) <=> Ranged(g, p) \/ Repairs(g, failing, p)
           /\ Repairs(g, failing, p) => RepairEdge(g, p).to # g.props[p].domains[1]
<1> DEFINE h == [g EXCEPT !.edges = edges]
<1>1. h.edges = edges
  BY DEF RelationSets
<1>2. Len(edges) \in Nat /\ Len(g.edges) \in Nat /\ Len(g.edges) <= Len(edges)
  BY DEF Extended, RelationSets
<1> HIDE DEF h
<1>3. ASSUME Ranged(g, p) PROVE Ranged(h, p)
  <2>1. PICK i \in 1..Len(g.edges) : g.edges[i].live /\ g.edges[i].from = p
    BY <1>3 DEF Ranged, Live
  <2>2. i \in 1..Len(edges) /\ edges[i] = g.edges[i]
    BY <1>2, <2>1 DEF Extended
  <2> QED BY <1>1, <2>1, <2>2 DEF Ranged, Live
<1>4. ASSUME Repairs(g, failing, p) PROVE Ranged(h, p)
  <2>1. PICK i \in 1..Len(edges) : edges[i] = RepairEdge(g, p)
    BY <1>4 DEF Extended
  <2> QED BY <1>1, <2>1 DEF Ranged, Live, RepairEdge
<1>5. ASSUME Ranged(h, p) PROVE Ranged(g, p) \/ Repairs(g, failing, p)
  <2>1. PICK i \in 1..Len(edges) : edges[i].live /\ edges[i].from = p
    BY <1>1, <1>5 DEF Ranged, Live
  <2>2. CASE i <= Len(g.edges)
    <3>1. i \in 1..Len(g.edges) /\ edges[i] = g.edges[i]
      BY <1>2, <2>2 DEF Extended
    <3> QED BY <2>1, <3>1 DEF Ranged, Live
  <2>3. CASE i > Len(g.edges)
    <3>1. PICK q \in 1..Len(g.props) : Repairs(g, failing, q) /\ edges[i] = RepairEdge(g, q)
      BY <2>3 DEF Extended
    <3>2. q = p
      BY <2>1, <3>1 DEF RepairEdge
    <3> QED BY <3>1, <3>2
  <2> QED BY <1>2, <2>2, <2>3
<1>6. Repairs(g, failing, p) => RepairEdge(g, p).to # g.props[p].domains[1]
  BY RepairedElsewhere DEF Repairs, RepairEdge
<1> QED BY <1>3, <1>4, <1>5, <1>6 DEF h


\* Of the live edges of a pair the deletion of duplicates leaves the earliest.
LEMMA DedupeKeeps ==
    ASSUME NEW edges \in Seq(StoredEdge)
    PROVE  LET kept == DedupeLiveEdges(edges) IN
           /\ kept \in Seq(StoredEdge) /\ Len(kept) = Len(edges)
           /\ \A i \in 1..Len(edges) : /\ kept[i].from = edges[i].from /\ kept[i].to = edges[i].to
                                       /\ kept[i].repair = edges[i].repair /\ (kept[i].live => edges[i].live)
           /\ \A i \in Live(edges) : \E j \in Live(kept) : edges[j].from = edges[i].from /\ edges[j].to = edges[i].to
           /\ \A i, j \in Live(kept) : kept[i].from = kept[j].from /\ kept[i].to = kept[j].to => i = j
<1> DEFINE kept == DedupeLiveEdges(edges)
           same(i, j) == edges[j].from = edges[i].from /\ edges[j].to = edges[i].to
           extra(i) == edges[i].live /\ \E j \in Live(edges) : j < i /\ same(i, j)
           n == Len(edges)
<1>1. n \in Nat /\ \A i \in 1..n : edges[i] \in StoredEdge
  BY ElementOfSeq
<1>2. kept = [i \in 1..n |-> IF extra(i) THEN [edges[i] EXCEPT !.live = FALSE] ELSE edges[i]]
  BY DEF DedupeLiveEdges
<1> HIDE DEF kept, n, extra
<1>3. ASSUME NEW i \in 1..n
      PROVE  /\ kept[i] \in StoredEdge /\ kept[i].from = edges[i].from /\ kept[i].to = edges[i].to
             /\ kept[i].repair = edges[i].repair /\ kept[i].live = (edges[i].live /\ ~extra(i))
  <2>1. kept[i] = IF extra(i) THEN [edges[i] EXCEPT !.live = FALSE] ELSE edges[i]
    BY <1>2
  <2>2. PICK e \in StoredEdge : e = edges[i]
    BY <1>1
  <2>3. CASE extra(i)
    <3>1. kept[i] = [e EXCEPT !.live = FALSE]
      BY <2>1, <2>2, <2>3
    <3> QED BY <2>2, <2>3, <3>1 DEF StoredEdge
  <2>4. CASE ~extra(i)
    BY <2>1, <2>2, <2>4 DEF StoredEdge
  <2> QED BY <2>3, <2>4
<1>4. kept \in Seq(StoredEdge) /\ Len(kept) = n
  <2>1. kept \in [1..n -> StoredEdge]
    BY <1>2, <1>3
  <2> QED BY <1>1, <2>1
<1>5. ASSUME NEW i \in Live(edges) PROVE \E j \in Live(kept) : same(i, j)
  <2> DEFINE alike == {j \in Live(edges) : same(i, j)}
  <2>1. Live(edges) \subseteq 1..n /\ \A j \in Live(edges) : j \in Nat /\ edges[j].live
    BY DEF Live, n
  <2>2. i \in alike /\ alike \in SUBSET Nat
    BY <2>1
  <2>3. PICK j \in alike : \A k \in alike : j <= k
    BY <2>2, FirstOf
  <2>4. ~extra(j)
    <3> SUFFICES ASSUME NEW k \in Live(edges), k < j, same(j, k) PROVE FALSE
      BY DEF extra
    <3>1. k \in alike
      BY <2>3
    <3> QED BY <2>1, <2>3, <3>1
  <2>5. j \in 1..n /\ kept[j].live
    BY <1>3, <2>1, <2>3, <2>4
  <2>6. j \in Live(kept)
    BY <1>4, <2>5 DEF Live
  <2> QED BY <2>3, <2>6
<1>6. ASSUME NEW i \in Live(kept), NEW j \in Live(kept), kept[i].from = kept[j].from, kept[i].to = kept[j].to
      PROVE  i = j
  <2>1. /\ i \in 1..n /\ i \in Live(edges) /\ ~extra(i) /\ edges[i].live
        /\ j \in 1..n /\ j \in Live(edges) /\ ~extra(j) /\ edges[j].live
    BY <1>3, <1>4 DEF Live, n
  <2>2. same(i, j) /\ same(j, i)
    BY <1>3, <1>6, <2>1
  <2>3. ~(j < i) /\ ~(i < j)
    BY <2>1, <2>2 DEF extra
  <2> QED BY <1>1, <2>1, <2>3
<1>7. \A i \in 1..n : kept[i].live => edges[i].live
  BY <1>3
<1> QED BY <1>3, <1>4, <1>5, <1>6, <1>7 DEF n, kept

LEMMA DedupeKeepsPairs ==
    ASSUME NEW edges \in Seq(StoredEdge)
    PROVE  Pairs(DedupeLiveEdges(edges)) = Pairs(edges)
<1> DEFINE kept == DedupeLiveEdges(edges)
<1>1. /\ Len(kept) = Len(edges)
      /\ \A i \in 1..Len(edges) : /\ kept[i].from = edges[i].from /\ kept[i].to = edges[i].to
                                  /\ (kept[i].live => edges[i].live)
      /\ \A i \in Live(edges) : \E j \in Live(kept) : edges[j].from = edges[i].from /\ edges[j].to = edges[i].to
  BY DedupeKeeps
<1> HIDE DEF kept
<1>2. ASSUME NEW i \in Live(kept) PROVE <<kept[i].from, kept[i].to>> \in Pairs(edges)
  <2>1. i \in Live(edges) /\ kept[i].from = edges[i].from /\ kept[i].to = edges[i].to
    BY <1>1 DEF Live
  <2> QED BY <2>1 DEF Pairs
<1>3. ASSUME NEW i \in Live(edges) PROVE <<edges[i].from, edges[i].to>> \in Pairs(kept)
  <2>1. PICK j \in Live(kept) : edges[j].from = edges[i].from /\ edges[j].to = edges[i].to
    BY <1>1
  <2>2. kept[j].from = edges[i].from /\ kept[j].to = edges[i].to
    BY <1>1, <2>1 DEF Live
  <2> QED BY <2>1, <2>2 DEF Pairs
<1>4. Pairs(kept) \subseteq Pairs(edges) /\ Pairs(edges) \subseteq Pairs(kept)
  BY <1>2, <1>3 DEF Pairs
<1> QED BY <1>4 DEF kept

-----------------------------------------------------------------------------
\* No repair leads back, and what a preview has promised is still so.
LeadsElsewhere(g) == \A i \in 1..Len(g.edges) : g.edges[i].repair => g.props[g.edges[i].from].domains[1] # g.edges[i].to
StillTrue(g, told) == \A p \in 1..Len(told) : told[p] = "repaired" /\ ~Ranged(g, p) => Outcome(g, p).is = "repaired"
EdgeRepairInv == relations \in RelationSets /\ LeadsElsewhere(relations) /\ StillTrue(relations, report)

LEMMA ReportOf ==
    ASSUME NEW g \in RelationSets, NEW failing, NEW dry_run \in BOOLEAN
    PROVE  LET told == RepairOrphans(g, failing, dry_run).report IN
           /\ Len(told) = Len(g.props)
           /\ \A p \in 1..Len(g.props) : told[p] = "repaired" =>
                  Outcome(g, p).is = "repaired" /\ (~dry_run => p \notin failing)
<1> DEFINE n == Len(g.props)
           told == [p \in 1..n |->
               IF Outcome(g, p).is = "repaired" /\ p \in failing /\ ~dry_run THEN "unrecoverable" ELSE Outcome(g, p).is]
<1>1. RepairOrphans(g, failing, dry_run).report = told
  BY DEF RepairOrphans
<1>2. n \in Nat
  BY DEF RelationSets
<1> HIDE DEF n
<1>3. Len(told) = n
  BY <1>2
<1>4. ASSUME NEW p \in 1..n, told[p] = "repaired" PROVE Outcome(g, p).is = "repaired" /\ (~dry_run => p \notin failing)
  BY <1>4
<1> QED BY <1>1, <1>3, <1>4 DEF n

LEMMA LeavesStep == EdgeRepairInv /\ ExtractionLeaves => EdgeRepairInv'
<1> SUFFICES ASSUME EdgeRepairInv, ExtractionLeaves PROVE EdgeRepairInv'
  OBVIOUS
<1>1. PICK texts \in [Properties -> Texts], domains \in [Properties -> DomainChoices], n \in 0..MaxEdges :
        \E ends \in [1..n -> Properties \X ClassKeys] :
           relations' = [props |-> [p \in Properties |-> [text |-> texts[p], domains |-> domains[p]]],
                         edges |-> [i \in 1..n |-> Edge(ends[i][1], ends[i][2])]]
  BY DEF ExtractionLeaves
<1>2. PICK ends \in [1..n -> Properties \X ClassKeys] :
           relations' = [props |-> [p \in Properties |-> [text |-> texts[p], domains |-> domains[p]]],
                         edges |-> [i \in 1..n |-> Edge(ends[i][1], ends[i][2])]]
  BY <1>1
<1> DEFINE props == [p \in Properties |-> [text |-> texts[p], domains |-> domains[p]]]
           edges == [i \in 1..n |-> Edge(ends[i][1], ends[i][2])]
<1>3. props \in Seq(Prop)
  <2>1. props \in [1..NumProperties -> Prop]
    BY DEF Prop, Properties
  <2> QED BY <2>1, EdgeRepairAssumption
<1>4. n \in Nat /\ edges \in [1..n -> StoredEdge] /\ \A i \in 1..n : edges[i].repair = FALSE
  <2>1. n \in Nat
    BY EdgeRepairAssumption
  <2>2. ASSUME NEW i \in 1..n PROVE Edge(ends[i][1], ends[i][2]) \in StoredEdge
    <3>1. PICK k \in 1..Len(RepairClasses) : ends[i][2] = RepairClasses[k].key
      BY DEF ClassKeys
    <3>2. RepairClasses[k] \in [key : Seq(Nat), label : Seq(Nat)]
      BY EdgeRepairAssumption, ElementOfSeq
    <3>3. ends[i][1] \in Nat /\ ends[i][2] \in Seq(Nat)
      BY SMTT(40), <3>1, <3>2, EdgeRepairAssumption DEF Properties
    <3> QED BY <3>3 DEF Edge, StoredEdge
  <2> QED BY <2>1, <2>2 DEF Edge
<1>5. relations' = [props |-> props, edges |-> edges]
  BY <1>2
<1> HIDE DEF props, edges
<1>6. edges \in Seq(StoredEdge) /\ Len(edges) = n
  BY <1>4
<1>7. relations' \in RelationSets /\ LeadsElsewhere(relations')
  BY <1>3, <1>4, <1>5, <1>6 DEF RelationSets, LeadsElsewhere
<1>8. StillTrue(relations', report')
  <2>1. report' = <<>> /\ Len(report') = 0
    BY DEF ExtractionLeaves
  <2> QED BY <2>1 DEF StillTrue
<1> QED BY <1>7, <1>8 DEF EdgeRepairInv

LEMMA RepairStep == EdgeRepairInv /\ Repair => EdgeRepairInv'
<1> SUFFICES ASSUME EdgeRepairInv, Repair PROVE EdgeRepairInv'
  OBVIOUS
<1> DEFINE g == relations
<1>1. PICK failing \in SUBSET Properties, dry_run \in BOOLEAN :
          /\ report' = RepairOrphans(g, failing, dry_run).report
          /\ relations' = [g EXCEPT !.edges = RepairOrphans(g, failing, dry_run).edges]
  BY DEF Repair
<1>2. g \in RelationSets /\ LeadsElsewhere(g)
  BY DEF EdgeRepairInv
<1>3. /\ Len(report') = Len(g.props)
      /\ \A p \in 1..Len(g.props) : report'[p] = "repaired" => Outcome(g, p).is = "repaired" /\ (~dry_run => p \notin failing)
  BY <1>1, <1>2, ReportOf
<1> HIDE DEF g
<1>4. CASE dry_run
  <2>1. RepairOrphans(g, failing, TRUE).edges = g.edges
    BY DEF RepairOrphans
  <2>2. relations' = g
    BY <1>1, <1>2, <1>4, <2>1 DEF RelationSets
  <2> QED BY <1>2, <1>3, <2>2 DEF EdgeRepairInv, StillTrue
<1>5. CASE ~dry_run
  <2> DEFINE edges == RepairOrphans(g, failing, FALSE).edges
  <2>1. Extended(g, failing, Len(g.props), edges)
    BY <1>2, RoundExtends
  <2>2. relations' = [g EXCEPT !.edges = edges]
    BY <1>1, <1>5
  <2> HIDE DEF edges
  <2>3. relations' \in RelationSets /\ relations'.edges = edges /\ relations'.props = g.props
    BY <1>2, <2>1, <2>2 DEF RelationSets, Extended
  <2>4. ASSUME NEW i \in 1..Len(edges), edges[i].repair PROVE g.props[edges[i].from].domains[1] # edges[i].to
    <3>0. Len(g.edges) \in Nat
      BY <1>2 DEF RelationSets
    <3>1. CASE i > Len(g.edges)
      <4>1. PICK q \in 1..Len(g.props) : Repairs(g, failing, q) /\ edges[i] = RepairEdge(g, q)
        BY <2>1, <3>1 DEF Extended
      <4>2. RepairEdge(g, q).to # g.props[q].domains[1]
        BY <1>2, <2>1, <4>1, RoundRanges
      <4> QED BY <4>1, <4>2 DEF RepairEdge
    <3>2. CASE ~(i > Len(g.edges))
      <4>1. i \in 1..Len(g.edges) /\ edges[i] = g.edges[i]
        BY <2>1, <3>0, <3>2 DEF Extended
      <4> QED BY <1>2, <2>4, <4>1 DEF LeadsElsewhere
    <3> QED BY <3>1, <3>2
  <2>5. LeadsElsewhere(relations')
    BY <2>3, <2>4 DEF LeadsElsewhere
  <2>6. ASSUME NEW p \in 1..Len(report'), report'[p] = "repaired" PROVE Ranged(relations', p)
    <3>1. p \in 1..Len(g.props) /\ Repairs(g, failing, p)
      BY <1>3, <1>5, <2>6 DEF Repairs
    <3> QED BY <1>2, <2>1, <2>2, <3>1, RoundRanges
  <2>7. StillTrue(relations', report')
    BY <2>6 DEF StillTrue
  <2> QED BY <2>3, <2>5, <2>7 DEF EdgeRepairInv
<1> QED BY <1>4, <1>5

LEMMA DedupeStep == EdgeRepairInv /\ Dedupe => EdgeRepairInv'
<1> SUFFICES ASSUME EdgeRepairInv, Dedupe PROVE EdgeRepairInv'
  OBVIOUS
<1> DEFINE g == relations
           kept == DedupeLiveEdges(g.edges)
<1>1. g \in RelationSets /\ g.edges \in Seq(StoredEdge)
  BY DEF EdgeRepairInv, RelationSets
<1>2. relations' = [g EXCEPT !.edges = kept] /\ UNCHANGED report
  BY DEF Dedupe
<1>3. /\ kept \in Seq(StoredEdge) /\ Len(kept) = Len(g.edges)
      /\ \A i \in 1..Len(g.edges) : /\ kept[i].from = g.edges[i].from /\ kept[i].to = g.edges[i].to
                                    /\ kept[i].repair = g.edges[i].repair /\ (kept[i].live => g.edges[i].live)
      /\ \A i \in Live(g.edges) : \E j \in Live(kept) : g.edges[j].from = g.edges[i].from /\ g.edges[j].to = g.edges[i].to
  BY <1>1, DedupeKeeps
<1> HIDE DEF kept
<1>4. relations' \in RelationSets /\ relations'.edges = kept /\ relations'.props = g.props
  BY <1>1, <1>2, <1>3 DEF RelationSets
<1>5. LeadsElsewhere(relations')
  BY <1>3, <1>4 DEF LeadsElsewhere, EdgeRepairInv
<1>6. ASSUME NEW p PROVE Ranged(relations', p) <=> Ranged(g, p)
  <2>1. ASSUME Ranged(g, p) PROVE Ranged(relations', p)
    <3>1. PICK i \in Live(g.edges) : g.edges[i].from = p
      BY <2>1 DEF Ranged
    <3>2. PICK j \in Live(kept) : g.edges[j].from = p
      BY <1>3, <3>1
    <3>3. kept[j].from = p
      BY <1>3, <3>2 DEF Live
    <3> QED BY <1>4, <3>2, <3>3 DEF Ranged
  <2>2. ASSUME Ranged(relations', p) PROVE Ranged(g, p)
    <3>1. PICK i \in Live(kept) : kept[i].from = p
      BY <1>4, <2>2 DEF Ranged
    <3>2. i \in Live(g.edges) /\ g.edges[i].from = p
      BY <1>3, <3>1 DEF Live
    <3> QED BY <3>2 DEF Ranged
  <2> QED BY <2>1, <2>2
<1>7. \A p : Outcome(relations', p) = Outcome(g, p)
  BY <1>4, <1>6, OutcomeDepends
<1>8. StillTrue(relations', report')
  BY <1>2, <1>6, <1>7 DEF EdgeRepairInv, StillTrue
<1> QED BY <1>4, <1>5, <1>8 DEF EdgeRepairInv

LEMMA EdgeRepairAlways == EdgeRepairSpec => []EdgeRepairInv
<1>1. EdgeRepairInit => EdgeRepairInv
  <2> SUFFICES ASSUME EdgeRepairInit PROVE EdgeRepairInv
    OBVIOUS
  <2>1. relations \in RelationSets /\ Len(relations.edges) = 0 /\ Len(report) = 0
    BY EmptySeq DEF EdgeRepairInit, NoGraph, RelationSets
  <2> QED BY <2>1 DEF EdgeRepairInv, LeadsElsewhere, StillTrue
<1>2. EdgeRepairInv /\ [EdgeRepairNext]_edgeRepair => EdgeRepairInv'
  <2> SUFFICES ASSUME EdgeRepairInv, [EdgeRepairNext]_edgeRepair PROVE EdgeRepairInv'
    OBVIOUS
  <2>1. CASE UNCHANGED edgeRepair
    BY <2>1 DEF edgeRepair, EdgeRepairInv
  <2> QED BY <2>1, LeavesStep, RepairStep, DedupeStep DEF EdgeRepairNext
<1> QED BY <1>1, <1>2, PTL DEF EdgeRepairSpec

\* What one round has left, a second leaves as it is.
LEMMA SecondRound ==
    ASSUME NEW g \in RelationSets
    PROVE  LET again == [g EXCEPT !.edges = RepairOrphans(g, {}, FALSE).edges]
           IN RepairOrphans(again, {}, FALSE).edges = again.edges
<1> DEFINE edges == RepairOrphans(g, {}, FALSE).edges
           again == [g EXCEPT !.edges = edges]
<1>1. Extended(g, {}, Len(g.props), edges)
  BY RoundExtends
<1> HIDE DEF edges
<1>2. again \in RelationSets /\ again.props = g.props
  BY <1>1 DEF Extended, RelationSets
<1>3. ASSUME NEW p \in 1..Len(g.props) PROVE Ranged(again, p) <=> Ranged(g, p) \/ Repairs(g, {}, p)
  BY <1>1, RoundRanges
<1> HIDE DEF again
<1>4. ASSUME NEW p \in 1..Len(g.props), Repairs(again, {}, p) PROVE FALSE
  <2>1. ~Ranged(again, p)
    BY <1>4, RepairedElsewhere DEF Repairs
  <2>2. Outcome(again, p) = Outcome(g, p)
    BY <1>2, <1>3, <2>1, OutcomeDepends
  <2> QED BY <1>3, <1>4, <2>1, <2>2 DEF Repairs
<1>5. RepairOrphans(again, {}, FALSE).edges = again.edges
  BY <1>2, <1>4, NothingToWrite
<1> QED BY <1>5 DEF again, edges

(* For any classes, texts and domains, any number of properties and edges   *)
(* and any order of repairs and deletions of duplicates: a repair leads no  *)
(* relation back to the class it starts from, repairing again adds nothing, *)
(* and every pair of ends has one live edge after duplicates are deleted    *)
(* (edge_repair.py:36, :61, edge_dedup.py:26).                              *)
THEOREM RepairsAreSafe == EdgeRepairSpec => []RepairsConnect
<1>1. EdgeRepairInv => RepairsConnect
  <2> SUFFICES ASSUME EdgeRepairInv PROVE RepairsConnect
    OBVIOUS
  <2>1. relations \in RelationSets /\ relations.edges \in Seq(StoredEdge)
    BY DEF EdgeRepairInv, RelationSets
  <2>2. Pairs(DedupeLiveEdges(relations.edges)) = Pairs(relations.edges)
    BY <2>1, DedupeKeepsPairs
  <2>3. LET kept == DedupeLiveEdges(relations.edges) IN
        \A i, j \in Live(kept) : kept[i].from = kept[j].from /\ kept[i].to = kept[j].to => i = j
    BY <2>1, DedupeKeeps
  <2>4. LET again == [relations EXCEPT !.edges = RepairOrphans(relations, {}, FALSE).edges]
        IN RepairOrphans(again, {}, FALSE).edges = again.edges
    BY <2>1, SecondRound
  <2> QED BY <2>2, <2>3, <2>4 DEF RepairsConnect, EdgeRepairInv, LeadsElsewhere, StillTrue
<1> QED BY <1>1, EdgeRepairAlways, PTL

=============================================================================
