---------------------------- MODULE ExtractionRun ----------------------------
(***************************************************************************)
(* An extraction run from the request to the graph: api/extraction.py,     *)
(* services/extraction.py, extraction/pipeline.py.  It reads what Ingestion *)
(* made of its documents and writes the ontology they are extracted into.  *)
(*                                                                         *)
(* Each run has a thread with an event loop of its own                     *)
(* (services/background.py), so its database calls come between those of   *)
(* the others; a retry runs on the server's loop, which the model lets     *)
(* interleave as freely.  The classes of an ontology are Concepts; each    *)
(* has one property, and every other concept names Root as its parent.     *)
(***************************************************************************)
EXTENDS Ingestion, Sequences, SequencesExt

CONSTANTS
    Concepts,     \* what the documents speak of
    Findings,     \* sets of them that a pipeline may find
    Bodies,       \* requests: [docs, target, bases]
    Root,         \* the parent of the others
    Ontologies,   \* registry keys
    Registered,   \* those that exist before any run
    None,
    MaxRuns,      \* runs created
    MaxMishaps    \* edits, changed documents, deleted runs, calls that fail where nothing or
                  \* only a log entry tells of it, deaths of a process

ASSUME RunBounds ==
    /\ Findings \subseteq SUBSET Concepts /\ {} \in Findings
    /\ Bodies \subseteq [docs : Seq(Documents), target : Ontologies \cup {None}, bases : SUBSET Registered]
    /\ \A body \in Bodies : IsInjective(body.docs) /\ body.docs # <<>>
    /\ Root \in Concepts /\ Registered \subseteq Ontologies /\ None \notin Ontologies
    /\ MaxRuns \in Nat /\ MaxMishaps \in Nat

VARIABLES
    runs,       \* runs[r]: the record in extraction_runs
    results,    \* runs with a results_<id> document
    thread,     \* thread[r]: where execute_run of r is, and its locals
    registry,   \* registry[o]: present, class_count
    vertices,   \* vertices[o][c]: the class document under the concept's own key,
                \* and the versions of it that edits have made
    domain,     \* domain[o][c]: live rdfs_domain edges from the property of c to that document
    carried,    \* carried[o][c]: those to the versions
    hierarchy,  \* hierarchy[o][c]: live subclass_of edges from c to Root
    imports,    \* live imports edges <<from, to>>
    produced,   \* produced_by edges <<ontology, run>>
    landed,     \* history: <<run, document, concept>> written to the graph
    missed,     \* history: what a swallowed failure left out of landed or of produced
    stranded,   \* history: runs whose end nothing has recorded
    mishaps,
    overlapped  \* history: ontologies two runs wrote to at the same time

graph == <<registry, vertices, domain, carried, hierarchy, imports, produced, landed, missed>>
extraction == <<runs, results, thread, graph, stranded, overlapped>>
all == <<ingestion, extraction, mishaps>>

Runs == 1..MaxRuns
Successful == {"completed", "completed_with_errors"}
NoRun == [status |-> "unused", docs |-> <<>>, target |-> None, bases |-> {}, ontology |-> None, retries |-> 0]
NoThread == [pc |-> "none", docs |-> <<>>, result |-> {}, status |-> "",
             ontology |-> None, doc |-> 0, todo |-> {}, found |-> FALSE, at |-> CHOOSE w \in Workers : TRUE]
Exists(r) == runs[r].status \notin Absent
UnusedRuns == {r \in Runs : runs[r].status = "unused"}
Working(r) == thread[r].pc \notin {"none", "done"}
Writing(r) == thread[r].pc \in {"materialize", "attach", "relate"}

RunInit ==
    /\ IngestionInit
    /\ runs = [r \in Runs |-> NoRun] /\ results = {}
    /\ thread = [r \in Runs |-> NoThread]
    /\ registry = [o \in Ontologies |-> [present |-> o \in Registered, count |-> 0]]
    /\ vertices = [o \in Ontologies |-> [c \in Concepts |-> [base |-> "none", edits |-> 0]]]
    /\ domain = [o \in Ontologies |-> [c \in Concepts |-> 0]]
    /\ carried = [o \in Ontologies |-> [c \in Concepts |-> 0]]
    /\ hierarchy = [o \in Ontologies |-> [c \in Concepts |-> 0]]
    /\ imports = {} /\ produced = {} /\ landed = {} /\ missed = {}
    /\ stranded = {} /\ mishaps = 0 /\ overlapped = {}

Moves(r, pc) == thread' = [thread EXCEPT ![r].pc = pc]

Mishap == mishaps < MaxMishaps /\ mishaps' = mishaps + 1

\* create_run_record, then the thread that executes the record; between them
\* the chunks are counted, and where that raises the record has no thread.
Launch(r, w, docs, target, bases, retries) ==
    /\ runs' = [runs EXCEPT ![r] = [NoRun EXCEPT !.status = "running", !.docs = docs, !.target = target,
                                    !.bases = bases, !.retries = retries]]
    /\ \/ /\ thread' = [thread EXCEPT ![r] = [NoThread EXCEPT !.pc = "load", !.docs = docs, !.at = w]]
          /\ UNCHANGED <<stranded, mishaps>>
       \/ /\ Mishap
          /\ stranded' = stranded \cup {r}
          /\ UNCHANGED thread

-----------------------------------------------------------------------------
(* POST /run: every document must be ready.                                 *)

StartExtraction(w, body) ==
    /\ UnusedRuns # {}
    /\ \A i \in DOMAIN body.docs : documents[body.docs[i]].status = "ready"
    /\ Launch(Least(UnusedRuns), w, body.docs, body.target, body.bases, 0)
    /\ UNCHANGED <<ingestion, results, graph, overlapped>>

\* POST /runs/{run_id}/retry: of the record, the first document and the target are used.
RetryRun(w, r) ==
    /\ UnusedRuns # {}
    /\ runs[r].status \in {"failed", "completed_with_errors"}
    /\ Launch(Least(UnusedRuns), w, <<runs[r].docs[1]>>, runs[r].target, {}, r)
    /\ UNCHANGED <<ingestion, results, graph, overlapped>>

\* DELETE /runs/{run_id}: the record and then the results, whatever the run is doing.
DeleteRun(r) ==
    /\ Mishap /\ Exists(r)
    /\ runs' = [runs EXCEPT ![r].status = "gone"]
    /\ UNCHANGED <<ingestion, results, thread, graph, stranded, overlapped>>

DeleteResults(r) ==
    /\ runs[r].status = "gone" /\ r \in results
    /\ results' = results \ {r}
    /\ UNCHANGED <<ingestion, runs, thread, graph, stranded, mishaps, overlapped>>

-----------------------------------------------------------------------------
(* execute_run.                                                             *)

AtStep(r, pc) == thread[r].pc = pc

\* Mutant: the handler returns without writing the status.
RaisesQuietly(r) ==
    /\ Moves(r, "done")
    /\ UNCHANGED <<ingestion, runs, results, graph, stranded, mishaps, overlapped>>

\* Mutant: only a run that is still running is marked.
RaisesLate(r) ==
    /\ runs' = IF runs[r].status = "running" THEN [runs EXCEPT ![r].status = "failed"] ELSE runs
    /\ Moves(r, "done")
    /\ UNCHANGED <<ingestion, results, graph, stranded, mishaps, overlapped>>

\* Nothing catches what is raised: the record stays as it is.
Strands(r) ==
    /\ Mishap
    /\ stranded' = stranded \cup {r}
    /\ Moves(r, "done")
    /\ UNCHANGED <<ingestion, runs, results, graph, overlapped>>

\* The except clause around the run.  With the record gone it raises again, as
\* it does when its own update fails.
Raises(r) ==
    \/ /\ runs' = IF Exists(r) THEN [runs EXCEPT ![r].status = "failed"] ELSE runs
       /\ Moves(r, "done")
       /\ UNCHANGED <<ingestion, results, graph, stranded, mishaps, overlapped>>
    \/ Exists(r) /\ Strands(r)

\* The record and the chunks are read, outside the try, and the pipeline runs
\* over them.  It returns a state with or without a consistency result, with or
\* without errors; an exception inside it is one of the errors.  Without text
\* there is nothing to find.  A run that was deleted before its thread read it
\* raises NotFoundError.
RunPipeline(r) ==
    /\ AtStep(r, "load")
    /\ \/ /\ ~Exists(r)
          /\ Moves(r, "done")
          /\ UNCHANGED <<ingestion, runs, results, graph, stranded, mishaps, overlapped>>
       \/ Exists(r) /\ Strands(r)
       \/ /\ Exists(r)
          /\ \E found \in Findings, status \in Successful \cup {"failed"} :
                /\ ({k \in chunks : k.doc \in ToSet(thread[r].docs)} = {} \/ status = "failed") => found = {}
                /\ thread' = [thread EXCEPT ![r].pc = "status", ![r].result = found, ![r].status = status]
          /\ UNCHANGED <<ingestion, runs, results, graph, stranded, mishaps, overlapped>>
       \/ Exists(r) /\ Raises(r)

\* The outcome is written before anything of it is stored.
WriteStatus(r) ==
    /\ AtStep(r, "status")
    /\ \/ /\ Exists(r)
          /\ runs' = [runs EXCEPT ![r].status = thread[r].status]
          /\ Moves(r, IF thread[r].status = "failed" THEN "done" ELSE "store")
          /\ UNCHANGED <<ingestion, results, graph, stranded, mishaps, overlapped>>
       \/ Raises(r)

StoreResults(r) ==
    /\ AtStep(r, "store")
    /\ \/ /\ results' = results \cup {r}
          /\ Moves(r, "register")
          /\ UNCHANGED <<ingestion, runs, graph, stranded, mishaps, overlapped>>
       \/ Raises(r)

\* A new key is no ontology's and nobody has named it yet.
Unregistered == {o \in Ontologies : ~registry[o].present /\ \A body \in Bodies : body.target # o}

\* _update_existing_ontology: a target that is missing, or a failure, is logged
\* and the run has no ontology.  The count is read and written in one go here.
UpdateExistingOntology(r) ==
    LET o == runs[r].target IN
    /\ AtStep(r, "register") /\ o # None
    /\ \/ /\ registry[o].present
          /\ registry' = [registry EXCEPT ![o].count = @ + Cardinality(thread[r].result)]
          /\ thread' = [thread EXCEPT ![r].pc = "link", ![r].ontology = o]
          /\ UNCHANGED mishaps
       \/ /\ IF registry[o].present THEN Mishap ELSE UNCHANGED mishaps
          /\ Moves(r, "done")
          /\ UNCHANGED registry
    /\ UNCHANGED <<ingestion, runs, results, vertices, domain, carried, hierarchy, imports, produced, landed, missed,
                   stranded, overlapped>>

AutoRegisterOntology(r) ==
    /\ AtStep(r, "register") /\ runs[r].target = None /\ Unregistered # {}
    /\ LET o == CHOOSE o \in Unregistered : TRUE IN
       \/ /\ registry' = [registry EXCEPT ![o] = [present |-> TRUE, count |-> Cardinality(thread[r].result)]]
          /\ thread' = [thread EXCEPT ![r].pc = "link", ![r].ontology = o]
          /\ UNCHANGED mishaps
       \/ /\ Mishap
          /\ Moves(r, "done")
          /\ UNCHANGED registry
    /\ UNCHANGED <<ingestion, runs, results, vertices, domain, carried, hierarchy, imports, produced, landed, missed,
                   stranded, overlapped>>

Begins(r, i) == [thread[r] EXCEPT !.pc = IF thread[r].result = {} THEN "relate" ELSE "materialize",
                                  !.doc = i, !.todo = thread[r].result]

LinkOntology(r) ==
    LET o == thread[r].ontology IN
    /\ AtStep(r, "link")
    /\ \/ /\ Exists(r)
          /\ runs' = [runs EXCEPT ![r].ontology = o]
          /\ thread' = [thread EXCEPT ![r] = Begins(r, 1)]
          /\ overlapped' = IF \E q \in Runs \ {r} : Writing(q) /\ thread[q].ontology = o
                           THEN overlapped \cup {o} ELSE overlapped
          /\ UNCHANGED <<ingestion, results, graph, stranded, mishaps>>
       \/ Raises(r)

-----------------------------------------------------------------------------
(* _materialize_to_graph for one document after the other; CurrentDoc is the *)
(* one at hand.                                                             *)

CurrentDoc(r) == thread[r].docs[thread[r].doc]

\* The class document is written over whatever has its key; a write that fails
\* is swallowed.  Then the edge of its property is looked for.
MaterializeClass(r, c) ==
    LET o == thread[r].ontology IN
    /\ AtStep(r, "materialize") /\ c = CHOOSE x \in thread[r].todo : TRUE
    /\ \/ /\ vertices' = [vertices EXCEPT ![o][c].base = "current"]
          /\ UNCHANGED <<missed, mishaps>>
       \/ /\ Mishap
          /\ missed' = missed \cup {<<r, CurrentDoc(r), c>>}
          /\ UNCHANGED vertices
    /\ thread' = [thread EXCEPT ![r].pc = "attach", ![r].found = domain[o][c] > 0]
    /\ UNCHANGED <<ingestion, runs, results, registry, domain, carried, hierarchy, imports, produced, landed,
                   stranded, overlapped>>

\* What was written for c, of its property with its edge and of the provenance;
\* c has landed if nothing of it failed, now or before.
Lands(r, c, written) ==
    LET this == {<<r, CurrentDoc(r), c>>} IN
    /\ provenance' = IF "provenance" \in written
                     THEN provenance \cup
                          {[doc |-> CurrentDoc(r), ontology |-> thread[r].ontology, concept |-> c, run |-> r]}
                     ELSE provenance
    /\ IF written = {"property", "provenance"}
       THEN landed' = landed \cup (this \ missed) /\ UNCHANGED <<missed, mishaps>>
       ELSE Mishap /\ missed' = missed \cup this /\ UNCHANGED landed

GoesOn(r, c) ==
    LET rest == thread[r].todo \ {c} IN
    /\ thread' = [thread EXCEPT ![r].todo = rest, ![r].pc = IF rest = {} THEN "relate" ELSE "materialize"]
    /\ UNCHANGED <<documents, chunks, jobs, loop, deletion, serving, crashes, slips, mixed, doubled, runs, results,
                   registry, vertices, carried, hierarchy, imports, produced, stranded, overlapped>>

\* Mutant: the edge is inserted without looking for one.
AttachAnyway(r, c) ==
    /\ AtStep(r, "attach") /\ c = CHOOSE x \in thread[r].todo : TRUE
    /\ domain' = [domain EXCEPT ![thread[r].ontology][c] = @ + 1]
    /\ Lands(r, c, {"property", "provenance"}) /\ GoesOn(r, c)

\* insert_temporal_edge_if_absent inserts on what it found; extracted_from
\* is inserted without looking.  Each may fail, and the other goes on.
AttachProperty(r, c) ==
    /\ AtStep(r, "attach") /\ c = CHOOSE x \in thread[r].todo : TRUE
    /\ \E written \in SUBSET {"property", "provenance"} :
          /\ domain' = IF "property" \notin written \/ thread[r].found
                       THEN domain ELSE [domain EXCEPT ![thread[r].ontology][c] = @ + 1]
          /\ Lands(r, c, written)
    /\ GoesOn(r, c)

\* subclass_of edges for the classes whose parent resolves among those of the
\* run, one more per document, of which any may fail unnoticed; then the
\* confidences, whose queries may raise.
RelateClasses(r) ==
    LET o == thread[r].ontology
        children == IF Root \in thread[r].result THEN thread[r].result \ {Root} ELSE {} IN
    /\ AtStep(r, "relate")
    /\ \/ /\ \E related \in SUBSET children :
                /\ IF related = children THEN UNCHANGED mishaps ELSE Mishap
                /\ hierarchy' = [hierarchy EXCEPT ![o] =
                       [c \in Concepts |-> @[c] + (IF c \in related THEN 1 ELSE 0)]]
          /\ thread' = [thread EXCEPT ![r] = IF thread[r].doc < Len(thread[r].docs)
                                             THEN Begins(r, thread[r].doc + 1)
                                             ELSE [thread[r] EXCEPT !.pc = "finish"]]
          /\ UNCHANGED <<ingestion, runs, results, registry, vertices, domain, carried, imports, produced, landed,
                         missed, stranded, overlapped>>
       \/ Raises(r)

\* Does o reach p along live imports?  The traversal is cut at ten hops, more
\* than there are ontologies here.
Reaches(o, p) ==
    LET reach[n \in Nat] == IF n = 0 THEN {o}
                            ELSE reach[n-1] \cup {e[2] : e \in {e \in imports : e[1] \in reach[n-1]}}
    IN p \in reach[Cardinality(Ontologies)]

\* The bases that get an imports edge: registered, not o itself, and no importer of o.
Honoured(o, bases) == {b \in bases : b # o /\ registry[b].present /\ ~Reaches(b, o)}

\* _create_produced_by_edge, _record_base_ontology_imports, the named graph, the
\* visualizer, the snapshot: none of them can fail the run, each may fail.  The
\* qualitative evaluation is a task of the loop that ends with this step.
FinishRun(r) ==
    LET o == thread[r].ontology IN
    /\ AtStep(r, "finish")
    /\ \E linked \in BOOLEAN : \E recorded \in SUBSET Honoured(o, runs[r].bases) :
          /\ IF linked /\ recorded = Honoured(o, runs[r].bases) THEN UNCHANGED mishaps ELSE Mishap
          /\ produced' = IF linked THEN produced \cup {<<o, r>>} ELSE produced
          /\ missed' = IF linked THEN missed ELSE missed \cup {<<o, r>>}
          /\ imports' = imports \cup {<<o, b>> : b \in recorded}
    /\ Moves(r, "done")
    /\ UNCHANGED <<ingestion, runs, results, registry, vertices, domain, carried, hierarchy, landed, stranded, overlapped>>

-----------------------------------------------------------------------------
(* Meanwhile: a curator's edit of a class (TemporalStore's update_entity,   *)
(* which has its steps), the documents, and the death of the process.       *)

\* The live edges of the document come to the new version, under whose key no
\* run looks for them.  An edit of a version takes its edges along likewise.
EditClass(o, c) ==
    /\ Mishap /\ vertices[o][c].base = "current"
    /\ vertices' = [vertices EXCEPT ![o][c] = [base |-> "expired", edits |-> @.edits + 1]]
    /\ carried' = [carried EXCEPT ![o][c] = @ + domain[o][c]]
    /\ domain' = [domain EXCEPT ![o][c] = 0]
    /\ UNCHANGED <<ingestion, runs, results, thread, registry, hierarchy, imports, produced, landed, missed,
                   stranded, overlapped>>

ProcessDies(w) ==
    /\ Mishap /\ Crash(w)
    /\ thread' = [r \in Runs |-> IF Working(r) /\ thread[r].at = w
                                 THEN [thread[r] EXCEPT !.pc = "done"] ELSE thread[r]]
    /\ UNCHANGED <<runs, results, graph, stranded, overlapped>>

DocumentStep ==
    /\ \/ ServerNext /\ UNCHANGED mishaps
       \/ Mishap /\ ClientNext
    /\ UNCHANGED extraction

ExecuteRun(r) ==
    \/ RunPipeline(r) \/ WriteStatus(r) \/ StoreResults(r)
    \/ UpdateExistingOntology(r) \/ AutoRegisterOntology(r) \/ LinkOntology(r)
    \/ \E c \in Concepts : MaterializeClass(r, c) \/ AttachProperty(r, c)
    \/ RelateClasses(r) \/ FinishRun(r)

RunNext ==
    \/ DocumentStep
    \/ \E w \in Workers :
          \/ ProcessDies(w)
          \/ \E body \in Bodies : StartExtraction(w, body)
          \/ \E r \in Runs : RetryRun(w, r)
    \/ \E r \in Runs : ExecuteRun(r) \/ DeleteRun(r) \/ DeleteResults(r)
    \/ \E o \in Ontologies, c \in Concepts : EditClass(o, c)

RunSpec == RunInit /\ [][RunNext]_all /\ \A r \in Runs : WF_all(ExecuteRun(r))

-----------------------------------------------------------------------------
RunTypes ==
    /\ \A r \in Runs : runs[r].status \in {"unused", "running", "failed", "gone"} \cup Successful
    /\ results \subseteq Runs /\ produced \subseteq Ontologies \X Runs /\ stranded \subseteq Runs
    /\ overlapped \subseteq Ontologies

(* A run that says it is completed and whose thread has ended has stored    *)
(* its results and, when it has an ontology, written every class with its   *)
(* property and its provenance for every document, and the edge to the      *)
(* ontology (extraction.py:594 "closing this span signals "extraction is    *)
(* fully landed""), whatever was deleted, edited or raised meanwhile:       *)
(* unless the process died, or the failure could not be recorded, only      *)
(* those are lacking of which a write of their own failed and was swallowed *)
(* (extraction.py:1388, 1475, 1524, 2153).                                  *)
CompletedIsLanded ==
    \A r \in Runs \ stranded :
        runs[r].status \in Successful /\ thread[r].pc = "done" /\ crashes = 0 =>
            /\ r \in results
            /\ runs[r].ontology # None =>
                  /\ \A d \in ToSet(thread[r].docs), c \in thread[r].result : <<r, d, c>> \in landed \cup missed
                  /\ <<runs[r].ontology, r>> \in produced \cup missed

(* Extracting a class again, from another document or in another run, adds  *)
(* no second edge to its property (extraction.py:1480): there is one at     *)
(* most to the document under the concept's key, and one at most to each    *)
(* version an edit has made of it, as long as no two runs write to the      *)
(* ontology at the same time.                                               *)
OneDomainEdge ==
    \A o \in Ontologies \ overlapped, c \in Concepts :
        domain[o][c] <= 1 /\ carried[o][c] <= vertices[o][c].edits

(* While no process dies, a run that is running comes to an end (or is      *)
(* deleted), unless it has no thread or raised where nothing catches it:    *)
(* before the try, or in the except clause itself.                          *)
RunsEnd ==
    \A r \in Runs : (runs[r].status = "running" /\ crashes = 0)
                        ~> (runs[r].status # "running" \/ crashes > 0 \/ r \in stranded)
=============================================================================
