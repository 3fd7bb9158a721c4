# A verification of arango-ontoextract

TLA+ modules, TLC configurations and TLAPS proofs for the backend of
arango-ontoextract, the service that extracts ontologies from documents with
language models, keeps them as a bitemporal graph in ArangoDB, and lets people
curate, merge, revise and publish them.  Paths below are relative to
`backend/app/` unless they start with another directory.

1. [The system](#1-the-system)
2. [Modules and code](#2-modules-and-code)
3. [The runs](#3-the-runs)
4. [The proofs](#4-the-proofs)
5. [Where the code and its documentation disagree](#5-where-the-code-and-its-documentation-disagree)
6. [What is not modelled](#6-what-is-not-modelled)
7. [The plan](#7-the-plan)

## 1. The system

FastAPI handlers (`api/`) run in a thread pool; extraction, ingestion and the
revision agents run as background coroutines on threads of their own
(`services/background.py`).  They share one ArangoDB database and a few
in-process structures (a snapshot cache, an import cache, rate limiters,
WebSocket subscriber lists).  A single AQL query or document write is atomic;
nothing in the code opens a transaction over several of them.  So the hard part
of the system is what happens between two database calls of one operation, when
another operation, an exception or a crash comes in.

| Part | State | Operations | What makes it right |
|---|---|---|---|
| Temporal store: `services/temporal.py`, `db/ontology_repo.py` | vertex and edge documents with `version`, `created`, `expired` | create, update (expire + insert + re-create edges), expire, revert, cascade delete, edge edit | at most one current version per entity; history is disjoint and never rewritten; an edit loses and duplicates no relation; a delete leaves no relation behind |
| Snapshot cache: `services/temporal.py` | per-process map with an expiry time | get, put, invalidate on write | a cached snapshot is what the database says of that time |
| Class hierarchy edits: `api/ontology/mutations.py` | `subclass_of` edges | reparent, bulk reparent, undo, create under a parent | no cycles; an undo restores what was moved |
| Curation: `services/curation.py`, `db/curation_repo.py` | decisions (audit), entity status | approve, reject, edit, merge, batch | audit row and effect agree; a merge keeps every relation of the merged classes |
| Promotion: `services/promotion.py` | staging graph, production graph, reports | promote | each approved entity once; no edge to a class that was not promoted |
| Entity resolution: `services/er.py`, `services/cross_tier.py` | configuration, runs, candidate pairs, clusters | block, score, cluster, accept, reject, merge | a pair is filed where it belongs, gets one verdict and is merged once |
| Belief revision: `db/temporal_revisions_repo.py`, `db/revision_meta_repo.py`, `services/revision_actions.py`, `extraction/agents/belief_revision.py` | audit rows with a status and a replay key; the temporal store | reinforce, revise, gap-fill, retract, flag; accept, reject, modify | a replay does nothing twice; row and effect agree; approved entities change only by a curator |
| Live events: `api/ws_broadcast.py`, `api/ws_extraction.py` | subscriber queues, replay log | publish, subscribe, serve, clean up | a subscriber sees events in order and without a gap; the last one ends its connection |
| Extraction runs: `services/extraction.py`, `extraction/` | `extraction_runs`, step checkpoints, staging graph | start, passes, consensus, materialise, retry, cancel | a run ends in a terminal status; a retry does not duplicate |
| Consolidation: `services/consolidation.py`, `services/revision_safety.py` | cursor, counters | scan, propose, resume, rate limit | a resumed scan skips and repeats nothing; the limiter's bound holds |
| Ingestion: `tasks.py`, `services/ingestion.py`, `db/documents_repo.py` | documents with a status, chunks, vector index | upload, process, reprocess, delete | the status reaches a terminal value; chunks belong to one run |
| Ontology library: `api/ontology/library.py`, `api/ontology/imports.py`, `services/ontology_dependency.py` | registry entries, `imports` edges, releases, named graphs | create, upload, import, release, delete; closure | no import cycle; nothing refers to an ontology that is gone |
| Effective ontology: `services/ontology_effective.py` | derived | merge, conflicts, cycles, validators | every cycle of the merged hierarchy is reported; a client that is told nothing changed holds the right sources |
| Label decisions: `db/lexicon_repo.py`, `services/label_collisions.py` | collisions, decisions | detect, resolve, dismiss, overlay | the decision in force is the last one made |
| Import and export: `services/ontology_import.py`, `services/shacl_import.py`, `services/export.py` | classes, properties, edges, constraints; import jobs | import, edit, export | what is registered is what the file says; an export brings back what was exported |
| Schema extraction: `services/schema_extraction.py`, `services/relational_schema_extraction.py`, `services/csi_import.py` | runs, source stamps | extract, compare | what is imported is what was read |
| Individuals: `services/abox_*.py`, `db/individuals_repo.py` | individuals, `rdf_type` edges, assertions | extract, canonicalise, approve, reject, retype, retract | no fact is lost in a merge; no individual is left without a type |
| Rules and repair: `services/ontology_rule_engine.py`, `services/edge_repair.py`, `services/edge_dedup.py` | range edges | evaluate, repair, deduplicate | the rules report what is there and nothing else; a repair leaves one live range |
| Alignment: `services/alignment.py`, `services/alignment_repair.py`, `db/alignment_repo.py` | sessions, correspondences, masters | generate, adjudicate, decide, refresh, materialize | a pair has one correspondence; a repaired master merges no disjoint classes |
| Migrations: `backend/migrations/runner.py` | applied list | apply | each migration once, in order |
| Quality: `services/quality_metrics.py`, `services/quality_recall.py` | derived | score, compare | |
| Organisations, notifications, requirements, request limits | documents, counters | create, read, update, delete | |
| Prompts, embeddings, MCP tools, frontend | external or presentational | | |

The parts meet in the graph.  Curation, entity resolution, belief revision and
the hierarchy edits all change it through `update_entity`, `expire_entity` and
edge writes, each holding keys it read some calls earlier; promotion copies one
part of it into another; an extraction run reports through the event bus while
clients come and go.  Extraction reads what ingestion made of its documents,
which may be replaced or deleted meanwhile; schema extraction ends in an import;
a consolidation pass weighs down what new evidence lifts.

## 2. Modules and code

One action of a module is one database call (or, in the broadcaster, one
stretch of code that gives the processor to nobody), so that TLC interleaves
threads exactly where the program lets them interleave.  `op[t]` holds what the
handler of thread `t` knows between two calls: its place `pc` and its local
variables.  `Abort(t)` is an exception or the death of the process between two
calls; nothing is rolled back, as nothing is in the code.  Variables marked
"history" in the modules exist for the properties only and guard no action.

A failure that the code swallows is a step like any other.  `expire_entity`
logs a write that failed and returns `None` (`services/temporal.py:197-203`), and of
the modelled callers only the belief revision looks at the result, to log it
once more: so every action that expires may leave the row as it is and go on
(`ExpireOld`, `ExpireParent`, `ExpirePrior`, `Expire`, `Expires`, `Ends`).  The
same holds for `hard_delete_document`, which answers `False` whether the record
was missing or the deletion failed, and for the writes that materialization
makes under `contextlib.suppress`.  Each module counts such failures against a
bound of its own, alone or together with its interruptions (`MaxExpireFaults`,
`MaxMishaps`, `MaxLapses`, `MaxFaults`, `MaxFailures`, `MaxAborts`, `MaxDeaths`), and
history variables name what a failure has touched (`stuck`, `kept`, `unexpired`,
`doubled`, `missed`), so that a property can except that and nothing else.

| Module | Models | State | One call of the code, one action |
|---|---|---|---|
| `TemporalStore` | `services/temporal.py` with the callers that drive it | `docs`, `edges`: the documents in order of insertion, a key being an index; `clock`: `time.time()`, which moves when a stamp is taken | `ExpireOld`, `CreateNew`, `QueryOutbound`, `ExpireEdge`, `InsertCopy`, `QueryInbound`, `NextCollection`, `FinishUpdate` are `update_entity` with `re_create_edges`; `BeginCascade` .. `SweepEdge` are `expire_class_cascade`; `BeginCreateClass`, `InsertClass` are `create_class`; `BeginRelate` .. `InsertEdge` and `BeginUpdateEdge` .. are the edge endpoints |
| `VersionHistory` | what the store promises of one concept | current number, since when, past intervals | `Introduce`, `Succeed`, `Retire` |
| `TemporalRefinement` | the mapping of the first onto the second | | |
| `ClassHierarchy` | the hierarchy edits of `api/ontology/mutations.py` | `links`: current edges, `past`: expired ones (the guard's traversal goes through both), `receipts`: undo payloads in clients' hands | `AcceptMove`/`RejectMove` (checks and guard), `QueryParents`, `ExpireParent` (one edge each), `AttachParent`, `FinishBatch`; `BeginCreateUnder`, `AttachNew`; `DeleteClass`; `Relate` is an edge set by hand; each of these expiries may fail unnoticed |
| `Curation` | `services/curation.py`, `services/promotion.py` | `docs`, `edges`, `audit` | `RecordDecision`, `ApplyDecision`; `BeginMerge`, `ReadSource`, `ExpireSource` (`Withdraw`), `MoveEdges`, or `MoveFails` with some of the edges moved, `MergeTarget`, `RecordMerge`; `BeginPromotion`, `PromoteEntity`, `PromotionFault`, `QueryEdges`, `PromoteEdge`, `ReportPromotion` |
| `EntityResolution` | `services/er.py`, `api/er.py` | classes, candidate `pairs`, `active` (the ontology in the process's configuration), `runs` | `BeginRun`, `Block`, `Score` (one pair), `FinishRun`; `BeginDecision`, `Mark`; `BeginMerge`, `ReadClasses`, `ReadTarget`, `UpdateTarget`, `ExpireSource`; the expiries of target and source may fail unnoticed (`Expires`) |
| `BeliefRevision` | `supersede` and its callers, the audit rows, the inbox | `docs`, `rows` (`revision_meta`) | `BeginRun`, `Guard`, `FindPrior`, `ReadCurrent`, `Write`, `Record`; `BeginDecision`, `BeginModification`, `LoadRow`, `Stamp`; the expiry of a RETRACT or REVISE may fail unnoticed (`Expire`); `Approve` is a curator's approval meanwhile |
| `Broadcaster` | `WebSocketBroadcaster` and the extraction socket, one key | the lists and logs that were made and which of them the tables name, the publishing thread, the connections | `Record`, `Lookup`, `Push`, `Published` are `publish`; `Join`, `BeginReplay`, `Replay`, `Stream`, `Disconnect`, `Leave` are `serve` |
| `SnapshotCache` | the snapshot query and the cache of each process | `stamps` of the rows, `cache`, `thread`, `clock` | `StampWrite`, `InsertRow`, `Invalidate` are `create_version`; `Snapshot`, `PutSnapshot` are `get_snapshot` |
| `Alignment` | a session of `services/alignment.py` | `rows` (correspondences), `masters`, `task` of each worker | `Generate`, `Save`, `Decide`, `Adjudicate`, `BeginRefresh`, `DeleteStale`, `BeginMaterialize`, `CreateMasterClass`; `Repaired` is `alignment_repair.py` |
| `Consolidation` | the job and its checkpoints | `belief`, `cursor`, `inbox`, `pass` | `RunConsolidation`, `RulesStage`, `ReadBeliefs`, `DecayClass`, `StaleStage`, `FailStage`, `Restart` |
| `Ingestion` | documents and the coroutine of `tasks.py` | `documents`, `chunks`, `provenance`, `jobs`, `loop` (who holds the event loop), `deletion` and `serving` (how far a deletion has come, and in which process) | `BeginUpload` .. `CreateDocument`, `BeginReplace`, `Rename`, `Restart`, `RequestRaises` at each, `BeginDelete` .. `DeleteRecord`, which may stop in between, `BeginParse`, `Chunk`, `Store`, `IndexAndFinish`, `Fails`, `Crash` |
| `Chunking` | `services/ingestion.py` | `document`, `chunks` | functions: `PackParagraph`, `ChunkProse`, `ChunkDeck` |
| `ExtractionRun` | `services/extraction.py`, `extraction/pipeline.py`; extends `Ingestion` | `runs`, `thread`, `registry`, `vertices`, `domain` and `carried` (edges to a class and to the versions an edit made of it), `hierarchy` | `StartExtraction` and `RetryRun` (`Launch`), `RunPipeline`, `WriteStatus`, `StoreResults`, `UpdateExistingOntology`, `AutoRegisterOntology`, `LinkOntology`, `MaterializeClass`, `AttachProperty`, `RelateClasses`, `FinishRun`; `Raises` inside the `try`, `Strands` outside it; `EditClass` moves the edges to the new version |
| `ExtractionAgents` | the nodes of the extraction graph | what each node hands to the next | one action per node; the answers of the language model are chosen from small sets |
| `OntologyLibrary` | registry, imports, releases, graphs, deletion | `entry`, `content`, `edges`, `releases`, `call` of each handler | `CheckImport`, `InsertImport`, `CheckUpload` .. `SyncImports`, `BeginDelete` .. `DropEntry` |
| `EffectiveOntology` | the merge with what is imported, its conflicts, the ETag | `subclass`, `labels`, `links`, `client` | `GetEffective`, the edits between two of them; `CycleConflicts` is the depth-first search, with its path as a stack |
| `Traversals` | AQL traversals of the imports collection | | functions |
| `Lexicon` | collisions of labels and decisions | `queue`, `labelDecisions`, `curator` | `Detect`, `BeginResolve`, `ReadPrior`, `ExpirePrior`, `InsertDecision`, `CloseCollision`, `BreakOff`; `Shown` reads the decisions of one ontology or of all |
| `EdgeRepair`, `RuleEngine`, `QualityMetrics` | the modules they are named after | input and report | one action per computation; the algorithms are functions |
| `Exchange` | import jobs and the export | `file`, `store`, `importJob` | one action per write of the importer, `ImportRaises` at each, the export as a function of `store` |
| `SchemaExtraction` | the three ways to an OWL file, and their import; extends `Exchange` | `target` (the source), `extraction` | one action per read of the source, `SourceRaises`, `SourceChanges` |
| `RevisionAgent` | discovery, verdicts, questions, breaker; extends `BeliefRevision` | `agent`, `limiter`, `clock` | `BeginNode`, `LetThrough`, `Answer`, `BatchAnswered`, then the steps of `BeliefRevision` |
| `Individuals` | the assertion graph | `people`, `typings`, `facts`, `task` | `BeginExtract` .. `AddFact`, `BeginCanonicalize` .. `Unite`, `BeginCurate`, `Untype`, `Retype`, `DropIndividual`; each of their expiries may fail unnoticed (`Ends`) |

`MC...` modules give TLC its values and hold the statements that documents and
docstrings make and the code does not keep (section 5).  Where one of them
extends several components, they share nothing and a variable `part` says which
one the behaviour is about: one run then checks the properties of all of them.
`...Proofs` modules hold the theorems.  A definition whose comment begins with
"Mutant" is a plausible mistake in the definition that follows it; it is used by
no specification and serves to show that the properties notice.

What is abstracted.  Labels, URIs, scores, prompts and confidences are gone
where no property is about them: where one decides what happens next (does a
label match, what does the model answer, which action does a rule choose), the
action may choose anything.  In particular:

- Edge collections are two in `TemporalStore`, because an edit moves those of one
  list and not of another, and one elsewhere.  `Curation`, `EntityResolution` and
  `BeliefRevision` take `update_entity` as one action; that it is not is
  `TemporalStore`'s subject, and interleavings inside it are checked there.
- `Exchange`: the second round is one job, edits come when jobs are over, faults
  happen in the first round, `says` has one value for each kind of restriction,
  alternatives of a domain are not in the instance.
- `SchemaExtraction`: the external analyzer is not modelled, the options
  `sample_fields` and `extract_constraints` are at their defaults, reading the
  types of one collection is one step, the caps are larger than the instance,
  imports and labels are left out.
- `RevisionAgent`: labels are sequences of words, there are no embeddings, the
  fallback for structured output is one round trip, rows carry no reasoning, the
  clock ticks in units of a window's fraction.
- `Individuals`: predicates are left out, classes stay live, both reads of
  provenance are one step, similarity is a relation between names, an extraction
  that fails answers with nothing.
- `Chunking`: words have a size and a place and nothing else.
- `ExtractionRun`: a class has one property and one parent; cost records are gone.

## 3. The runs

| Run | Instance | What it shows |
|---|---|---|
| `temporal_serial` | one thread, two concepts and a third to be created, three operations, one interruption | `NoRelationLost` and `ReferentialIntegrity` when nothing is interrupted; the store implements `VersionHistory` in any case |
| `temporal_concurrent` | two threads, two operations, an interruption and a write that fails unnoticed | what every interleaving keeps: `EdgesKeepConcepts`, `NoResurrection`; and `OperationsEnd` |
| `hierarchy` | one thread, three classes and a fourth to be created, any initial forest, edges set by hand, three operations, one interruption or one step whose expiries fail unnoticed | `CyclesAreManual` in any case; `UndoRestores` for an undo of which nothing is refused and in which, as in its bulk move, no expiry fails |
| `resolution` | `classes`: two threads, two classes in any of two ontologies, four operations, a crash or a failed expiry; `individuals`: four individuals with two facts, two operations at a time of extraction, canonicalisation and curation, a crash or a failed expiry | `MergedOnce` while operations do not overlap; `FactsSurvive` in any case, `TypedWhenQuiet` while nothing is cut short or fails |
| `revisions` | `decisions`: two threads over one entity, runs of two touchpoints, three operations, a crash and an expiry that fails unnoticed; `agent`: runs from concepts on over two classes, with answers that are malformed, misquoted or about something else, and the breaker | `ReplaySafe` while nothing overlaps or dies, whichever expiry fails; `GroundedChanges`, `BreakerHolds` |
| `broadcaster` | three events, two clients, three connections, queues of two, one broken connection | `NoGap` while nothing breaks or overflows; `ServedToTheEnd` |
| `ingestion` | `documents`: three documents, two contents, a server process that may die, or a call that fails where nothing catches it; `exchange`: two import jobs of one file of four kinds, a call that raises, an edit, an export, a second import; `schema`: a document database before and after a change, a graph with types in its documents, tables, a CSI document, a call that fails | `UniqueContent`, `ReadyIsWhole`, `IngestionEnds`; `FileImported`, `RoundTrip`; `SchemaImported` |
| `extraction` | two runs over two documents of which one may be deleted, and one mishap: the process dies, a class is edited, a run is deleted, a client comes for the documents, a write fails and is swallowed, or a call fails where nothing catches it | `CompletedIsLanded`, `OneDomainEdge`, `RunsEnd` |
| `ontologies` | `library`: three ontologies under two handlers, three requests; `effective`: an ontology and two it may import, three writes; `lexicon`: two curators, three labels, decisions made for either of two ontologies or for none, and a lapse: a resolution broken off or an expiry that fails | `ImportsAcyclic`; `MergeCyclesReported`, `SourcesFresh`; `DecisionsStand` |
| `services` | `curation`: two threads over three entities and a relation, merges of up to two sources, a crash and a write that fails; `alignment`: two classes of two ontologies each, two workers; `consolidation`: two passes with a restart; `snapshots`: two threads | `DecisionsAudited` whatever overlaps, `MergeKeepsRelations` and `PromotionKeepsRelations` while operations do not; `MasterCoherent`, `OneCorrespondence`; `VersionsInSnapshots` |
| `algorithms` | `chunking`, `edges`, `agents`, `rules`, `quality`: every input from a small set, and for the rules every graph over four classes of a few edges | `ChunksSound`, `RepairsConnect`, `DocumentCovered`, `KeptClassesSound`, `RulesExact`, each against a definition of what the result means |
| `claim_concurrent_moves_acyclic` | two threads, two classes | the disagreement at the head of section 5 |

The modules define more invariants than the runs list (`TypeOK` of most modules,
`AtMostOneCurrent`, `HistoryDisjoint`, `OneLiveCopy`, `PredecessorExpired`,
`SingleParent`, `PairsFiledRight`, `WinnersSurvive`, `PublishedProtected`,
`AppliedRowsAreTrue`, `EvidenceKept`, `SubscribersReachable`, `StreamedInOrder`,
`DecayBounded`, `ScorecardSound`, `MatchingSound` and others): they hold under
the same configurations, and are put into the `INVARIANTS` line to see it.

Bounds.  Every counter is bounded by a constant: `MaxOps` operations begun,
`MaxAborts` of them cut short, `MaxMishaps`, `MaxFaults`, `MaxFailures` or
`MaxLapses` things that go wrong unnoticed or uncaught, and so on.  The instances are chosen by the
number of actors a hazard takes.  Two threads suffice for a race between two
calls of one and a call of the other, and the models have no step in which three
threads take part.  Two operations are a race, three are an operation, the
interruption of another and a repetition; four in `resolution` are a run, a
verdict, a second run and a verdict.  One process is enough for `Ingestion`,
whose records are not protected against a second one (section 5), and two
documents with one content are what its properties can tell apart.  The inputs
of `algorithms` are all sequences, graphs or answers up to the size at which
every branch of the algorithm is taken.  Three concepts make a re-creation of
edges find a neighbour, a self-loop and a class created meanwhile; three classes
and a spare make a bulk move of a class and its own former parent.  Where
`MaxClock = 1` every stamp is the same, the finest resolution a clock can fail
at; where it is 999 every stamp is distinct.  What these bounds leave open is
what the theorems of section 4 are for.

"As long as operations do not overlap" is a condition in several properties:
`overlapped` becomes true when an operation begins while another is under way.
Those properties do fail under overlap (the code reads, decides and writes in
separate calls), and section 5 has what the documents promise nevertheless.  The
condition does not exclude crashes: an operation that died is not under way.

Fairness.  `TemporalStore!FairSpec` has weak fairness of the steps of each
thread after an operation has begun: the thread pool keeps running a handler.
No operation has to begin, and `Abort` is never fair.  `Broadcaster!FairSpec`
has weak fairness of the publishing thread and of each connection's handler, for
the same reason and because the server's event loop runs what is ready; clients
need not come and connections need not break.  In `ingestion` a coroutine that was
scheduled, and in `extraction` the thread of a run, is executed as long as its
process lives (`IngestionFairness`, the fairness of `RunSpec`): a dead process
runs nothing, and the properties say so.  They also except what the code leaves
without an end: a status whose own write fails (`slips`), and a run whose thread
never started or raised outside the `try` (`stranded`).  No other property is a liveness
property.

Deadlock checking is off everywhere: the service may well be idle for good, and
with bounded operations it is in the end.

## 4. The proofs

`TemporalProofs`, its first part, for any number of threads, concepts, operations,
interruptions and failed writes, from the assumptions on the constants alone
(`BoundsAssumption`: bounds are naturals and the sentinel `NeverExpires` is
above every clock value; `PathsAssumption`):

- `TypeCorrect`, `EdgesAlwaysKeepConcepts`: from `IndInv`, which adds to the two
  properties that edges join existing documents and what each thread knows at
  each place (`OpKnows`).  Neither property is inductive without it: `InsertCopy`
  keeps the concepts of an edge only because the edges in `op[t].todo` are edges
  at the version `op[t].key` and `op[t].new` is of the same concept.  The argument is
  that no action takes anything from the store (`StoreGrows`), so what a thread
  knows stays true while the others act (`KnowledgeIsStable`), and each action leaves
  its own thread with what its next action needs.  What a thread does not know,
  and the invariant does not say, is whether anything it read is still current.
- `NothingIsResurrected`: the same `StoreGrows`, as an action property.
- `SupersededIsExpired`: from `PredecessorInv`, that as long as `expire_entity`
  has swallowed no failure, a thread about to insert a successor has seen the
  version before it expired.

`AcyclicityProofs`, its first part, for any number of classes and operations, from
`KeysAssumption`, `ChoiceAssumption` and `BoundsAssumption`:

- `HierarchyTypes`, for any number of threads.
- `MovesCloseNoCycle` and, without edges set by hand, `HierarchyIsAcyclic`, with
  one thread (`Serial`; with two it is false, section 5).  The inductive
  invariant `AInv` carries the guard's result from the check to the insertion:
  a thread between the two knows that the class is not reachable from its new
  parent (`Guarded`).  Reachability is defined by closed sets, so that adding an edge
  is a union of two of them and no induction along paths is needed
  (`NewEdgeKeepsAcyclic`).  `GuardIsSafe` is why the guard may look at expired edges
  too: it refuses more, never less.
- `MovesLeaveOneParent` and `UndoPutsBack`, with one thread, from `UndoInv`.  The old
  edges of a class are expired one by one and the new one comes after the last
  (`Working`), so no interruption leaves two: an old edge that is still there is one
  whose expiry has failed (`stuck`), and those alone are excepted.  For the undo, of
  which no step has lost an expiry (`lost`, which a receipt carries over from its bulk move), a bulk move under way has
  in its payload the one parent of every class it has moved, has moved none twice and
  nothing else at all (`Moving`); and the classes that are not back in their place are
  those an undo has still to move (`Reverting`), so nothing is left when it ends.  It
  takes the entries in the order of the moves, which does no harm because no
  class has two of them: where a class is selected twice, the undo does not put it
  back (section 5), and the theorem assumes `SelectTwice = FALSE`.

`AcyclicityProofs`, its second part, for any set of ontologies, names, files and
handlers and any depth of the traversals, from `LibraryAssumption` (the registered are
among the ontologies, files declare ontologies, `""` is none of them):

- `ImportsStayAcyclic`, `ImportsAlwaysResolve` and `LibraryTypesHold`, from `LibraryInv`.
  `Clean` is the relation of the live imports that no two requests were about at once.
  What a handler knows must survive all that the others do between its steps, and
  does only for ontologies nobody else is about (`Alone`): whoever creates, uploads or
  drops one knows that no clean import touches it (`Untouched`), and whoever is about to
  insert an import knows that its source is untouched or that its target does not
  lead back to it (`Informed`).  A removal, a deletion or another request disturbs
  neither (`OthersStep`); only a second request that adds imports does, and then
  `raced` is set.
- The traversals of the database stop after `MaxDepth` hops (10 in the code), so a circle
  is here a walk of at most `MaxDepth + 1` (`Circle`), which is what the property can
  see.  The check is nevertheless enough: a shortest circle takes the new import once,
  and the rest of it is a walk of at most `MaxDepth` hops from its end to its start,
  which the check would have found (`NewHopNoCircle`).  Creation and upload have no check
  and need none as long as nothing leads to an ontology that is new
  (`NewHopsNoCircle`).
- That `Layers` finds what a walk reaches, and a walk leads to what it finds
  (`WalkLayers`, `LayersWalk`), is shown for every depth: the function by which it is
  defined exists (`SeenDefined`), and both directions go by a smallest counterexample.

`AcyclicityProofs`, its third part, for any ontologies, classes, edges and writes, with
no more than the types of the constants and orders in which every possible edge
has a place (`EffectiveAssumption`):

- `ValidatorsTellSources`.  The tag of what a client holds names exactly the ontologies its
  answer was made from (`SourcesTagged`), and so does the tag of whatever would be
  sent now (`AnswersTagged`), whatever paths the traversal was lucky with.  Equal tags
  therefore mean equal sources, though not an equal answer (`EtagFresh`, section 5).
- `MergeTellsCycles`.  The search for cycles is a recursive function of the state of the
  walk, one step of the code's loops per call.  Each step sees more classes, or
  gets on with the roots, the path or the edges of its last class (`OnwardGoesOn`),
  so that a walk has an end (`RunExists`) and the function exists (`WalkDefined`).
  Along a walk (`WalkInv`) the path is a path of edges without a class twice, what is
  reported is on a cycle (`RoundIsCycle`), and while nothing is reported the classes done
  with lead only to each other, and no set of them is circular: a class that is done
  with leads only to classes that were done with before it.  At the end every class
  with an edge is done with; a cycle would be a circular set (`CycleIsCircular`).  No
  cycle is dismissed, because one that needs no import would be a cycle of one
  ontology.

`TemporalProofs`, its second part, for one thread (`OneAtATime`: a single thread, no write of
`expire_entity` that fails unnoticed, and callers that pass a list of edge
collections; with two threads or a swallowed failure these are false, section 5):

- `OneCurrentVersion` and `StoreImplementsHistory`, the refinement of
  `VersionHistory`, from `VersionInv`: `IndInv`, at most one current version,
  stamps in the past, and what a lone thread knows of the versions at each place
  (before the insertion no version of the concept is current and none expired
  later than the one it succeeds).  Every step then introduces, succeeds or
  retires one version of one concept, or changes none (`StepRefines`).
- `RelationsStayAttached` and `NoRelationIsLost`, from `RelationInv`.  In the middle
  of an edit relations do hang on the expired version, so the invariant says which
  (`FromHangs`, `ToHangs`): those of a direction and a collection still to be
  handled.  The second adds that each relation nobody meant to end has a
  current copy or is between its expiry and its re-creation.

`CurationProofs`, for any number of threads, entities, relations, operations and
interruptions:

- `TypesHold`, from `TInv`, which adds what keys a thread may hold.
- `DecisionsAreAudited`, from `AuditInv`: whoever is about to apply a decision has its
  row (`RowFirst`).  No condition on overlaps.
- `MergesKeepRelations` and `PromotionsKeepRelations`, action properties of the last
  step of the operation, from `MergeInv` and `PromotionInv`.  `Serial` says that one
  thread is at work as long as no overlap is recorded; `MergeKnows` and
  `PromotionKnows` say of each relation of the graph as it was at the beginning where
  it is now: untouched, moved to the winner, or copied.  A merge in which a
  write of an edge raises ends there (`MoveFails`), and a merge that has not ended
  promises nothing; a source whose expiry failed unnoticed is current for longer, which
  takes no relation away.

`ServicesProofs`:

- `SnapshotsHaveVersions`, for any number of processes and handlers: a snapshot in
  hand but not yet put has every version of its process (`InHandComplete`), unless
  the process has `raced`.
- `MastersAreCoherent`.  The repair removes one weakest correspondence after another
  and is written as a function defined in terms of itself on smaller sets.  That
  there is such a function (`RepairDefined`) and that its results have no conflict
  (`RepairConverges`) is shown without an induction rule, by a smallest
  counterexample, which `WFMin` of the library gives for the naturals and for the
  subsets of a finite set.  It assumes nothing of `AlignmentRepairEnabled`, on which
  the property is conditional.
- `PairsMatchOnce`: what a refresh has in hand covers the rows that are there, those
  it will not delete being among the pairs it will not generate (`Accounted`), and
  no second one takes part (`OneWriter`).
- `DecisionsAlwaysStand`, for any number of curators, labels and ontologies: the last
  decision of a concept is live, except while a curator has expired it and is about
  to insert its own, or was when the recording was broken off (`LatestLive`, `lapsed`).
  Where no two curators recorded one of the same concept at once (`OneRecorder`) and
  no expiry failed (`unexpired`), no other decision is live (`OneLive`).  The theorem
  speaks of the reads of all decisions and of those of the ontology the last one was
  made for; a read of another ontology is section 5's.
- `ImportsAreExact` and `ExportsComeBack`, for any files and any number of import jobs,
  from `ExchangeInv`.  Every document comes from the file and names only documents
  that are live (`StoreDocs`); a job has done all that comes before its step
  (`JobDone`), so that a registered ontology has all of the file, and nothing else,
  whatever an earlier attempt has left behind.  The second round begins with
  the export, whose summary is that of the store (`ExportedSummary`, `FromExport`), and the
  same argument gives the copy.  `FileAssumption` says that the files are finite and
  written as the parser would read them: no literal or blank node is spelled like a
  class.  `ExportsComeBack` assumes `OneRangeEach`, that no property of a file has
  two ranges: the importer takes any of them (`rdf_graph.value`), and an attempt that
  died may have left a document with the other.  The files of the run satisfy it.

`BroadcasterProofs`, for any number of clients, events, connections and breaks, and
any size of queue, from `BroadcastInv` in four parts:

- the types, with which lists and logs exist (`BroadcastTypesHold`);
- `ListsMatch`: a connected client is once in one list and the list is the table's
  (`ClientsStayReachable`).  That the table's entry is taken out only with an empty
  list is what makes it inductive;
- `InOrder`: what was streamed and what waits goes up, to `Limit(c)`, which is one less
  while the event being handed out is still to come for `c` (`EventsStayInOrder`);
- while nothing has broken or overflowed, `NothingMissed`: what a client was sent, what
  waits for it and what the rest of the log will give it have no gap (`NothingIsMissed`).

`PipelineProofs`, for any number of documents, contents, coroutines, runs, ontologies,
concepts and deaths, and any finite number of processes:

- `ContentIsUnique` and `ReadyDocumentsAreWhole`, from `IngestionInv`: who holds each
  event loop and for which document (`LoopsHeld`); with one process, that a request
  between its look at the names and its write holds the loop, so that what it saw
  is still so (`NamesUnique`, `FrameNames`), except for a content of which a record
  stayed because `hard_delete_document` failed (`doubled`); and that the status of a
  document, its chunks and the one coroutine or request at work on it agree at each
  place (`Coherent`), unless it was replaced or deleted while something was at work
  on it, or its own replacement or deletion stopped when the chunks were gone already
  (`Doomed`, which nothing undoes).  An action is shown to be about one document at most
  (`AboutOnly`), which leaves the others `Sound`.
- `CompletedRunsAreLanded` and `OneEdgeToADomain`, from `RunInv`: how far the thread of a
  run has come and that all before it is in the graph, or is among the writes that
  failed and were swallowed (`RunHolds`, `missed`), for every run whose end could be
  recorded (`stranded`); and, for an ontology no two threads wrote to at once, that
  what its writer found is still so when it inserts (`OntologyHolds`).  There is then
  one edge at most to the document under the concept's own key; an edit takes it to
  the new version, so that the edges at versions are no more than the edits.  Documents and hand edits run alongside
  and are shown to touch none of it (`AsideStep`).

`PipelineProofs`, its last part, for any classes, labels, texts, properties and edges, from
`EdgeRepairAssumption` (an ontology without classes is not looked at; names and texts are
sequences, and there are finitely many properties):

- `RepairsAreSafe`, from `EdgeRepairInv`.  The range that is found is never the class the
  property starts from (`FoundElsewhere`: of finitely many names that occur one is the
  longest, `LongestIsOne`), and what is found depends on nothing that a round writes
  (`OutcomeDepends`).  `Extended` says what a round has written: the edges
  there were, and after them live edges to the class found for each property whose
  insertion did not fail (`RoundExtends`).  Hence what is reported as repaired and has no
  range, after a dry run or a failed insertion, would still be repaired (`StillTrue`),
  and a second round finds nothing to do (`SecondRound`).  `DedupeKeeps`: of the
  live edges of a pair the earliest is left, so the pairs stay the same.  The
  folds of the repair and of the names exist by a least counterexample (`WritesDefined`,
  `FlatDefined`).

`RevisionProofs`, for any number of threads, documents, entities, touchpoints,
operations and deaths:

- `ReplayIsSafe`, from `ReplayInv` in three parts.  `Sound` holds whatever overlaps and
  dies: what is about to be made is no question for a curator, what is about to get its
  row has been made, and what passed the guard is still unpublished at the write, since
  an approval makes a version and never changes the status of one (`Protected`).
  Where a RETRACT has found its expiry refused unnoticed, its version is in `kept`,
  and the row that is written nevertheless is the only kind that may say "applied" of
  nothing.  `AppliedRowsStayTrue` and the action property `ApprovedStay` follow from it alone.
  `AskedInv` adds what holds while nothing has overlapped: what is being made or asked
  has no row, and what is decided on still waits (`Attentive`); `QuestionsAskedOnce`
  follows.  `MadeAndRecorded` adds, while nothing has died, that what was made has its
  row or is about to get it: that is why a second `Write` of it cannot come about.
- `BreakerAlwaysHolds`, for any limit and any length of a window (naturals, which
  `BreakerBounds` assumes), of the agent by itself (`AgentSpec`).  The invariant counts the calls
  since the window began and those of the window's length before it
  (`WindowHolds`); a call sees only those two sets behind it.
- `ChangesAreGrounded` and `AgentRowsStayTrue`, of `AgentSpec`, from `AgentInv`: `Sound`, and
  for each thread what is known of a touchpoint on its way.  While it is asked about it
  is of a class that is stored and a concept of the document, and what is decided of it
  is an accepted answer or the default, which is to flag it (`Briefed`); on the list
  it is `Founded`: flagged, backed by an accepted answer, or the REVISE of a rule, which
  never gets as far as the write since the node supplies no payload (`Truthful`).  That
  a rule alone decides nothing else is a lemma about `Classify` without the features that
  the node never supplies (`Classified`).  The lemmas about the data, for any documents:
  `Ranked` (of finitely many touchpoints there is an n-th, scores that tie go by key),
  `Flat` (what sequences are flattened to is in the set they are over: by the least
  index where it is not, since induction over a predicate is out of reach), `QuotesKnown`
  (of the concepts with one label there is a last).  `DocumentsAssumption` gives the
  beliefs and the documents their types and says that chunks are finitely many.

`ResolutionProofs`, for any number of handlers, ontologies, classes, individuals, terms,
operations and deaths; `AboxAssumption` gives the constants of `Individuals` their
types and says that an extraction is asked for at least one ontology:

- `ResolutionTypesHold`, `PairsMergeOnce` and `PairsFiledAndDecided`, from `ResolutionInv`.
  Whatever overlaps and dies, what a handler has in hand exists (`Informed`) and the
  merge behind a pair has left its target with a successor (`TargetsSucceeded`): if it
  has expired the target (`retired`), nothing makes that version current again, so
  `Live` of the target refuses every later merge of the pair.  If the expiry failed and
  the merge died before its verdict was recorded, a second accept does merge again.  While nothing has overlapped, the one handler at work
  is `Undisturbed`: the ontology in the configuration is that of its run and the
  pair it merges is still undecided.
- `AboxTypesHold`, `FactsAreKept` and `QuietIsTyped`, from `AboxInv`.  A fact that is about to
  be expired is `Carried`: its two ends are being made one, or there is a *later* fact
  of the same root that is live, closed or refused.  "Later" is what makes it
  inductive: when a fact is expired, any chain of facts continued by others ends,
  and `WFMin` of the library gives the last.  For the types, a live individual without
  one has a handler `AtWork` on it; a retyping adds the new type before that handler
  leaves, and `FailedStep` covers every expiry that fails.  `FactsAreKept` needs no
  such condition; for `QuietIsTyped` a failed expiry counts as an operation cut short.

The proofs about the broadcaster, the curation and the pipeline rest on lemmas that say field
by field what each action does and what types it leaves (`...Effect`); the
library's theorems about sequences do the rest.

Only model-checked: `SchemaImported`, whose four kinds of document database each write
the graph with loops over tables, columns and keys, one in the order of the names:
inductions over data once more, and over ontologies that are there already.
Out of the prover's reach: the liveness properties `OperationsEnd`, `ServedToTheEnd`,
`IngestionEnds` and `RunsEnd` (fairness and ENABLED); `RulesExact`, whose module declares
RECURSIVE operators; and `ChunksSound`, `DocumentCovered` and `KeptClassesSound`, which say
what folds over sequences filtered with `SelectSeq` or sorted compute for every
input: inductions over data of several levels each, over operators for which the
prover has no definition.

## 5. Where the code and its documentation disagree

Found while the models were written.  The first is a run of the project; the
others are seen with the configuration named beside them, in whose `INVARIANTS` or
`PROPERTIES` line the property takes the place of what is there, and the `MC` module
of the component: TLC then finds it violated.

| Configuration | Property | What the code does and what is said of it |
|---|---|---|
| `ClaimConcurrentMovesAcyclic.cfg` | `Acyclic` | the cycle guard reads the hierarchy and the edge is inserted in a later call, so two moves can each pass the guard and close a cycle together; models/ontology.py:136 says "Cycles are rejected." (`api/ontology/mutations.py:389`) |
| `MCTemporalConcurrent.cfg` | `InterruptedEditKeepsRelations` | re_create_edges expires each edge and inserts its copy in separate document writes, outside any transaction, so an exception or crash between them (temporal.py:301 and 312) loses the relation; docs/adr/002-temporal-pattern.md:93 says "Edge re-creation is batched in a single AQL transaction for atomicity". (`services/temporal.py:301`) |
| `MCTemporalConcurrent.cfg` | `AtMostOneCurrent` | update_entity expires the old version and inserts the new one in two separate writes: a handler that runs in between (another edit, or a create_class that finds no current class with the URI) leaves two current versions of one concept; docs/DELETION_AND_REFERENTIAL_INTEGRITY.md:318 says "When an entity is updated via `temporal.update_entity()`, the following happens atomically". (`services/temporal.py:235`) |
| `MCTemporalConcurrent.cfg` | `ExpiredVersionKeepsItsStamp` | expire_entity updates the document by key without looking at its expired field, so a version another handler has already expired gets a second, later stamp (to see it, a clock that moves: `MaxClock = 2`); its docstring (temporal.py:167) says "Returns the expired document, or None if not found / already expired". (`services/temporal.py:184`) |
| `MCTemporalConcurrent.cfg` | `ReferentialIntegrity` | expire_class_cascade expires the edges its query saw; an edge another handler inserts afterwards (update_edge, create_or_update_edge) stays current on the expired class; docs/DELETION_AND_REFERENTIAL_INTEGRITY.md:59 says "When an entity is expired or deleted, ALL edges pointing to or from it must also be expired". (`db/ontology_repo.py:306`) |
| `MCTemporalConcurrent.cfg` | `EditMovesAllEdges` | the edit path re-creates only the edges of ontology_repo._ONTOLOGY_EDGE_COLLECTIONS, which leaves out extracted_from: after an edit or an approval the provenance edge is still current and still points from the expired version; docs/adr/002-temporal-pattern.md:43 says "All edges to/from old vertex are expired". (`db/ontology_repo.py:21`) |
| `MCBroadcaster.cfg` | `MissedEventsReplayed` | the last subscriber to leave takes the event log of the run with it, in the middle of the run as well, so a client that reconnects is sent only what is published from then on; api/ws_extraction.py:49 says "Replays any missed events on connect, then streams live updates." (`api/ws_broadcast.py:130`) |
| `MCBroadcaster.cfg` | `PublishReachesAll` | publish iterates over the list itself in the run's thread while the server's event loop removes a queue from it, so the subscriber after the removed one is skipped; a full queue drops the event too; api/ws_broadcast.py:42 says "Publish an event to all subscribers for *key*." (`api/ws_broadcast.py:53`) |
| `CurationClaims.cfg` | `AuditedDecisionTakesEffect` | the audit row is written before the side effect, which raises when the entity_key names a version that is no longer current: the row stays and no version is made; services/curation.py:3 says "Every decision creates a ``curation_decisions`` audit record and, when the decision implies a data change (approve/reject/edit), a new temporal version of the affected entity." (`services/curation.py:107`) |
| `CurationClaims.cfg` | `EveryChangeAudited` | merge_entities writes its audit row after its changes, so a merge cut short in between is not in the audit trail; services/curation.py:3 says "Every decision creates a ``curation_decisions`` audit record". (`services/curation.py:304`) |
| `CurationClaims.cfg` | `NothingRelatesToItself` | an edge between a source and the target is moved like any other and becomes an edge from the target to itself; services/ontology_rule_engine.py:240 says "A subclass_of relation must be a strict partial order; any cycle is a hard contradiction", counting self-loops, and abox_canonicalize skips them. (`services/curation.py:286`) |
| `CurationClaims.cfg` | `PromotesInnerEdges` | an edge is skipped only when neither end was promoted, and an end that was not is kept as it is; the docstring at services/promotion.py:242 says "Only promotes edges where both endpoints were promoted (exist in key_map)." (`services/promotion.py:272`) |
| `CurationClaims.cfg` | `PromotedOnce` | nothing records on a staging entity that it has been promoted, so promoting a run again inserts all of it again; docs/DELETION_AND_REFERENTIAL_INTEGRITY.md:182 says "Entities already in the ontology graph remain as-is". (`services/promotion.py:75`) |
| `MCExtraction.cfg` | `RetryKeepsConfiguration` | retry_run passes the first document of the old run and its target to a new run: the other documents and the base ontologies are left out; docs/REMAINING_WORK_PLAN.md:90 says "retry_run preserves target_ontology_id, domain_ontology_ids, doc_ids". (`services/extraction.py:876`) |
| `MCExtraction.cfg` | `OneDomainEdgeAlways` | whether the edge is there is asked before it is inserted, so two runs that write to one ontology at the same time each add it; and it is asked by the key of the class as first extracted, while an edit has moved the edge to the new version (services/temporal.py:315), so a run after an edit adds a second; the comment before the deduplication says there is one live edge per pair, "no exceptions". (`services/extraction.py:1480`) |
| `MCExtraction.cfg` | `CompletedIsComplete` | a class that cannot be written is logged, properties and edges are written under contextlib.suppress (1475, 1494, 1524), and so is the produced-by edge (2153): the run completes all the same; the comment at services/extraction.py:594 says that closing the span signals "extraction is fully landed". (`services/extraction.py:1388`) |
| `MCExtraction.cfg` | `CompletedHasOntology` | a target that is missing is logged, with "falling back to new registration", and nothing is registered: the run completes without an ontology. (`services/extraction.py:2177`) |
| `MCIngestion.cfg` | `ReplacementIsWhole` | a replacement does not wait for the processing of the old file, which stores its chunks after the new ones were asked for; the docstring says the existing chunks are deleted and the new file is chunked. (`api/documents.py:276`) |
| `MCIngestion.cfg` | `UniqueContentAcrossWorkers` | the content is looked for before the record is created; with the two server processes of backend/Dockerfile:35, two uploads of a file make two documents; with one, a failed record that hard_delete_document could not delete (db/documents_repo.py:189, its answer ignored at api/documents.py:141) stays beside the new one. (`api/documents.py:126`) |
| `MCOntologies.cfg` | `ImportsAlwaysAcyclic` | the cycle check and the insertion of an imports edge are two calls, so two requests can close a cycle together. (`api/ontology/imports.py:295`) |
| `MCOntologies.cfg` | `ClosureReported` | a traversal filters e.expired on the last edge of a path only: an ontology behind an expired import is reported as imported. (`services/ontology_dependency.py:214`) |
| `MCOntologies.cfg` | `EtagFresh` | the tag is made of registry entries and imports edges, so a class edited or a label decided in an imported ontology leaves it as it was and the client keeps the old answer; the docstring says the ETag "invalidates the moment any participating ontology mutates". (`api/ontology/imports.py:140`) |
| `MCOntologies.cfg` | `BothIsUnion` | direction both is one traversal in which every step may go either way, and so returns the importers of what is imported too; the comment says "we run two traversals and union them". (`services/ontology_imports_graph.py:203`) |
| `MCOntologies.cfg` | `ImportCycleReported` | cycles are keyed by their set of classes, and the first path found decides whether an imported edge is on it: a cycle that an import closes is left out when a path without the import is seen first. (`services/ontology_effective.py:916`) |
| `MCOntologies.cfg` | `OnlyMergedCycles` | a cycle inside one imported ontology is reported as one that only the merge makes. (`services/ontology_effective.py:738`) |
| `MCOntologies.cfg` | `OneLiveDecision` | the prior decision is expired and the new one inserted in two calls, so two curators leave two decisions in force for one label, and so does an expiry that fails, for its result is not looked at. (`db/lexicon_repo.py:286`) |
| `MCOntologies.cfg` | `DecisionsShownInOntology` | the prior decision is looked up by the concept alone, while the reads of one ontology take only decisions that name it (355), and a resolution need not name any (services/label_collisions.py:289): a decision for another ontology, or for none, expires the one that was shown, and the extracted name is back; db/lexicon_repo.py:279 says of the concept_uri that "it is how a decision survives re-extraction". (`db/lexicon_repo.py:284`) |
| `MCServices.cfg` | `EquivalencesOnly` | the master's classes are the clusters of every accepted correspondence, also of those of another type than equivalence. (`services/alignment.py:640`) |
| `MCServices.cfg` | `DecisionsReported` | a refresh lists the correspondences of the edited class, and deletes them all in a later call: a decision made in between is gone and the summary does not count it. (`services/alignment.py:819`) |
| `MCServices.cfg` | `StaleIsLive` | the filter for classes without last_evidenced_at does not ask for live ones; the docstring says the scan returns live classes. (`services/consolidation.py:141`) |
| `MCServices.cfg` | `PureAge` | the decayed confidence is written over the one it was computed from, so the next pass applies the whole age again; the module says it is a pure age-based dampener. (`services/confidence_decay.py:263`) |
| `MCServices.cfg` | `StatusMonotonic` | a second pass with a key sets a completed cursor back to running. (`services/revision_safety.py:372`) |
| `MCServices.cfg` | `CacheFresh` | create_version empties the cache and expire_entity does not, so a snapshot that still has an expired class is served for its five minutes; the comment says "Invalidated on any write to the ontology". (`services/temporal.py:44`) |
| `MCAlgorithms.cfg` | `ChunksFitAlways` | the overlap kept from the piece before is not weighed with the paragraph that comes after it, so a chunk can be larger than chunk_max_tokens by the overlap (with MaxTokens = 3). (`services/ingestion.py:731`) |
| `MCAlgorithms.cfg` | `DanglingSurfaced` | the filter runs after the gate and drops classes others refer to, and these references are not among the ones the gate has surfaced. (`extraction/agents/structural_gate.py:12`) |
| `MCAlgorithms.cfg` | `SynonymCyclesFound` | a synonym cycle over two equivalences is a warning or nothing; the docstring of R1 counts "B equivalent A (or transitively)" as an error. (`services/ontology_rule_engine.py:145`) |
| `MCAlgorithms.cfg` | `StrictestBoundEnforced` | of two bounds for one property the later row wins; the docstring at services/ontology_rule_engine.py:420 says "the strictest bound is what's enforced". (`services/ontology_rule_engine.py:474`) |
| `MCAlgorithms.cfg` | `NoPhantomCycles` | the traversal filters the last edge of a path only, so a cycle through an expired edge costs the ontology its score. (`services/quality_metrics.py:790`) |
| `MCAlgorithms.cfg` | `CompletenessIsRatio` | classes with properties are counted from domain edges, whose classes need not be live: completeness can exceed one. (`services/quality_metrics.py:120`) |
| `MCAlgorithms.cfg` | `CountIndependentOfOrder` | the number of matches of the greedy pass depends on the order of the reference concepts; the comment says the order does not matter for the count. (`services/quality_recall.py:251`) |
| `MCIngestion.cfg` | `NoDuplicateImport` | an import that stopped half-way leaves its classes without a registry entry, and a second job may pass the check while the first reads its upload: the next import makes every class again in the same ontology; the catalog "refuses to overwrite an existing ontology". (`services/standard_ontology_catalog.py:141`) |
| `MCIngestion.cfg` | `ValuesKeepDatatype` | the value of owl:hasValue is stored by its text and exported as a plain literal; the comment at services/export.py:540 says "so a round-trip preserves the datatype". (`services/ontology_import.py:567`) |
| `MCIngestion.cfg` | `RangesAsStated` | an anonymous range, a union for one, is kept as the id of its blank node and exported as an IRI that the source does not have; the comment says that the exported ontology never gains what the source never asserted. (`services/ontology_import.py:979`) |
| `MCIngestion.cfg` | `InverseBothWays` | of two pairs that name one property the second is half kept, and which one depends on the order of the graph; the docstring says each property is mapped to its partner, "BOTH ways". (`services/ontology_import.py:172`) |
| `MCIngestion.cfg` | `DomainsSurvive` | the export reads domain_class, which no import writes, and not the rdfs_domain edges: a domain is lost; docs/IMPLEMENTATION_PLAN.md:316 asks to "verify equivalence" after a re-import. (`services/export.py:153`) |
| `MCIngestion.cfg` | `EditedClassKeepsConstraints` | constraints name a version of a class, and an edit does not take them along: export, rules and the class panel no longer see them; PRD.md:2510 says constraints are versioned like classes. (`services/export.py:481`) |
| `MCIngestion.cfg` | `DerivedShapesWarn` | a shape has one severity, taken from the first row, and authored rows come first: a bound derived from OWL on such a property is a violation; PRD.md:2513 says a derived shape carries sh:Warning, "never sh:Violation". (`services/export.py:871`) |
| `MCIngestion.cfg` | `ImplicitTargetsImported` | a class that is a shape and has nothing else is taken for a reference, as sh:property defines nothing, and its rows are skipped; services/shacl_import.py supports a shape that is its own target. (`services/ontology_import.py:140`) |
| `MCHierarchy.cfg` | `InterruptedMoveKeepsParent` | the old parent edges are expired one by one and the new edge is inserted in another call: an exception or a crash in between leaves the class without a parent; the docstring at api/ontology/mutations.py:350 says "Atomically move a class to a new parent". (`api/ontology/mutations.py:425`) |
| `MCHierarchy.cfg` | `OneParentEdge` | the result of expire_entity, which logs a failed write and returns None (services/temporal.py:197), is not looked at: the move goes on, records the old parent as left and inserts the new edge beside the old one; models/ontology.py:135 says a reparent "never leaves the old parent edge behind". (`api/ontology/mutations.py:422`) |
| `MCHierarchy.cfg` | `RefusedOnlyForACycle` | the guard's traversal filters e.expired on the last edge of each path only, so it walks through expired subclass_of edges and refuses a move whose new parent is not below the class any more; the comment at api/ontology/mutations.py:386 says "the proposed parent must not already be a descendant of the child". (`api/ontology/mutations.py:393`) |
| `MCHierarchy.cfg` | `UndoReverses` | the undo entry keeps only the first expired parent (prev[0]) of a class that had several; the docstring at api/ontology/mutations.py:658 says "Reverse a bulk reparent by restoring each class's previous parent". (`api/ontology/mutations.py:632`) |
| `MCHierarchy.cfg` | `UndoReverses` | class_keys is not deduplicated: a class listed twice gets a second undo entry whose previous parent is the new parent, so the undo moves it back under the new parent (seen with SelectTwice = TRUE); the docstring at api/ontology/mutations.py:658 says "Reverse a bulk reparent by restoring each class's previous parent". (`api/ontology/mutations.py:616`) |
| `MCResolution.cfg` | `RunListsItsOwn` | every run without a configuration of its own shares _active_config and overwrites its ontology_id, and the candidates endpoint reads the ontology from there; docs/REMAINING_WORK_PLAN.md:245 says the surface "is run-id-scoped: `/api/v1/er/runs/{run_id}/candidates`". (`services/er.py:215`) |
| `MCResolution.cfg` | `RejectedStaysHidden` | scoring inserts a new similarTo edge for every pair of every run, without the stamps of an earlier one; api/er.py:184 says "Soft-marks the ``similarTo`` edge with ``rejected_at`` so it does not re-surface in the inbox." (`services/er.py:834`) |
| `MCResolution.cfg` | `MergeTransfersEdges` | execute_merge expires the losing class with expire_entity and touches none of its edges; docs/DELETION_AND_REFERENTIAL_INTEGRITY.md:154 says of this function "All edges from the losing entity should be transferred to the winning entity". (`services/er.py:640`) |
| `MCResolution.cfg` | `ApprovedStays` | a merge drops whatever has fewer sources, approved or not; db/individuals_repo.py:413 says of approve that "the individual stays in the live A-box". (`services/abox_canonicalize.py:205`) |
| `MCResolution.cfg` | `RejectedIsGone` | an extraction or a merge that is under way adds facts, and an edit a type, to an individual that is rejected meanwhile; db/individuals_repo.py:416 says "the fact drops out of the live A-box". (`db/individuals_repo.py:437`) |
| `MCResolution.cfg` | `SameTypeMerged` | the pairs are found once and merged in turn, without a look at the types they have by then; abox_canonicalize.py:11 says "Only same-type individuals are compared (a Person and an Organization with similar names must not merge)". (`services/abox_canonicalize.py:202`) |
| `MCResolution.cfg` | `SurvivorSurvives` | two canonicalisations at the same time can choose opposite survivors, one of them after the other has added sources to one of the two: all duplicates are expired and none is left; abox_canonicalize.py:8 promises "a golden individual". (`services/abox_canonicalize.py:202`) |
| `MCResolution.cfg` | `ProvenanceUnited` | the provenance of the survivor is read, united and written back: of two merges into one survivor one is lost; abox_canonicalize.py:9 says "unioning provenance". (`services/abox_canonicalize.py:153`) |
| `MCResolution.cfg` | `BetterGroundedKept` | what is counted is entries of the provenance, with a span or without; the docstring says that "keep is the individual grounded in more source spans". (`services/abox_canonicalize.py:64`) |
| `MCResolution.cfg` | `MovedAsTheyWere` | the fact at the survivor is written without the cross-domain mark of the old one and with the ontology of the request for its own; abox_extraction.py:27 says that such a relationship "is preserved as a cross-ontology edge". (`services/abox_canonicalize.py:139`) |
| `MCResolution.cfg` | `OwnLoopsMove` | a fact that the dropped individual had with itself is taken for one that the merge produced and is lost; the docstring says "self-loops produced by the merge are dropped". (`services/abox_canonicalize.py:138`) |
| `MCResolution.cfg` | `OnePerMention` | the table of mentions lives as long as one extraction, and nothing merges afterwards unless it is asked to: a second document brings its own individual; PRD.md:2809 says "Coreferent mentions collapse to one individual [...] across chunks and documents". (`services/abox_extraction.py:202`) |
| `MCResolution.cfg` | `CountsIndividuals` | edges are counted, and two retypings to one class leave two; the docstring says "Live individual count per T-box class key". (`db/individuals_repo.py:198`) |
| `MCResolution.cfg` | `UngroundedFactsFlagged` | only the individuals are examined; PRD.md:2813 says "Every assertion must be grounded in a source span" and that what is not is "rejected or flagged". (`services/abox_validation.py:58`) |
| `MCResolution.cfg` | `UntypedFlagged` | an individual whose creation was cut short before its rdf_type edge is in no list; PRD.md:2806 says that individuals are stored "with an `rdf:type` edge to a T-box class". (`services/abox_validation.py:94`) |
| `MCRevision.cfg` | `ReplaySafeAfterCrash` | supersede changes the graph first and writes the revision_meta row, which is what a repetition looks for, afterwards: a run that dies in between adds its evidence again when it is repeated; db/temporal_revisions_repo.py:30 says that a pipeline may "safely retry a partially-completed pipeline run -- the supersede pass is replay-safe". (`db/temporal_revisions_repo.py:465`) |
| `MCRevision.cfg` | `ModificationsApplied` | every row that waits is FLAG_FOR_CURATION, for which _supersede_for_row returns before it looks at the payload, so a modification with only new_vertex_data or new_edge changes nothing and marks the row modified; the docstring at services/revision_actions.py:388 says "Whatever override is provided is applied". (`services/revision_actions.py:193`) |
| `MCRevision.cfg` | `DecidedOnce` | _load_pending reads the status and update_status writes it in a later call, so two handlers can both decide a row and the second decision overwrites the first; api/revisions.py:28 says "All POST handlers are *idempotent*". (`services/revision_actions.py:139`) |
| `MCRevision.cfg` | `RetractionsApplied` | where expire_entity returns None for a write that failed, supersede logs "supersede RETRACT no-op" and goes on to write an applied row, which a repetition then takes for done; db/temporal_revisions_repo.py:20 says of RETRACT "expire the existing vertex", and the docstring at line 30 that a retry is safe. (`db/temporal_revisions_repo.py:449`) |
| `MCRevision.cfg` | `RevisionsSupplied` | a rule that finds a concept to be there already proposes REVISE, for which supersede needs new_vertex_data; the node passes none, so each of these raises and leaves no row; revision_verdict.py:26 calls the verdict auto-applied and temporal_revisions_repo.py:326 says that "in practice the IBR.10 node passes the full set". (`extraction/agents/belief_revision.py:547`) |
| `MCRevision.cfg` | `OnlyContestedAsked` | whatever is flagged is asked, REFINED with it; PRD.md:2739 says the language model is "**not** called for REINFORCED, REFINED, GAP-FILLING, or REDUNDANT verdicts". (`extraction/agents/belief_revision.py:272`) |
| `MCRevision.cfg` | `RateUnderThreshold` | the windows are fixed and begin anew, so twice the limit passes across a border; PRD.md:2747 says "revision rate above configurable threshold (default 50/min) halts the agent". (`services/revision_safety.py:167`) |
| `MCRevision.cfg` | `SharedChunksTouch` | the overlap is computed with fields that no writer of a class sets, and would weigh too little to pass the threshold; PRD.md:2737 lists the overlap of extracted_from chunks among what identifies a touchpoint. (`services/touchpoint_discovery.py:233`) |
| `MCRevision.cfg` | `ProvenanceQuotable` | _fetch_existing_belief leaves out the evidence that the caller then looks for in what it returns, so the language model is shown none and a quote of it is rejected; revision_agent.py:8 says that it reads "the existing belief, its provenance". (`extraction/agents/belief_revision.py:455`) |
| `MCRevision.cfg` | `ApprovedNeverRevised` | a guard whose read of the class fails takes it for one that is not there and lets the revision pass; PRD.md:2747 says "approved/published classes never auto-revise". (`extraction/agents/belief_revision.py:516`) |
| `MCIngestion.cfg` | `DistinctTypesKept` | two types whose names differ in punctuation only have one local name and become one class; the docstring says "every entity/relationship *type* present in the graph must become a class/predicate". (`services/schema_extraction.py:1274`) |
| `MCIngestion.cfg` | `EveryEndImported` | an edge definition with several vertex collections is written with several domains, "the union, which is what the user expects from a graph schema"; the importer reads one. (`services/schema_extraction.py:1060`) |
| `MCIngestion.cfg` | `ConstraintChangesShown` | constraints are joined on class_id, which the importers do not write (they write on_class): the comparison never lists one; the docstring promises added, removed and changed constraints, and its test feeds rows that are joined already. (`services/schema_diff.py:298`) |
| `MCIngestion.cfg` | `ConstraintsOfTheirClass` | the shape of Car has the IRI of a collection CarShape, whose class the importer takes for a target too: it gets the constraints of Car. (`services/schema_extraction.py:872`) |
| `MCIngestion.cfg` | `ExtractionStaysItsOwn` | an extraction that is given the id of an ontology that is there writes all its classes beside those and then fails at the registry; docs/REMAINING_WORK_PLAN.md:674 says "each extraction stays its own ontology". (`services/schema_extraction.py:1836`) |
| `MCIngestion.cfg` | `EveryRelationshipImported` | two relationships of one type become one property with two domains, of which one is imported; the docstring says that the import "keeps every correspondence the document carries". (`services/csi_import.py:337`) |

Smaller observations that no property states:

- An undo directly after its bulk move can be refused: the guard's traversal
  goes through the edges that the bulk move has just expired.  `UndoRestores`
  is therefore about undos nothing of which is refused.
- `services/background.py:14` says that nothing in the pipeline shares a
  loop-bound resource, while `publish` puts events into `asyncio` queues that
  belong to the server's loop.  The model's `Push` puts the event in the queue,
  which is what the call does; that it may not wake the reader at once is a
  delay the model has anyway.
- The revision pipeline never passes `new_vertex_data` or `new_edge` to
  `supersede`, so a REVISE or GAP_FILL that it chooses for an entity that is not
  approved always fails, and leaves no row (`FindPrior` fails).  The structural
  features of a verdict are always empty, an overlap of names alone never reaches
  0.30, and one client that fails fails its whole batch although `revise` is said
  never to raise.
- Two touchpoints of one document on one class with one action leave one row; a
  FLAG that replaces a refused answer keeps the quotes that were not found.
- What a failed write of `expire_entity` leaves behind depends on the caller.  A
  reparent leaves a class with two parents and an undo that does not restore; a
  merge of classes that then dies before its verdict is recorded is made twice when
  the pair is accepted again; a fact moved in a merge of individuals stays at both of
  them; a retyped individual keeps its old type beside the new one, and a rejected
  one may stay live, without its facts and its type; a label shows two decisions.
  No caller reports it.
- The breaker of the revision agent counts a call before the client for it is
  made (`services/revision_agent.py:549`, `:570`), so calls that never left count too.
- A run can stay "running" for good: the record is inserted before the chunks are
  counted (`services/extraction.py:137-139`), the thread reads the record and the
  chunks before its `try` (189-302), and the status write of an `except` clause may
  fail itself; the same is true of a document's status (`tasks.py:156`).
- A document deletion that fails after the chunks are gone leaves a record that says
  "ready" with a count of chunks it no longer has, and the answer is "deleted".
- The module docstring of the rule engine speaks of weakly connected components
  (`services/ontology_rule_engine.py:22`); the function and its own docstring take
  strongly connected ones.
- A RETRACT of a version that has been succeeded stamps the old version again
  and is recorded as applied while the entity stays current.
- A second modification of the same entity by the same document and action is
  skipped as already made, whatever its payload, and its row is marked modified.
- A run that has been marked completed may be marked failed afterwards; two runs
  over one ontology lose an update of `class_count`; a class that was edited is
  extracted again beside its edited version; `_should_retry_extraction` is not
  reachable.
- `materialize` looks neither at the status of the session nor at the type of a
  correspondence; pairs of high confidence are recommended, and not accepted as
  the PRD says.
- A heading without a body is not part of any chunk.
- Judges' verdicts are matched with classes by their position.
- A resolution that is refused at one concept leaves the decisions recorded before it;
  a resolution without an ontology is in force for no single ontology; a 304 hides a
  change of depth.
- Equivalences, inverses and soft types are not exported; rejected constraints
  are.  The extraction of a graph with types in its documents stamps a class with
  the last collection of its type, while `aoe:sourceCollection` keeps the first;
  the name made from a foreign key depends on the other tables.
- A retyping takes any class key; an approval that races a rejection leaves an
  individual that is expired and approved; the instance check looks for data
  properties in `ontology_properties`; nothing but tests calls the extraction
  over several ontologies.

## 6. What is not modelled

Each part is listed with its reason in `PROJECT.json`.  Left out for good:
parsers and serializers of file formats, prompts and language models (the models
let them answer anything in a small set), embeddings, request limits, migrations,
the MCP server and the frontend, and document kinds that are created, updated
and deleted in single writes (organisations, notifications, requirements).
Within the modelled parts: in the hierarchy guard, the traversal's limit of 100
levels; in `update_entity`, edits of properties and individuals, which go through
the same code; in curation, batches, which are sequences of decisions; in entity
resolution, clusters; and what section 2 lists as abstracted.

Some things are modelled and have no run or property of their own.  `Consolidation`
takes part in `services`, where its steps interleave with restarts, and its
invariants (`DecayBounded` and the others of section 3) hold there, but none of
them is listed as a property of the run.  That a version update can stop half-way is
checked in `TemporalStore`; the modules that use `update_entity` as one action do
not repeat it.  In `resolution` one thing goes wrong at most, a crash or a failed
expiry (`MaxAborts = 1`), so the exception in `MergedOnce`, which takes both, is
covered by the theorem and not by the run.

## 7. The plan

Done: every component above is modelled, checked and has its entry in the hazards of
`PROJECT.json`; the proofs of section 4.  Left: a proof about
the import of schemas (`SchemaImported`).
