---------------------------- MODULE TemporalStore ----------------------------
(***************************************************************************)
(* The bitemporal graph store: ontology vertices and edges carry created   *)
(* and expired stamps, and every edit expires a document and inserts its   *)
(* successor.  Source: backend/app/services/temporal.py, with the callers  *)
(* in db/ontology_repo.py and api/ontology/mutations.py that drive it.     *)
(*                                                                         *)
(* FastAPI runs the handlers in a thread pool and ArangoDB applies each    *)
(* query or document write atomically, but no operation below runs in a    *)
(* transaction: one action here is one database call of one thread.        *)
(***************************************************************************)
EXTENDS Naturals, Sequences, FiniteSets

CONSTANTS
    Threads,          \* request handlers that may run at the same time
    NumConcepts,      \* concepts (URIs) 1 .. NumConcepts
    NumSeeded,        \* concepts that have a current version initially
    UpdatePaths,      \* callers of update_entity, a subset of AllUpdatePaths
    NeverExpires,     \* the sentinel sys.maxsize, above every clock value
    MaxClock,         \* bound: the clock stands still once it reads this much
    MaxOps,           \* bound: operations begun
    MaxAborts,        \* bound: operations cut short by an exception or a crash
    MaxExpireFaults   \* bound: writes that expire_entity swallows the failure of

AllUpdatePaths == {"edit", "revert", "revise"}

ASSUME BoundsAssumption ==
    /\ NumConcepts \in Nat
    /\ NumSeeded \in 0 .. NumConcepts
    /\ NeverExpires \in Nat
    /\ MaxClock \in 1 .. NeverExpires - 1
    /\ MaxOps \in Nat
    /\ MaxAborts \in Nat
    /\ MaxExpireFaults \in Nat
ASSUME PathsAssumption == UpdatePaths \subseteq AllUpdatePaths

VARIABLES
    docs,      \* ontology_classes: the sequence of all vertex versions; the index is the _key
    edges,     \* all edge documents, of every edge collection
    op,        \* op[t]: the operation thread t is in the middle of
    clock,     \* time.time(): advances with the stamps taken
    retired,   \* history variable: edge lineages some operation meant to end
    ops, aborts, faults   \* counters for the bounds

store == <<docs, edges, clock>>
counters == <<ops, aborts, faults>>
vars == <<docs, edges, op, clock, retired, ops, aborts, faults>>

Concepts == 1 .. NumConcepts

\* The source document an extracted_from edge points to; it is not a version.
SourceDoc == 0

(***************************************************************************)
(* Edge collections: "relation" stands for the collections of              *)
(* ontology_repo._ONTOLOGY_EDGE_COLLECTIONS, "extracted_from" for the one  *)
(* that only temporal._ONTOLOGY_TEMPORAL_EDGE_COLLECTIONS adds.            *)
(***************************************************************************)
Collections == {"relation", "extracted_from"}
RepoEdgeCollections == <<"relation">>
TemporalEdgeCollections == <<"relation", "extracted_from">>

\* The edge_collections argument each caller of update_entity passes: the
\* editor and the curation actions the repository's list, revert_to_version
\* the temporal list, and supersede(REVISE) none.
EdgeCollectionsOf(path) ==
    IF path = "edit" THEN RepoEdgeCollections
    ELSE IF path = "revert" THEN TemporalEdgeCollections
    ELSE <<>>

Version == [concept : Concepts, version : Nat \ {0}, created : Nat, expired : Nat]

\* lineage: the logical edge a document is a copy of, here the index of its
\* first copy.  It stands for the payload that re_create_edges carries over.
Edge == [lineage : Nat \ {0}, col : Collections, from : Nat, to : Nat,
         created : Nat, expired : Nat]

\* What a thread holds between two database calls.
Op == [pc : {"idle", "expire", "create", "collect", "outbound", "inbound",
             "cascade", "sweep", "readTo", "replace", "insert",
             "edgeExpire", "edgeCreate", "insertClass"},
       key : Nat,                 \* the document the operation read
       new : Nat,                 \* the successor, or the other endpoint
       cols : Seq(Collections),   \* edge collections still to visit
       now : Nat,                 \* re_create_edges: its one time stamp
       todo : SUBSET Nat,         \* edge keys of the last query, not yet handled
       cur : Nat]                 \* edge expired whose copy is not yet inserted

IdleOp == [pc |-> "idle", key |-> 0, new |-> 0, cols |-> <<>>, now |-> 0,
           todo |-> {}, cur |-> 0]

Current(s) == {i \in DOMAIN s : s[i].expired = NeverExpires}
CurrentOf(c) == {i \in Current(docs) : docs[i].concept = c}
ConceptOf(i) == IF i \in DOMAIN docs THEN docs[i].concept ELSE 0

\* Mutant: the query forgets the filter on expired.
OutboundOfAnyAge(col, id) == {e \in DOMAIN edges : edges[e].col = col /\ edges[e].from = id}

Outbound(col, id) == {e \in Current(edges) : edges[e].col = col /\ edges[e].from = id}
\* Mutant: the inbound query filters on _from, like the outbound one.
InboundByFrom(col, id) == {e \in Current(edges) : edges[e].col = col /\ edges[e].from = id}

Inbound(col, id) == {e \in Current(edges) : edges[e].col = col /\ edges[e].to = id}

Stamped(s, i, ts) == [s EXCEPT ![i].expired = ts]
NewEdge(col, from, to) ==
    [lineage |-> Len(edges) + 1, col |-> col, from |-> from, to |-> to,
     created |-> clock, expired |-> NeverExpires]

\* Stamps need not be distinct: two calls may read the same time.
Tick == clock' = IF clock < MaxClock THEN clock + 1 ELSE clock

Begin(t, o) ==
    /\ op[t].pc = "idle"
    /\ ops < MaxOps
    /\ ops' = ops + 1
    /\ op' = [op EXCEPT ![t] = o]

Goto(t, pc) == op' = [op EXCEPT ![t].pc = pc]
Finish(t) == op' = [op EXCEPT ![t] = IdleOp]

-----------------------------------------------------------------------------
\* An imported or extracted ontology: one version per seeded concept, and at
\* most one edge of either collection.
Seeded == 1 .. NumSeeded
SeedEdge(col, from, to) ==
    [lineage |-> 1, col |-> col, from |-> from, to |-> to,
     created |-> 0, expired |-> NeverExpires]

Init ==
    /\ docs = [c \in Seeded |->
                  [concept |-> c, version |-> 1, created |-> 0, expired |-> NeverExpires]]
    /\ edges \in {<<>>}
                  \cup {<<SeedEdge("relation", f, g)>> : f \in Seeded, g \in Seeded}
                  \cup {<<SeedEdge("extracted_from", f, SourceDoc)>> : f \in Seeded}
    /\ op = [t \in Threads |-> IdleOp]
    /\ clock = 1
    /\ retired = {}
    /\ ops = 0 /\ aborts = 0 /\ faults = 0

-----------------------------------------------------------------------------
(* create_class: look for a current version with the URI, then insert.      *)

\* Mutant: no check for a current class with the same URI.
BeginCreateClassUnchecked(t) ==
    \E c \in Concepts :
        /\ Begin(t, [IdleOp EXCEPT !.pc = "insertClass", !.key = c])
        /\ UNCHANGED <<store, retired, aborts, faults>>

BeginCreateClass(t) ==
    \E c \in Concepts :
        /\ CurrentOf(c) = {}
        /\ Begin(t, [IdleOp EXCEPT !.pc = "insertClass", !.key = c])
        /\ UNCHANGED <<store, retired, aborts, faults>>

\* A taken _key is answered by a suffixed key, so the insert always succeeds.
InsertClass(t) ==
    /\ op[t].pc = "insertClass"
    /\ docs' = Append(docs, [concept |-> op[t].key, version |-> 1,
                             created |-> clock, expired |-> NeverExpires])
    /\ Tick
    /\ Finish(t)
    /\ UNCHANGED <<edges, retired, counters>>

-----------------------------------------------------------------------------
(* update_entity: edit, approve, revert and revise of a vertex.             *)

BeginUpdate(t) ==
    \E k \in Current(docs), path \in UpdatePaths :
        /\ Begin(t, [IdleOp EXCEPT !.pc = "expire", !.key = k,
                                   !.cols = EdgeCollectionsOf(path)])
        /\ UNCHANGED <<store, retired, aborts, faults>>

\* expire_entity stamps the document whether or not it is still current; a
\* failed write is logged and swallowed, and no caller looks at the result.
WriteFails ==
    /\ faults < MaxExpireFaults
    /\ faults' = faults + 1
StampVersion(k) ==
    \/ docs' = Stamped(docs, k, clock) /\ UNCHANGED faults
    \/ WriteFails /\ UNCHANGED docs
StampEdge(e) ==
    \/ edges' = Stamped(edges, e, clock) /\ UNCHANGED faults
    \/ WriteFails /\ UNCHANGED edges

\* Mutant: the old version is not expired.
ExpireOldSkipped(t) ==
    /\ op[t].pc = "expire"
    /\ Goto(t, "create")
    /\ UNCHANGED <<store, retired, counters>>

ExpireOld(t) ==
    /\ op[t].pc = "expire"
    /\ StampVersion(op[t].key)
    /\ Tick
    /\ Goto(t, "create")
    /\ UNCHANGED <<edges, retired, ops, aborts>>

\* Mutants: the version number is lowered; it is incremented twice; the created
\* stamp of the old version is carried over with the rest of its fields.
CreateNewAs(t, number, stamp) ==
    /\ op[t].pc = "create"
    /\ docs' = Append(docs, [docs[op[t].key] EXCEPT !.version = number, !.created = stamp,
                                                    !.expired = NeverExpires])
    /\ Tick
    /\ op' = [op EXCEPT ![t].pc = "collect", ![t].new = Len(docs) + 1]
    /\ UNCHANGED <<edges, retired, counters>>
CreateNewLowered(t) == CreateNewAs(t, docs[op[t].key].version - 1, clock)
CreateNewSkipsNumber(t) == CreateNewAs(t, docs[op[t].key].version + 2, clock)
CreateNewKeepsCreated(t) ==
    CreateNewAs(t, docs[op[t].key].version + 1, docs[op[t].key].created)

CreateNew(t) ==
    /\ op[t].pc = "create"
    /\ docs' = Append(docs, [concept |-> docs[op[t].key].concept,
                             version |-> docs[op[t].key].version + 1,
                             created |-> clock, expired |-> NeverExpires])
    /\ Tick
    /\ op' = [op EXCEPT ![t].pc = "collect", ![t].new = Len(docs) + 1]
    /\ UNCHANGED <<edges, retired, counters>>

-----------------------------------------------------------------------------
(* re_create_edges, once per edge collection: the edges out of the old      *)
(* version, then the edges into it.  An edge is expired in one write and    *)
(* its copy inserted in the next; both carry the stamp taken on entry.      *)

QueryOutbound(t) ==
    /\ op[t].pc = "collect"
    /\ op[t].cols # <<>>
    /\ op' = [op EXCEPT ![t].pc = "outbound", ![t].now = clock,
                        ![t].todo = Outbound(Head(op[t].cols), op[t].key)]
    /\ Tick
    /\ UNCHANGED <<docs, edges, retired, counters>>

QueryInbound(t) ==
    /\ op[t].pc = "outbound"
    /\ op[t].todo = {} /\ op[t].cur = 0
    /\ op' = [op EXCEPT ![t].pc = "inbound",
                        ![t].todo = Inbound(Head(op[t].cols), op[t].key)]
    /\ UNCHANGED <<store, retired, counters>>

\* Mutant: the copy is inserted without expiring the edge it replaces.
ExpireEdgeSkipped(t) ==
    /\ op[t].pc \in {"outbound", "inbound"}
    /\ op[t].cur = 0
    /\ \E e \in op[t].todo : op' = [op EXCEPT ![t].cur = e, ![t].todo = @ \ {e}]
    /\ UNCHANGED <<store, retired, counters>>

ExpireEdge(t) ==
    /\ op[t].pc \in {"outbound", "inbound"}
    /\ op[t].cur = 0
    /\ \E e \in op[t].todo :
          /\ edges' = Stamped(edges, e, op[t].now)
          /\ op' = [op EXCEPT ![t].cur = e, ![t].todo = @ \ {e}]
    /\ UNCHANGED <<docs, clock, retired, counters>>

\* Mutant: the inbound loop sets _from to the new version.
CopySwapped(t) ==
    LET e == edges[op[t].cur] IN
    [e EXCEPT !.from = op[t].new, !.created = op[t].now, !.expired = NeverExpires]

Copy(t) ==
    LET e == edges[op[t].cur] IN
    [lineage |-> e.lineage, col |-> e.col,
     from |-> IF op[t].pc = "outbound" THEN op[t].new ELSE e.from,
     to |-> IF op[t].pc = "inbound" THEN op[t].new ELSE e.to,
     created |-> op[t].now, expired |-> NeverExpires]

\* Mutant: the expired edge is rewritten in place.
InsertCopyInPlace(t) ==
    /\ op[t].pc \in {"outbound", "inbound"}
    /\ op[t].cur # 0
    /\ edges' = [edges EXCEPT ![op[t].cur] = Copy(t)]
    /\ op' = [op EXCEPT ![t].cur = 0]
    /\ UNCHANGED <<docs, clock, retired, counters>>

InsertCopy(t) ==
    /\ op[t].pc \in {"outbound", "inbound"}
    /\ op[t].cur # 0
    /\ edges' = Append(edges, Copy(t))
    /\ op' = [op EXCEPT ![t].cur = 0]
    /\ UNCHANGED <<docs, clock, retired, counters>>

\* Mutant: the collection just handled stays first in line.
NextCollectionStuck(t) ==
    /\ op[t].pc = "inbound"
    /\ op[t].todo = {} /\ op[t].cur = 0
    /\ Goto(t, "collect")
    /\ UNCHANGED <<store, retired, counters>>

NextCollection(t) ==
    /\ op[t].pc = "inbound"
    /\ op[t].todo = {} /\ op[t].cur = 0
    /\ op' = [op EXCEPT ![t].pc = "collect", ![t].cols = Tail(@)]
    /\ UNCHANGED <<store, retired, counters>>

FinishUpdate(t) ==
    /\ op[t].pc = "collect"
    /\ op[t].cols = <<>>
    /\ Finish(t)
    /\ UNCHANGED <<store, retired, counters>>

-----------------------------------------------------------------------------
(* expire_class_cascade: delete a class, or reject it in curation.          *)

BeginCascade(t) ==
    \E k \in Current(docs) :
        /\ Begin(t, [IdleOp EXCEPT !.pc = "cascade", !.key = k,
                                   !.cols = RepoEdgeCollections])
        /\ UNCHANGED <<store, retired, aborts, faults>>

ExpireClass(t) ==
    /\ op[t].pc = "cascade"
    /\ StampVersion(op[t].key)
    /\ Tick
    /\ Goto(t, "sweep")
    /\ UNCHANGED <<edges, retired, ops, aborts>>

\* Mutant: the cascade looks at outgoing edges only.
QueryOutgoing(t) ==
    /\ op[t].pc = "sweep"
    /\ op[t].todo = {}
    /\ IF op[t].cols = <<>>
       THEN Finish(t)
       ELSE op' = [op EXCEPT ![t].cols = Tail(@),
                             ![t].todo = Outbound(Head(op[t].cols), op[t].key)]
    /\ UNCHANGED <<store, retired, counters>>

\* The query and the loop over its result for one edge collection.
QueryTouching(t) ==
    /\ op[t].pc = "sweep"
    /\ op[t].todo = {}
    /\ IF op[t].cols = <<>>
       THEN Finish(t)
       ELSE LET col == Head(op[t].cols) IN
            op' = [op EXCEPT ![t].cols = Tail(@),
                             ![t].todo = Outbound(col, op[t].key)
                                           \cup Inbound(col, op[t].key)]
    /\ UNCHANGED <<store, retired, counters>>

SweepEdge(t) ==
    /\ op[t].pc = "sweep"
    /\ \E e \in op[t].todo :
          /\ StampEdge(e)
          /\ retired' = retired \cup {edges[e].lineage}
          /\ op' = [op EXCEPT ![t].todo = @ \ {e}]
    /\ Tick
    /\ UNCHANGED <<docs, ops, aborts>>

-----------------------------------------------------------------------------
(* create_or_update_edge: both classes are read, every current edge between *)
(* them is expired, and the new edge is inserted.                           *)

BeginRelate(t) ==
    \E k \in Current(docs) :
        /\ Begin(t, [IdleOp EXCEPT !.pc = "readTo", !.key = k])
        /\ UNCHANGED <<store, retired, aborts, faults>>

ReadTarget(t) ==
    /\ op[t].pc = "readTo"
    /\ \E k \in Current(docs) :
          op' = [op EXCEPT ![t].pc = "replace", ![t].new = k,
                           ![t].todo = Outbound("relation", op[t].key)
                                         \cap Inbound("relation", k)]
    /\ UNCHANGED <<store, retired, counters>>

\* The other class is not current: the handler answers 404.
TargetMissing(t) ==
    /\ op[t].pc = "readTo"
    /\ \E k \in DOMAIN docs : k \notin Current(docs)
    /\ Finish(t)
    /\ UNCHANGED <<store, retired, counters>>

ReplaceEdge(t) ==
    /\ op[t].pc = "replace"
    /\ \E e \in op[t].todo :
          /\ StampEdge(e)
          /\ retired' = retired \cup {edges[e].lineage}
          /\ op' = [op EXCEPT ![t].todo = @ \ {e}]
    /\ Tick
    /\ UNCHANGED <<docs, ops, aborts>>

InsertEdge(t) ==
    /\ op[t].pc = "replace"
    /\ op[t].todo = {}
    /\ edges' = Append(edges, NewEdge("relation", op[t].key, op[t].new))
    /\ Tick
    /\ Finish(t)
    /\ UNCHANGED <<docs, retired, counters>>

-----------------------------------------------------------------------------
(* update_edge: a version bump of the edge document itself.                 *)

BeginUpdateEdge(t) ==
    \E e \in Current(edges) :
        /\ edges[e].col = "relation"
        /\ Begin(t, [IdleOp EXCEPT !.pc = "edgeExpire", !.cur = e])
        /\ UNCHANGED <<store, retired, aborts, faults>>

ExpireEdgeVersion(t) ==
    /\ op[t].pc = "edgeExpire"
    /\ StampEdge(op[t].cur)
    /\ Tick
    /\ Goto(t, "edgeCreate")
    /\ UNCHANGED <<docs, retired, ops, aborts>>

CreateEdgeVersion(t) ==
    /\ op[t].pc = "edgeCreate"
    /\ edges' = Append(edges, [edges[op[t].cur] EXCEPT !.created = clock,
                                                       !.expired = NeverExpires])
    /\ Tick
    /\ Finish(t)
    /\ UNCHANGED <<docs, retired, counters>>

-----------------------------------------------------------------------------
\* An exception leaves a handler, or its process dies: what it wrote stays.
Abort(t) ==
    /\ op[t].pc # "idle"
    /\ aborts < MaxAborts
    /\ aborts' = aborts + 1
    /\ Finish(t)
    /\ UNCHANGED <<store, retired, ops, faults>>

StartOf(t) ==
    \/ BeginCreateClass(t) \/ BeginUpdate(t) \/ BeginCascade(t)
    \/ BeginRelate(t) \/ BeginUpdateEdge(t)

StepOf(t) ==
    \/ InsertClass(t)
    \/ ExpireOld(t) \/ CreateNew(t)
    \/ QueryOutbound(t) \/ QueryInbound(t) \/ ExpireEdge(t) \/ InsertCopy(t)
    \/ NextCollection(t) \/ FinishUpdate(t)
    \/ ExpireClass(t) \/ QueryTouching(t) \/ SweepEdge(t)
    \/ ReadTarget(t) \/ TargetMissing(t) \/ ReplaceEdge(t) \/ InsertEdge(t)
    \/ ExpireEdgeVersion(t) \/ CreateEdgeVersion(t)

Next == \E t \in Threads : StartOf(t) \/ StepOf(t) \/ Abort(t)

\* The thread pool keeps running a handler that has started.
Fairness == \A t \in Threads : WF_vars(StepOf(t))

Spec == Init /\ [][Next]_vars
FairSpec == Spec /\ Fairness

-----------------------------------------------------------------------------
(* Properties.                                                              *)

TypeOK ==
    /\ docs \in Seq(Version)
    /\ edges \in Seq(Edge)
    /\ op \in [Threads -> Op]
    /\ clock \in 1 .. MaxClock
    /\ retired \in SUBSET Nat
    /\ ops \in Nat /\ aborts \in Nat /\ faults \in Nat

AllIdle == \A t \in Threads : op[t].pc = "idle"
SingleThread == \A s, t \in Threads : s = t
LiveCopies(l) == {e \in Current(edges) : edges[e].lineage = l}

StandsOnExpired ==
    \A i \in DOMAIN docs : docs[i].version > 1 =>
        \E p \in 1 .. i - 1 : /\ docs[p].concept = docs[i].concept
                              /\ docs[p].version + 1 = docs[i].version
                              /\ docs[p].expired # NeverExpires

(* However many threads edit at once and wherever they are interrupted, a   *)
(* version numbered above 1 stands on a version of the same concept with    *)
(* the number below it that is no longer current, as long as no write of    *)
(* expire_entity has failed unnoticed (update_entity).                      *)
PredecessorExpired == faults = 0 => StandsOnExpired

(* Every copy of an edge, through any number of concurrent re-creations,    *)
(* joins versions of the same two concepts as the first (re_create_edges).  *)
EdgesKeepConcepts ==
    \A e \in DOMAIN edges :
        LET first == edges[edges[e].lineage] IN
        /\ ConceptOf(edges[e].from) = ConceptOf(first.from)
        /\ ConceptOf(edges[e].to) = ConceptOf(first.to)

(* The inductive invariant behind the two properties above: what every      *)
(* interrupted operation still knows about the store.  A thread keeps the   *)
(* keys of documents, which stay in the store with their concept and their  *)
(* endpoints; what may go stale is only whether they are current.           *)
EdgesWellFormed ==
    \A e \in DOMAIN edges :
        /\ edges[e].from \in DOMAIN docs
        /\ edges[e].to \in DOMAIN docs \cup {SourceDoc}
        /\ edges[e].lineage \in DOMAIN edges

OpKnows(t) ==
    /\ op[t].now <= MaxClock
    /\ op[t].pc \in {"expire", "create", "collect", "outbound", "inbound",
                     "cascade", "sweep", "readTo", "replace"}
          => op[t].key \in DOMAIN docs
    /\ op[t].pc = "insertClass" => op[t].key \in Concepts
    /\ op[t].pc \in {"collect", "outbound", "inbound"} =>
          /\ op[t].new \in DOMAIN docs
          /\ docs[op[t].new].concept = docs[op[t].key].concept
    /\ op[t].pc = "replace" => op[t].new \in DOMAIN docs
    /\ op[t].todo \subseteq DOMAIN edges
    /\ op[t].cur \in DOMAIN edges \cup {0}
    /\ op[t].pc \in {"edgeExpire", "edgeCreate"} => op[t].cur # 0
    /\ op[t].pc \in {"expire", "create", "collect"} => op[t].cur = 0
    /\ op[t].pc \in {"outbound", "inbound"} => op[t].cols # <<>>
    /\ op[t].pc = "outbound" =>
          \A e \in op[t].todo \cup ({op[t].cur} \ {0}) : edges[e].from = op[t].key
    /\ op[t].pc = "inbound" =>
          \A e \in op[t].todo \cup ({op[t].cur} \ {0}) : edges[e].to = op[t].key

IndInv ==
    /\ TypeOK
    /\ EdgesWellFormed
    /\ EdgesKeepConcepts
    /\ \A t \in Threads : OpKnows(t)

\* With no swallowed write failure, a thread about to insert a successor has
\* seen the version it succeeds expired.
PredecessorInv ==
    /\ faults = 0
    /\ StandsOnExpired
    /\ \A t \in Threads : op[t].pc = "create" => docs[op[t].key].expired # NeverExpires

(* A concept has at most one current version.  One thread at a time keeps   *)
(* this; two racing update_entity calls, or two create_class, do not.       *)
AtMostOneCurrent ==
    \A i, j \in Current(docs) : docs[i].concept = docs[j].concept => i = j

(* The intervals of the versions of one concept are ordered and do not      *)
(* overlap, so a point-in-time query finds at most one of them.             *)
HistoryDisjoint ==
    \A i, j \in DOMAIN docs :
        i < j /\ docs[i].concept = docs[j].concept
            => /\ docs[i].created <= docs[i].expired
               /\ docs[i].expired <= docs[j].created

(* A logical edge never has two current copies, whatever step a lone        *)
(* thread was interrupted at: re_create_edges expires before it inserts.    *)
OneLiveCopy ==
    \A e, f \in Current(edges) : edges[e].lineage = edges[f].lineage => e = f

(* When nothing was interrupted, a finished edit has lost no relation:      *)
(* every edge not deliberately ended has a current copy, between versions   *)
(* that are current (update_entity, re_create_edges, self-loops included).  *)
NoRelationLost ==
    AllIdle /\ aborts = 0 =>
        \A l \in DOMAIN edges :
            edges[l].col = "relation" /\ l \notin retired /\ edges[l].lineage = l =>
                \E e \in LiveCopies(l) : {edges[e].from, edges[e].to} \subseteq Current(docs)

(* Deleting or rejecting a class leaves no current relation at it or at any *)
(* earlier version: no operation leaves a current edge on an expired one.   *)
ReferentialIntegrity ==
    AllIdle /\ aborts = 0 =>
        \A e \in Current(edges) :
            edges[e].col = "relation"
                => {edges[e].from, edges[e].to} \subseteq Current(docs)

(* Nothing expired becomes current again: neither a vertex nor an edge.     *)
NoResurrection ==
    [][/\ \A i \in DOMAIN docs : docs[i].expired # NeverExpires
                                    => docs'[i].expired # NeverExpires
       /\ \A e \in DOMAIN edges : edges[e].expired # NeverExpires
                                    => edges'[e].expired # NeverExpires]_vars

(* History is never rewritten: a stamp, once set, stays.                    *)
HistoryImmutable ==
    [][/\ \A i \in DOMAIN docs : docs[i].expired # NeverExpires => docs'[i] = docs[i]
       /\ \A e \in DOMAIN edges : edges[e].expired # NeverExpires => edges'[e] = edges[e]]_vars

(* Every handler that has started comes to an end.                          *)
OperationsEnd == \A t \in Threads : op[t].pc # "idle" ~> op[t].pc = "idle"
=============================================================================
