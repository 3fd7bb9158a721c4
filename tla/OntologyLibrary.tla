--------------------------- MODULE OntologyLibrary ---------------------------
(***************************************************************************)
(* The ontology library: registry entries, imports between them, releases, *)
(* named graphs and the deletion of an ontology (api/ontology/library.py,  *)
(* imports.py, imports_io.py, services/ontology_graphs.py,                 *)
(* ontology_dependency.py, ontology_imports_graph.py, db/registry_repo.py, *)
(* db/releases_repo.py).                                                   *)
(*                                                                         *)
(* Every endpoint is a synchronous handler on a thread of the pool: what   *)
(* it read may be stale at its next database call.  call[q] is where the   *)
(* handler in slot q stands and what it remembers.                         *)
(***************************************************************************)
EXTENDS Traversals, FiniteSets

CONSTANTS
    Ontologies,   \* registry keys
    Registered,   \* those in the registry at the start
    Names,        \* display names
    NameOf,       \* the name an ontology is created under
    Declares,     \* Declares[o]: what the file of o says it imports
    Slots,        \* handlers that may run at the same time
    MaxCalls,     \* requests in all
    MaxDepth      \* hops a traversal takes

ASSUME LibraryAssumption ==
    /\ Registered \subseteq Ontologies /\ "" \notin Ontologies
    /\ NameOf \in [Ontologies -> Names] /\ Declares \in [Ontologies -> SUBSET Ontologies]
    /\ MaxDepth \in Nat

VARIABLES
    entry,      \* entry[o]: the registry row: status, name, release
    content,    \* content[o]: its classes, properties and edges
    graphs,     \* named graphs, by the name they are derived from
    edges,      \* the imports collection, expired edges included
    releases,   \* releases[o][v]: rows for version v
    uploads,    \* uploads[o]: the entry of _import_jobs
    call,
    calls,
    contended,  \* history: ontologies two requests were about at the same time
    raced       \* history: two requests that add imports overlapped

library == <<entry, content, graphs, edges, releases, uploads, call, calls, contended, raced>>

NoEntry == [status |-> "absent", name |-> "", release |-> ""]
Versions == {"1.0", "2.0"}
Free == [at |-> "free", o |-> "", to |-> "", arg |-> ""]
Known(o) == entry[o].status # "absent"

LibraryInit ==
    /\ entry = [o \in Ontologies |-> IF o \in Registered
                                     THEN [status |-> "active", name |-> NameOf[o], release |-> ""]
                                     ELSE NoEntry]
    /\ content = [o \in Ontologies |-> IF o \in Registered THEN "live" ELSE "none"]
    /\ graphs = {NameOf[o] : o \in Registered}
    /\ edges = {}
    /\ releases = [o \in Ontologies |-> [v \in Versions |-> 0]]
    /\ uploads = [o \in Ontologies |-> "none"]
    /\ call = [q \in Slots |-> Free]
    /\ calls = 0 /\ contended = {} /\ raced = FALSE

-----------------------------------------------------------------------------
(* Traversals of the imports collection.                                    *)

Live(from, to) == {e \in edges : e.live /\ e.from = from /\ e.to = to}

\* Where the edges lead from o in a step or more.
LeadsTo(o, kept) ==
    UNION {UNION {Layers(e.to, kept, MaxDepth)[n] : n \in 0..MaxDepth} : e \in {d \in kept : d.from = o}}

\* What o imports, directly or not.
Closure(o) == LeadsTo(o, {e \in edges : e.live})

\* What the program is told o imports; whether a live edge is met first is chance.
Reported(o, lucky) == {r[1] : r \in ReportedAt(o, edges, MaxDepth, lucky)}

\* The cycle check: a traversal that does not look at expired.
GoesTo(from, to) == \E n \in 1..MaxDepth : to \in Layers(from, edges, MaxDepth)[n]

\* analyze_deletion_impact and the overlays read the inbound side the same way.
Dependents(o) == {d \in Ontologies : o \in Reported(d, FALSE)}

-----------------------------------------------------------------------------
(* Handlers.                                                                *)

\* The ontologies a handler works on; an upload links what its file declares.
Concerns(frame) == ({frame.o, frame.to} \ {""})
    \cup IF frame.at \in {"read", "write", "register", "sync"} THEN Declares[frame.o] ELSE {}

About(q) == Concerns(call[q])

AddsImports(frame) ==
    \/ frame.at \in {"link", "create"} /\ frame.to # ""
    \/ frame.at \in {"read", "write", "register", "sync"}

Begins(q, frame) ==
    /\ call[q] = Free /\ calls < MaxCalls
    /\ call' = [call EXCEPT ![q] = frame] /\ calls' = calls + 1
    /\ contended' = contended \cup {o \in Concerns(frame) : \E p \in Slots \ {q} : o \in About(p)}
    /\ raced' = (raced \/ (AddsImports(frame) /\ \E p \in Slots \ {q} : AddsImports(call[p])))

At(q, at) == call[q].at = at
Goes(q, at) == call' = [call EXCEPT ![q].at = at]
Ends(q) == call' = [call EXCEPT ![q] = Free]

\* Mutant: the target's own imports are not looked at.
CheckImportUnchecked(q, o, t) ==
    /\ Known(o) /\ Known(t) /\ t # o
    /\ Live(o, t) = {}
    /\ Begins(q, [at |-> "link", o |-> o, to |-> t, arg |-> ""])
    /\ UNCHANGED <<entry, content, graphs, edges, releases, uploads>>

\* POST /{ontology_id}/imports: 404, 400, 409 and the cycle check, then the edge.
CheckImport(q, o, t) ==
    /\ Known(o) /\ Known(t) /\ t # o
    /\ Live(o, t) = {}
    /\ ~GoesTo(t, o)
    /\ Begins(q, [at |-> "link", o |-> o, to |-> t, arg |-> ""])
    /\ UNCHANGED <<entry, content, graphs, edges, releases, uploads>>

InsertImport(q) ==
    /\ At(q, "link")
    /\ edges' = edges \cup {[from |-> call[q].o, to |-> call[q].to, live |-> TRUE, by |-> calls]}
    /\ Ends(q)
    /\ UNCHANGED <<entry, content, graphs, releases, uploads, calls, contended, raced>>

\* DELETE /{ontology_id}/imports/{target}: every live edge of the pair.
RemoveImport(q, o, t) ==
    /\ Live(o, t) # {}
    /\ call[q] = Free /\ calls < MaxCalls /\ calls' = calls + 1
    /\ edges' = {IF e.from = o /\ e.to = t THEN [e EXCEPT !.live = FALSE] ELSE e : e \in edges}
    /\ UNCHANGED <<entry, content, graphs, releases, uploads, call, contended, raced>>

Transitions == [draft |-> {"active", "deprecated"}, active |-> {"deprecated"}, deprecated |-> {}]

\* PUT /library/{id}: the transition is checked against the row that was read.
CheckUpdate(q, o, new) ==
    /\ Known(o)
    /\ \/ new = entry[o].status \/ new \in Transitions[entry[o].status]
       \/ new \in Names
    /\ Begins(q, [at |-> "update", o |-> o, to |-> "", arg |-> new])
    /\ UNCHANGED <<entry, content, graphs, edges, releases, uploads>>

\* update_registry_entry raises for a row that is gone; a rename keeps the graph.
Update(q) ==
    LET o == call[q].o IN
    /\ At(q, "update")
    /\ entry' = IF ~Known(o) THEN entry
                ELSE IF call[q].arg \in Names THEN [entry EXCEPT ![o].name = call[q].arg]
                ELSE [entry EXCEPT ![o].status = call[q].arg]
    /\ Ends(q)
    /\ UNCHANGED <<content, graphs, edges, releases, uploads, calls, contended, raced>>

\* POST /library/{id}/releases: refused when deprecated or when the version exists.
CheckRelease(q, o, v) ==
    /\ Known(o) /\ entry[o].status # "deprecated"
    /\ releases[o][v] = 0
    /\ Begins(q, [at |-> "release", o |-> o, to |-> "", arg |-> v])
    /\ UNCHANGED <<entry, content, graphs, edges, releases, uploads>>

InsertRelease(q) ==
    /\ At(q, "release")
    /\ releases' = [releases EXCEPT ![call[q].o][call[q].arg] = @ + 1]
    /\ Goes(q, "announce")
    /\ UNCHANGED <<entry, content, graphs, edges, uploads, calls, contended, raced>>

AnnounceRelease(q) ==
    LET o == call[q].o IN
    /\ At(q, "announce")
    /\ entry' = IF Known(o) THEN [entry EXCEPT ![o].release = call[q].arg] ELSE entry
    /\ Ends(q)
    /\ UNCHANGED <<content, graphs, edges, releases, uploads, calls, contended, raced>>

-----------------------------------------------------------------------------
(* POST /create and the import of a file.                                   *)

CheckCreate(q, o, base) ==
    /\ ~Known(o)
    /\ Begins(q, [at |-> "create", o |-> o, to |-> base, arg |-> ""])
    /\ UNCHANGED <<entry, content, graphs, edges, releases, uploads>>

\* The insert fails when the key has been taken since.  No cycle check follows.
Create(q) ==
    LET o == call[q].o IN
    /\ At(q, "create")
    /\ IF Known(o)
       THEN Ends(q) /\ UNCHANGED entry
       ELSE /\ entry' = [entry EXCEPT ![o] = [status |-> "active", name |-> NameOf[o], release |-> ""]]
            /\ IF call[q].to # "" /\ Known(call[q].to) /\ call[q].to # o
               THEN Goes(q, "link") ELSE Ends(q)
    /\ UNCHANGED <<content, graphs, edges, releases, uploads, calls, contended, raced>>

\* POST /import looks for a running job, then awaits the file: another upload
\* under the same key may pass the same check.
CheckUpload(q, o) ==
    /\ uploads[o] # "running" /\ ~Known(o)
    /\ Begins(q, [at |-> "read", o |-> o, to |-> "", arg |-> ""])
    /\ UNCHANGED <<entry, content, graphs, edges, releases, uploads>>

StartUpload(q) ==
    /\ At(q, "read")
    /\ uploads' = [uploads EXCEPT ![call[q].o] = "running"]
    /\ Goes(q, "write")
    /\ UNCHANGED <<entry, content, graphs, edges, releases, calls, contended, raced>>

\* import_from_file writes the content before it registers the ontology; a file
\* that cannot be parsed fails the job and writes nothing.
WriteContent(q) ==
    LET o == call[q].o IN
    /\ At(q, "write")
    /\ \/ /\ content' = [content EXCEPT ![o] = "live"]
          /\ Goes(q, "register")
          /\ UNCHANGED uploads
       \/ /\ uploads' = [uploads EXCEPT ![o] = "failed"]
          /\ Ends(q)
          /\ UNCHANGED content
    /\ UNCHANGED <<entry, graphs, edges, releases, calls, contended, raced>>

RegisterUpload(q) ==
    LET o == call[q].o IN
    /\ At(q, "register")
    /\ IF Known(o)
       THEN /\ uploads' = [uploads EXCEPT ![o] = "failed"]
            /\ Ends(q) /\ UNCHANGED entry
       ELSE /\ entry' = [entry EXCEPT ![o] = [status |-> "active", name |-> NameOf[o], release |-> ""]]
            /\ Goes(q, "sync") /\ UNCHANGED uploads
    /\ UNCHANGED <<content, graphs, edges, releases, calls, contended, raced>>

\* sync_owl_imports_edges: what the file imports and the library has, when it is
\* not deprecated and not imported yet.  There is no cycle check here.
SyncImports(q) ==
    LET o == call[q].o
        found == {t \in Declares[o] : Known(t) /\ entry[t].status # "deprecated" /\ Live(o, t) = {}} IN
    /\ At(q, "sync")
    /\ edges' = edges \cup {[from |-> o, to |-> t, live |-> TRUE, by |-> calls] : t \in found \ {o}}
    /\ uploads' = [uploads EXCEPT ![o] = "completed"]
    /\ Ends(q)
    /\ UNCHANGED <<entry, content, graphs, releases, calls, contended, raced>>

\* The end of an extraction into o: content, and the named graph for it.
Extract(o) ==
    /\ calls < MaxCalls /\ calls' = calls + 1
    /\ Known(o)
    /\ content' = [content EXCEPT ![o] = "live"]
    /\ graphs' = graphs \cup {entry[o].name}
    /\ UNCHANGED <<entry, edges, releases, uploads, call, contended, raced>>

-----------------------------------------------------------------------------
(* DELETE /library/{id}?confirm=true.  arg says what is removed for good:   *)
(* nothing, the registry row (hard), the content (purge) or both.           *)

Hard == {"hard", "both"}

BeginDelete(q, o, arg) ==
    /\ Known(o) /\ (entry[o].status = "deprecated" => arg \in Hard)
    /\ Begins(q, [at |-> "expire", o |-> o, to |-> "", arg |-> arg])
    /\ UNCHANGED <<entry, content, graphs, edges, releases, uploads>>

ExpireContent(q) ==
    LET o == call[q].o IN
    /\ At(q, "expire")
    /\ content' = [content EXCEPT ![o] = IF @ = "live" THEN "expired" ELSE @]
    /\ Goes(q, "unlink")
    /\ UNCHANGED <<entry, graphs, edges, releases, uploads, calls, contended, raced>>

\* Mutant: only the imports of o itself are expired.
ExpireOwnImports(q) ==
    LET o == call[q].o IN
    /\ At(q, "unlink")
    /\ edges' = {IF e.from = o THEN [e EXCEPT !.live = FALSE] ELSE e : e \in edges}
    /\ Goes(q, "graph")
    /\ UNCHANGED <<entry, content, graphs, releases, uploads, calls, contended, raced>>

\* Imports in both directions; extends_domain edges into o go with them.
ExpireImports(q) ==
    LET o == call[q].o IN
    /\ At(q, "unlink")
    /\ edges' = {IF o \in {e.from, e.to} THEN [e EXCEPT !.live = FALSE] ELSE e : e \in edges}
    /\ Goes(q, "graph")
    /\ UNCHANGED <<entry, content, graphs, releases, uploads, calls, contended, raced>>

\* The graph is found by the display name; a purge follows.
DropGraph(q) ==
    LET o == call[q].o IN
    /\ At(q, "graph")
    /\ graphs' = graphs \ {entry[o].name}
    /\ content' = IF call[q].arg \in {"purge", "both"} THEN [content EXCEPT ![o] = "none"] ELSE content
    /\ Goes(q, "entry")
    /\ UNCHANGED <<entry, edges, releases, uploads, calls, contended, raced>>

\* deprecate_registry_entry raises for a row that is gone.
DropEntry(q) ==
    LET o == call[q].o IN
    /\ At(q, "entry")
    /\ entry' = IF call[q].arg \in Hard THEN [entry EXCEPT ![o] = NoEntry]
                ELSE IF Known(o) THEN [entry EXCEPT ![o].status = "deprecated"] ELSE entry
    /\ Ends(q)
    /\ UNCHANGED <<content, graphs, edges, releases, uploads, calls, contended, raced>>

-----------------------------------------------------------------------------
Handler(q) ==
    \/ InsertImport(q) \/ Update(q) \/ InsertRelease(q) \/ AnnounceRelease(q) \/ Create(q)
    \/ StartUpload(q) \/ WriteContent(q) \/ RegisterUpload(q) \/ SyncImports(q)
    \/ ExpireContent(q) \/ ExpireImports(q) \/ DropGraph(q) \/ DropEntry(q)

LibraryRequest(q, o) ==
    \/ \E t \in Ontologies : CheckImport(q, o, t) \/ RemoveImport(q, o, t)
    \/ \E new \in {"active", "deprecated"} \cup Names : CheckUpdate(q, o, new)
    \/ \E v \in Versions : CheckRelease(q, o, v)
    \/ \E base \in Ontologies \cup {""} : CheckCreate(q, o, base)
    \/ CheckUpload(q, o)
    \/ \E arg \in {"soft", "hard", "purge", "both"} : BeginDelete(q, o, arg)

LibraryNext ==
    \/ \E q \in Slots : Handler(q) \/ \E o \in Ontologies : LibraryRequest(q, o)
    \/ \E o \in Ontologies : Extract(o)

LibrarySpec == LibraryInit /\ [][LibraryNext]_library

-----------------------------------------------------------------------------
Stages == {"free", "link", "update", "release", "announce", "create", "read", "write", "register", "sync",
           "expire", "unlink", "graph", "entry"}
Arguments == {"", "active", "deprecated", "soft", "hard", "purge", "both"} \cup Names \cup Versions
Frame == [at : Stages, o : Ontologies \cup {""}, to : Ontologies \cup {""}, arg : Arguments]
EntryRow == [status : {"absent", "active", "deprecated"}, name : Names \cup {""}, release : {""} \cup Versions]
Edge == [from : Ontologies, to : Ontologies, live : BOOLEAN, by : Nat]

LibraryTypeOK ==
    /\ entry \in [Ontologies -> EntryRow]
    /\ content \in [Ontologies -> {"none", "live", "expired"}]
    /\ graphs \subseteq Names \cup {""}
    /\ edges \subseteq Edge
    /\ releases \in [Ontologies -> [Versions -> Nat]]
    /\ uploads \in [Ontologies -> {"none", "running", "failed", "completed"}]
    /\ call \in [Slots -> Frame]
    /\ calls \in Nat /\ contended \subseteq Ontologies /\ raced \in BOOLEAN

(* Imports do not go in a circle (imports.py:293 "would target importing us *)
(* create a cycle?"), unless two requests that add imports overlapped or    *)
(* the circle leads through an ontology that two requests were about at     *)
(* once.  Creation and upload add imports without looking for a circle.     *)
ImportsAcyclic ==
    ~raced => \A o \in Ontologies :
        o \notin LeadsTo(o, {e \in edges : e.live /\ {e.from, e.to} \cap contended = {}})

(* A live import leads from a registered ontology to a registered one: a    *)
(* deletion expires the imports in both directions (library.py:541), unless *)
(* another request about the ontology was under way meanwhile.              *)
ImportsResolve ==
    \A e \in edges : e.live /\ {e.from, e.to} \cap contended = {} =>
        /\ Known(e.from) \/ \E q \in Slots : e.from \in About(q)
        /\ Known(e.to) \/ \E q \in Slots : e.to \in About(q)
=============================================================================
