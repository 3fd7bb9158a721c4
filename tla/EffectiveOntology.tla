-------------------------- MODULE EffectiveOntology --------------------------
(***************************************************************************)
(* The effective ontology: an ontology merged with what it imports, the    *)
(* conflicts the merge makes, the validator a client may come back with,   *)
(* and the import graph shown beside it (services/ontology_effective.py,   *)
(* services/ontology_imports_graph.py, GET /{id}/effective).               *)
(*                                                                         *)
(* Classes are numbers; subclass[o] are the live subclass_of edges that    *)
(* carry o as their ontology.                                              *)
(***************************************************************************)
EXTENDS Traversals, Sequences, SequencesExt, FiniteSets

CONSTANTS
    Members,        \* ontologies of the library
    Viewed,         \* the one the client looks at
    ClassOntology,  \* the ontology of each class
    ClassUri,       \* its URI and its label: two classes may share one
    ClassLabel,
    EdgeOrders,     \* orders in which the edges may be returned
    MaxHops,        \* max_depth
    MaxWrites       \* writes in all

\* Every edge there can be has its place in an order.
ASSUME EffectiveAssumption ==
    /\ ClassOntology \in Seq(Members) /\ Viewed \in Members /\ MaxHops \in Nat
    /\ \A order \in EdgeOrders :
          /\ order \in Seq([from : DOMAIN ClassOntology, to : DOMAIN ClassOntology, by : Members])
          /\ \A e \in [from : DOMAIN ClassOntology, to : DOMAIN ClassOntology, by : Members] :
                \E n \in 1..Len(order) : order[n] = e

VARIABLES
    subclass, labels, touched, imports, client, overlay, writes

effective == <<subclass, labels, touched, imports, client, overlay, writes>>

ClassIds == DOMAIN ClassOntology
NoView == [tag |-> {}, sources |-> {}, edges |-> {}, labels |-> <<>>, conflicts |-> {}]

EffectiveInit ==
    /\ subclass = [o \in Members |-> {}] /\ labels = ClassLabel
    /\ touched = [o \in Members |-> 0]
    /\ imports = {}
    /\ client = NoView /\ overlay = {}
    /\ writes = 0

-----------------------------------------------------------------------------
\* _compute_source_closure: o itself and what it imports, with the depths.
SourceClosure(o, lucky) == {<<o, 0>>} \cup ReportedAt(o, imports, MaxHops, lucky)

SourceKeys(sources) == {s[1] : s \in sources}

\* _uri_conflicts and _label_conflicts: groups that two sources or more share.
Sharing(classes, key(_)) ==
    {{d \in classes : key(d) = key(c)} : c \in classes}
UriConflicts(classes) ==
    {g \in Sharing(classes, LAMBDA c : ClassUri[c]) : Cardinality({ClassOntology[c] : c \in g}) > 1}
LabelConflicts(classes, shown) ==
    {g \in Sharing(classes, LAMBDA c : shown[c]) :
        Cardinality({ClassOntology[c] : c \in g}) > 1 /\ Cardinality({ClassUri[c] : c \in g}) > 1}

-----------------------------------------------------------------------------
(* _cycle_conflicts: a depth-first walk; an edge into a class on the path   *)
(* closes a cycle, and the path tells which ontologies its edges come from. *)

\* The classes seen, the cycles met and those reported; the path being explored
\* with how many edges each class on it has tried; the roots tried.
Walks(order) ==
    [seen : SUBSET ClassIds, met : SUBSET Seq(ClassIds), cycles : SUBSET Seq(ClassIds),
     path : Seq([class : ClassIds, by : Members, at : 0..Len(order)]), root : 0..Len(order)]
NoWalk == [seen |-> {}, met |-> {}, cycles |-> {}, path |-> <<>>, root |-> 0]

OnPath(path, v) == \E m \in 1..Len(path) : path[m].class = v
Back(path, v) == CHOOSE m \in 1..Len(path) : path[m].class = v

\* Mutant: the edge that closes the cycle is not looked at.
RequiresImportOnPath(path, from, closing, self) ==
    \E m \in from+1..Len(path) : path[m].by # self

RequiresImport(path, from, closing, self) ==
    closing # self \/ \E m \in from+1..Len(path) : path[m].by # self

\* _canonicalise_cycle: the smallest class first.
Canonical(cycle) ==
    LET k == CHOOSE i \in 1..Len(cycle) : \A j \in 1..Len(cycle) : cycle[i] <= cycle[j]
    IN SubSeq(cycle, k, Len(cycle)) \o SubSeq(cycle, 1, k - 1)

\* A cycle is looked at the first time it is met, and only then.
Closing(w, i, self) ==
    LET from == Back(w.path, i.to)
        cycle == Canonical([n \in 1..Len(w.path) - from + 1 |-> w.path[from + n - 1].class])
    IN [w EXCEPT !.met = @ \cup {cycle},
                 !.cycles = IF cycle \notin w.met /\ RequiresImport(w.path, from, i.by, self) THEN @ \cup {cycle} ELSE @]

NextEdge(w, order, edges, self) ==
    LET last == Last(w.path)
        i == order[last.at + 1]
        on == [w EXCEPT !.path[Len(w.path)].at = @ + 1]
        follows == i \in edges /\ i.from = last.class
    IN CASE follows /\ i.to \notin w.seen ->
                [on EXCEPT !.seen = @ \cup {i.to}, !.path = Append(@, [class |-> i.to, by |-> i.by, at |-> 0])]
         [] follows /\ i.to \in w.seen /\ OnPath(w.path, i.to) -> Closing(on, i, self)
         [] OTHER -> on

NextRoot(w, order, edges, self) ==
    LET r == order[w.root + 1]
        on == [w EXCEPT !.root = @ + 1]
    IN IF r \notin edges \/ r.from \in w.seen THEN on
       ELSE [on EXCEPT !.seen = @ \cup {r.from}, !.path = <<[class |-> r.from, by |-> self, at |-> 0]>>]

Explored(w, order) == w.path = <<>> /\ w.root = Len(order)
Onward(w, order, edges, self) ==
    CASE w.path = <<>> -> NextRoot(w, order, edges, self)
      [] w.path # <<>> /\ Last(w.path).at < Len(order) -> NextEdge(w, order, edges, self)
      [] OTHER -> [w EXCEPT !.path = Front(@)]

CycleConflicts(order, edges, self) ==
    LET walk[w \in Walks(order)] == IF Explored(w, order) THEN w ELSE walk[Onward(w, order, edges, self)]
    IN walk[NoWalk].cycles

Merged(sources) == UNION {{[from |-> e[1], to |-> e[2], by |-> o] : e \in subclass[o]} : o \in SourceKeys(sources)}

\* compute_effective_ontology
Effective(o, order, lucky) ==
    LET sources == SourceClosure(o, lucky)
        classes == {c \in ClassIds : ClassOntology[c] \in SourceKeys(sources)}
        edges == Merged(sources)
    IN [tag |-> {<<s, touched[s]>> : s \in SourceKeys(sources)},
        sources |-> sources, edges |-> edges, labels |-> [c \in classes |-> labels[c]],
        conflicts |-> [uri |-> UriConflicts(classes), label |-> LabelConflicts(classes, labels),
                       cycle |-> CycleConflicts(order, edges, o)]]

-----------------------------------------------------------------------------
Write == writes < MaxWrites /\ writes' = writes + 1

\* The editing endpoints and the extraction change rows of o, not its entry.
EditClasses(o, e) ==
    /\ Write
    /\ subclass' = [subclass EXCEPT ![o] = IF e \in @ THEN @ \ {e} ELSE @ \cup {e}]
    /\ UNCHANGED <<labels, touched, imports, client, overlay>>

\* A label decision holds for the URI in every ontology.
DecideLabel(u, l) ==
    /\ Write
    /\ labels' = [c \in ClassIds |-> IF ClassUri[c] = u THEN l ELSE labels[c]]
    /\ UNCHANGED <<subclass, touched, imports, client, overlay>>

\* update_registry_entry
TouchEntry(o) ==
    /\ Write
    /\ touched' = [touched EXCEPT ![o] = @ + 1]
    /\ UNCHANGED <<subclass, labels, imports, client, overlay>>

Import(o, t) ==
    /\ Write /\ o # t /\ ~\E e \in imports : e.from = o /\ e.to = t /\ e.live
    /\ imports' = imports \cup {[from |-> o, to |-> t, live |-> TRUE, by |-> writes]}
    /\ UNCHANGED <<subclass, labels, touched, client, overlay>>

Unimport(o, t) ==
    /\ Write /\ \E e \in imports : e.from = o /\ e.to = t /\ e.live
    /\ imports' = {IF e.from = o /\ e.to = t THEN [e EXCEPT !.live = FALSE] ELSE e : e \in imports}
    /\ UNCHANGED <<subclass, labels, touched, client, overlay>>

\* Mutant: an answer is compared by the entry of the ontology alone.
SameEntry(held, answer) == \E p \in held : p[1] = Viewed /\ p \in answer

\* _etag_matches
EtagMatches(held, answer) == held = answer

\* GET /{id}/effective with the validator of the last answer: 304 keeps it.
GetEffective ==
    /\ \E order \in EdgeOrders, lucky \in BOOLEAN :
       LET answer == Effective(Viewed, order, lucky)
       IN client' = IF EtagMatches(client.tag, answer.tag) THEN client ELSE answer
    /\ UNCHANGED <<subclass, labels, touched, imports, overlay, writes>>

\* build_imports_dag: the live edges on a path of any edges in the direction.
Along(direction, e, S) ==
    CASE direction = "outbound" -> e.from \in S
      [] direction = "inbound" -> e.to \in S
      [] OTHER -> e.from \in S \/ e.to \in S
Walked(root, direction) ==
    LET reach[n \in 0..MaxHops] ==
            IF n = 0 THEN {root}
            ELSE LET last == reach[n-1]
                     taken == {e \in imports : Along(direction, e, last)}
                 IN last \cup {e.from : e \in taken} \cup {e.to : e \in taken}
    IN {e \in imports : e.live /\ Along(direction, e, reach[MaxHops - 1])}

BuildImportsDag ==
    /\ \E direction \in {"outbound", "inbound", "both"} : overlay' = Walked(Viewed, direction)
    /\ UNCHANGED <<subclass, labels, touched, imports, client, writes>>

EffectiveNext ==
    \/ \E o \in Members : \E e \in ClassIds \X ClassIds : EditClasses(o, e)
    \/ \E c, d \in ClassIds : DecideLabel(ClassUri[c], ClassLabel[d])
    \/ \E o \in Members : TouchEntry(o)
    \/ \E o, t \in Members : Import(o, t) \/ Unimport(o, t)
    \/ GetEffective \/ BuildImportsDag

-----------------------------------------------------------------------------
Follow(S, edges) == S \cup {e.to : e \in {d \in edges : d.from \in S}}
Closed(v, edges) ==
    LET f[n \in 0..Cardinality(ClassIds)] == IF n = 0 THEN {v} ELSE LET last == f[n-1] IN Follow(last, edges) IN f
OnCycle(edges) == {e.from : e \in {d \in edges : d.from \in Closed(d.to, edges)[Cardinality(ClassIds)]}}

(* As long as no source is circular by itself, the merge reports a cycle    *)
(* exactly when it makes one, and what it reports are classes on a cycle    *)
(* (ontology_effective.py:850 "Detect subclass cycles that only exist after *)
(* merging").                                                               *)
MergeCyclesReported ==
    client # NoView /\ (\A o \in Members : OnCycle({e \in client.edges : e.by = o}) = {}) =>
        /\ (client.conflicts.cycle = {}) = (OnCycle(client.edges) = {})
        /\ \A c \in client.conflicts.cycle : ToSet(c) \subseteq OnCycle(client.edges)

(* An answer that would be "not modified" has the sources the client holds: *)
(* a change of the import closure is always seen (imports.py:115).          *)
SourcesFresh ==
    \A lucky \in BOOLEAN : LET answer == Effective(Viewed, <<>>, lucky) IN
        EtagMatches(client.tag, answer.tag) => SourceKeys(client.sources) = SourceKeys(answer.sources)
=============================================================================
