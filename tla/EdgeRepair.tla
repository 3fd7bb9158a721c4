------------------------------ MODULE EdgeRepair ------------------------------
(***************************************************************************)
(* Finding the class a relation points at from the names it was given, and *)
(* the two administrative repairs of range edges: services/edge_repair.py  *)
(* and services/edge_dedup.py.                                             *)
(*                                                                         *)
(* A name, and a text, is a sequence of word parts: normalising drops what *)
(* stands between them, so that one name is found in another when its      *)
(* parts are a run of the other's.  A URI is a namespace and a name.       *)
(***************************************************************************)
EXTENDS Naturals, Sequences, SequencesExt

CONSTANTS
    RepairClasses,   \* the classes of the ontology: key and label, as listed
    Texts,           \* what a property says of itself
    DomainChoices,   \* the classes it has a live rdfs_domain edge to
    NumProperties,   \* properties of the ontology
    MaxEdges         \* range edges there are before any repair

\* An ontology without classes is not looked at.
ASSUME EdgeRepairAssumption ==
    /\ RepairClasses \in Seq([key : Seq(Nat), label : Seq(Nat)]) /\ RepairClasses # <<>>
    /\ DomainChoices \subseteq Seq(Seq(Nat)) /\ NumProperties \in Nat /\ MaxEdges \in Nat

VARIABLES relations, report

edgeRepair == <<relations, report>>

-----------------------------------------------------------------------------
NameIn(needle, text) ==
    needle # <<>> /\ \E i \in 0..Len(text) :
        i + Len(needle) <= Len(text) /\ SubSeq(text, i + 1, i + Len(needle)) = needle

\* The longest of the candidates that pass, the first listed of several.
LongestOf(candidates, Passes(_)) ==
    LET hits == {i \in 1..Len(candidates) : candidates[i].name # <<>> /\ Passes(candidates[i].name)}
        best == {i \in hits : \A j \in hits : Len(candidates[j].name) <= Len(candidates[i].name)}
    IN IF hits = {} THEN [found |-> FALSE]
       ELSE [found |-> TRUE, key |-> candidates[CHOOSE i \in best : \A j \in best : i <= j].key]

\* resolve_range_class: by URI, by the name in it, by a label that contains the
\* name or is contained in it.
ResolveRangeClass(target, classes) ==
    LET same == {i \in 1..Len(classes) : classes[i].uri = target}
        named == {i \in 1..Len(classes) : classes[i].uri.name = target.name /\ target.name # <<>>}
        related(name) == NameIn(name, target.name) \/ NameIn(target.name, name)
        labelled == LongestOf([i \in 1..Len(classes) |-> [name |-> classes[i].label, key |-> classes[i].uri]], related)
        first(S) == classes[CHOOSE i \in S : \A j \in S : i <= j].uri
    IN CASE same # {} -> [tier |-> "uri", uri |-> target]
         [] same = {} /\ named # {} -> [tier |-> "fragment", uri |-> first(named)]
         [] same \cup named = {} /\ labelled.found -> [tier |-> "label", uri |-> labelled.key]
         [] OTHER -> [tier |-> "miss"]

\* Mutant: the class the relation starts from is a candidate too.
FindRangeAnywhere(text, views, own) ==
    LET names(v) == <<[name |-> v.key, key |-> v.key]>>
                    \o (IF v.label # v.key THEN <<[name |-> v.label, key |-> v.key]>> ELSE <<>>)
    IN LongestOf(FlattenSeq([i \in 1..Len(views) |-> names(views[i])]), LAMBDA name : NameIn(name, text))

\* find_range_class_for_orphan: the class with the longest key or label that the
\* text of the relation contains, its own domain apart.
FindRangeClass(text, views, own) ==
    LET named(name, v) == [name |-> name, key |-> v.key]
        names(v) == IF v.key = own THEN <<>> ELSE IF v.label = v.key THEN <<named(v.key, v)>>
                    ELSE <<named(v.key, v), named(v.label, v)>>
    IN LongestOf(FlattenSeq([i \in 1..Len(views) |-> names(views[i])]), LAMBDA name : NameIn(name, text))

-----------------------------------------------------------------------------
(* The stored properties and their range edges, in the order of creation.   *)

Live(edges) == {i \in 1..Len(edges) : edges[i].live}
Ranged(g, p) == \E i \in Live(g.edges) : g.edges[i].from = p
Pairs(edges) == {<<edges[i].from, edges[i].to>> : i \in Live(edges)}

Outcome(g, p) ==
    LET prop == g.props[p]
        match == FindRangeClass(prop.text, RepairClasses, prop.domains[1])
    IN CASE Ranged(g, p) -> [is |-> "ranged"]
         [] ~Ranged(g, p) /\ prop.domains = <<>> -> [is |-> "no_domain"]
         [] ~Ranged(g, p) /\ prop.domains # <<>> /\ ~match.found -> [is |-> "unrecoverable"]
         [] OTHER -> [is |-> "repaired", class |-> match.key]

\* repair_orphan_object_property_ranges: which properties have a range is read
\* before any edge is inserted; an insert that fails is reported as lost.
RepairOrphans(g, failing, dry_run) ==
    LET outcome(p) == Outcome(g, p)
        insert(edges, p) ==
            IF outcome(p).is = "repaired" /\ p \notin failing
            THEN Append(edges, [from |-> p, to |-> outcome(p).class, live |-> TRUE, repair |-> TRUE]) ELSE edges
    IN [edges |-> IF dry_run THEN g.edges ELSE FoldLeft(insert, g.edges, [p \in 1..Len(g.props) |-> p]),
        report |-> [p \in 1..Len(g.props) |->
            IF outcome(p).is = "repaired" /\ p \in failing /\ ~dry_run THEN "unrecoverable" ELSE outcome(p).is]]

\* Mutant: the youngest edge of a pair is the one that counts as extra.
DedupeFromOldest(edges) ==
    [i \in 1..Len(edges) |->
        IF edges[i].live /\ \E j \in Live(edges) : j # i /\ edges[j].from = edges[i].from /\ edges[j].to = edges[i].to
        THEN [edges[i] EXCEPT !.live = FALSE] ELSE edges[i]]

\* dedupe_live_edges: of the live edges of a pair the earliest is kept.
DedupeLiveEdges(edges) ==
    [i \in 1..Len(edges) |->
        IF edges[i].live /\ \E j \in Live(edges) : j < i /\ edges[j].from = edges[i].from /\ edges[j].to = edges[i].to
        THEN [edges[i] EXCEPT !.live = FALSE] ELSE edges[i]]

-----------------------------------------------------------------------------
NoGraph == [props |-> <<>>, edges |-> <<>>]
EdgeRepairInit == relations = NoGraph /\ report = <<>>

Properties == 1..NumProperties
ClassKeys == {RepairClasses[i].key : i \in 1..Len(RepairClasses)}
Edge(p, c) == [from |-> p, to |-> c, live |-> TRUE, repair |-> FALSE]

\* The rows an extraction left: a relation whose target was not found has no
\* range edge, one that was stored twice has two.
ExtractionLeaves ==
    /\ relations = NoGraph
    /\ \E texts \in [Properties -> Texts], domains \in [Properties -> DomainChoices], n \in 0..MaxEdges :
       \E ends \in [1..n -> Properties \X ClassKeys] :
           relations' = [props |-> [p \in Properties |-> [text |-> texts[p], domains |-> domains[p]]],
                         edges |-> [i \in 1..n |-> Edge(ends[i][1], ends[i][2])]]
    /\ report' = <<>>

Repair ==
    /\ relations # NoGraph /\ report = <<>>
    /\ \E failing \in SUBSET Properties, dry_run \in BOOLEAN :
       LET done == RepairOrphans(relations, failing, dry_run)
       IN report' = done.report /\ relations' = [relations EXCEPT !.edges = done.edges]

Dedupe ==
    /\ relations # NoGraph
    /\ relations' = [relations EXCEPT !.edges = DedupeLiveEdges(@)]
    /\ UNCHANGED report

EdgeRepairNext == ExtractionLeaves \/ Repair \/ Dedupe

-----------------------------------------------------------------------------
(* A repair leads no relation back to the class it starts from, a second    *)
(* one adds nothing to what the first left, and deleting duplicates leaves  *)
(* every pair of ends with exactly one live edge (edge_repair.py:36, :61,   *)
(* edge_dedup.py:26).                                                       *)
RepairsConnect ==
    /\ \A i \in 1..Len(relations.edges) : relations.edges[i].repair =>
           relations.props[relations.edges[i].from].domains[1] # relations.edges[i].to
    /\ \A p \in 1..Len(report) : report[p] = "repaired" /\ ~Ranged(relations, p) => Outcome(relations, p).is = "repaired"
    /\ LET again == [relations EXCEPT !.edges = RepairOrphans(relations, {}, FALSE).edges]
       IN RepairOrphans(again, {}, FALSE).edges = again.edges
    /\ LET kept == DedupeLiveEdges(relations.edges)
       IN Pairs(kept) = Pairs(relations.edges) /\ \A i, j \in Live(kept) :
              kept[i].from = kept[j].from /\ kept[i].to = kept[j].to => i = j
=============================================================================
