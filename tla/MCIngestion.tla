----------------------------- MODULE MCIngestion -----------------------------
(***************************************************************************)
(* Small instances of Ingestion, Exchange and SchemaExtraction, one        *)
(* behaviour each: part names the one that runs.                           *)
(***************************************************************************)
EXTENDS Ingestion, SchemaExtraction

\* Exchange: C is only leaned on, E only named; r is nowhere declared.
Shape(iri, targets, properties) == [iri |-> iri, targets |-> targets, severity |-> "", properties |-> properties]
MCPlainFile ==
    [suffix |-> "xml", signal |-> "turtle", form |-> "turtle", empty |-> FALSE, declared |-> {"A", "C", "D", "E"}, described |-> {"A"},
     subclass |-> {<<"D", "A">>}, axioms |-> {}, properties |-> {[uri |-> "p", kind |-> "object"], [uri |-> "q", kind |-> "object"]},
     domains |-> {<<"p", Iri("A")>>}, ranges |-> {<<"p", Iri("C")>>}, softDomains |-> {}, softRanges |-> {<<"p", "A">>},
     inverses |-> {<<"p", "q">>, <<"q", "r">>}, restrictions |-> {}, shapes |-> {}]
Restricted(class, property, says) == [on |-> class, property |-> Iri(property), qualified |-> FALSE, says |-> says]
MCConstrained ==
    [MCPlainFile EXCEPT !.declared = {"A", "D"}, !.subclass = {}, !.properties = {[uri |-> "q", kind |-> "object"]},
     !.inverses = {}, !.domains = {<<"q", BlankNode("N1")>>}, !.softDomains = {<<"q", "A">>}, !.softRanges = {},
     !.ranges = {<<"q", BlankNode("N2")>>},
     !.restrictions = {
         Restricted("A", "q", "hasValue" :> Literal("1", "integer") @@ "someValuesFrom" :> BlankNode("N3")),
         Restricted("A", "q", "hasValue" :> Literal("1", "integer")),
         Restricted("D", "r", "maxCardinality" :> Literal("-1", "integer"))}]
MCShapely ==
    [MCPlainFile EXCEPT !.declared = {"A", "B"}, !.subclass = {}, !.domains = {},
     !.softRanges = {}, !.ranges = {}, !.inverses = {},
     !.properties = {[uri |-> "p", kind |-> "datatype"]},
     !.restrictions = {Restricted("A", "p", "minCardinality" :> Literal("1", "integer"))},
     !.shapes = {
         Shape("S", {"A"}, {
             [path |-> Iri("p"), deferred |-> FALSE, severity |-> "sh:Violation", says |-> "sh:datatype" :> Iri("T")],
             [path |-> Iri("p"), deferred |-> TRUE, severity |-> "", says |-> "sh:maxCount" :> Literal("1", "integer")]}),
         Shape("B", {}, {
             [path |-> Iri("p"), deferred |-> FALSE, severity |-> "sh:Info", says |-> "sh:in" :> Literal("1,2", "list")]})}]
MCUnreadable == [MCPlainFile EXCEPT !.signal = "none"]
MCFiles == {MCPlainFile, MCConstrained, MCShapely, MCUnreadable}
MCUriOrder == <<"A", "B", "C", "D", "E", "Car", "Car.plate", "Car.vin", "CarShape", "Legal_Entity", "Legal_Entity.label",
                "Legal_Entity.name", "Line", "Line.order", "Node", "Node.label", "Node.name", "Node.type", "Order", "Order.id",
                "Person", "fits", "fk", "fk_2", "owns", "p", "q">>
MCBased == [N1 |-> "base/N1", N2 |-> "base/N2"]

\* SchemaExtraction: a shop whose schema changes, a graph with types in its
\* documents, tables and a CSI document.
MCVertexTypeFields == <<"type", "label">>
MCEdgeLabelFields == <<"relation", "label">>
MCFromTypeFields == <<"_fromType">>
MCToTypeFields == <<"_toType">>
MCFieldUri(c, f) == c \o "." \o f
MCShapeUri(c) == c \o "Shape"
MCNumbered(name, n) == name \o "_" \o ToString(n)
MCLocalName == ("Legal Entity" :> "Legal_Entity") @@ ("Legal-Entity" :> "Legal_Entity") @@ [t \in {"Car", "CarShape", "Node", "fits", "owns", "Order", "Person"} |-> t]
Doc(id, at) == [id |-> id, from |-> "", to |-> "", at |-> at]
NoSource ==
    [db |-> "", graphs |-> {}, collections |-> <<>>, documents |-> <<>>, checks |-> <<>>,
     tables |-> <<>>, model |-> [entities |-> {}, relationships |-> {}], readable |-> TRUE]
Spec(field, type, format, pattern) == [field |-> field, type |-> type, format |-> format, pattern |-> pattern, enum |-> ""]
MCShop ==
    [NoSource EXCEPT !.db = "shop",
     !.graphs = {[name |-> "g", edges |-> {[col |-> "fits", from |-> {"Car", "CarShape"}, to |-> {"CarShape"}]}, orphans |-> {}]},
     !.collections = [c \in {"Car", "CarShape"} |-> "document"] @@ [c \in {"fits", "owns"} |-> "edge"],
     !.documents = ("CarShape" :> {}) @@ ("Car" :> {Doc("c1", "vin" :> Literal("1", "int")), Doc("c2", "vin" :> Literal("x", "str"))}),
     !.checks = ("CarShape" :> [rule |-> NoRule, indexes |-> {}])
        @@ ("Car" :> [rule |-> [required |-> {"plate"}, specs |-> {Spec("vin", "string", "", "x*")}],
                      indexes |-> {[type |-> "hash", unique |-> TRUE, fields |-> <<"vin">>],
                                   [type |-> "hash", unique |-> TRUE, fields |-> <<"vin", "plate">>]}])]
MCShopLater ==
    [MCShop EXCEPT !.collections = [c \in {"Car"} |-> "document"] @@ [c \in {"fits", "owns"} |-> "edge"],
     !.documents = "Car" :> MCShop.documents["Car"],
     !.checks = "Car" :> [MCShop.checks["Car"] EXCEPT !.rule.specs = {Spec("vin", "string", "date", "")}]]
MCGraph ==
    [NoSource EXCEPT !.db = "graph", !.collections = ("Node" :> "document") @@ ("owns" :> "edge"),
     !.checks = "Node" :> [rule |-> NoRule, indexes |-> {}],
     !.documents = ("Node" :> {Doc("n1", [f \in {"label"} |-> Literal("Legal Entity", "str")] @@ ("type" :> Literal("Legal Entity", "str"))),
                               Doc("n2", ("type" :> Literal("Legal-Entity", "str")) @@ ("name" :> Literal("2026-01-01", "str")))})
                   @@ ("owns" :> {[id |-> "e1", from |-> "n1", to |-> "n2", at |-> ("name" :> Literal("x y", "str")) @@ ("relation" :> Literal("owns", "str"))]})]
Column(name, nullable, unique) == [name |-> name, type |-> "string", nullable |-> nullable, unique |-> unique, enum |-> ""]
MCTables ==
    [NoSource EXCEPT !.db = "sql",
     !.tables = ("Order" :> [columns |-> {Column("id", FALSE, TRUE)}, keys |-> <<[name |-> "fk", table |-> "Person"]>>])
                @@ ("Line" :> [columns |-> {Column("order", TRUE, FALSE)}, keys |-> <<[name |-> "fk", table |-> "Order"]>>])]
MCModel ==
    [NoSource EXCEPT !.db = "csi",
     !.model = [entities |-> {[name |-> "Order", collection |-> "orders", properties |-> {[name |-> "id", type |-> "string"]}],
                              [name |-> "Person", collection |-> "people", properties |-> {}]},
                relationships |-> {[type |-> "owns", from |-> "Person", to |-> "Order"], [type |-> "owns", from |-> "Order", to |-> "?"]}]]
MCSources == {MCShop, MCShopLater, MCGraph, MCTables, MCModel, [MCModel EXCEPT !.db = "bad", !.readable = FALSE]}
MCConfigs ==
    {[NoConfig EXCEPT !.mode = m[1], !.db = m[2]] :
        m \in {<<"direct", "shop">>, <<"lpg", "graph">>, <<"relational", "sql">>, <<"csi", "csi">>, <<"csi", "bad">>}}
    \cup {[mode |-> "direct", db |-> "shop", every |-> FALSE, graphs |-> {"h"}, loose |-> FALSE]}

VARIABLE part

IntakeInit ==
    /\ part \in {"documents", "exchange", "schema"}
    /\ IngestionInit /\ ExchangeInit /\ SchemaInit
    /\ part # "exchange" => file = MCUnreadable
    /\ part # "schema" => target = MCModel

IntakeNext ==
    /\ UNCHANGED part
    /\ \/ part = "documents" /\ IngestionNext /\ UNCHANGED <<exchange, schema>>
       \/ part = "exchange" /\ ExchangeNext /\ UNCHANGED <<ingestion, schema>>
       \/ part = "schema" /\ SchemaNext /\ UNCHANGED ingestion

IntakeSpec == IntakeInit /\ [][IntakeNext]_<<part, ingestion, exchange, schema>> /\ IngestionFairness

-----------------------------------------------------------------------------
(* What docs and comments say and the code does not do: each is violated    *)
(* under MCIngestion.cfg, when it is checked in place of the properties.    *)

(* A replacement deletes the existing chunks and chunks the new file        *)
(* (documents.py:247), also when the document was still being processed.    *)
ReplacementIsWhole ==
    \A d \in Documents :
        documents[d].status = "ready" /\ deletion[d] = "none" /\ ~WorkedOn(d)
            /\ (\A w \in Workers : loop[w].doc # d) =>
        \A k \in chunks : k.doc = d => k.content = documents[d].content

(* A content is in one document also with two server processes              *)
(* (Dockerfile:35 "--workers 2").                                           *)
UniqueContentAcrossWorkers == \A c \in Contents : Cardinality(Named(c)) <= 1

(* standard_ontology_catalog.py, an import "refuses to overwrite an         *)
(* existing ontology": one that was not finished is not in the registry.    *)
NoDuplicateImport ==
    registered => \A c, d \in Live(store.classes) : c.uri = d.uri => c = d

(* export.py:540, "a round-trip preserves the datatype": literals are       *)
(* stored by their text.                                                    *)
ValuesKeepDatatype ==
    registered => \A r \in ExportedRestrictions(store) :
        \E q \in file.restrictions : \E k \in DOMAIN r.says : k \in DOMAIN q.says /\ r.says[k] = q.says[k]

(* ontology_import.py:978, the export never gains an entailment the source  *)
(* did not state: an anonymous range comes back as an IRI.                  *)
RangesAsStated ==
    registered => \A e \in Exported(store).ranges : e \in file.ranges

(* ontology_import.py:151, a property maps to its partner, and the partner  *)
(* to it: not where two partners are named for one.                         *)
InverseBothWays ==
    registered => \A p, q \in Live(store.properties) : p.inverse = q.uri => q.inverse = p.uri

(* docs/IMPLEMENTATION_PLAN.md:316, export, re-import, "verify equivalence":*)
(* no domain is exported, and so none comes back.                           *)
DomainsSurvive ==
    registered => {<<e[1], e[2].text>> : e \in Exported(store).domains}
                  = {<<UriOf(store, e.from), UriOf(store, e.to)>> :
                        e \in {d \in store.edges : d.type = "rdfs_domain" /\ d.assertion = "rdfs"}}

(* PRD.md:2510, constraints are versioned like classes: they stay behind    *)
(* with the version of the class they were made for.                        *)
EditedClassKeepsConstraints ==
    registered => \A c \in store.constraints : OnLive(store, c)

(* PRD.md:2513, a derived shape is a warning: it takes the severity of an   *)
(* authored one of the property.                                            *)
DerivedShapesWarn ==
    registered => \A s \in ExportedShapes(store) :
        (\E c \in Derived(store) : OnLive(store, c) /\ UriOf(store, c.on) = s.on /\ c.uri = s.path
             /\ <<c.kind, ShapeTerm(c)>> \in s.says)
        => s.severities = {"sh:Warning"}

(* shacl_import.py, a shape that is a class is its own target: a class that *)
(* has nothing but a shape is taken for a reference and not imported.       *)
ImplicitTargetsImported ==
    registered => \A s \in file.shapes : s.iri \in file.declared => \E c \in store.classes : c.uri = s.iri

(* schema_extraction.py:1289, every type in the graph becomes a class: not  *)
(* where two have one local name.                                           *)
DistinctTypesKept ==
    Settled /\ Mode = "lpg" => \A c \in ClassCollections(extraction) : \A v, w \in TypesIn(extraction, c) :
        v # w => LocalName[v] # LocalName[w]

(* schema_extraction.py:1060, an edge from several collections has each as  *)
(* a domain: the import reads one.                                          *)
EveryEndImported ==
    Settled /\ Mode = "direct" => \A e \in GraphEdges(extraction) : \A v \in e.from :
        \E d \in store.edges : d.type = "rdfs_domain" /\ UriOf(store, d.from) = e.col /\ UriOf(store, d.to) = v

(* schema_diff.py:145, a constraint that is added shows: none is ever found *)
(* by class_id, which the importers do not write.                           *)
ConstraintChangesShown ==
    Settled => \A v \in earlier : v.x.config = extraction.config =>
        LET kinds(s) == {<<UriOf(s, c.on), c.uri, c.kind>> : c \in s.constraints} IN
        kinds(store) \ kinds(v.store) \subseteq DiffByUri(ConstraintRows(v), ConstraintRows(Now)).added

(* schema_extraction.py:831, the constraints of a collection are its own:   *)
(* the shape of Car is taken for one of the class CarShape too.             *)
ConstraintsOfTheirClass ==
    Settled /\ Mode = "direct" => \A k \in store.constraints :
        \E f \in DOMAIN ChecksOf(extraction.checks[UriOf(store, k.on)]) : k.uri = FieldUri(UriOf(store, k.on), f)

(* docs/REMAINING_WORK_PLAN.md:674, each extraction stays its own ontology: *)
(* one that is given the id of another writes its classes beside those.     *)
ExtractionStaysItsOwn ==
    part = "schema" /\ Stands("idle") => \A c, d \in Live(store.classes) : c.uri = d.uri => c = d

(* csi_import.py:9, "keeps every correspondence the document carries": of   *)
(* two relationships of one type one domain and one range are imported.     *)
EveryRelationshipImported ==
    Settled /\ Mode = "csi" => \A r \in extraction.model.relationships :
        \A p \in {q \in Live(store.properties) : q.uri = LocalName[r.type]} :
            \E d \in store.edges : d.type = "rdfs_domain" /\ d.from = p.id /\ UriOf(store, d.to) = LocalName[r.from]
=============================================================================
