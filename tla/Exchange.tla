------------------------------- MODULE Exchange -------------------------------
(***************************************************************************)
(* The exchange of an ontology with files: an import job reads a parsed    *)
(* RDF file into the store (services/ontology_import.py, shacl_import.py,  *)
(* api/ontology/imports_io.py, standard_ontology_catalog.py), the export   *)
(* writes it out again (services/export.py).  A second round imports what  *)
(* the first one exported.                                                 *)
(*                                                                         *)
(* A file is its triples, grouped by what the importer reads them for; a   *)
(* term is an IRI, a literal or a blank node.  A job runs on a thread of   *)
(* its own, so the steps of two jobs interleave, and any step may raise.   *)
(***************************************************************************)
EXTENDS Naturals, FiniteSets, Sequences, SequencesExt, Functions

CONSTANTS
    Files,       \* files that are imported
    UriOrder,    \* the URIs of their classes and properties, sorted
    Integral,    \* texts int() reads
    Negative,    \* those below zero
    HttpTexts,   \* texts that start with http:// or https://
    Relative,    \* texts that are no absolute IRI: ids of blank nodes
    Based,       \* what a parser makes of such a text between < and >
    Callers,     \* threads that import
    MaxImports,  \* import jobs of one round
    MaxFaults,   \* calls that raise, and deaths of the process
    MaxEdits     \* edits between the rounds

NoText == ""
Iri(text) == [is |-> "iri", text |-> text, type |-> NoText]
Literal(text, type) == [is |-> "literal", text |-> text, type |-> type]
BlankNode(text) == [is |-> "blank", text |-> text, type |-> NoText]
NoTerm == BlankNode(NoText)

Kinds == <<"minCardinality", "maxCardinality", "cardinality", "allValuesFrom", "someValuesFrom", "hasValue">>

(* A file is finite, its classes and properties are named by URIs, and no   *)
(* blank node or literal is spelled like one of them.                       *)
FileAssumption(f) ==
    /\ f.declared \subseteq ToSet(UriOrder)
    /\ \A e \in f.subclass : e = <<e[1], e[2]>>
    /\ f.properties \subseteq [uri : ToSet(UriOrder), kind : {"object", "datatype"}]
    /\ \A e \in f.ranges : e[2].text # NoText /\ (e[2].text \in f.declared => e = <<e[1], Iri(e[2].text)>>)
    /\ IsFiniteSet(f.restrictions)

ASSUME ExchangeAssumption ==
    /\ \A f \in Files : FileAssumption(f)
    /\ UriOrder \in Seq(ToSet(UriOrder)) /\ MaxImports \in Nat /\ MaxFaults \in Nat
    /\ \A t \in Relative : Based[t] # NoText

VARIABLES
    file,        \* the file the ontology comes from
    store,       \* its documents: classes, properties, edges, constraints
    registered,  \* it has a registry entry
    jobStatus,   \* its entry in _import_jobs
    importJob,   \* importJob[w]: where the import on thread w stands
    imported,    \* imports begun in this round
    faults, edits,
    original     \* what the first round left, once the second has begun

exchange == <<file, store, registered, jobStatus, importJob, imported, faults, edits, original>>

EmptyStore == [classes |-> {}, properties |-> {}, edges |-> {}, constraints |-> {}, made |-> 0]
JobAt(step, via) == [at |-> step, via |-> via, ids |-> <<>>, metas |-> {}]
NoJob == JobAt("idle", NoText)
Live(rows) == {r \in rows : r.live}

-----------------------------------------------------------------------------
(* What the importer reads in a file.                                       *)

\* _detect_format and _sniff_format_from_content: a strong signal overrules the suffix.
Readable(f) == f.suffix # "other" /\ f.form = (IF f.signal = "none" THEN f.suffix ELSE f.signal) /\ ~f.empty

IrisOf(pairs) == {e[2].text : e \in {d \in pairs : d[2].is = "iri"}}
ClassAxioms(f) == f.subclass \cup f.axioms

\* _is_reference_only: no axiom about the class, and nothing that points at it.
Defines(f, c) == c \in f.described \/ (\E e \in ClassAxioms(f) : e[1] = c) \/ (\E r \in f.restrictions : r.on = c)
PointsAt(f, c) ==
    \/ \E e \in ClassAxioms(f) : e[2] = c
    \/ c \in IrisOf(f.domains \cup f.ranges)
    \/ \E e \in f.softDomains \cup f.softRanges : e[2] = c
    \/ \E r \in f.restrictions : \E k \in DOMAIN r.says : r.says[k] = Iri(c)
    \/ \E s \in f.shapes : c \in s.targets \/ \E p \in s.properties : \E k \in DOMAIN p.says : p.says[k] = Iri(c)
\* Mutant: a class only counts when the file says something of it.
UndescribedOnly(f, c) == ~Defines(f, c)

ReferenceOnly(f, c) == ~Defines(f, c) /\ ~PointsAt(f, c)

Wanted(f) == {c \in f.declared : ~ReferenceOnly(f, c)}

\* Where a URI, and where a property stands: object properties come first.
Place(uri) == CHOOSE i \in DOMAIN UriOrder : UriOrder[i] = uri
PropertyPlace(p) == IF p.kind = "object" THEN Place(p.uri) ELSE Len(UriOrder) + Place(p.uri)

\* What _inverse_index makes of the pairs, in each order it may meet them.
InverseIndexes(pairs) ==
    LET keepFirst(index, key, value) == IF key \in DOMAIN index THEN index ELSE (key :> value) @@ index
        made[S \in SUBSET pairs] ==
            IF S = {} THEN {<<>>}
            ELSE UNION {{keepFirst(keepFirst(index, e[1], e[2]), e[2], e[1]) : index \in made[S \ {e}]} : e \in S}
    IN made[pairs]

ValuesOf(pairs, p) == {e[2] : e \in {d \in pairs : d[1] = p}}

\* One of the options at each place.
Selections(options) ==
    {f \in [DOMAIN options -> UNION Range(options)] : \A x \in DOMAIN options : f[x] \in options[x]}

\* rdf_graph.value: any of the objects, or none.
AnyValue(pairs, p) == IF ValuesOf(pairs, p) = {} THEN {NoTerm} ELSE ValuesOf(pairs, p)

\* rdfs:domain wins over soft typing, even where it is anonymous.
Attachment(hard, soft) ==
    IF hard # NoTerm THEN [uris |-> {hard.text}, assertion |-> "rdfs"] ELSE [uris |-> soft, assertion |-> "schema"]

IsBound(kind) == kind \in {"minCardinality", "maxCardinality", "cardinality"}
IsCount(term) == term.is = "literal" /\ (term.type = "integer" \/ term.text \in Integral)
Stored(term) == [is |-> "text", text |-> term.text]
Count(term) == [is |-> "int", text |-> term.text]

RowOf(type, class, property, kind, value, severity) ==
    [type |-> type, class |-> class, uri |-> property, kind |-> kind, value |-> value, severity |-> severity]

\* _interpret_owl_restriction: of several kinds only the first is read.
Interpreted(r) ==
    LET said == {i \in DOMAIN Kinds : Kinds[i] \in DOMAIN r.says}
        kind == Kinds[CHOOSE i \in said : \A j \in said : i <= j]
        term == r.says[kind]
        row(value) == {RowOf("owl:Restriction", r.on, r.property.text, kind, value, NoText)}
    IN IF said = {} \/ r.qualified THEN {}
       ELSE IF IsBound(kind) THEN (IF IsCount(term) THEN row(Count(term)) ELSE {})
       ELSE IF term.is = "blank" THEN {} ELSE row(Stored(term))

\* _extract_owl_restrictions
OwlRows(f) == UNION {Interpreted(r) : r \in {q \in f.restrictions : q.on \in f.declared /\ q.property.is = "iri"}}

\* _interpret_property_shape_constraints, one kind at a time.
ShapeValue(kind, term) ==
    IF kind \in {"sh:minCount", "sh:maxCount"}
    THEN IF IsCount(term) /\ term.text \notin Negative THEN {Count(term)} ELSE {}
    ELSE IF term.is = "blank" THEN {}
    ELSE IF kind = "sh:in" THEN {[is |-> "list", text |-> term.text]} ELSE {Stored(term)}

\* sh:targetClass, and a shape that is itself a class.
Targets(f, s) == s.targets \cup (f.declared \cap {s.iri})

SeverityOf(s, p) == CHOOSE v \in {p.severity, s.severity, "sh:Violation"} :
    v = IF p.severity # NoText THEN p.severity ELSE IF s.severity # NoText THEN s.severity ELSE "sh:Violation"

\* _extract_shacl_property_constraints: complex paths and deferred constructs skip a shape.
ShapeRows(f) ==
    UNION {UNION {{RowOf("sh:PropertyShape", sp.target, sp.p.path.text, k, v, SeverityOf(sp.s, sp.p)) :
                       v \in ShapeValue(k, sp.p.says[k])} : k \in DOMAIN sp.p.says} :
              sp \in UNION {UNION {{[s |-> s, p |-> p, target |-> t] : t \in Targets(f, s)} :
                                       p \in {q \in s.properties : q.path.is = "iri" /\ ~q.deferred}} : s \in f.shapes}}

-----------------------------------------------------------------------------
(* The import job.                                                          *)

AtStep(w, step) == importJob[w].at = step
Onward(w, step, ids, metas) ==
    importJob' = [importJob EXCEPT ![w] = [at |-> step, via |-> importJob[w].via, ids |-> ids, metas |-> metas]]
GoTo(w, step) == Onward(w, step, importJob[w].ids, importJob[w].metas)
Busy == \E w \in Callers : ~AtStep(w, "idle")
Answer(w, status) == jobStatus' = IF importJob[w].via # "catalog" THEN status ELSE jobStatus

\* What has been written stays; the job is reported as failed.
ImportRaises(w, written) ==
    /\ faults < MaxFaults
    /\ store' = written
    /\ importJob' = [importJob EXCEPT ![w] = NoJob]
    /\ Answer(w, "failed")
    /\ faults' = faults + 1
    /\ UNCHANGED <<file, registered, imported, edits, original>>

\* import_ontology_endpoint checks, then awaits the upload.  The second round
\* imports the export, whose file has come into place.
RequestImport(w) ==
    /\ AtStep(w, "idle") /\ imported < MaxImports
    /\ ~registered /\ jobStatus # "running"
    /\ importJob' = [importJob EXCEPT ![w] = JobAt("upload", "upload")]
    /\ imported' = imported + 1
    /\ UNCHANGED <<file, store, registered, jobStatus, faults, edits, original>>

StartImport(w) ==
    /\ AtStep(w, "upload")
    /\ GoTo(w, "parse")
    /\ jobStatus' = "running"
    /\ UNCHANGED <<file, store, registered, imported, faults, edits, original>>

\* import_catalog_entry only looks at the registry.
ImportCatalogEntry(w) ==
    /\ AtStep(w, "idle") /\ imported < MaxImports
    /\ ~registered
    /\ importJob' = [importJob EXCEPT ![w] = JobAt("parse", "catalog")]
    /\ imported' = imported + 1
    /\ UNCHANGED <<file, store, registered, jobStatus, faults, edits, original>>

ParseFile(w) ==
    /\ AtStep(w, "parse")
    /\ IF Readable(file)
       THEN GoTo(w, "classes") /\ UNCHANGED jobStatus
       ELSE importJob' = [importJob EXCEPT ![w] = NoJob] /\ Answer(w, "failed")
    /\ UNCHANGED <<file, store, registered, imported, faults, edits, original>>

\* The classes up to the nth URI, with the next ids.
ClassesMade(n) == {[uri |-> u, id |-> store.made + Place(u), live |-> TRUE] : u \in {v \in Wanted(file) : Place(v) <= n}}
WithClasses(n) == [store EXCEPT !.classes = store.classes \cup ClassesMade(n), !.made = store.made + Len(UriOrder)]

CreateClasses(w) ==
    /\ AtStep(w, "classes")
    /\ \/ /\ store' = WithClasses(Len(UriOrder))
          /\ Onward(w, "properties", [u \in Wanted(file) |-> store.made + Place(u)], {})
          /\ UNCHANGED <<file, registered, jobStatus, imported, faults, edits, original>>
       \/ \E n \in 0..Len(UriOrder) : ImportRaises(w, WithClasses(n))

\* The property documents: only a hard range is kept on them.
PropertiesMade(range, inverse, n) ==
    {[uri |-> p.uri, kind |-> p.kind, id |-> store.made + PropertyPlace(p), live |-> TRUE, range |-> range[p].text,
      inverse |-> IF p.uri \in DOMAIN inverse THEN inverse[p.uri] ELSE NoText] : p \in {q \in file.properties : PropertyPlace(q) <= n}}
WithProperties(range, inverse, n) ==
    [store EXCEPT !.properties = store.properties \cup PropertiesMade(range, inverse, n), !.made = store.made + 2 * Len(UriOrder)]

PickedValues(pairs) == Selections([p \in file.properties |-> AnyValue(pairs, p.uri)])

\* property_ids maps a URI to one document, the datatype property if it is both.
Holder(p) ==
    LET last == [p EXCEPT !.kind = "datatype"] IN
    store.made + PropertyPlace(IF last \in file.properties THEN last ELSE p)

CreateProperties(w) ==
    /\ AtStep(w, "properties")
    /\ \E domain \in PickedValues(file.domains), range \in PickedValues(file.ranges), inverse \in InverseIndexes(file.inverses) :
       LET meta(p) ==
               [from |-> Holder(p), kind |-> p.kind,
                domain |-> Attachment(domain[p], ValuesOf(file.softDomains, p.uri)),
                range |-> Attachment(range[p], ValuesOf(file.softRanges, p.uri))]
       IN \/ /\ store' = WithProperties(range, inverse, 2 * Len(UriOrder))
             /\ Onward(w, "edges", importJob[w].ids, {meta(p) : p \in file.properties})
             /\ UNCHANGED <<file, registered, jobStatus, imported, faults, edits, original>>
          \/ \E n \in 0..2 * Len(UriOrder) : ImportRaises(w, WithProperties(range, inverse, n))

Edge(type, from, to, assertion) == [type |-> type, from |-> from, to |-> to, assertion |-> assertion]

\* Edges between what this job has created; an equivalence makes none.
EdgesOf(job) ==
    {Edge("subclass_of", job.ids[e[1]], job.ids[e[2]], NoText) :
         e \in {d \in file.subclass : {d[1], d[2]} \subseteq DOMAIN job.ids}}
    \cup (UNION {{Edge("rdfs_domain", m.from, job.ids[u], m.domain.assertion) : u \in m.domain.uris \cap DOMAIN job.ids} :
                     m \in job.metas})
    \cup (UNION {{Edge("rdfs_range_class", m.from, job.ids[u], m.range.assertion) : u \in m.range.uris \cap DOMAIN job.ids} :
                     m \in {n \in job.metas : n.kind = "object"}})

CreateEdges(w) ==
    /\ AtStep(w, "edges")
    /\ LET new == EdgesOf(importJob[w]) IN
       \/ /\ store' = [store EXCEPT !.edges = store.edges \cup new]
          /\ GoTo(w, "restrictions")
          /\ UNCHANGED <<file, registered, jobStatus, imported, faults, edits, original>>
       \/ \E some \in SUBSET new : ImportRaises(w, [store EXCEPT !.edges = store.edges \cup some])

\* The live classes a row may be tied to, and the property, an object property first.
ClassIds(uri) == {c.id : c \in {d \in Live(store.classes) : d.uri = uri}}
PropertyIds(uri) ==
    LET found(kinds) == {p.id : p \in {q \in Live(store.properties) : q.uri = uri /\ q.kind \in kinds}}
    IN IF found({"object"}) # {} THEN found({"object"})
       ELSE IF found({"datatype"}) # {} THEN found({"datatype"}) ELSE {0}

Constraint(row, class, property) ==
    [type |-> row.type, on |-> class, property |-> property, uri |-> row.uri, kind |-> row.kind,
     value |-> row.value, severity |-> row.severity]

\* Each URI is resolved once; rows of classes that are not there are skipped, and
\* so are rows the database refuses.
ImportConstraints(w, step, rows, next) ==
    /\ AtStep(w, step)
    /\ LET known == {r \in rows : ClassIds(r.class) # {}} IN
       \E classOf \in Selections([u \in {r.class : r \in known} |-> ClassIds(u)]),
          propertyOf \in Selections([u \in {r.uri : r \in known} |-> PropertyIds(u)]),
          refused \in SUBSET known :
          /\ Cardinality(refused) <= MaxFaults - faults
          /\ store' = [store EXCEPT !.constraints = store.constraints \cup
                 {Constraint(r, classOf[r.class], propertyOf[r.uri]) : r \in known \ refused}]
          /\ faults' = faults + Cardinality(refused)
    /\ GoTo(w, next)
    /\ UNCHANGED <<file, registered, jobStatus, imported, edits, original>>

ImportRestrictions(w) == ImportConstraints(w, "restrictions", OwlRows(file), "shapes")
ImportShapes(w) == ImportConstraints(w, "shapes", ShapeRows(file), "register")

\* create_registry_entry: the key is unique.
Register(w) ==
    /\ AtStep(w, "register")
    /\ importJob' = [importJob EXCEPT ![w] = NoJob]
    /\ Answer(w, IF registered THEN "failed" ELSE "completed")
    /\ registered' = TRUE
    /\ UNCHANGED <<file, store, imported, faults, edits, original>>

\* The process dies and with it the jobs it knew of.
ImporterDies ==
    /\ Busy /\ faults < MaxFaults
    /\ importJob' = [w \in Callers |-> NoJob]
    /\ jobStatus' = "none"
    /\ faults' = faults + 1
    /\ UNCHANGED <<file, store, registered, imported, edits, original>>

-----------------------------------------------------------------------------
(* Edits of the imported ontology, once the jobs are over.                  *)

NewId(e, old, new) ==
    Edge(e.type, IF e.from = old THEN new ELSE e.from, IF e.to = old THEN new ELSE e.to, e.assertion)
NextVersion(rows, r, new) ==
    {IF q = r THEN [r EXCEPT !.live = FALSE] ELSE q : q \in rows} \cup {[r EXCEPT !.id = new]}

\* A new version takes the edges along; constraints name the old one.
EditImported(r, classes, properties) ==
    /\ registered /\ ~Busy /\ original = {} /\ edits < MaxEdits
    /\ store' = [store EXCEPT !.classes = classes, !.properties = properties,
                              !.edges = {NewId(e, r.id, store.made + 1) : e \in store.edges}, !.made = store.made + 1]
    /\ edits' = edits + 1
    /\ UNCHANGED <<file, registered, jobStatus, importJob, imported, faults, original>>

EditImportedClass == \E c \in Live(store.classes) : 
    EditImported(c, NextVersion(store.classes, c, store.made + 1), store.properties)
EditImportedProperty == \E p \in Live(store.properties) : 
    EditImported(p, store.classes, NextVersion(store.properties, p, store.made + 1))

-----------------------------------------------------------------------------
(* The export.                                                              *)

UriOf(s, id) == (CHOOSE r \in s.classes \cup s.properties : r.id = id).uri
OnLive(s, c) == \E r \in Live(s.classes) : r.id = c.on

\* Mutant: a property that has a newer version is not found, and that is that.
LinkedProperty(s, c) == {p.uri : p \in {q \in Live(s.properties) : q.id = c.property}}

\* The property a row names, through its id or as it was written.
ExportedProperty(s, c) ==
    IF \E p \in Live(s.properties) : p.id = c.property THEN {UriOf(s, c.property)} ELSE {c.uri}

TextTerm(text) == IF text \in HttpTexts THEN Iri(text) ELSE Literal(text, "string")
WellFormed(c) == IsBound(c.kind) => c.value.text \notin Negative
RestrictionTerm(c) ==
    IF IsBound(c.kind) THEN Literal(c.value.text, "integer")
    ELSE IF c.kind = "hasValue" THEN TextTerm(c.value.text) ELSE Iri(c.value.text)

\* _add_owl_restrictions_to_graph
ExportedRestrictions(s) ==
    UNION {{[on |-> UriOf(s, c.on), property |-> Iri(u), qualified |-> FALSE, says |-> [k \in {c.kind} |-> RestrictionTerm(c)]] :
                u \in ExportedProperty(s, c)} :
              c \in {d \in s.constraints : d.type = "owl:Restriction" /\ OnLive(s, d) /\ WellFormed(d)}}

Resolved(text) == IF text \in Relative THEN Based[text] ELSE text

\* _build_rdf_graph as the next importer parses it: no domain, soft typing, inverse
\* or shape is written, and every class has its label.
Exported(s) ==
    [suffix |-> "turtle", signal |-> "turtle", form |-> "turtle", empty |-> FALSE,
     declared |-> {c.uri : c \in Live(s.classes)}, described |-> {c.uri : c \in Live(s.classes)},
     subclass |-> {<<UriOf(s, e.from), UriOf(s, e.to)>> : e \in {d \in s.edges : d.type = "subclass_of"}},
     axioms |-> {}, properties |-> {[uri |-> p.uri, kind |-> p.kind] : p \in Live(s.properties)},
     domains |-> {}, softDomains |-> {}, softRanges |-> {}, inverses |-> {},
     ranges |-> {<<p.uri, Iri(Resolved(p.range))>> : p \in {q \in Live(s.properties) : q.range # NoText}},
     restrictions |-> ExportedRestrictions(s), shapes |-> {}]

\* derive_shacl_rows
DerivedKinds(kind) ==
    CASE kind = "minCardinality" -> {"sh:minCount"} [] kind = "maxCardinality" -> {"sh:maxCount"}
      [] kind = "cardinality" -> {"sh:minCount", "sh:maxCount"} [] kind = "hasValue" -> {"sh:hasValue"}
      [] OTHER -> {"sh:class"}
Derived(s) ==
    UNION {{[c EXCEPT !.type = "derived", !.kind = k, !.severity = "sh:Warning"] : k \in DerivedKinds(c.kind)} :
              c \in {d \in s.constraints : d.type = "owl:Restriction"}}

\* _emit_shacl_value
ShapeTerm(c) ==
    CASE c.kind \in {"sh:minCount", "sh:maxCount"} -> Literal(c.value.text, "integer")
      [] c.kind \in {"sh:datatype", "sh:class", "sh:nodeKind"} -> Iri(c.value.text)
      [] c.kind = "sh:hasValue" -> TextTerm(c.value.text)
      [] OTHER -> Literal(c.value.text, "string")
Emittable(c) == c.kind \in {"sh:minCount", "sh:maxCount"} => c.value.text \notin Negative

\* _build_shacl_graph: one shape for a class and a property, with the severity of
\* a row that comes first; authored rows come before derived ones.
ExportedShapes(s) ==
    LET authored == {c \in s.constraints : c.type = "sh:PropertyShape"}
        rows == {c \in authored \cup Derived(s) : OnLive(s, c)}
        key(c) == <<UriOf(s, c.on), CHOOSE u \in ExportedProperty(s, c) : TRUE>>
        group(k) == {c \in rows : key(c) = k}
        severities(k) == LET first == group(k) \cap authored IN
                         {c.severity : c \in IF first # {} THEN first ELSE group(k)}
    IN {[on |-> k[1], path |-> k[2], severities |-> severities(k),
         says |-> {<<c.kind, ShapeTerm(c)>> : c \in {d \in group(k) : Emittable(d)}}] : k \in {key(c) : c \in rows}}

\* A range that is a name, and no blank node or what became of one.
NamedRange(range) == IF range \in Relative \/ \E t \in Relative : range = Based[t] THEN NoText ELSE range

\* What of a store an exchange should keep, by URI.
Summary(s) ==
    [classes |-> {c.uri : c \in Live(s.classes)},
     subclass |-> Exported(s).subclass,
     properties |-> {[uri |-> p.uri, kind |-> p.kind, range |-> NamedRange(p.range)] : p \in Live(s.properties)},
     restrictions |-> {[on |-> UriOf(s, c.on), uri |-> c.uri, kind |-> c.kind, value |-> c.value] :
         c \in {d \in s.constraints : d.type = "owl:Restriction" /\ OnLive(s, d) /\ WellFormed(d)}}]

Reimport ==
    /\ registered /\ ~Busy /\ original = {}
    /\ file' = Exported(store)
    /\ original' = {Summary(store)}
    /\ store' = EmptyStore /\ registered' = FALSE /\ jobStatus' = "none" /\ imported' = MaxImports - 1
    /\ faults' = MaxFaults
    /\ UNCHANGED <<importJob, edits>>

-----------------------------------------------------------------------------
ExchangeInit ==
    /\ file \in Files
    /\ store = EmptyStore /\ registered = FALSE /\ jobStatus = "none"
    /\ importJob = [w \in Callers |-> NoJob]
    /\ imported = 0 /\ faults = 0 /\ edits = 0 /\ original = {}

ExchangeNext ==
    \/ \E w \in Callers :
           \/ RequestImport(w) \/ StartImport(w) \/ ImportCatalogEntry(w) \/ ParseFile(w)
           \/ CreateClasses(w) \/ CreateProperties(w) \/ CreateEdges(w)
           \/ ImportRestrictions(w) \/ ImportShapes(w) \/ Register(w)
    \/ ImporterDies \/ EditImportedClass \/ EditImportedProperty \/ Reimport

ExchangeSpec == ExchangeInit /\ [][ExchangeNext]_exchange

-----------------------------------------------------------------------------
(* An ontology that is exported and imported again has the classes, the     *)
(* subclass axioms, the properties with their named ranges and the          *)
(* restrictions that it had, whatever was edited in between                 *)
(* (export.py:436, docs/REMAINING_WORK_PLAN.md:439).                        *)
RoundTrip == registered /\ original # {} => original = {Summary(store)}

(* What is registered is the file: the classes it defines or leans on and   *)
(* no others, the subclass axioms among them, and a range that entails      *)
(* something only where the file states it, though attempts before it       *)
(* stopped half-way (ontology_import.py:121 and :978).                      *)
ImportExact ==
    registered =>
        LET classes == {c \in file.declared : Defines(file, c) \/ PointsAt(file, c)} IN
        /\ {c.uri : c \in Live(store.classes)} = classes
        /\ Exported(store).subclass = {e \in file.subclass : {e[1], e[2]} \subseteq classes}
        /\ \A p \in Live(store.properties) :
               p.range = NoText <=> ~(\E e \in file.ranges : e[1] = p.uri)
        /\ \A e \in store.edges : e.type = "rdfs_range_class" /\ e.assertion = "rdfs"
               => <<UriOf(store, e.from), Iri(UriOf(store, e.to))>> \in file.ranges
        /\ \A c \in store.constraints :
               c.property = 0 <=> ~(\E p \in file.properties : p.uri = c.uri)

(* So for every file that is imported, and for the export of one: an        *)
(* extraction, which writes a file of its own, may be told to put it into   *)
(* an ontology that is there.                                               *)
FileImported == file \in Files \/ original # {} => ImportExact
=============================================================================
