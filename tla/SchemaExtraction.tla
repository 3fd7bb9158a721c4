--------------------------- MODULE SchemaExtraction ---------------------------
(***************************************************************************)
(* Ontologies made from the schema of an existing database: the extraction *)
(* reads an ArangoDB, its collections or the types in its documents        *)
(* (services/schema_extraction.py), the tables of a relational database    *)
(* (relational_schema_extraction.py) or a CSI document (csi_import.py),    *)
(* writes an OWL file and imports it, by the steps of Exchange.  Two       *)
(* extractions can be compared (schema_diff.py).                           *)
(*                                                                         *)
(* The source is another system's: it changes between two calls, and any   *)
(* call to it may raise.                                                   *)
(***************************************************************************)
EXTENDS Exchange, FiniteSetsExt, TLC

CONSTANTS
    Sources,          \* states of the source databases
    Configs,          \* what is asked for
    FieldSample,      \* documents sampled for the types of fields
    DateTexts,        \* texts that are a date
    VertexTypeFields, \* names that may hold the type of a vertex, in order,
    EdgeLabelFields,  \* and the label of an edge,
    TierOne,          \* those that hold nothing else
    FromTypeFields, ToTypeFields,   \* fields of an edge with the types of its ends
    ClassLike,        \* texts that look like the name of a class
    LowCardinality,   \* distinct values that are always few
    LocalName,        \* the local name of a type, a label or a collection
    FieldUri(_, _),   \* the URI of a field of a collection, type or table
    ShapeUri(_),      \* the IRI of the shape of a class
    Numbered(_, _)    \* a name and a number

VARIABLES
    target,      \* the source as it is
    extraction,  \* what the extraction has read, and where it stands
    schemaRun,   \* its entry in _runs
    stamped,     \* the classes with their source collections
    earlier      \* the ontology of the extraction before

schema == <<target, extraction, schemaRun, stamped, earlier>>

Extractor == CHOOSE w \in Callers : TRUE
NoConfig == [mode |-> "", db |-> "", every |-> TRUE, graphs |-> {}, loose |-> TRUE]
NoExtraction == [at |-> "idle", own |-> TRUE, config |-> NoConfig, graphs |-> {}, collections |-> <<>>, documents |-> <<>>,
                 samples |-> <<>>, checks |-> <<>>, tables |-> <<>>, model |-> [entities |-> {}, relationships |-> {}],
                 source |-> <<>>]

-----------------------------------------------------------------------------
(* What an extraction x has read.                                           *)

Ordered(names) == SelectSeq(UriOrder, LAMBDA u : u \in names)

Walked(x) == {g \in x.graphs : x.config.every \/ g.name \in x.config.graphs}
GraphEdges(x) == UNION {g.edges : g \in Walked(x)}
GraphVertices(x) == UNION {e.from \cup e.to : e \in GraphEdges(x)} \cup UNION {g.orphans : g \in Walked(x)}
IsEdge(x, c) == c \in DOMAIN x.collections /\ x.collections[c] = "edge"
LooseOnes(x) ==
    IF x.config.loose THEN DOMAIN x.collections \ (GraphVertices(x) \cup {e.col : e \in GraphEdges(x)}) ELSE {}
ClassCollections(x) == GraphVertices(x) \cup {c \in LooseOnes(x) : ~IsEdge(x, c)}
LinkCollections(x) == {e.col : e \in GraphEdges(x)} \cup {c \in LooseOnes(x) : IsEdge(x, c)}
SampledCollections(x) == {c \in ClassCollections(x) : ~IsEdge(x, c)}

\* _infer_xsd_type: null, lists and objects have none.
XsdOf(value) ==
    CASE value.type = "bool" -> "boolean" [] value.type = "int" -> "integer" [] value.type = "float" -> "decimal"
      [] value.type = "str" -> IF value.text \in DateTexts THEN "date" ELSE "string"
      [] OTHER -> ""

\* The types of the fields of some documents: of several, string.
FieldTypes(docs) ==
    LET seen(f) == {XsdOf(d.at[f]) : d \in {e \in docs : f \in DOMAIN e.at}} \ {""}
        fields == {f \in UNION {DOMAIN d.at : d \in docs} : seen(f) # {}}
    IN [f \in fields |-> IF Cardinality(seen(f)) = 1 THEN CHOOSE t \in seen(f) : TRUE ELSE "string"]

\* _jsonschema_type_to_xsd: the format says more than the type.
JsonXsd(spec) ==
    CASE spec.format = "date" -> "date" [] spec.format = "date-time" -> "dateTime" [] spec.format = "uri" -> "anyURI"
      [] OTHER -> CASE spec.type = "number" -> "decimal"
                    [] spec.type \in {"string", "integer", "boolean"} -> spec.type
                    [] OTHER -> ""

Given(kind, text, term) == IF text = "" THEN <<>> ELSE kind :> term
One == Literal("1", "integer")

\* _collect_schema_validation_constraints, of one field.
RuleOf(rule, f) ==
    LET specs == {s \in rule.specs : s.field = f}
        of(s) == Given("sh:datatype", JsonXsd(s), Iri(JsonXsd(s)))
                 @@ Given("sh:pattern", s.pattern, Literal(s.pattern, "string"))
                 @@ Given("sh:in", s.enum, Literal(s.enum, "list"))
    IN (IF f \in rule.required THEN "sh:minCount" :> One ELSE <<>>)
       @@ (IF specs = {} THEN <<>> ELSE of(CHOOSE s \in specs : TRUE))

\* _collect_unique_index_fields: one field, and the user's own index.
UniqueFields(indexes) ==
    {i.fields[1] : i \in {j \in indexes : j.unique /\ j.type \notin {"primary", "edge"} /\ Len(j.fields) = 1}}

ChecksOf(check) ==
    LET unique == UniqueFields(check.indexes)
        fields == check.rule.required \cup {s.field : s \in check.rule.specs} \cup unique
        says(f) == RuleOf(check.rule, f) @@ (IF f \in unique THEN "sh:maxCount" :> One ELSE <<>>)
    IN [f \in {g \in fields : says(g) # <<>>} |-> says(f)]

-----------------------------------------------------------------------------
(* The files that are made of it.                                           *)

OntologyFile(classes, links, fields, domains, ranges, shapes) ==
    [suffix |-> "turtle", signal |-> "turtle", form |-> "turtle", empty |-> FALSE,
     declared |-> classes, described |-> classes, subclass |-> {}, axioms |-> {},
     properties |-> {[uri |-> u, kind |-> "object"] : u \in links} \cup {[uri |-> u, kind |-> "datatype"] : u \in fields},
     domains |-> domains, ranges |-> ranges, softDomains |-> {}, softRanges |-> {}, inverses |-> {},
     restrictions |-> {}, shapes |-> shapes]

\* A shape of class c for some of its fields, with what is said of each.
ShapeOf(c, says) ==
    [iri |-> ShapeUri(c), targets |-> {c}, severity |-> "",
     properties |-> {[path |-> Iri(FieldUri(c, f)), deferred |-> FALSE, severity |-> "", says |-> says[f]] : f \in DOMAIN says}]

\* Mutant: only fields that were sampled become properties.
SampledOnly(x, c) == DOMAIN FieldTypes(x.samples[c])

\* The fields of a collection: those sampled, and those only a rule or an index names.
FieldsOf(x, c) == DOMAIN FieldTypes(x.samples[c]) \cup DOMAIN ChecksOf(x.checks[c])

\* The type of a field as sampled, or else as its rule has it.
FieldRange(x, c, f) ==
    LET types == FieldTypes(x.samples[c])
        checks == ChecksOf(x.checks[c])
    IN IF f \in DOMAIN types THEN {Iri(types[f])}
       ELSE {checks[g]["sh:datatype"] : g \in {h \in {f} : "sh:datatype" \in DOMAIN checks[h]}}

\* _direct_extract_schema: a class for a collection, a link for an edge collection.
DirectFile(x) ==
    LET fields == UNION {{<<c, f>> : f \in FieldsOf(x, c)} : c \in SampledCollections(x)}
        uri(cf) == FieldUri(cf[1], cf[2])
        ends(which) == UNION {{<<e.col, Iri(v)>> : v \in e[which]} : e \in GraphEdges(x)}
    IN OntologyFile(ClassCollections(x), LinkCollections(x), {uri(cf) : cf \in fields},
           ends("from") \cup {<<uri(cf), Iri(cf[1])>> : cf \in fields},
           ends("to") \cup UNION {{<<uri(cf), r>> : r \in FieldRange(x, cf[1], cf[2])} : cf \in fields},
           {ShapeOf(c, ChecksOf(x.checks[c])) : c \in {d \in SampledCollections(x) : ChecksOf(x.checks[d]) # <<>>}})

Texts(docs, f) == {d.at[f].text : d \in {e \in docs : f \in DOMAIN e.at /\ e.at[f].type # "null"}}
Having(docs, f) == {d \in docs : f \in DOMAIN d.at /\ d.at[f].type # "null"}

\* _lpg_detect_field: there in three of five documents, and, where the name is not
\* one of a type, few values that look like classes.
HoldsTypes(docs, f) ==
    LET present == Cardinality(Having(docs, f))
        distinct == Texts(docs, f)
    IN /\ present > 0 /\ 5 * present >= 3 * Cardinality(docs)
       /\ f \in TierOne \/ /\ Cardinality(distinct) \in 2..Max({LowCardinality, present \div 2})
                           /\ distinct \subseteq ClassLike

\* The first that does, or none.
Detected(docs, candidates) ==
    LET good == SelectSeq(candidates, LAMBDA f : HoldsTypes(docs, f)) IN IF good = <<>> THEN {} ELSE {Head(good)}

TypeFieldOf(x, c) == Detected(x.documents[c], VertexTypeFields)
TypesIn(x, c) == UNION {Texts(x.documents[c], f) : f \in TypeFieldOf(x, c)}
OfType(docs, f, v) == {d \in docs : f \in DOMAIN d.at /\ d.at[f].text = v}

\* The classes of a vertex collection: one for a type, or for all of it.
LpgClasses(x, c) == IF TypeFieldOf(x, c) = {} THEN {LocalName[c]} ELSE {LocalName[v] : v \in TypesIn(x, c)}

\* The fields of each type, but for the one that holds it.
LpgFields(x, c) ==
    UNION {UNION {{[uri |-> FieldUri(LocalName[v], f), on |-> LocalName[v], type |-> types[f]] : f \in DOMAIN types \ {tf}} :
               types \in {FieldTypes({d \in OfType(x.samples[c], tf, v) : d.at[tf].type = "str"})}} :
           <<tf, v>> \in TypeFieldOf(x, c) \X TypesIn(x, c)}

\* The type of an end of an edge: on the edge, or else on the vertex, in the field
\* that the first vertex collection has for it.
EndType(x, c, e, fields, end) ==
    LET named == SelectSeq(fields, LAMBDA f : \E d \in x.documents[c] : f \in DOMAIN d.at)
        first == Head(Ordered(ClassCollections(x)))
        vertices == {d \in UNION {x.documents[v] : v \in ClassCollections(x)} : d.id = e[end]}
    IN IF named # <<>> THEN Texts({e}, Head(named)) ELSE UNION {Texts(vertices, f) : f \in TypeFieldOf(x, first)}

\* The links of an edge collection, with the types at their ends.
LpgLinks(x, c) ==
    LET label == Detected(x.documents[c], EdgeLabelFields)
        ends(v, f, fields, end) == {LocalName[t] : t \in
            UNION {EndType(x, c, e, fields, end) : e \in OfType(x.documents[c], f, v)}}
    IN IF label = {} THEN {[uri |-> LocalName[c], from |-> {}, to |-> {}]}
       ELSE UNION {{[uri |-> LocalName[v], from |-> ends(v, f, FromTypeFields, "from"),
                     to |-> ends(v, f, ToTypeFields, "to")] : v \in Texts(x.documents[c], f)} : f \in label}

\* _lpg_extract_schema: a class for a type, a link for a label; no shapes.
LpgFile(x) ==
    LET fields == UNION {LpgFields(x, c) : c \in ClassCollections(x)}
        links == UNION {LpgLinks(x, c) : c \in LinkCollections(x)}
    IN OntologyFile(UNION {LpgClasses(x, c) : c \in ClassCollections(x)}, {l.uri : l \in links}, {f.uri : f \in fields},
           {<<f.uri, Iri(f.on)>> : f \in fields} \cup UNION {{<<l.uri, Iri(t)>> : t \in l.from} : l \in links},
           {<<f.uri, Iri(f.type)>> : f \in fields} \cup UNION {{<<l.uri, Iri(t)>> : t \in l.to} : l \in links}, {})

\* The foreign keys in order, each under a name no other has.
ForeignKeys(tables) ==
    LET of(t) == [k \in 1..Len(tables[t].keys) |-> tables[t].keys[k] @@ [of |-> t]]
        keys == FlattenSeq([i \in 1..Len(Ordered(DOMAIN tables)) |-> of(Ordered(DOMAIN tables)[i])])
        name[k \in 1..Len(keys)] ==
            LET used == {name[j] : j \in 1..k - 1}
                free == {n \in 2..k + 1 : Numbered(keys[k].name, n) \notin used}
            IN IF keys[k].name \notin used THEN keys[k].name ELSE Numbered(keys[k].name, Min(free))
    IN {[keys[k] EXCEPT !.name = name[k]] : k \in DOMAIN keys}

\* What a table says of a column: its type goes with something else.
ColumnSays(table, col) ==
    LET more == (IF col.nullable THEN <<>> ELSE "sh:minCount" :> One)
                @@ (IF col.unique THEN "sh:maxCount" :> One ELSE <<>>) @@ Given("sh:in", col.enum, Literal(col.enum, "list"))
    IN IF more = <<>> THEN <<>> ELSE more @@ ("sh:datatype" :> Iri(col.type))

\* build_relational_owl
RelationalFile(tables) ==
    LET columns == UNION {{[uri |-> FieldUri(t, c.name), of |-> t, type |-> c.type] : c \in tables[t].columns} : t \in DOMAIN tables}
        keys == ForeignKeys(tables)
        says(t) == LET shaped == {c \in tables[t].columns : ColumnSays(tables[t], c) # <<>>} IN
                   [f \in {c.name : c \in shaped} |-> ColumnSays(tables[t], CHOOSE c \in shaped : c.name = f)]
    IN OntologyFile(DOMAIN tables, {k.name : k \in keys}, {c.uri : c \in columns},
           {<<c.uri, Iri(c.of)>> : c \in columns} \cup {<<k.name, Iri(k.of)>> : k \in keys},
           {<<c.uri, Iri(c.type)>> : c \in columns} \cup {<<k.name, Iri(k.table)>> : k \in {j \in keys : j.table \in DOMAIN tables}},
           {ShapeOf(t, says(t)) : t \in {u \in DOMAIN tables : says(u) # <<>>}})

\* build_csi_owl: an end that is no entity is left out.
CsiFile(model) ==
    LET names == {e.name : e \in model.entities}
        fields == UNION {{[uri |-> FieldUri(LocalName[e.name], p.name), on |-> LocalName[e.name], type |-> p.type] :
                             p \in e.properties} : e \in model.entities}
        ends(end) == {<<LocalName[r.type], Iri(LocalName[r[end]])>> : r \in {q \in model.relationships : q[end] \in names}}
    IN OntologyFile({LocalName[n] : n \in names}, {LocalName[r.type] : r \in model.relationships}, {f.uri : f \in fields},
           {<<f.uri, Iri(f.on)>> : f \in fields} \cup ends("from"),
           {<<f.uri, Iri(f.type)>> : f \in fields} \cup ends("to"), {})

\* The collection a class is stamped with: where two have it, the last.
SourceOf(x) ==
    LET last(u) == LET from == {c \in ClassCollections(x) : u \in LpgClasses(x, c)} IN
                   Ordered(from)[Cardinality(from)]
    IN CASE x.config.mode = "direct" -> [c \in ClassCollections(x) |-> c]
         [] x.config.mode = "lpg" -> [u \in UNION {LpgClasses(x, c) : c \in ClassCollections(x)} |-> last(u)]
         [] x.config.mode = "relational" -> [t \in DOMAIN x.tables |-> t]
         [] OTHER -> [n \in {LocalName[e.name] : e \in x.model.entities} |->
                         (CHOOSE e \in x.model.entities : LocalName[e.name] = n).collection]

FileOf(x) ==
    CASE x.config.mode = "direct" -> DirectFile(x) [] x.config.mode = "lpg" -> LpgFile(x)
      [] x.config.mode = "relational" -> RelationalFile(x.tables) [] OTHER -> CsiFile(x.model)

-----------------------------------------------------------------------------
(* The extraction.                                                          *)

Mode == extraction.config.mode
Stands(step) == extraction.at = step

Now == [store |-> store, stamped |-> stamped, x |-> extraction]

\* The last extraction is completed, in an ontology of its own.
Settled == Stands("idle") /\ schemaRun = "completed" /\ extraction.own
NotImporting == UNCHANGED <<file, store, registered, jobStatus, importJob, imported, edits, original>>

\* A call that raises ends the extraction, and its caller is told.
SourceRaises ==
    /\ faults < MaxFaults
    /\ extraction' = NoExtraction /\ schemaRun' = "failed" /\ faults' = faults + 1
    /\ UNCHANGED <<target, stamped, earlier>> /\ NotImporting

Proceed(x) ==
    /\ extraction' = x
    /\ UNCHANGED <<target, schemaRun, stamped, earlier, faults>> /\ NotImporting

\* Each extraction makes an ontology of its own, unless it is given the id of one.
StartExtraction(config, own) ==
    /\ Stands("idle") /\ imported < MaxImports /\ ~Busy
    /\ config.db = target.db
    /\ own \/ imported > 0
    /\ extraction' = [NoExtraction EXCEPT !.at = IF config.mode \in {"direct", "lpg"} THEN "graphs" ELSE config.mode,
                                          !.config = config, !.own = own]
    /\ schemaRun' = "running" /\ imported' = imported + 1
    /\ IF own THEN store' = [EmptyStore EXCEPT !.made = store.made] /\ registered' = FALSE /\ stamped' = {}
       ELSE UNCHANGED <<store, registered, stamped>>
    /\ earlier' = IF own /\ Settled THEN {Now} ELSE earlier
    /\ UNCHANGED <<target, file, jobStatus, importJob, faults, edits, original>>

ReadGraphs == Stands("graphs") /\ (Proceed([extraction EXCEPT !.at = "collections", !.graphs = target.graphs]) \/ SourceRaises)

ReadCollections ==
    /\ Stands("collections")
    /\ Proceed([extraction EXCEPT !.at = "documents", !.collections = target.collections]) \/ SourceRaises

\* _introspect, and a CSI document that may not be readable.
ReadTables == Stands("relational") /\ (Proceed([extraction EXCEPT !.at = "file", !.tables = target.tables]) \/ SourceRaises)
ReadModel ==
    /\ Stands("csi")
    /\ IF target.readable THEN Proceed([extraction EXCEPT !.at = "file", !.model = target.model])
       ELSE /\ extraction' = NoExtraction /\ schemaRun' = "failed"
            /\ UNCHANGED <<target, stamped, earlier, faults>> /\ NotImporting

\* Some documents, in no order: as many as are sampled, of each type if there are types.
\* Reading a collection: a sample that fails is skipped, a detection that fails finds
\* no type, and what comes after it raises.
SamplesOf(docs, groups) ==
    {s \in SUBSET docs : \A g \in groups : Cardinality(s \cap g) = Min({FieldSample, Cardinality(g)})}

Unread == (IF Mode = "lpg" THEN ClassCollections(extraction) \cup LinkCollections(extraction)
           ELSE SampledCollections(extraction)) \ DOMAIN extraction.documents

WithDocuments(c, docs, sample) ==
    [extraction EXCEPT !.documents = @ @@ (c :> docs), !.samples = @ @@ (c :> sample)]

ReadDocuments(c) ==
    /\ Stands("documents") /\ c \in Unread
    /\ \/ /\ c \in DOMAIN target.documents
          /\ LET docs == target.documents[c]
                 groups == IF Mode = "direct" THEN {docs}
                           ELSE UNION {{OfType(docs, f, v) : v \in Texts(docs, f)} : f \in Detected(docs, VertexTypeFields)}
             IN \E s \in SamplesOf(docs, groups) : Proceed(WithDocuments(c, docs, s))
       \/ Mode = "lpg" /\ SourceRaises
       \/ /\ c \notin DOMAIN target.documents \/ faults < MaxFaults
          /\ extraction' = WithDocuments(c, {}, {})
          /\ faults' = IF c \in DOMAIN target.documents THEN faults + 1 ELSE faults
          /\ UNCHANGED <<target, schemaRun, stamped, earlier>> /\ NotImporting

NoRule == [required |-> {}, specs |-> {}]

\* The rule and the indexes are two calls; either may fail, and counts as none.
ReadConstraints(c) ==
    /\ Stands("documents") /\ Mode = "direct" /\ Unread = {}
    /\ c \in SampledCollections(extraction) \ DOMAIN extraction.checks
    /\ LET there == c \in DOMAIN target.documents
           read == IF there THEN target.checks[c] ELSE [rule |-> NoRule, indexes |-> {}]
       IN \E rule \in {read.rule, NoRule}, indexes \in {read.indexes, {}} :
              LET failed == Cardinality({k \in {1} : rule # read.rule} \cup {k \in {2} : indexes # read.indexes}) IN
              /\ faults + failed <= MaxFaults
              /\ extraction' = [extraction EXCEPT !.checks = @ @@ (c :> [rule |-> rule, indexes |-> indexes])]
              /\ faults' = faults + failed
    /\ UNCHANGED <<target, schemaRun, stamped, earlier>> /\ NotImporting

\* The file is made and handed to import_from_file.
ImportSchema ==
    /\ \/ Stands("file")
       \/ Stands("documents") /\ Unread = {} /\ (Mode = "direct" => SampledCollections(extraction) = DOMAIN extraction.checks)
    /\ file' = FileOf(extraction)
    /\ importJob' = [importJob EXCEPT ![Extractor] = JobAt("parse", "schema")]
    /\ jobStatus' = "running"
    /\ extraction' = [extraction EXCEPT !.at = "import", !.source = SourceOf(extraction)]
    /\ UNCHANGED <<target, schemaRun, stamped, earlier, store, registered, imported, faults, edits, original>>

\* _stamp_per_class_provenance, which may fail and is only logged.
StampClasses ==
    /\ Stands("import") /\ jobStatus = "completed"
    /\ \/ /\ stamped' = stamped \cup {[id |-> c.id, collection |-> extraction.source[c.uri]] :
                            c \in {d \in Live(store.classes) : d.uri \in DOMAIN extraction.source}}
          /\ UNCHANGED faults
       \/ /\ faults < MaxFaults /\ faults' = faults + 1 /\ UNCHANGED stamped
    /\ extraction' = [extraction EXCEPT !.at = "idle"] /\ schemaRun' = "completed"
    /\ UNCHANGED <<target, earlier>> /\ NotImporting

ImportFailed ==
    /\ Stands("import") /\ jobStatus = "failed"
    /\ extraction' = NoExtraction /\ schemaRun' = "failed"
    /\ UNCHANGED <<target, stamped, earlier, faults>> /\ NotImporting

\* The runs are kept in memory.
ExtractorDies ==
    /\ ~Stands("idle") /\ faults < MaxFaults
    /\ extraction' = NoExtraction /\ schemaRun' = "none" /\ jobStatus' = "none"
    /\ importJob' = [w \in Callers |-> NoJob]
    /\ faults' = faults + 1
    /\ UNCHANGED <<target, stamped, earlier, file, store, registered, imported, edits, original>>

SourceChanges ==
    /\ edits < MaxEdits
    /\ \E t \in Sources : t # target /\ t.db = target.db /\ target' = t
    /\ edits' = edits + 1
    /\ UNCHANGED <<extraction, schemaRun, stamped, earlier, file, store, registered, jobStatus, importJob, imported, faults, original>>

ImportSteps ==
    /\ \/ ParseFile(Extractor) \/ CreateClasses(Extractor) \/ CreateProperties(Extractor) \/ CreateEdges(Extractor)
       \/ ImportRestrictions(Extractor) \/ ImportShapes(Extractor) \/ Register(Extractor)
    /\ UNCHANGED schema

SchemaInit ==
    /\ target \in Sources
    /\ extraction = NoExtraction /\ schemaRun = "none" /\ stamped = {} /\ earlier = {}

SchemaNext ==
    \/ \E config \in Configs, own \in BOOLEAN : StartExtraction(config, own)
    \/ ReadGraphs \/ ReadCollections \/ ReadTables \/ ReadModel
    \/ \E c \in Unread : ReadDocuments(c)
    \/ \E c \in ClassCollections(extraction) : ReadConstraints(c)
    \/ ImportSchema \/ ImportSteps \/ StampClasses \/ ImportFailed
    \/ ExtractorDies \/ SourceChanges

-----------------------------------------------------------------------------
(* The comparison of two extractions.                                       *)

\* Mutant: the key of a row counts as part of it.
KeyedRows(v) == {[uri |-> c.uri, data |-> c.id] : c \in Live(v.store.classes)}

\* Rows by their URI, with what is compared of them.
ClassRows(v) ==
    {[uri |-> c.uri, data |-> {s.collection : s \in {q \in v.stamped : q.id = c.id}}] : c \in Live(v.store.classes)}
PropertyRows(v) ==
    {[uri |-> p.uri, data |-> <<p.kind, p.range, p.inverse>>] : p \in Live(v.store.properties)}

\* A constraint is looked up by the class in class_id.
ConstraintRows(v) ==
    LET on(c) == {d.uri : d \in {e \in Live(v.store.classes) : "class_id" \in DOMAIN c /\ e.id = c["class_id"]}}
        of(c) == {p.uri : p \in {q \in Live(v.store.properties) : q.id = c.property}}
    IN {[uri |-> <<row[1], row[2], row[3].kind>>, data |-> row[3].value] :
           row \in UNION {UNION {{<<u, p, c>> : p \in of(c)} : u \in on(c)} : c \in v.store.constraints}}

UrisIn(rows) == {r.uri : r \in rows}
DiffByUri(before, after) ==
    [added |-> UrisIn(after) \ UrisIn(before), removed |-> UrisIn(before) \ UrisIn(after),
     changed |-> {a.uri : a \in {r \in after : \E b \in before : b.uri = r.uri /\ b.data # r.data}}]

NoDiff == [added |-> {}, removed |-> {}, changed |-> {}]

-----------------------------------------------------------------------------
(* What a completed extraction leaves is the schema it has read: a class    *)
(* for each collection, type, table or entity, a property for each edge     *)
(* collection, label, foreign key or relationship, and each constraint on a *)
(* property that is there, though one call may have failed on the way       *)
(* (schema_extraction.py:938, :840).                                        *)
SchemaImported ==
    Settled =>
        /\ {c.uri : c \in Live(store.classes)} =
               CASE Mode = "direct" -> ClassCollections(extraction) [] Mode = "relational" -> DOMAIN extraction.tables
                 [] Mode = "lpg" -> UNION {LpgClasses(extraction, c) : c \in ClassCollections(extraction)}
                 [] OTHER -> {LocalName[e.name] : e \in extraction.model.entities}
        /\ \A c \in store.constraints : c.property # 0
        /\ Mode = "direct" =>
               /\ LinkCollections(extraction) = {p.uri : p \in {q \in Live(store.properties) : q.kind = "object"}}
               /\ faults = 0 => \A c \in DOMAIN extraction.checks : \A f \in extraction.checks[c].rule.required :
                      \E k \in store.constraints : UriOf(store, k.on) = c /\ k.uri = FieldUri(c, f) /\ k.kind = "sh:minCount"
        /\ Mode = "relational" =>
               Cardinality({p \in Live(store.properties) : p.kind = "object"})
                   = MapThenSumSet(LAMBDA t : Len(extraction.tables[t].keys), DOMAIN extraction.tables)

(* Two extractions of a source that has not changed, asked for the same,    *)
(* have no class and no property that differs (schema_diff.py:51).          *)
UnchangedSchemaSame ==
    Settled /\ faults = 0 /\ edits = 0 =>
        \A v \in earlier : v.x.config = extraction.config =>
            /\ DiffByUri(ClassRows(v), ClassRows(Now)) = NoDiff
            /\ DiffByUri(PropertyRows(v), PropertyRows(Now)) = NoDiff
=============================================================================
