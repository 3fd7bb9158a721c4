--------------------------- MODULE ExtractionAgents ---------------------------
(***************************************************************************)
(* The nodes of the extraction graph, one after the other: strategy,       *)
(* domain segmentation, the passes of the extractor, agreement, judges,    *)
(* structural gate, filter, and the domain tags the run adds at the end    *)
(* (extraction/agents, extraction/judges, services/domain_detection.py).   *)
(* What a language model answers is chosen from small sets; Nothing is an  *)
(* answer that could not be had or read.                                   *)
(***************************************************************************)
EXTENDS EdgeRepair, FiniteSets

CONSTANTS
    Documents,        \* sequences of chunks [kind, slide, table, technical, unit]
    BatchSizes,       \* chunks of a batch, by type of document
    LongDocument,     \* chunks above which a document is long
    ShortDocument,    \* chunks up to which a document is short
    ExtractionPasses, \* settings.extraction_passes
    Agreement,        \* settings.extraction_consistency_threshold
    MaxSampled,       \* settings.domain_detection_max_chunks
    MinDomain,        \* settings.domain_detection_min_confidence
    DomainAnswers,    \* answers to the segmentation prompt
    BatchAnswers,     \* what the tries of one batch answer, in order
    MaxTries,         \* _MAX_RETRIES_PER_BATCH
    GateSettings,     \* settings.structural_gate_enabled, what it may be
    JudgeBatch,       \* edges of one prompt of the subsumption judge
    VerdictAnswers,   \* answers of the subsumption judge
    ScoreAnswers,     \* answers of the quality judges: scores by class
    Ratings,          \* the words the faithfulness judge may rate with
    GenericNames,     \* labels that are generic or furniture of a document
    NoClass, Nothing, Malformed, Refused

VARIABLES node, chunksOf, strategy, segments, batches, passes, classes, health, tags

agents == <<node, chunksOf, strategy, segments, batches, passes, classes, health, tags>>

Count(seq, Test(_)) == Len(SelectSeq(seq, Test))
Elements(seq) == {seq[i] : i \in 1..Len(seq)}
FirstMax(seq, Weight(_)) ==
    seq[CHOOSE i \in 1..Len(seq) : \A j \in 1..Len(seq) :
            Weight(seq[j]) < Weight(seq[i]) \/ (Weight(seq[j]) = Weight(seq[i]) /\ i <= j)]
\* Counter(seq).most_common(1): of the most frequent the first seen.
Majority(seq) == FirstMax(seq, LAMBDA x : Count(seq, LAMBDA y : y = x))
\* What is first seen of what has equal keys, in order.
Distinct(seq, Key(_)) ==
    FoldLeft(LAMBDA acc, x : IF \E i \in 1..Len(acc) : Key(acc[i]) = Key(x) THEN acc ELSE Append(acc, x), <<>>, seq)

-----------------------------------------------------------------------------
(* Strategy and batches.                                                    *)

IsVisualHeavy(chunks) ==
    LET visual == Count(chunks, LAMBDA c : c.kind \in {"visual", "mixed"})
        slides == Count(chunks, LAMBDA c : c.slide)
    IN chunks # <<>> /\ (10 * visual >= 3 * Len(chunks) \/ 2 * slides >= Len(chunks) \/ (visual > 0 /\ slides > 0))

\* _classify_document: the first rule that applies.
ClassifyDocument(chunks) ==
    LET tables == Count(chunks, LAMBDA c : c.table)
        technical == 5 * Count(chunks, LAMBDA c : c.technical) > Len(chunks)
    IN IF IsVisualHeavy(chunks) THEN "visual_heavy_presentation"
       ELSE IF 10 * tables > 3 * Len(chunks) THEN "tabular_structured"
       ELSE IF Len(chunks) <= ShortDocument /\ technical THEN "short_technical"
       ELSE IF Len(chunks) > LongDocument THEN "long_narrative"
       ELSE IF technical THEN "short_technical" ELSE "default"

StrategyOf(type) ==
    [batch |-> BatchSizes[type],
     passes |-> IF type # "tabular_structured" THEN ExtractionPasses
                ELSE IF ExtractionPasses > 3 THEN ExtractionPasses - 1 ELSE 2]

\* _group_by_topic_unit: runs of chunks of one unit; unit 0 is none.
TopicGroups(chunks) ==
    LET step(acc, i) ==
            IF acc # <<>> /\ chunks[i].unit # 0 /\ chunks[acc[Len(acc)][1]].unit = chunks[i].unit
            THEN [acc EXCEPT ![Len(acc)] = Append(@, i)] ELSE Append(acc, <<i>>)
    IN FoldLeft(step, <<>>, [i \in 1..Len(chunks) |-> i])

\* Mutant: a batch is closed only when it is full.
PackUnitGreedily(acc, unit, size) ==
    LET grown == Last(acc) \o unit
    IN IF Len(grown) >= size THEN Append(Front(acc), SubSeq(grown, 1, size)) \o <<SubSeq(grown, size + 1, Len(grown))>>
       ELSE Append(Front(acc), grown)

\* A unit joins the open batch unless that would overflow it; a batch that is
\* full is closed.
PackUnit(acc, unit, size) ==
    LET open == IF Last(acc) # <<>> /\ Len(Last(acc)) + Len(unit) > size THEN Append(acc, <<>>) ELSE acc
        grown == Append(Front(open), Last(open) \o unit)
    IN IF Len(Last(grown)) >= size THEN Append(grown, <<>>) ELSE grown

\* _batch_chunks, as positions of chunks.
BatchChunks(chunks, size) ==
    LET all == [i \in 1..Len(chunks) |-> i]
        windows == [k \in 1..((Len(chunks) + size - 1) \div size) |->
                        SubSeq(all, (k - 1) * size + 1, IF k * size < Len(chunks) THEN k * size ELSE Len(chunks))]
    IN IF \A i \in 1..Len(chunks) : chunks[i].unit = 0 THEN windows
       ELSE SelectSeq(FoldLeft(LAMBDA acc, u : PackUnit(acc, u, size), <<<<>>>>, TopicGroups(chunks)), LAMBDA b : b # <<>>)

-----------------------------------------------------------------------------
(* Domain segmentation.                                                     *)

\* _sample_indices: spread evenly over the chunks.
SampleIndices(total) ==
    IF total <= MaxSampled THEN [i \in 1..total |-> i]
    ELSE Distinct([k \in 1..MaxSampled |-> ((k - 1) * total) \div MaxSampled + 1], LAMBDA i : i)

Assigned(segs) == UNION {Elements(segs[k].ids) : k \in 1..Len(segs)}

\* Mutant: chunks no domain claims are left out.
ParseWithoutLeftover(answer, known) ==
    LET step(segs, entry) ==
            LET ids == SelectSeq(entry.ids, LAMBDA i : i \in Elements(known) /\ i \notin Assigned(segs))
            IN IF ids = <<>> \/ entry.domain = 0 THEN segs ELSE Append(segs, [entry EXCEPT !.ids = ids])
    IN FoldLeft(step, <<>>, answer)

\* _parse_domain_response: unknown and claimed chunks are dropped, what nobody
\* claimed goes to the surest domain.
ParseDomainResponse(answer, known) ==
    LET step(segs, entry) ==
            LET ids == SelectSeq(entry.ids, LAMBDA i : i \in Elements(known) /\ i \notin Assigned(segs))
            IN IF ids = <<>> \/ entry.domain = 0 THEN segs ELSE Append(segs, [entry EXCEPT !.ids = ids])
        segs == FoldLeft(step, <<>>, answer)
        left == SelectSeq(known, LAMBDA i : i \notin Assigned(segs))
        surest == FirstMax([k \in 1..Len(segs) |-> k], LAMBDA k : segs[k].confidence)
    IN IF segs = <<>> THEN <<>> ELSE [segs EXCEPT ![surest].ids = @ \o left]

\* _expand_sampled_segments: a chunk belongs where the last sampled chunk up to
\* it does; domains of one name become one segment.
ExpandSampledSegments(segs, total, sampled) ==
    LET domainAt(i) == LET at == CHOOSE k \in 1..Len(segs) : i \in Elements(segs[k].ids)
                                     /\ \A j \in k+1..Len(segs) : i \notin Elements(segs[j].ids)
                       IN segs[at].domain
        before(i) == {s \in Elements(sampled) : s <= i}
        domainOf == [i \in 1..total |->
            IF before(i) = {} THEN segs[1].domain
            ELSE domainAt(CHOOSE s \in before(i) : \A r \in before(i) : r <= s)]
        names == Distinct(domainOf, LAMBDA d : d)
        confidence(d) == segs[CHOOSE k \in 1..Len(segs) : segs[k].domain = d
                              /\ \A j \in k+1..Len(segs) : segs[j].domain # d].confidence
    IN [k \in 1..Len(names) |->
            [domain |-> names[k], ids |-> SelectSeq([i \in 1..total |-> i], LAMBDA i : domainOf[i] = names[k]),
             confidence |-> confidence(names[k])]]

SegmentChunks(answer, total) ==
    LET sampled == SampleIndices(total)
        parsed == ParseDomainResponse(answer, sampled)
    IN IF parsed = <<>> \/ Len(sampled) = total THEN parsed ELSE ExpandSampledSegments(parsed, total, sampled)

-----------------------------------------------------------------------------
(* One batch.                                                               *)

\* _extract_batch: asked again while the answer is malformed, not when the
\* provider refuses; a batch without an answer contributes no class.
ExtractBatch(tries) ==
    LET over == {i \in 1..Len(tries) : i <= MaxTries /\ tries[i] # Malformed}
        last == CHOOSE i \in over : \A j \in over : i <= j
    IN IF over = {} \/ tries[last] = Refused THEN <<>> ELSE tries[last]

-----------------------------------------------------------------------------
(* Agreement between the passes.                                            *)

\* _merge_relationships: one per key, as its longest description has it.
MergeRelationships(rels) ==
    LET keys == Distinct(rels, LAMBDA r : r.key)
    IN [k \in 1..Len(keys) |->
            FirstMax(SelectSeq(rels, LAMBDA r : r.key = keys[k].key), LAMBDA r : Len(r.text))]

MergeVariants(variants, count) ==
    LET best == FirstMax(variants, LAMBDA v : v.desc)
        parents == SelectSeq([i \in 1..Len(variants) |-> variants[i].parent], LAMBDA p : p # NoClass)
    IN [best EXCEPT !.parent = IF parents = <<>> THEN NoClass ELSE Majority(parents),
                    !.rels = MergeRelationships(FlattenSeq([i \in 1..Len(variants) |-> variants[i].rels])),
                    !.evidence = Distinct(FlattenSeq([i \in 1..Len(variants) |-> variants[i].evidence]), LAMBDA e : e),
                    !.confidence = count]

\* Mutant: a class counts as often as it occurs.
Occurrences(results, key) == Count(FlattenSeq(results), LAMBDA c : c.key = key)

\* The passes a class occurs in; more than once in one pass is once.
Agreeing(results, key) == Cardinality({p \in 1..Len(results) : \E i \in 1..Len(results[p]) : results[p][i].key = key})

\* consistency_checker_node: what enough passes have, the surest first.
AgreedClasses(results, threshold) ==
    LET all == FlattenSeq(results)
        keys == SelectSeq(Distinct(all, LAMBDA c : c.key), LAMBDA c : Agreeing(results, c.key) >= threshold)
        merged == [k \in 1..Len(keys) |->
                      MergeVariants(SelectSeq(all, LAMBDA c : c.key = keys[k].key), Agreeing(results, keys[k].key))]
        order == SortSeq([k \in 1..Len(merged) |-> k], LAMBDA i, j :
                      merged[i].confidence > merged[j].confidence
                      \/ (merged[i].confidence = merged[j].confidence /\ i < j))
    IN [k \in 1..Len(merged) |-> merged[order[k]]]

\* judge_faithfulness: nothing to read, or no answer, is the default for all; a
\* class the answer leaves out, or rates with a word unknown, has the default.
Faithfulness(answer, c) ==
    IF chunksOf # <<>> /\ answer # Nothing /\ c.uri \in DOMAIN answer /\ answer[c.uri] \in Ratings
    THEN answer[c.uri] ELSE "unrated"

\* validate_semantics
Validity(answer, c) == IF answer # Nothing /\ c.uri \in DOMAIN answer THEN answer[c.uri] ELSE "unrated"

-----------------------------------------------------------------------------
(* The structural gate.                                                     *)

Views(cs) == [i \in 1..Len(cs) |-> [key |-> cs[i].uri.name, label |-> cs[i].label]]
Resolved(target, cs) == target # NoClass /\ ResolveRangeClass(target, cs).tier # "miss"
FirstNamed(name, cs) == cs[CHOOSE i \in 1..Len(cs) : cs[i].uri.name = name /\ \A j \in 1..i-1 : cs[j].uri.name # name].uri

\* Mutant: the name the text gave is taken for a URI.
RepairedByName(rel, own, cs) ==
    LET found == FindRangeClass(rel.text, Views(cs), own.uri.name)
    IN IF Resolved(rel.target, cs) THEN ResolveRangeClass(rel.target, cs).uri
       ELSE IF found.found THEN [ns |-> "", name |-> found.key] ELSE rel.target

\* repair_relationship_targets, for one relationship.
RepairedTarget(rel, own, cs) ==
    LET found == FindRangeClass(rel.text, Views(cs), own.uri.name)
    IN IF Resolved(rel.target, cs) THEN ResolveRangeClass(rel.target, cs).uri
       ELSE IF found.found THEN FirstNamed(found.key, cs) ELSE rel.target

GateRepairs(cs) ==
    [i \in 1..Len(cs) |-> [cs[i] EXCEPT !.rels =
        [r \in 1..Len(cs[i].rels) |-> [cs[i].rels[r] EXCEPT !.target = RepairedTarget(cs[i].rels[r], cs[i], cs)]]]]

\* compute_health_report
Dangling(cs) ==
    UNION {{<<cs[i].uri, r.key>> : r \in {q \in Elements(cs[i].rels) : ~Resolved(q.target, cs)}} : i \in 1..Len(cs)}
HealthReport(cs) ==
    LET parents == {ResolveRangeClass(cs[i].parent, cs).uri : i \in {j \in 1..Len(cs) : Resolved(cs[j].parent, cs)}}
        targets == UNION {{ResolveRangeClass(r.target, cs).uri : r \in {q \in Elements(cs[i].rels) : Resolved(q.target, cs)}}
                              : i \in 1..Len(cs)}
    IN [dangling |-> Dangling(cs),
        islands |-> {cs[i].uri : i \in {j \in 1..Len(cs) :
            /\ cs[j].uri \notin parents \cup targets /\ ~Resolved(cs[j].parent, cs)
            /\ \A r \in Elements(cs[j].rels) : ~Resolved(r.target, cs)}},
        without_parent |-> Count(cs, LAMBDA c : c.parent = NoClass),
        without_properties |-> Count(cs, LAMBDA c : c.rels = <<>>)]

-----------------------------------------------------------------------------
(* Subsumption judge and filter.                                            *)

\* judge_subsumption: an answer for each batch of edges, its n-th verdict for
\* the n-th edge; what is no verdict is dropped before they are counted.
SubsumptionEdges(cs) == SelectSeq([i \in 1..Len(cs) |-> i], LAMBDA i : cs[i].parent # NoClass)
JudgeBatches(cs) == (Len(SubsumptionEdges(cs)) + JudgeBatch - 1) \div JudgeBatch
JudgeSubsumption(answers, cs) ==
    LET edges == SubsumptionEdges(cs)
        verdicts(b) == IF answers[b] = Nothing THEN <<>> ELSE SelectSeq(answers[b], LAMBDA v : v # Nothing)
        verdict(n) == LET given == verdicts((n - 1) \div JudgeBatch + 1)
                          k == ((n - 1) % JudgeBatch) + 1
                      IN IF k <= Len(given) /\ given[k] \in {"yes", "no"} THEN given[k] ELSE "unjudged"
    IN [i \in 1..Len(cs) |->
            IF i \notin Elements(edges) THEN cs[i]
            ELSE [cs[i] EXCEPT !.is_a = verdict(CHOOSE n \in 1..Len(edges) : edges[n] = i)]]

\* A generic label, furniture of the document, or one word few passes agree on.
IsNoise(c, total) == c.label \in GenericNames \/ (Len(c.label) = 1 /\ 2 * c.confidence < total)

\* _remove_within_run_duplicates: seen holds what stood first for a URI and for
\* a label; a surer one that comes later takes its place.
RemoveDuplicates(cs) ==
    LET step(acc, c) ==
            LET sameUri == SelectSeq(acc.seen, LAMBDA s : s.key = c.key)
                sameLabel == SelectSeq(acc.seen, LAMBDA s : s.label = c.label)
                twin == IF sameUri # <<>> THEN sameUri[1].is ELSE sameLabel[1].is
            IN IF sameUri = <<>> /\ sameLabel = <<>>
               THEN [seen |-> Append(acc.seen, [key |-> c.key, label |-> c.label, is |-> c]), out |-> Append(acc.out, c)]
               ELSE IF c.confidence > twin.confidence
               THEN [seen |-> <<[key |-> c.key, label |-> c.label, is |-> c]>> \o acc.seen,
                     out |-> Append(SelectSeq(acc.out, LAMBDA o : o # twin), c)]
               ELSE acc
    IN FoldLeft(step, [seen |-> <<>>, out |-> <<>>], cs).out

FilterClasses(cs, total) == RemoveDuplicates(SelectSeq(cs, LAMBDA c : ~IsNoise(c, total)))

-----------------------------------------------------------------------------
(* Domain tags.                                                             *)

ChunkCount(segs, d) == FoldLeft(LAMBDA n, s : IF s.domain = d THEN n + Len(s.ids) ELSE n, 0, segs)
SureOf(segs, d) == FoldLeft(LAMBDA n, s : IF s.domain = d THEN n + s.confidence ELSE n, 0, segs)

\* The domain with most chunks, then most confidence, then the first by name.
DominantDomain(segs, among) ==
    CHOOSE d \in among : \A e \in among \ {d} :
        \/ ChunkCount(segs, e) < ChunkCount(segs, d)
        \/ ChunkCount(segs, e) = ChunkCount(segs, d) /\ SureOf(segs, e) < SureOf(segs, d)
        \/ ChunkCount(segs, e) = ChunkCount(segs, d) /\ SureOf(segs, e) = SureOf(segs, d) /\ d < e

DetectedDomains(segs) ==
    LET sure == {s.domain : s \in {t \in Elements(segs) : t.confidence >= MinDomain}}
    IN IF segs = <<>> THEN {} ELSE IF sure # {} THEN sure
       ELSE {DominantDomain(segs, {s.domain : s \in Elements(segs)})}

\* assign_domain_tags: the domain most of the cited chunks are in; a chunk of a
\* domain that was not sure enough counts for the dominant one.
DomainTag(segs, c) ==
    LET detected == DetectedDomains(segs)
        fallback == DominantDomain(segs, detected)
        of(i) == LET at == CHOOSE k \in 1..Len(segs) : i \in Elements(segs[k].ids)
                              /\ \A j \in k+1..Len(segs) : i \notin Elements(segs[j].ids)
                 IN IF segs[at].domain \in detected THEN segs[at].domain ELSE fallback
        known == SelectSeq(c.evidence, LAMBDA i : i \in Assigned(segs))
    IN IF known = <<>> THEN fallback ELSE Majority([k \in 1..Len(known) |-> of(known[k])])

-----------------------------------------------------------------------------
(* The graph.                                                               *)

AgentsInit ==
    /\ node = "strategy" /\ chunksOf = <<>> /\ strategy = Nothing /\ segments = <<>>
    /\ batches = <<>> /\ passes = <<>> /\ classes = <<>> /\ health = Nothing /\ tags = <<>>

SelectStrategy ==
    /\ node = "strategy" /\ node' = "segment"
    /\ \E chunks \in Documents : chunksOf' = chunks /\ strategy' = StrategyOf(ClassifyDocument(chunks))
    /\ UNCHANGED <<segments, batches, passes, classes, health, tags>>

\* Switched off, and failing, the node passes no segments on.
SegmentDomains ==
    /\ node = "segment" /\ node' = "extract"
    /\ \E answer \in DomainAnswers :
           segments' = IF answer = Nothing THEN <<>> ELSE SegmentChunks(answer, Len(chunksOf))
    /\ UNCHANGED <<chunksOf, strategy, batches, passes, classes, health, tags>>

\* All batches of all passes run at once; what they answer is collected by position.
Extract ==
    /\ node = "extract" /\ node' = "consistency"
    /\ LET split == BatchChunks(chunksOf, strategy.batch)
       IN /\ batches' = split
          /\ \E answer \in [1..strategy.passes -> [1..Len(split) -> BatchAnswers]] :
                 passes' = [p \in 1..strategy.passes |->
                               FlattenSeq([b \in 1..Len(split) |-> ExtractBatch(answer[p][b])])]
    /\ UNCHANGED <<chunksOf, strategy, segments, classes, health, tags>>

\* The graph ends here when nothing was agreed on.
CheckConsistency ==
    /\ node = "consistency"
    /\ classes' = AgreedClasses(passes, Agreement)
    /\ node' = IF classes' = <<>> THEN "done" ELSE "judge"
    /\ UNCHANGED <<chunksOf, strategy, segments, batches, passes, health, tags>>

JudgeQuality ==
    /\ node = "judge" /\ node' = "gate"
    /\ \E ratings, scores \in ScoreAnswers :
           classes' = [i \in 1..Len(classes) |-> [classes[i] EXCEPT !.faithful = Faithfulness(ratings, classes[i]),
                                                                     !.valid = Validity(scores, classes[i])]]
    /\ UNCHANGED <<chunksOf, strategy, segments, batches, passes, health, tags>>

StructuralGate ==
    /\ node = "gate" /\ node' = "subsumption"
    /\ \E enabled \in GateSettings :
          /\ classes' = IF enabled THEN GateRepairs(classes) ELSE classes
          /\ health' = IF enabled THEN [before |-> HealthReport(classes), after |-> HealthReport(GateRepairs(classes))]
                       ELSE Nothing
    /\ UNCHANGED <<chunksOf, strategy, segments, batches, passes, tags>>

JudgeEdges ==
    /\ node = "subsumption" /\ node' = "filter"
    /\ \E answers \in [1..JudgeBatches(classes) -> VerdictAnswers] : classes' = JudgeSubsumption(answers, classes)
    /\ UNCHANGED <<chunksOf, strategy, segments, batches, passes, health, tags>>

Filter ==
    /\ node = "filter" /\ node' = "tag"
    /\ classes' = FilterClasses(classes, Len(passes))
    /\ UNCHANGED <<chunksOf, strategy, segments, batches, passes, health, tags>>

\* execute_run, before anything is stored.
TagDomains ==
    /\ node = "tag" /\ node' = "done"
    /\ tags' = IF segments = <<>> THEN <<>> ELSE [i \in 1..Len(classes) |-> DomainTag(segments, classes[i])]
    /\ UNCHANGED <<chunksOf, strategy, segments, batches, passes, classes, health>>

AgentsNext ==
    \/ SelectStrategy \/ SegmentDomains \/ Extract \/ CheckConsistency \/ JudgeQuality
    \/ StructuralGate \/ JudgeEdges \/ Filter \/ TagDomains

-----------------------------------------------------------------------------
(* The batches are the document, in its order, and none cuts a topic unit;  *)
(* the domains, when there are any, share out its chunks, and every class   *)
(* is tagged with one the run reports (extractor.py:87, domain_segmenter.py:*)
(* 108, domain_detection.py:104).                                           *)
DocumentCovered ==
    /\ batches # <<>> =>
        /\ FlattenSeq(batches) = [i \in 1..Len(chunksOf) |-> i]
        /\ \A b \in 1..Len(batches), i \in 2..Len(chunksOf) :
               chunksOf[i].unit # 0 /\ chunksOf[i].unit = chunksOf[i-1].unit
                   => (i \in Elements(batches[b]) <=> i - 1 \in Elements(batches[b]))
    /\ segments # <<>> => \A i \in 1..Len(chunksOf) : Cardinality({k \in 1..Len(segments) : i \in Elements(segments[k].ids)}) = 1
    /\ Elements(tags) \subseteq DetectedDomains(segments)

(* What leaves the filter was in enough passes, and no two classes of it    *)
(* share a URI or a label: of two with one label the surer stays.  Where it *)
(* is switched on, the gate leaves nothing for a second run and lets no     *)
(* resolved target dangle (consistency.py:206, filter.py:253,               *)
(* structural_gate.py:190).                                                 *)
KeptClassesSound ==
    /\ node \in {"tag", "done"} => \A i, j \in 1..Len(classes) :
        /\ Cardinality({p \in 1..Len(passes) : classes[i].key \in {c.key : c \in Elements(passes[p])}}) >= Agreement
        /\ i # j => classes[i].key # classes[j].key /\ classes[i].label # classes[j].label
    /\ node \in {"tag", "done"} => \A p \in 1..Len(passes) : \A c \in Elements(passes[p]) :
        Agreeing(passes, c.key) >= Agreement /\ ~IsNoise([c EXCEPT !.confidence = Agreeing(passes, c.key)], Len(passes))
            => \E i \in 1..Len(classes) : classes[i].label = c.label \/ classes[i].key = c.key
    /\ node = "subsumption" /\ health # Nothing =>
        /\ GateRepairs(classes) = classes
        /\ health.after.dangling \subseteq health.before.dangling
=============================================================================
