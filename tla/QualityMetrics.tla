---------------------------- MODULE QualityMetrics ----------------------------
(***************************************************************************)
(* What the quality dashboard says of an ontology, and how an extracted    *)
(* ontology is compared with a reference one (services/quality_metrics.py, *)
(* services/quality_recall.py, services/confidence.py).                    *)
(*                                                                         *)
(* Classes are numbers, confidences are in tenths, similarities are        *)
(* integers.  A subclass edge is [from, to, live]; properties of the       *)
(* ontology lead to classes by domains and ranges.                         *)
(***************************************************************************)
EXTENDS Integers, Sequences, FiniteSets, FiniteSetsExt

CONSTANTS
    Graded,         \* [classes, confidence, sub, domains, ranges, datatype, chunks]
    Similarities,   \* sim[r][e]: matrices of similarities
    Threshold,
    Verdicts        \* sequences of decisions on classes: [class, action]

VARIABLES graded, scorecard, comparison

quality == <<graded, scorecard, comparison>>

LiveSub(o) == {e \in o.sub : e.live}

\* _count_orphans
Orphans(o) == o.classes \ UNION {{e.from, e.to} : e \in LiveSub(o)}

\* _island_classes: no edge of any kind.
Islands(o) == o.classes \ (UNION {{e.from, e.to} : e \in LiveSub(o)} \cup {d[2] : d \in o.domains} \cup {r[2] : r \in o.ranges})

\* Mutant: paths of two edges at most.
PathsToNear(o, c) == {e \in LiveSub(o) : e.to = c /\ e.from \in {c} \cup {d.to : d \in {f \in o.sub : f.from = c}}}

\* The live edges into c at the end of a path from c, along edges of any age.
PathsTo(o, c) ==
    LET reach[n \in 0..Cardinality(o.sub)] ==
            IF n = 0 THEN {c} ELSE LET last == reach[n-1] IN last \cup {e.to : e \in {d \in o.sub : d.from \in last}}
    IN {e \in LiveSub(o) : e.to = c /\ e.from \in reach[Cardinality(o.sub)]}

\* _detect_cycles: 1..100 OUTBOUND with uniqueEdges 'path', the last edge live.
DetectCycles(o) == \E c \in o.classes : PathsTo(o, c) # {}

Rounded(a, b) ==
    IF 2 * (a % b) = b THEN (a \div b) + ((a \div b) % 2) ELSE (2 * a + b) \div (2 * b)

\* compute_health_score, from counts instead of ratios; n is the number of classes.
HealthScore(n, with_props, related, cycles, orphans, confidence, properties, chunks) ==
    LET least(a, b) == IF a < b THEN a ELSE b
        most(a, b) == IF a > b THEN a ELSE b
        structural == most(0, 10 * n - (IF cycles THEN 3 * n ELSE 0) - 10 * orphans)
    IN most(0, least(100, Rounded(200 * least(with_props, n) + 200 * least(related, n) + 15 * structural
                                  + 20 * confidence + 50 * least(properties, 3 * n) + 100 * least(chunks, n), 10 * n)))

ClassesWithProps(o) == {d[2] : d \in o.domains}
\* Counted only if the ontology has any relation.
ClassesWithRelationships(o) ==
    IF o.ranges = {} THEN {} ELSE {r[2] : r \in o.ranges} \cup {d[2] : d \in {e \in o.domains : e[1] = "object"}}
\* The average over the classes that have one (AVG ignores null), summed up for
\* as many classes as there are; the middle of the scale if none has.
TotalConfidence(o) ==
    LET known == {c \in o.classes : o.confidence[c] # 0}
        n == Cardinality(o.classes)
    IN IF known = {} THEN 5 * n
       ELSE (MapThenSumSet(LAMBDA c : o.confidence[c], known) * n) \div Cardinality(known)

\* compute_ontology_quality
OntologyQuality(o) ==
    LET n == Cardinality(o.classes)
        with_props == Cardinality(ClassesWithProps(o))
        related == Cardinality(ClassesWithRelationships(o))
    IN [with_props |-> with_props, related |-> related,
        orphans |-> Cardinality(Orphans(o)), islands |-> Islands(o), cycles |-> DetectCycles(o),
        health |-> IF n = 0 THEN -1
                   ELSE HealthScore(n, with_props, related, DetectCycles(o), Cardinality(Orphans(o)),
                                    TotalConfidence(o), Cardinality(o.ranges) + o.datatype, o.chunks)]

\* compute_confidence_calibration_metrics: decisions on classes that are still
\* stored with a confidence, by the confidence they have now.
Calibration(o, verdicts) ==
    LET judged == {i \in 1..Len(verdicts) : verdicts[i].class \in o.classes /\ o.confidence[verdicts[i].class] # 0}
        bucket(i) == IF o.confidence[verdicts[i].class] >= 10 THEN 9 ELSE o.confidence[verdicts[i].class]
        of(b, actions) == Cardinality({i \in judged : bucket(i) = b /\ verdicts[i].action \in actions})
    IN [b \in {bucket(i) : i \in judged} |->
           [total |-> of(b, {"approve", "edit", "reject", "merge"}), accepted |-> of(b, {"approve"}),
            edited |-> of(b, {"edit"}), rejected |-> of(b, {"reject"})]]

-----------------------------------------------------------------------------
\* Mutant: an extracted concept may be taken twice.
BestOfAll(sim, r, claimed) ==
    LET free == {e \in 1..Len(sim[r]) : sim[r][e] > 0}
    IN {e \in free : \A d \in free : sim[r][d] < sim[r][e] \/ (sim[r][d] = sim[r][e] /\ e <= d)}

\* The best of what no earlier concept has claimed, the first listed of equals.
BestUnclaimed(sim, r, claimed) ==
    LET free == {e \in 1..Len(sim[r]) : sim[r][e] > 0} \ claimed
    IN {e \in free : \A d \in free : sim[r][d] < sim[r][e] \/ (sim[r][d] = sim[r][e] /\ e <= d)}

\* _greedy_match: reference concepts in the order given.
GreedyMatch(sim) ==
    LET matched[r \in 0..Len(sim)] ==
            IF r = 0 THEN {}
            ELSE LET before == matched[r-1]
                     best == BestUnclaimed(sim, r, {p[2] : p \in before})
                 IN before \cup {<<r, e>> : e \in {f \in best : sim[r][f] >= Threshold}}
    IN matched[Len(sim)]

-----------------------------------------------------------------------------
NotGraded == [classes |-> {}, confidence |-> <<>>, sub |-> {}, domains |-> {}, ranges |-> {}, datatype |-> 0, chunks |-> 0]

QualityInit == graded = NotGraded /\ scorecard = OntologyQuality(NotGraded) /\ comparison = <<>>

\* GET /quality/{id}
ComputeQualityReport ==
    /\ graded = NotGraded /\ comparison = <<>>
    /\ \E o \in Graded, verdicts \in Verdicts :
           graded' = o /\ scorecard' = OntologyQuality(o) /\ comparison' = <<Calibration(o, verdicts)>>

\* POST /quality/{id}/recall
ComputeRecall ==
    /\ graded = NotGraded /\ comparison = <<>>
    /\ \E sim \in Similarities : comparison' = <<sim, GreedyMatch(sim)>>
    /\ UNCHANGED <<graded, scorecard>>

QualityNext == ComputeQualityReport \/ ComputeRecall

-----------------------------------------------------------------------------
CyclicNow(o) ==
    LET live == LiveSub(o)
        reach(c) == LET f[n \in 0..Cardinality(live)] ==
                            IF n = 0 THEN {e.to : e \in {d \in live : d.from = c}}
                            ELSE LET last == f[n-1] IN last \cup {e.to : e \in {d \in live : d.from \in last}}
                    IN f[Cardinality(live)]
    IN \E c \in o.classes : c \in reach(c)

(* A cycle is never missed, a class that connects to nothing is counted as  *)
(* an orphan too, and a score of 100 needs every class described by a       *)
(* property and related to another (quality_metrics.py:810, :695).          *)
ScorecardSound ==
    /\ CyclicNow(graded) => scorecard.cycles
    /\ scorecard.islands \subseteq Orphans(graded)
    /\ scorecard.health = 100 => ~scorecard.cycles /\ scorecard.orphans = 0
                                 /\ scorecard.with_props >= Cardinality(graded.classes)
                                 /\ scorecard.related >= Cardinality(graded.classes)

(* Recall and precision count every concept at most once, and no pair of    *)
(* concepts that are alike is left with both unmatched                      *)
(* (quality_recall.py:236).                                                 *)
MatchingSound ==
    Len(comparison) = 2 =>
        LET sim == comparison[1]
            pairs == comparison[2]
        IN /\ \A p, q \in pairs : p # q => p[1] # q[1] /\ p[2] # q[2]
           /\ \A r \in 1..Len(sim), e \in 1..Len(sim[1]) : sim[r][e] >= Threshold =>
                  \E p \in pairs : p[1] = r \/ p[2] = e
=============================================================================
