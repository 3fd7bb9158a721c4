----------------------------- MODULE MCAlgorithms -----------------------------
(***************************************************************************)
(* Small inputs for Chunking, EdgeRepair, ExtractionAgents, RuleEngine and *)
(* QualityMetrics, one behaviour each: part names the one that runs.       *)
(***************************************************************************)
EXTENDS Chunking, ExtractionAgents, RuleEngine, QualityMetrics, TLC

\* Chunking: lines and slides, paragraphs as the sizes of their sentences.
MCLines == {[kind |-> "heading", sizes |-> <<1>>], [kind |-> "blank", sizes |-> <<>>],
            [kind |-> "text", sizes |-> <<1>>], [kind |-> "text", sizes |-> <<2, 1>>],
            [kind |-> "text", sizes |-> <<1, 5, 2>>]}
MCSlides == [title : {"", "t"}, body : {<<>>, <<2, 1>>, <<3, 3>>}, notes : {<<>>, <<1>>, <<2, 2>>}]

\* EdgeRepair: names whose parts contain one another.
MCRepairClasses == <<[key |-> <<1>>, label |-> <<1>>], [key |-> <<1, 2>>, label |-> <<2>>],
                     [key |-> <<3>>, label |-> <<2, 1>>]>>
MCTexts == {<<>>, <<2, 1>>, <<1, 2, 1>>}
MCDomains == {<<>>, <<<<1>>>>, <<<<1, 2>>, <<1>>>>}

\* ExtractionAgents: the kinds of document, and what the model may answer.
Plain == [kind |-> "text", slide |-> FALSE, table |-> FALSE, technical |-> FALSE, unit |-> 0]
Slide(u) == [Plain EXCEPT !.slide = TRUE, !.unit = u]
MCDocuments == {<<Plain, Plain>>, <<Plain, Plain, Plain>>, <<[Plain EXCEPT !.table = TRUE]>>,
                <<[Plain EXCEPT !.technical = TRUE]>>, <<[Plain EXCEPT !.kind = "visual"], Slide(3), Slide(3)>>,
                <<Slide(1), Slide(1), Slide(1), Slide(2)>>}
MCBatchSizes == [short_technical |-> 2, long_narrative |-> 2, tabular_structured |-> 3,
                 visual_heavy_presentation |-> 2, default |-> 2]
U(name) == [ns |-> "a", name |-> name]
Extracted(key, name, label, desc, parent, rels, evidence) ==
    [key |-> key, uri |-> U(name), label |-> label, desc |-> desc, parent |-> parent, rels |-> rels,
     evidence |-> evidence, confidence |-> 0, faithful |-> "none", valid |-> "none", is_a |-> "unjudged"]
Order == Extracted(1, <<1>>, <<1>>, 2, NoClass,
                   <<[key |-> "has", target |-> [ns |-> "b", name |-> <<1, 2>>], text |-> <<1, 2>>]>>, <<1>>)
Line  == Extracted(2, <<1, 2>>, <<1, 2>>, 1, U(<<1>>),
                   <<[key |-> "of", target |-> [ns |-> "b", name |-> <<7>>], text |-> <<3>>]>>, <<2, 1>>)
Twin  == Extracted(3, <<3>>, <<1, 2>>, 3, U(<<1, 2>>), <<>>, <<9>>)
Thing == Extracted(4, <<4>>, <<4>>, 1, NoClass, <<[key |-> "x", target |-> U(<<1>>), text |-> <<>>]>>, <<>>)
LineB == [Line EXCEPT !.desc = 3, !.parent = U(<<4>>)]
MCGeneric == {<<4>>}
MCBatchAnswers == {<<Malformed, Refused, <<Order>>>>, <<<<Order, Line, Line>>>>,
                   <<Malformed, <<Line, Twin, Thing>>>>, <<<<Twin, Order>>>>}
MCDomainAnswers == {Nothing,
    <<[domain |-> 1, ids |-> <<1, 1, 9>>, confidence |-> 2], [domain |-> 2, ids |-> <<1, 2>>, confidence |-> 1]>>,
    <<[domain |-> 0, ids |-> <<1>>, confidence |-> 2], [domain |-> 2, ids |-> <<3>>, confidence |-> 1]>>}
MCVerdictAnswers == {Nothing, <<"no">>, <<Nothing, "yes">>, <<"unsure", "no">>}
MCScoreAnswers == {U(<<1>>) :> "EXPLICIT"}

\* RuleEngine: graphs of four classes for each rule in turn.
Few(S, n) == UNION {kSubset(k, S) : k \in 0..n}
MCPlain == [sub |-> {<<1, 2>>}, equiv |-> {}, disjoint |-> {}, order |-> <<1, 2, 3, 4>>, rows |-> <<>>,
            count |-> <<1, 1>> :> 1, labels |-> (1 :> 1)]
MCRows == {[class |-> 1, property |-> 1, type |-> t, value |-> v] :
    t \in {"minCardinality", "sh:minCount", "maxCardinality", "sh:maxCount", "cardinality"}, v \in {1, 2, 99}}
MCInputs ==
    {[MCPlain EXCEPT !.sub = s, !.order = o] :
        s \in Few({p \in (1..4) \X (1..4) : p[1] # p[2]} \cup {<<1, 1>>}, 4), o \in {<<1, 2, 3, 4>>, <<4, 2, 1, 3>>}}
    \cup {[MCPlain EXCEPT !.sub = s, !.equiv = q, !.disjoint = d] : s \in {{<<1, 2>>}, {<<1, 2>>, <<1, 3>>}},
        q \in Few({<<1, 2>>, <<2, 3>>, <<3, 1>>}, 2), d \in Few({<<2, 3>>, <<3, 2>>}, 1)}
    \cup {[MCPlain EXCEPT !.rows = r, !.count = <<1, 1>> :> n] : n \in 0..3, r \in SeqOf(MCRows, 2)}
    \cup {[MCPlain EXCEPT !.labels = l] : l \in [1..4 -> 1..5]}
MCPlurals == [f \in 1..5 |-> CASE f = 1 -> {3, 4} [] f = 2 -> {3} [] f = 5 -> {4} [] OTHER -> {}]

\* QualityMetrics: three classes, a subclass edge that comes live and expired.
MCSubs == {[from |-> 1, to |-> 2, live |-> TRUE], [from |-> 1, to |-> 2, live |-> FALSE],
           [from |-> 2, to |-> 1, live |-> TRUE], [from |-> 2, to |-> 3, live |-> TRUE],
           [from |-> 3, to |-> 1, live |-> TRUE], [from |-> 3, to |-> 3, live |-> FALSE]}
MCGraded == [classes : {{1}, {1, 2, 3}}, confidence : {<<0, 0, 0>>, <<10, 10, 10>>, <<0, 7, 5>>},
             sub : SUBSET MCSubs, domains : SUBSET {<<"object", 1>>, <<"object", 2>>, <<"data", 4>>, <<"data", 3>>},
             ranges : {{}, {<<"object", 3>>}}, datatype : {0, 9}, chunks : {0, 3}]
MCSims == [1..3 -> [1..2 -> 0..3]]
MCVerdicts == {<<>>, <<[class |-> 1, action |-> "approve"], [class |-> 2, action |-> "reject"],
                       [class |-> 2, action |-> "edit"]>>}

VARIABLE part

AlgorithmsInit ==
    /\ part \in {"chunking", "edges", "agents", "rules", "quality"}
    /\ ChunkingInit /\ EdgeRepairInit /\ AgentsInit /\ RulesInit /\ QualityInit

\* The rules look at every graph of classes, and one of them at every graph of
\* edges, where at most one of them raises.
AlgorithmsNext ==
    /\ UNCHANGED part
    /\ \/ part = "chunking" /\ ChunkingNext /\ UNCHANGED <<edgeRepair, agents, rules, quality>>
       \/ part = "edges" /\ EdgeRepairNext /\ UNCHANGED <<chunking, agents, rules, quality>>
       \/ part = "agents" /\ AgentsNext /\ UNCHANGED <<chunking, edgeRepair, rules, quality>>
       \/ part = "rules" /\ RulesNext /\ UNCHANGED <<chunking, agents, quality>>
       \/ part = "edges" /\ EvaluateRules({MCPlain}) /\ Cardinality(DOMAIN violations') >= 5
                            /\ UNCHANGED <<chunking, edgeRepair, agents, quality>>
       \/ part = "quality" /\ QualityNext /\ UNCHANGED <<chunking, edgeRepair, agents, rules>>

AlgorithmsSpec ==
    AlgorithmsInit /\ [][AlgorithmsNext]_<<part, chunking, edgeRepair, agents, rules, quality>>

-----------------------------------------------------------------------------
(* What docs and comments say and the code does not do: each is violated    *)
(* under MCAlgorithms.cfg, when it is checked in place of the properties.   *)

(* ingestion.py, chunks are kept under max_tokens: the overlap put in front *)
(* of a chunk is not counted when the first paragraph after it is added.    *)
ChunksFitAlways == \A c \in 1..Len(chunks) : Len(chunks[c].words) = 1 \/ Tokens(chunks[c].words) <= MaxTokens

(* structural_gate.py:12, references to classes that are not there are      *)
(* "surfaced": the filter after the gate drops classes that others refer to.*)
DanglingSurfaced == node = "done" /\ health # Nothing => Dangling(classes) \subseteq health.after.dangling

(* ontology_rule_engine.py, R1 reports a synonym cycle as an error when     *)
(* "B equivalent A (or transitively)": only the direct one.                 *)
SynonymCyclesFound ==
    \A o \in ontology : \A e \in o.sub :
        e[1] \in ClosedUnder({e[2]}, o.equiv \cup {<<d[2], d[1]>> : d \in o.equiv})
            => [severity |-> "error", ids |-> e] \in violations["R1"]

(* ontology_rule_engine.py:405, of two declarations "the strictest bound is *)
(* what's enforced": the later row wins.                                    *)
StrictestBoundEnforced ==
    \A o \in ontology : \A i \in 1..Len(o.rows) :
        o.rows[i].type = "minCardinality" /\ o.rows[i].value \in 0..98
            /\ o.count[<<o.rows[i].class, o.rows[i].property>>] < o.rows[i].value
        => \E v \in violations["CARDINALITY"] : v.ids = <<o.rows[i].class, o.rows[i].property>>

(* quality_metrics.py:782, "Detect cycles in the subclass_of hierarchy": a  *)
(* path may go through expired edges, its last one apart.                   *)
NoPhantomCycles == scorecard.cycles => CyclicNow(graded)

(* compute_health_score takes completeness for a share of the classes: a    *)
(* property may also count for a class that is not among them.              *)
CompletenessIsRatio == scorecard.with_props <= Cardinality(graded.classes)

(* quality_recall.py:246, the reference order "is itself arbitrary; what    *)
(* matters is the count": the count depends on it.                          *)
CountIndependentOfOrder ==
    Len(comparison) = 2 =>
        LET sim == comparison[1] IN
        \A i, j \in 1..Len(sim) :
            Cardinality(GreedyMatch([sim EXCEPT ![i] = sim[j], ![j] = sim[i]])) = Cardinality(comparison[2])
=============================================================================
