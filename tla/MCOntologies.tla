----------------------------- MODULE MCOntologies -----------------------------
(***************************************************************************)
(* Small instances of OntologyLibrary, EffectiveOntology and Lexicon, one  *)
(* behaviour each: part names the one that runs.                           *)
(***************************************************************************)
EXTENDS OntologyLibrary, EffectiveOntology, Lexicon, TLC

MCNames == [o1 |-> "n", o2 |-> "n", o3 |-> "m"]
MCDeclares == [o1 |-> {"o2"}, o2 |-> {}, o3 |-> {"o1"}]

MCClassOntology == <<"a", "b", "c">>
MCClassUri == <<"u1", "u2", "u1">>
MCClassLabel == <<"l1", "l2", "l2">>
\* The order in which the query returns the edges, and its reverse.
MCOrder == [i \in 1..27 |-> [from |-> ((i-1) \div 9) + 1, to |-> (((i-1) \div 3) % 3) + 1,
                             by |-> <<"a", "b", "c">>[((i-1) % 3) + 1]]]
MCOrders == {MCOrder, Reverse(MCOrder)}

MCReports == {<<[label |-> "role", occurrences |-> <<"u", "v">>]>>,
              <<[label |-> "title", occurrences |-> <<"u">>],
                [label |-> "role", occurrences |-> <<"u", Missing>>],
                [label |-> "title", occurrences |-> <<"u", "u">>]>>}
MCResolutions == {<<<<"u", "title", "h">>>>, <<<<"u", "role", Unscoped>>, <<"v", "title", "k">>>>}

MCSymmetry == Permutations(Slots) \cup Permutations(Curators)

VARIABLE part

OntologiesInit ==
    /\ part \in {"library", "effective", "lexicon"}
    /\ LibraryInit /\ EffectiveInit /\ LexiconInit

OntologiesNext ==
    /\ UNCHANGED part
    /\ \/ part = "library" /\ LibraryNext /\ UNCHANGED <<effective, lexicon>>
       \/ part = "effective" /\ EffectiveNext /\ UNCHANGED <<library, lexicon>>
       \/ part = "lexicon" /\ LexiconNext /\ UNCHANGED <<library, effective>>

OntologiesSpec == OntologiesInit /\ [][OntologiesNext]_<<part, library, effective, lexicon>>

-----------------------------------------------------------------------------
(* What docs and comments say and the code does not do: each is violated    *)
(* under MCOntologies.cfg, when it is checked in place of the properties.   *)

(* PRD.md: the imports graph has no cycle; add_ontology_import checks for   *)
(* one and inserts in two steps.                                            *)
ImportsAlwaysAcyclic == \A o \in Ontologies : o \notin Closure(o)

(* ontology_imports_graph.py: the graph of an ontology shows what it        *)
(* imports; the traversal also stops at an expired edge's target.           *)
ClosureReported == \A o \in Ontologies : Reported(o, FALSE) = Closure(o) \ {o}

(* imports.py:115, "The ETag invalidates the moment any participating       *)
(* ontology mutates or an imports edge changes": edits of classes and label *)
(* decisions do not touch the registry entry.                               *)
EtagFresh ==
    \A lucky \in BOOLEAN :
       LET answer == Effective(Viewed, <<>>, lucky) IN
       EtagMatches(client.tag, answer.tag) => client.edges = answer.edges /\ client.labels = answer.labels

(* ontology_imports_graph.py:203, "we run two traversals and union them":   *)
(* the code runs one, in which every step may go either way.                *)
BothIsUnion == Walked(Viewed, "both") = Walked(Viewed, "outbound") \cup Walked(Viewed, "inbound")

(* ontology_effective.py:850, "Detect subclass cycles that only exist after *)
(* merging": one representative of a cycle is looked at.                    *)
ImportCycleReported ==
    client # NoView /\ (\E e \in client.edges : e.by # Viewed /\ e.from \in Closed(e.to, client.edges)[Cardinality(ClassIds)])
        => client.conflicts.cycle # {}

(* ontology_effective.py:738, a cycle "that no single source ontology       *)
(* contains": one inside one imported ontology is reported as well.         *)
OnlyMergedCycles ==
    client # NoView => \A c \in client.conflicts.cycle : \A o \in Members :
        ~ ToSet(c) \subseteq OnCycle({e \in client.edges : e.by = o})

(* lexicon_repo.py:279, "it is how a decision survives re-extraction": the  *)
(* reads of one ontology see only the decisions that name it, and a later   *)
(* one for another ontology, or without any, expires those.                 *)
DecisionsShownInOntology ==
    \A r \in extracted :
        (\E i \in LiveOf(r.uri) : TRUE) => Shown(r, {r.ontology}) \subseteq {labelDecisions[i].label : i \in LiveOf(r.uri)}

(* lexicon_repo.py:272, "Re-deciding expires the prior decision": two       *)
(* decisions at once both find none to expire, and an expiry may fail.      *)
OneLiveDecision == \A u \in Concepts : Cardinality(LiveOf(u)) <= 1
=============================================================================
