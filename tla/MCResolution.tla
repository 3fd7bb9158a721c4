----------------------------- MODULE MCResolution -----------------------------
(***************************************************************************)
(* Small instances of EntityResolution, for classes, and of Individuals,   *)
(* one behaviour each: part names the one that runs.                       *)
(***************************************************************************)
EXTENDS EntityResolution, Individuals, TLC

Symmetry == Permutations(Ontologies) \cup Permutations(Threads)

Company == [home |-> "o1", word |-> "company"]
Person == [home |-> "o1", word |-> "person"]
Product == [home |-> "o2", word |-> "product"]
MCTerms == {Company, Person, Product}
MCNear == {{"acme", "acme inc"}, {"acme", "acme ltd"}, {"acme inc", "acme ltd"}}
\* The name of the first was normalised by the language model.
MCSeeded == <<[name |-> "acme", class |-> Company, span |-> FALSE],
              [name |-> "acme inc", class |-> Company, span |-> TRUE],
              [name |-> "acme ltd", class |-> Company, span |-> TRUE],
              [name |-> "anvil", class |-> Product, span |-> TRUE]>>
MCFacts == <<<<2, 4>>, <<3, 2>>>>
MCExcerpts == <<{"acme", "anvil"}, {"anvil"}>>
M(name, word) == [name |-> name, word |-> word]
MCReadings == {[mentions |-> <<>>, statements |-> <<>>],
               [mentions |-> <<M("acme", "company"), M("bolt", "gadget"), M("acme", "company")>>,
                statements |-> <<<<"acme", "bolt">>, <<"acme", "acme">>>>]}
MCRequests == {[homes |-> <<"o1">>, guided |-> TRUE, scoped |-> TRUE],
               [homes |-> <<"o1", "o2">>, guided |-> FALSE, scoped |-> FALSE]}
MCRelevant == {Company}

VARIABLE part

MCInit == part \in {"classes", "individuals"} /\ Init /\ AboxInit

MCNext == /\ UNCHANGED part
          /\ \/ part = "classes" /\ Next /\ UNCHANGED aboxVars
             \/ part = "individuals" /\ AboxNext /\ UNCHANGED vars

MCSpec == MCInit /\ [][MCNext]_<<part, vars, aboxVars>>

-----------------------------------------------------------------------------
(***************************************************************************)
(* What documents, comments and docstrings say where the code does         *)
(* something else.                                                         *)
(***************************************************************************)
AllIdle == \A t \in Threads : op[t].pc = "idle"

(* docs/REMAINING_WORK_PLAN.md:245: the candidates endpoint is scoped by    *)
(* run: a run lists pairs of the ontology it was for.                       *)
RunListsItsOwn ==
    \A r \in DOMAIN runs : runs[r].status = "complete" =>
        \A p \in Listed(r) : docs[pairs[p].from].ontology = runs[r].ontology

(* api/er.py:184: a rejected pair does not come up again.                   *)
RejectedStaysHidden ==
    \A p, q \in DOMAIN pairs :
        /\ pairs[p].rejected
        /\ pairs[q].from = pairs[p].from /\ pairs[q].to = pairs[p].to
        => ~Unresolved(q)

(* docs/DELETION_AND_REFERENTIAL_INTEGRITY.md:154: after a merge the edges  *)
(* of the loser are the winner's.                                           *)
MergeTransfersEdges == AllIdle => \A e \in edges : {e[1], e[2]} \subseteq Live

Quiet == part = "individuals" /\ \A h \in Handlers : task[h].pc = "idle"

(* individuals_repo.py:413: approve is "a curator endorsement; the          *)
(* individual stays in the live A-box".                                     *)
ApprovedStays == \A i \in DOMAIN people : people[i].status = "approved" => people[i].live

(* individuals_repo.py:416, of reject: "the fact drops out of the live      *)
(* A-box", with the edges of the individual.                                *)
RejectedIsGone == Quiet /\ deaths = 0 => \A i \in refused : FactsOf(i) = {} /\ TypesOf(i) = {}

(* abox_canonicalize.py:11: only individuals of the same type are merged.   *)
SameTypeMerged == \A u \in unions : u.alike

(* abox_canonicalize.py:8, a golden individual: the one kept is there.      *)
SurvivorSurvives ==
    Quiet /\ deaths = 0 /\ refused = {} => \A u \in unions :
        \E w \in unions : people[w.keep].live /\ people[w.keep].home = people[u.keep].home

(* abox_canonicalize.py:9 "unioning provenance": the survivor lists whom    *)
(* it has absorbed.                                                         *)
ProvenanceUnited == Quiet /\ deaths = 0 => \A u \in unions : u.drop \in people[u.keep].from

(* abox_canonicalize.py:44: kept is the one "grounded in more source spans".*)
BetterGroundedKept == \A u \in unions : Grounded(u.drop) => Grounded(u.keep)

(* abox_extraction.py:27, a fact between two domains keeps its mark; its    *)
(* ontology is the one of its subject.                                      *)
MovedAsTheyWere ==
    \A f \in DOMAIN facts :
        LET was == facts[facts[f].root] IN facts[f].cross = was.cross /\ facts[f].home = was.home

(* abox_canonicalize.py:117 "self-loops produced by the merge are dropped": *)
(* what an individual has with itself is not produced by the merge.         *)
OwnLoopsMove ==
    Quiet /\ deaths = 0 /\ refused = {} => \A f \in DOMAIN facts :
        facts[f].from = facts[f].to => \E g \in Continued(f) : facts[g].live

(* PRD.md:2809 FR-18.4: "Coreferent mentions collapse to one individual     *)
(* [...] across chunks and documents".                                      *)
OnePerMention ==
    \A i, j \in Alive(people) :
        people[i].home = people[j].home /\ people[i].name = people[j].name /\
        (\E k \in TypesOf(i), l \in TypesOf(j) : typings[k].class = typings[l].class) => i = j

(* individuals_repo.py:185: "Live individual count per T-box class".        *)
CountsIndividuals ==
    \A class \in ClassTerms : CountByClass(class) = Cardinality(InstanceGraph(class.home, {class}).individuals)

(* PRD.md:2813 FR-18.8: "Every assertion must be grounded in a source span  *)
(* [...] ungrounded/invented individuals are rejected or flagged".          *)
UngroundedFactsFlagged ==
    \A f \in Alive(facts) : facts[f].span \/ {facts[f].from, facts[f].to} \cap Ungrounded(facts[f].home) # {}

(* abox_validation.py:18, a class that does not exist: nor is there one     *)
(* where no type was written at all.                                        *)
UntypedFlagged ==
    Quiet => \A i \in Alive(people) : TypesOf(i) # {} \/ Ungrounded(people[i].home) # {}
=============================================================================
