------------------------------ MODULE MCCuration ------------------------------
(* Instances of Curation for TLC.                                           *)
EXTENDS Curation, TLC

Symmetry == Permutations(Threads)

-----------------------------------------------------------------------------
(***************************************************************************)
(* What documents, comments and docstrings say where the code does         *)
(* something else.                                                         *)
(***************************************************************************)
AllIdle == \A t \in Threads : op[t].pc = "idle"

(* services/curation.py:3: every decision that implies a data change has    *)
(* made it once record_decision is over.                                    *)
AuditedDecisionTakesEffect ==
    AllIdle => \A row \in audit : row[2] = "merge" \/ row \in effects

(* services/curation.py:3: every change, a merge included, has its row.     *)
EveryChangeAudited == AllIdle => effects \subseteq audit

(* services/ontology_rule_engine.py:240: subclass_of is a strict partial    *)
(* order, so nothing is related to itself.                                  *)
NothingRelatesToItself == \A e \in edges : docs[e.from].root # docs[e.to].root

(* services/promotion.py:242: an edge is promoted only with both its ends.  *)
PromotesInnerEdges ==
    [][\A t \in Threads : PromoteEdge(t) =>
          \A e \in edges' \ edges : docs[e.from].source # 0 /\ docs[e.to].source # 0]_vars

(* docs/DELETION_AND_REFERENTIAL_INTEGRITY.md:182: entities that are in     *)
(* production already are left as they are.                                 *)
PromotedOnce ==
    \A i, j \in Live : /\ docs[i].source # 0 /\ docs[i].source = docs[j].source
                       /\ docs[i].home = docs[j].home
                       => i = j
=============================================================================
