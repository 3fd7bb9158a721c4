----------------------------- MODULE MCTemporal -----------------------------
(* Instances of TemporalStore for TLC.                                      *)
EXTENDS TemporalRefinement, TLC

ThreadSymmetry == Permutations(Threads)

-----------------------------------------------------------------------------
(***************************************************************************)
(* What documents, comments and docstrings say where the code does         *)
(* something else.                                                         *)
(***************************************************************************)
(* docs/adr/002-temporal-pattern.md:93 "Edge re-creation is batched in a    *)
(* single AQL transaction for atomicity": an edit that is cut short while   *)
(* it re-creates edges leaves every relation with a current copy.           *)
InterruptedEditKeepsRelations ==
    [][\A t \in Threads :
          op[t].pc \in {"outbound", "inbound"} /\ op'[t].pc = "idle" =>
              \A l \in DOMAIN edges : edges[l].lineage = l => LiveCopies(l)' # {}]_vars

(* services/temporal.py:167 "Returns the expired document, or None if not   *)
(* found / already expired": expire_entity leaves an expired document be.   *)
ExpiredVersionKeepsItsStamp ==
    [][\A i \in DOMAIN docs :
          docs[i].expired # NeverExpires => docs'[i].expired = docs[i].expired]_vars

(* docs/adr/002-temporal-pattern.md:43 "All edges to/from old vertex are    *)
(* expired": once a concept has moved on to a later version, no current     *)
(* edge, provenance included, is left on an earlier one.                    *)
EditMovesAllEdges ==
    AllIdle /\ aborts = 0 =>
        \A e \in Current(edges) : \A k \in {edges[e].from, edges[e].to} \cap DOMAIN docs :
            k \in Current(docs) \/ CurrentOf(docs[k].concept) = {}
=============================================================================
