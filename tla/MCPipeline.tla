----------------------------- MODULE MCPipeline -----------------------------
(* Instances of Ingestion and ExtractionRun for TLC, and what documents and *)
(* comments say of them that does not hold.                                 *)
EXTENDS ExtractionRun, TLC

CONSTANTS x, y, o1, o2, o3

AllOrNothing == {{}, {x, y}}
OneEach == {[docs |-> <<1>>, target |-> o1, bases |-> {}],
            [docs |-> <<1, 2>>, target |-> None, bases |-> {o1}]}
WithLostTarget == OneEach \cup {[docs |-> <<1>>, target |-> o3, bases |-> {}]}

-----------------------------------------------------------------------------
(* A retry uses the configuration of the run it retries: its documents, its *)
(* target and its base ontologies (extraction.py:110-117).                  *)
RetryKeepsConfiguration ==
    \A r \in Runs : runs[r].retries # 0 =>
        LET original == runs[runs[r].retries] IN
        /\ runs[r].docs = original.docs
        /\ runs[r].target = original.target
        /\ runs[r].bases = original.bases

(* One live edge from a property to a class, no exceptions                  *)
(* (extraction.py:1719): two runs that overlap both insert one, and a run   *)
(* after an edit does not find the one the edit moved to its version.       *)
OneDomainEdgeAlways == \A o \in Ontologies, c \in Concepts : domain[o][c] + carried[o][c] <= 1

(* A run that is completed is fully landed (extraction.py:594): not what a  *)
(* failure that was swallowed left out.                                     *)
CompletedIsComplete ==
    \A r \in Runs : runs[r].status \in Successful /\ thread[r].pc = "done" /\ runs[r].ontology # None =>
        /\ \A d \in ToSet(thread[r].docs), c \in thread[r].result : <<r, d, c>> \in landed
        /\ <<runs[r].ontology, r>> \in produced

(* A run whose target is missing falls back to a new registration           *)
(* (extraction.py:2177), so a completed run has an ontology.                *)
CompletedHasOntology ==
    \A r \in Runs : runs[r].status \in Successful /\ thread[r].pc = "done" /\ crashes = 0
                        => runs[r].ontology # None
=============================================================================
