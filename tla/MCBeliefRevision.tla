--------------------------- MODULE MCBeliefRevision ---------------------------
(***************************************************************************)
(* Small instances of BeliefRevision: runs of any revisions with curators  *)
(* who decide on them, and the runs of RevisionAgent, one behaviour each:  *)
(* part names the one that runs.                                           *)
(***************************************************************************)
EXTENDS RevisionAgent

Symmetry == Permutations(Threads)

\* Account, and a status, whose name ends in a co-classifier.
MCBeliefs == <<[label |-> <<"account">>, uri |-> "u1", chunks |-> {}, evidence |-> {"c1"}],
               [label |-> <<"order", "status">>, uri |-> "u2", chunks |-> {}, evidence |-> {"c2"}]>>
Read(label, uri, chunks, quotes) == [label |-> label, uri |-> uri, chunks |-> chunks, quotes |-> quotes]
Account(uri, q) == Read(<<"account">>, uri, {"c9"}, {q})
MCExtractions == {
    <<Account("u7", "q2"), Read(<<"order", "status">>, "u9", {"c9"}, {"q3"})>>,
    <<Account("u1", "q1"), Account("u8", "q2"), Read(<<"account", "activity">>, "u5", {"c1"}, {"q1"})>>}
Says(action, quotes, confidence) ==
    [parses |-> TRUE, action |-> action, quotes |-> quotes, confidence |-> confidence, reasoned |-> TRUE]
MCAnswers == {[Says("RETRACT", {}, 0) EXCEPT !.parses = FALSE], Says("RETRACT", {"q2"}, 9), Says("RETRACT", {"q2"}, 7),
              Says("REINFORCE", {"q2", "c1"}, 9), Says("REINFORCE", {"q3"}, 5), Says("FLAG_FOR_CURATION", {}, 2)}

AgentOps == 2  \* bound: operations begun where the agent is modelled
Mishaps == 1   \* bound: crashes, failed reads and failed expiries together

VARIABLE part

\* The first part has runs of any revisions, with an answer for each of them.
AnyAnswered ==
    {[doc |-> d, key |-> k, answer |-> Says(action, {"q2"}, 9), label |-> <<"account">>] :
        d \in Documents, k \in 1 .. NumEntities + MaxOps * MaxTouchpoints, action \in Actions}

MCInit == \/ part = "decisions" /\ Init /\ AgentIdle /\ answered = AnyAnswered
          \/ part = "agent" /\ AgentInit

MCNext == /\ UNCHANGED part
          /\ \/ part = "decisions" /\ Next /\ UNCHANGED agentVars
             \/ part = "agent" /\ AgentNext /\ ops' <= AgentOps
          /\ aborts' + Cardinality(kept') <= Mishaps

MCSpec == MCInit /\ [][MCNext]_<<part, vars, agentVars>>

-----------------------------------------------------------------------------
(***************************************************************************)
(* What documents, comments and docstrings say where the code does         *)
(* something else.                                                         *)
(***************************************************************************)
(* temporal_revisions_repo.py:30 "the supersede pass is replay-safe": a run *)
(* that died is repeated and makes no revision a second time.               *)
ReplaySafeAfterCrash == NothingTwice

(* temporal_revisions_repo.py:450 logs "supersede RETRACT no-op" and goes   *)
(* on: a row says that a retraction was applied which the graph never saw,  *)
(* and no later run makes it (_find_existing_revision).                     *)
RetractionsApplied ==
    \A i \in DOMAIN rows : rows[i].status = "applied" /\ rows[i].revision.action = "RETRACT" =>
        \E j \in DOMAIN effects : effects[j] = rows[i].revision

(* temporal_revisions_repo.py:326, of what a revision needs, "in practice   *)
(* the IBR.10 node passes the full set": it passes none of it, so a REVISE  *)
(* of a run raises.                                                         *)
RevisionsSupplied ==
    \A t \in Threads :
        part = "agent" /\ op[t].pc = "find" /\ InHand(t).action \in NeedsPayload => Prior(InHand(t)) \/ op[t].payload

(* PRD.md:2739 FR-16.4, the language model is "**not** called for           *)
(* REINFORCED, REFINED, GAP-FILLING, or REDUNDANT verdicts".                *)
OnlyContestedAsked ==
    \A t \in Threads : \A n \in Under(t, "asking") : agent[t].asks[n].verdict \in {"CONTRADICTED", "UNCERTAIN"}

(* PRD.md:2747 FR-16.12, "revision rate above configurable threshold        *)
(* (default 50/min) halts the agent": across the border of two windows      *)
(* twice as many are let through.                                           *)
RateUnderThreshold ==
    \A i \in DOMAIN called :
        Cardinality({j \in DOMAIN called : called[j] \in called[i] .. called[i] + Window - 1}) <= MaxPerWindow

(* PRD.md:2737 FR-16.2, touchpoints are identified "via embedding           *)
(* similarity [...], URI/label match [...], and `extracted_from` chunk      *)
(* overlap": of which the last is never enough, nor stored with a class.    *)
SharedChunksTouch ==
    part = "agent" => \A concepts \in Extractions, k \in Live : \A i \in DOMAIN concepts :
        concepts[i].chunks = Beliefs[docs[k].entity].evidence =>
            \E n \in DOMAIN Touchpoints(concepts) :
                Touchpoints(concepts)[n].key = k /\ Touchpoints(concepts)[n].concept = i

(* revision_agent.py:209, quotes may be copied from "existing provenance OR *)
(* new evidence": the stored evidence is not among what is compared.        *)
ProvenanceQuotable ==
    \A t \in Threads : \A n \in DOMAIN agent[t].asks : \A answer \in Answers :
        LET ask == agent[t].asks[n]
            new == QuotesFor(agent[t].concepts, ask.concept)
        IN CrossCheck(answer, new \cup Beliefs[docs[ask.key].entity].evidence) => CrossCheck(answer, new)

(* PRD.md:2747 FR-16.12, "approved/published classes never auto-revise":    *)
(* a guard whose read fails lets the revision pass.                         *)
ApprovedNeverRevised ==
    [][\A t \in Threads : op[t].row = 0 /\ Write(t) =>
          \A k \in Live : docs[k].status = "approved" => docs'[k].live]_vars

(* revision_actions.py:388 "Whatever override is provided is applied via":  *)
(* when a row is about to be marked modified with the vertex or edge that   *)
(* the curator supplied, some revision of that entity was made.             *)
ModificationsApplied ==
    \A t \in Threads :
        op[t].pc = "stamp" /\ op[t].decision = "modified" /\ op[t].payload =>
            \E j \in DOMAIN effects : /\ effects[j].doc = rows[op[t].row].revision.doc
                                      /\ effects[j].key = rows[op[t].row].revision.key

(* api/revisions.py:28 "All POST handlers are *idempotent*": a row is       *)
(* decided once, though two handlers decide it at the same time.            *)
DecidedOnce == \A i \in DOMAIN rows : rows[i].decisions <= 1
=============================================================================
