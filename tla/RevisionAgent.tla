----------------------------- MODULE RevisionAgent -----------------------------
(***************************************************************************)
(* The pipeline's side of belief revision: the classes that the concepts   *)
(* of a document touch, the rule that judges each pair, the language model *)
(* that is asked about the contested ones, the check of its answers and    *)
(* the circuit breaker in front of it (services/touchpoint_discovery.py,   *)
(* revision_verdict.py, revision_agent.py, revision_safety.py).  What is   *)
(* decided goes through the steps of BeliefRevision.                       *)
(*                                                                         *)
(* A label is the sequence of its words, normalised; confidences are in    *)
(* tenths, scores in ten thousandths.                                      *)
(***************************************************************************)
EXTENDS BeliefRevision, SequencesExt

CONSTANTS
    Beliefs,         \* what is stored of the entities: [label, uri, chunks, evidence]
    Extractions,     \* a document's concepts: [label, uri, chunks, quotes]
    CoClassifiers,   \* last words of what is related to a class and no subtype
    Answers,         \* [parses, action, quotes, confidence, reasoned]
    MaxRetries, Parallel,        \* LLM_MAX_RETRIES, LLM_DEFAULT_CONCURRENCY
    MaxPerWindow, Window,        \* of the circuit breaker
    LastTick                     \* bound: the clock

ASSUME BreakerBounds == MaxPerWindow \in Nat /\ Window \in Nat

\* What is stored of a class, and what is read of one.
Belief == [label : Seq(STRING), uri : STRING, chunks : SUBSET STRING, evidence : SUBSET STRING]
Concept == [label : Seq(STRING), uri : STRING, chunks : SUBSET STRING, quotes : SUBSET STRING]
ASSUME DocumentsAssumption ==
    /\ Beliefs \in Seq(Belief) /\ \A k \in DOMAIN Beliefs : IsFiniteSet(Beliefs[k].chunks)
    /\ \A concepts \in Extractions :
          concepts \in Seq(Concept) /\ \A i \in DOMAIN concepts : IsFiniteSet(concepts[i].chunks)

VARIABLES
    agent,     \* agent[t]: the concepts, what the rules decided, what is asked
    limiter,   \* [start, count], shared by the process
    clock,
    called,    \* history: when revisions were let through the breaker
    answered   \* history: [key, label, answer, concepts] accepted

agentVars == <<agent, limiter, clock, called, answered>>

-----------------------------------------------------------------------------
(* Discovery.                                                               *)

Within(a, b) == \E i \in 0 .. Len(b) - Len(a) : SubSeq(b, i + 1, i + Len(a)) = a

\* _label_fuzzy_score, as a fraction.
LabelFuzzy(a, b) ==
    IF a = <<>> \/ b = <<>> THEN <<0, 1>>
    ELSE IF Within(a, b) THEN <<Len(a), Len(b)>>
    ELSE IF Within(b, a) THEN <<Len(b), Len(a)>> ELSE <<0, 1>>

Jaccard(a, b) == IF a \cup b = {} THEN <<0, 1>> ELSE <<Cardinality(a \cap b), Cardinality(a \cup b)>>

Signals(concept, belief) ==
    [uri |-> IF concept.uri # "" /\ concept.uri = belief.uri THEN 1 ELSE 0,
     label |-> IF concept.label = belief.label THEN 1 ELSE 0,
     fuzzy |-> LabelFuzzy(concept.label, belief.label),
     chunks |-> Jaccard(concept.chunks, belief.chunks)]

\* _blend without embeddings, which the node never supplies: 0.85 in all.
Blend(s) ==
    LET of == 85 * s.fuzzy[2] * s.chunks[2]
        sum == (30 * s.uri + 25 * s.label) * s.fuzzy[2] * s.chunks[2]
                   + 15 * s.fuzzy[1] * s.chunks[2] + 15 * s.chunks[1] * s.fuzzy[2]
    IN (20000 * sum + of) \div (2 * of)

TouchpointThreshold == 3000

\* score_touchpoint, of the classes there are.
Touching(concept, i) ==
    {p \in {[key |-> k, concept |-> i, signals |-> Signals(concept, Beliefs[docs[k].entity])] : k \in Live} :
        Blend(p.signals) >= TouchpointThreshold}

Ahead(p, q) == Blend(p.signals) > Blend(q.signals) \/ (Blend(p.signals) = Blend(q.signals) /\ p.key < q.key)

\* discover_touchpoints: the closest first, which is to say by how many are ahead.
TouchpointsOf(concept, i) ==
    LET found == Touching(concept, i)
    IN [n \in 1 .. Cardinality(found) |-> CHOOSE p \in found : Cardinality({q \in found : Ahead(q, p)}) = n - 1]

Touchpoints(concepts) ==
    FlattenSeq([i \in DOMAIN concepts |-> IF concepts[i].label = <<>> THEN <<>> ELSE TouchpointsOf(concepts[i], i)])

-----------------------------------------------------------------------------
(* Verdicts.                                                                *)

\* _structural_features_for supplies none of the structure around a class.
NoFeatures == [contradicted |-> FALSE, linked |-> FALSE, ranges |-> 0, shared |-> 0, subclasses |-> FALSE]

\* label_co_classifier_suffix
CoClassified(label) == Len(label) > 1 /\ Last(label) \in CoClassifiers

AtLeast(fraction, tenths) == 10 * fraction[1] >= tenths * fraction[2]

Filled(score) == IF score >= 3000 THEN "GAP_FILL" ELSE "FLAG_FOR_CURATION"

\* classify: the first rule that applies.
Classify(label, s, features) ==
    LET score == Blend(s)
        named == s.fuzzy[1] > 0
        Mechanical(verdict, action) == [verdict |-> verdict, action |-> action]
    IN IF features.contradicted THEN Mechanical("CONTRADICTED", "FLAG_FOR_CURATION")
       ELSE IF features.linked THEN Mechanical("REINFORCED", "REINFORCE")
       ELSE IF s.uri = 1 \/ (s.label = 1 /\ score >= 5500) THEN Mechanical("REDUNDANT", "REVISE")
       ELSE IF CoClassified(label) /\ named THEN Mechanical("UNCERTAIN", "FLAG_FOR_CURATION")
       ELSE IF \/ named /\ (features.ranges >= 1 \/ features.shared >= 2)
               \/ AtLeast(s.fuzzy, 5) /\ features.subclasses THEN Mechanical("GAP-FILLING", Filled(score))
       ELSE Mechanical(IF AtLeast(s.fuzzy, 4) THEN "REFINED" ELSE "UNCERTAIN", "FLAG_FOR_CURATION")

Contested(m) == m.verdict \in {"CONTRADICTED", "UNCERTAIN"} \/ m.action = "FLAG_FOR_CURATION"

\* Every touchpoint with its verdict.
Judged(concepts) ==
    LET points == Touchpoints(concepts)
        Verdict(p) == Classify(concepts[p.concept].label, p.signals, NoFeatures)
    IN [n \in DOMAIN points |->
           [key |-> points[n].key, concept |-> points[n].concept,
            verdict |-> Verdict(points[n]).verdict, action |-> Verdict(points[n]).action]]

\* What is left to a rule, and what is asked about.
Parted(judged, contested) ==
    FlattenSeq([n \in DOMAIN judged |-> IF Contested(judged[n]) = contested THEN <<judged[n]>> ELSE <<>>])

-----------------------------------------------------------------------------
(* The language model.                                                      *)

\* label_to_class: of two concepts with one label, the last.
QuotesFor(concepts, i) ==
    concepts[CHOOSE j \in DOMAIN concepts :
                 /\ concepts[j].label = concepts[i].label
                 /\ \A k \in DOMAIN concepts : concepts[k].label = concepts[i].label => k <= j].quotes

AgentActions == {"REINFORCE", "REVISE", "RETRACT", "FLAG_FOR_CURATION"}

\* Mutant: quotes are not looked up in the evidence.
CrossCheckForm(answer, evidence) ==
    /\ answer.action \in AgentActions /\ answer.reasoned
    /\ answer.action = "RETRACT" => answer.confidence >= 8
    /\ answer.action # "FLAG_FOR_CURATION" => answer.quotes # {}

\* cross_check: evidence is that of the new document; _fetch_existing_belief
\* leaves out what is stored with the class.
CrossCheck(answer, evidence) ==
    /\ answer.action \in AgentActions /\ answer.reasoned
    /\ answer.quotes \subseteq evidence
    /\ answer.action = "RETRACT" => answer.confidence >= 8
    /\ answer.action # "FLAG_FOR_CURATION" => answer.quotes # {}

\* _downgrade: what is not answered, or not well enough, is left to a curator.
Downgraded == "FLAG_FOR_CURATION"

NoAgent == [doc |-> CHOOSE d \in Documents : TRUE, concepts |-> <<>>, auto |-> <<>>, asks |-> <<>>]

AgentIdle ==
    /\ agent = [t \in Threads |-> NoAgent]
    /\ limiter = [start |-> 0, count |-> 0]
    /\ clock = 0 /\ called = <<>>

AgentInit == InitWith(Len(Beliefs)) /\ AgentIdle /\ answered = {}

Asked(m) == [key |-> m.key, concept |-> m.concept, verdict |-> m.verdict, state |-> "waiting", tries |-> 0, action |-> Downgraded]

Prepared(d, concepts, judged) ==
    LET contested == Parted(judged, TRUE)
    IN [doc |-> d, concepts |-> concepts, auto |-> Parted(judged, FALSE),
        asks |-> [n \in DOMAIN contested |-> Asked(contested[n])]]

\* belief_revision_node up to the language model.
BeginNode(t) ==
    /\ CanBegin(t)
    /\ \E d \in Documents, concepts \in Extractions :
          LET judged == Judged(concepts)
          IN IF judged = <<>> THEN Count /\ UNCHANGED <<op, agent>>
             ELSE /\ Begin(t, [IdleOp EXCEPT !.pc = "ask"])
                  /\ agent' = [agent EXCEPT ![t] = Prepared(d, concepts, judged)]
    /\ UNCHANGED <<docs, rows, effects, kept, aborts, limiter, clock, called, answered>>

\* Mutant: the window goes on from where it began.
RotatedCount == IF clock - limiter.start >= Window THEN [limiter EXCEPT !.count = 0] ELSE limiter

\* _maybe_rotate
Rotated == IF clock - limiter.start >= Window THEN [start |-> clock, count |-> 0] ELSE limiter

Tripped == MaxPerWindow > 0 /\ Rotated.count >= MaxPerWindow

\* check_and_increment where the breaker is not tripped.
Pass ==
    /\ limiter' = IF MaxPerWindow = 0 THEN limiter ELSE [Rotated EXCEPT !.count = @ + 1]
    /\ called' = Append(called, clock)

Under(t, state) == {n \in DOMAIN agent[t].asks : agent[t].asks[n].state = state}

\* revise, up to the language model: check_and_increment, of any that waits for
\* the semaphore; a tripped breaker flags the revision unasked.
LetThrough(t) ==
    /\ op[t].pc = "ask" /\ Cardinality(Under(t, "asking")) < Parallel
    /\ \E n \in Under(t, "waiting") :
          IF Tripped
          THEN /\ agent' = [agent EXCEPT ![t].asks[n].state = "done"]
               /\ limiter' = Rotated /\ UNCHANGED called
          ELSE agent' = [agent EXCEPT ![t].asks[n].state = "asking"] /\ Pass
    /\ UNCHANGED <<vars, clock, answered>>

Unheeded(ask) == [ask EXCEPT !.tries = @ + 1, !.state = IF ask.tries = MaxRetries THEN "done" ELSE @]

\* One round trip: what is answered is accepted, asked again or given up.
Answer(t) ==
    /\ op[t].pc = "ask"
    /\ \E n \in Under(t, "asking"), answer \in Answers :
          LET ask == agent[t].asks[n]
              evidence == QuotesFor(agent[t].concepts, ask.concept)
          IN IF answer.parses /\ CrossCheck(answer, evidence)
             THEN /\ agent' = [agent EXCEPT ![t].asks[n] = [@ EXCEPT !.state = "done", !.action = answer.action]]
                  /\ answered' = answered \cup {[doc |-> agent[t].doc, key |-> ask.key, answer |-> answer,
                                                 label |-> agent[t].concepts[ask.concept].label]}
             ELSE /\ agent' = [agent EXCEPT ![t].asks[n] = Unheeded(ask)]
                  /\ UNCHANGED answered
    /\ UNCHANGED <<vars, limiter, clock, called>>

\* Mutant: proposals are taken in the order in which they come.
Misplaced(asks, n) == asks[Len(asks) + 1 - n].action

\* asyncio.gather keeps the order of the contexts.
ProposalFor(asks, n) == asks[n].action

\* What the rules decided and what the batch proposes goes to supersede.
HandOver(t, asks) ==
    LET Rev(m) == [doc |-> agent[t].doc, key |-> m.key, action |-> m.action]
        auto == [n \in DOMAIN agent[t].auto |-> Rev(agent[t].auto[n])]
        proposed == [n \in DOMAIN asks |-> [doc |-> agent[t].doc, key |-> asks[n].key, action |-> ProposalFor(asks, n)]]
        todo == auto \o proposed
    IN /\ op' = [op EXCEPT ![t] = IF todo = <<>> THEN IdleOp ELSE [@ EXCEPT !.pc = "guard", !.todo = todo]]
       /\ agent' = [agent EXCEPT ![t] = NoAgent]
       /\ UNCHANGED <<docs, rows, effects, counters, clock, answered>>

BatchAnswered(t) ==
    /\ op[t].pc = "ask" /\ Under(t, "waiting") \cup Under(t, "asking") = {}
    /\ HandOver(t, agent[t].asks)
    /\ UNCHANGED <<limiter, called>>

\* A client that cannot be built (_get_llm) fails the batch, after the breaker has
\* counted its revision: no contested touchpoint is dealt with.
NoClient(t) ==
    /\ op[t].pc = "ask" /\ Cardinality(Under(t, "asking")) < Parallel /\ Under(t, "waiting") # {}
    /\ ~Tripped /\ Pass
    /\ HandOver(t, <<>>)

Tick == clock < LastTick /\ clock' = clock + 1 /\ UNCHANGED <<vars, agent, limiter, called, answered>>

AgentDies(t) ==
    /\ Abort(t) /\ agent' = [agent EXCEPT ![t] = NoAgent]
    /\ UNCHANGED <<limiter, clock, called, answered>>

\* _load_existing_entity takes a read that fails for an entity that is not there.
GuardUnread(t) ==
    /\ op[t].pc = "guard" /\ aborts < MaxAborts
    /\ aborts' = aborts + 1 /\ Goto(t, "find")
    /\ UNCHANGED <<docs, rows, effects, overlapped, kept, ops>>

Superseding(t) ==
    /\ Guard(t) \/ GuardUnread(t) \/ FindPrior(t) \/ ReadCurrent(t) \/ Write(t) \/ Record(t) \/ Approve(t)
    /\ UNCHANGED agentVars

AgentNext ==
    \/ Tick
    \/ \E t \in Threads :
           BeginNode(t) \/ LetThrough(t) \/ Answer(t) \/ BatchAnswered(t) \/ NoClient(t) \/ Superseding(t) \/ AgentDies(t)

AgentSpec == AgentInit /\ [][AgentNext]_<<vars, agentVars>>

-----------------------------------------------------------------------------
(* Whatever the language model answers, in whatever order, a run changes    *)
(* the graph only as an accepted answer about that very class said, and on  *)
(* quotes that all stand in the document (revision_agent.py:21).            *)
GroundedChanges ==
    \A i \in DOMAIN effects : \E a \in answered :
        /\ a.doc = effects[i].doc /\ a.key = effects[i].key /\ a.answer.action = effects[i].action
        /\ a.answer.quotes # {}
        /\ \A q \in a.answer.quotes : \E concepts \in Extractions : \E j \in DOMAIN concepts :
              concepts[j].label = a.label /\ q \in concepts[j].quotes

(* However revisions and the borders of windows fall, no stretch of time as *)
(* long as a window sees more than two windows' worth of revisions let      *)
(* through (RevisionRateLimiter).                                           *)
BreakerHolds ==
    MaxPerWindow > 0 => \A i \in DOMAIN called :
        Cardinality({j \in DOMAIN called : called[j] \in called[i] .. called[i] + Window - 1}) <= 2 * MaxPerWindow
=============================================================================
