------------------------------- MODULE Lexicon -------------------------------
(***************************************************************************)
(* Curated labels: the queue of colliding labels and the decisions that    *)
(* settle them (services/label_collisions.py, db/lexicon_repo.py,          *)
(* services/label_overlay.py, api/ontology/lexicon.py).                    *)
(*                                                                         *)
(* A detection writes only fields no resolution reads or writes, so it is  *)
(* one step.  A resolution records one decision after the other, each with *)
(* a read, an expiry and an insert of its own, of which the expiry may fail *)
(* unnoticed (temporal.py:197) and anything else may end the resolution.   *)
(***************************************************************************)
EXTENDS Naturals, Sequences, SequencesExt, FiniteSets

CONSTANTS
    Concepts,     \* concept URIs
    Homes,        \* ontologies, each of which may have rows of a concept
    Labels,       \* labels, in their normalised form
    Generic,      \* the labels of STOPWORD_LABELS
    Reports,      \* what producers send: [label, occurrences]; Missing has no URI
    Missing,
    Resolutions,  \* what curators send: sequences of <<uri, label, ontology>>
    Curators,     \* resolutions that may be under way at the same time
    MaxRequests,
    MaxLapses     \* expiries that fail, resolutions that are broken off

Unscoped == ""    \* the ontology_id of a decision that was sent without one
Everywhere == Homes \cup {Unscoped}

ASSUME LexiconAssumption == Resolutions \subseteq Seq((Concepts \cup {Missing}) \X Labels \X Everywhere)

VARIABLES
    extracted,       \* live extracted rows: [uri, label, ontology]
    queue,           \* queue[l]: the collision of label l: status and occurrences
    labelDecisions,  \* label_decisions in the order of insertion
    curator,         \* curator[c]: the resolution c carries out
    requests, lapses,
    overlapped,      \* history: concepts two resolutions were recording at once
    unexpired,       \* history: concepts of which an expiry has failed
    lapsed           \* history: concepts whose recording was broken off after the
                     \* expiry, until they are decided again

lexicon == <<extracted, queue, labelDecisions, curator, requests, lapses, overlapped, unexpired, lapsed>>
asRecorded == <<labelDecisions, lapses, overlapped, unexpired, lapsed>>

NoCollision == [status |-> "none", occurrences |-> {}]
AtRest == [at |-> "rest", label |-> "", known |-> {}, todo |-> <<>>, prior |-> 0]

LexiconInit ==
    /\ LET home == CHOOSE h \in Homes : TRUE
           first == CHOOSE l \in Labels \ Generic : TRUE
       IN extracted = {[uri |-> u, label |-> first, ontology |-> home] : u \in Concepts}
    /\ queue = [l \in Labels |-> NoCollision]
    /\ labelDecisions = <<>>
    /\ curator = [c \in Curators |-> AtRest]
    /\ requests = 0 /\ lapses = 0 /\ overlapped = {} /\ unexpired = {} /\ lapsed = {}

Request == requests < MaxRequests /\ requests' = requests + 1
Lapse == lapses < MaxLapses /\ lapses' = lapses + 1

-----------------------------------------------------------------------------
LiveOf(u) == {i \in 1..Len(labelDecisions) : labelDecisions[i].uri = u /\ labelDecisions[i].live}

\* live_decisions_by_uri, then apply_to_rows, over the decisions made for one of
\* the ontologies of scope: any live one of them may be the last.
Shown(row, scope) ==
    LET told == {i \in LiveOf(row.uri) : labelDecisions[i].ontology \in scope} IN
    IF told = {} THEN {row.label} ELSE {labelDecisions[i].label : i \in told}

\* Mutant: a collision found again is open again.
UpsertReopening(q, l, found) == [q EXCEPT ![l] = [status |-> "open", occurrences |-> found]]

\* upsert_collision: a settled one stays settled, with fresh occurrences.
UpsertCollision(q, l, found) ==
    [q EXCEPT ![l] = [status |-> IF @.status = "none" THEN "open" ELSE @.status, occurrences |-> found]]

\* detect_in_ontologies: labels of two concepts or more, generic ones only on request.
Detect ==
    /\ Request
    /\ \E include_stopwords \in BOOLEAN :
       LET carriers(l) == {r.uri : r \in {s \in extracted : s.label = l}}
           found == {l \in Labels : Cardinality(carriers(l)) > 1 /\ (l \in Generic => include_stopwords)}
       IN queue' = FoldLeft(LAMBDA q, l : UpsertCollision(q, l, carriers(l)), queue, SetToSeq(found))
    /\ UNCHANGED <<extracted, curator, asRecorded>>

\* ingest_report: an item with fewer than two occurrences, or one without a
\* concept, is rejected and the next one is looked at.
Ingest ==
    /\ Request
    /\ \E items \in Reports :
       LET usable == SelectSeq(items, LAMBDA i : Len(i.occurrences) > 1 /\ Missing \notin ToSet(i.occurrences))
       IN queue' = FoldLeft(LAMBDA q, i : UpsertCollision(q, i.label, ToSet(i.occurrences)), queue, usable)
    /\ UNCHANGED <<extracted, curator, asRecorded>>

\* An extraction gives a concept another label in an ontology, or a second live row.
Reextract(u, l, h) ==
    LET before == {r \in extracted : r.uri = u /\ r.ontology = h} IN
    /\ Request
    /\ \E replaced \in {{}, before} :
           extracted' = (extracted \ replaced) \cup {[uri |-> u, label |-> l, ontology |-> h]}
    /\ UNCHANGED <<queue, curator, asRecorded>>

-----------------------------------------------------------------------------
Concept(frame) == Head(frame.todo)[1]
Recording(c) == curator[c].at \in {"expire", "insert"}

Dismiss(l) ==
    /\ Request /\ queue[l].status # "none"
    /\ queue' = [queue EXCEPT ![l].status = "dismissed"]
    /\ UNCHANGED <<extracted, curator, asRecorded>>

BeginResolve(c, l, resolutions) ==
    /\ Request /\ curator[c] = AtRest
    /\ queue[l].status # "none" /\ resolutions # <<>>
    /\ curator' = [curator EXCEPT ![c] = [at |-> "read", label |-> l, known |-> queue[l].occurrences,
                                           todo |-> resolutions, prior |-> 0]]
    /\ UNCHANGED <<extracted, queue, asRecorded>>

\* The occurrences were read with the collision.  A concept that is not among
\* them is refused; what was recorded before it stays, and so does the status.
\* The prior decision is any live one of the concept, whatever its ontology.
ReadPrior(c) ==
    LET frame == curator[c]
        u == Concept(frame)
    IN /\ frame.at = "read" /\ frame.todo # <<>>
       /\ IF u \notin frame.known
          THEN curator' = [curator EXCEPT ![c] = AtRest] /\ UNCHANGED overlapped
          ELSE \E prior \in IF LiveOf(u) = {} THEN {0} ELSE LiveOf(u) :
               /\ curator' = [curator EXCEPT ![c].prior = prior, ![c].at = "expire"]
               /\ overlapped' = overlapped \cup
                      {v \in {u} : \E d \in Curators \ {c} : Recording(d) /\ Concept(curator[d]) = v}
       /\ UNCHANGED <<extracted, queue, labelDecisions, requests, lapses, unexpired, lapsed>>

\* Mutant: the prior decision is left as it is.
KeepPrior(c) ==
    /\ curator[c].at = "expire"
    /\ curator' = [curator EXCEPT ![c].at = "insert"]
    /\ UNCHANGED <<extracted, queue, requests, asRecorded>>

\* expire_entity swallows its failure, and its result is not looked at.
ExpirePrior(c) ==
    LET prior == curator[c].prior IN
    /\ curator[c].at = "expire"
    /\ \/ /\ labelDecisions' = IF prior = 0 THEN labelDecisions ELSE [labelDecisions EXCEPT ![prior].live = FALSE]
          /\ UNCHANGED <<lapses, unexpired>>
       \/ /\ prior # 0 /\ Lapse
          /\ unexpired' = unexpired \cup {Concept(curator[c])}
          /\ UNCHANGED labelDecisions
    /\ curator' = [curator EXCEPT ![c].at = "insert"]
    /\ UNCHANGED <<extracted, queue, requests, overlapped, lapsed>>

InsertDecision(c) ==
    LET frame == curator[c] IN
    /\ frame.at = "insert"
    /\ labelDecisions' = Append(labelDecisions,
           [uri |-> Concept(frame), label |-> Head(frame.todo)[2], ontology |-> Head(frame.todo)[3], live |-> TRUE,
            supersedes |-> frame.prior])
    /\ curator' = [curator EXCEPT ![c].at = "read", ![c].todo = Tail(@)]
    /\ lapsed' = lapsed \ {Concept(frame)}
    /\ UNCHANGED <<extracted, queue, requests, lapses, overlapped, unexpired>>

\* A call raises, or the process dies: what was recorded stays.
BreakOff(c) ==
    /\ Lapse /\ curator[c] # AtRest
    /\ curator' = [curator EXCEPT ![c] = AtRest]
    /\ lapsed' = lapsed \cup {u \in Concepts \cup {Missing} : curator[c].at = "insert" /\ u = Concept(curator[c])}
    /\ UNCHANGED <<extracted, queue, labelDecisions, requests, overlapped, unexpired>>

CloseCollision(c) ==
    /\ curator[c].at = "read" /\ curator[c].todo = <<>>
    /\ queue' = [queue EXCEPT ![curator[c].label].status = "resolved"]
    /\ curator' = [curator EXCEPT ![c] = AtRest]
    /\ UNCHANGED <<extracted, requests, asRecorded>>

LexiconNext ==
    \/ Detect \/ Ingest
    \/ \E u \in Concepts, l \in Labels, h \in Homes : Reextract(u, l, h)
    \/ \E l \in Labels : Dismiss(l)
    \/ \E c \in Curators :
          \/ \E l \in Labels, r \in Resolutions : BeginResolve(c, l, r)
          \/ ReadPrior(c)
          \/ ExpirePrior(c) \/ InsertDecision(c) \/ CloseCollision(c) \/ BreakOff(c)

LexiconSpec == LexiconInit /\ [][LexiconNext]_lexicon

-----------------------------------------------------------------------------
(* What a concept is called, on every live row of it, is what was decided   *)
(* last, whatever an extraction calls it since (lexicon_repo.py:279, "it is *)
(* how a decision survives re-extraction"): wherever all decisions are      *)
(* read (the effective graph, the lookup of one label), and in the          *)
(* ontology it was made for where only those of an ontology are.  If two    *)
(* decisions about the concept were recorded at once, or an expiry failed,  *)
(* it may be called what was decided before; only if the recording was      *)
(* broken off after the expiry it has its extracted name until it is        *)
(* decided again.                                                           *)
DecisionsStand ==
    \A r \in extracted : \A scope \in {{r.ontology}, Everywhere} :
        LET made == {i \in 1..Len(labelDecisions) : labelDecisions[i].uri = r.uri}
            last == CHOOSE i \in made : \A j \in made : j <= i
        IN /\ made # {} /\ labelDecisions[last].ontology \in scope /\ r.uri \notin lapsed
           /\ \A c \in Curators : Recording(c) => Concept(curator[c]) # r.uri
           => /\ labelDecisions[last].label \in Shown(r, scope)
              /\ r.uri \notin overlapped \cup unexpired => Shown(r, scope) = {labelDecisions[last].label}

(* A collision that was resolved or dismissed does not come back into the   *)
(* queue when it is found again (lexicon_repo.py:125).                      *)
SettledStaysSettled ==
    [][\A l \in Labels : queue[l].status \in {"resolved", "dismissed"} => queue'[l].status # "open"]_lexicon
=============================================================================
