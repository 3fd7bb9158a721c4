------------------------------ MODULE Alignment ------------------------------
(***************************************************************************)
(* One alignment session over several source ontologies: candidate         *)
(* correspondences, their adjudication, the decisions of a curator, the    *)
(* scoped refresh after a source has changed, and the master that is built *)
(* from the accepted ones after a coherence repair (services/alignment.py, *)
(* services/alignment_repair.py, db/alignment_repo.py, api/alignment.py).  *)
(*                                                                         *)
(* Refresh and materialize run on threads and adjudicate in the event loop:*)
(* each works on the list it read first.  task[w] is where it stands.      *)
(***************************************************************************)
EXTENDS Naturals, FiniteSets, Sequences

CONSTANTS
    Nodes,        \* source classes
    SourceOf,     \* the ontology each belongs to
    Disjoint,     \* pairs of nodes of one source that it declares disjoint
    Similarity,   \* the score of each pair at the start: 0 below min_score, 2 at the band
    Verdicts,     \* answers of the model: equivalent, subclass, related, none, uncertain
    Changing,     \* source classes that are edited and refreshed
    AlignmentRepairEnabled,  \* settings.alignment_repair_enabled
    Workers,
    MaxTasks,     \* refreshes, materializations, adjudications and edits
    MaxDecisions  \* accepts and rejects

VARIABLES
    score,        \* score[p]: what matching.score_candidate makes of the pair
    alive,        \* source classes that are not expired
    session,      \* "none", "candidates_generated" or "materialized"
    rows,         \* the correspondences of the session
    made,         \* correspondences inserted so far
    masters,      \* masters[k]: the master's classes, each a set of nodes
    task,
    tasks,
    decisions,
    crossed,      \* history: two tasks wrote correspondences at the same time
    dropped       \* history: decided correspondences a refresh deleted, unseen

alignment == <<score, alive, session, rows, made, masters, task, tasks, decisions, crossed, dropped>>

Pairs == {p \in SUBSET Nodes : Cardinality(p) = 2 /\ Cardinality({SourceOf[n] : n \in p}) = 2}

ASSUME AlignmentAssumption ==
    /\ IsFiniteSet(Nodes) /\ Changing \subseteq Nodes
    /\ Similarity \in [Pairs -> 0..2]
    /\ AlignmentRepairEnabled \in BOOLEAN

Idle == [at |-> "idle", keys |-> {}, rows |-> {}, pairs |-> {}]

AlignmentInit ==
    /\ score = [p \in Pairs |-> Similarity[p]]
    /\ alive = Nodes
    /\ session = "none" /\ rows = {} /\ made = 0 /\ masters = <<>>
    /\ task = [w \in Workers |-> Idle] /\ tasks = 0 /\ decisions = 0
    /\ crossed = FALSE /\ dropped = {}

-----------------------------------------------------------------------------
(* Clusters and repair.  A correspondence is its pair and its confidence.   *)

\* The cluster of n under the correspondences of the set (union-find).
Cluster(n, along) ==
    LET near[k \in 0..Cardinality(Nodes)] ==
            IF k = 0 THEN {n}
            ELSE LET last == near[k-1] IN last \cup UNION {c.pair : c \in {c \in along : c.pair \cap last # {}}}
    IN near[Cardinality(Nodes)]

Clusters(along) == {Cluster(n, along) : n \in UNION {c.pair : c \in along}}

Conflicts(along) == {d \in Disjoint : \E cluster \in Clusters(along) : d \subseteq cluster}

\* What a breadth-first search from one end of the pair to the other may find.
ShortestPaths(d, along) ==
    LET joining == {path \in SUBSET along : \E n \in d : d \subseteq Cluster(n, path)} IN
    {path \in joining : \A other \in joining : Cardinality(path) <= Cardinality(other)}

\* The weakest correspondence on a path; keys are random, so ties go either way.
Victims(along) ==
    UNION {{v \in path : \A c \in path : v.conf <= c.conf} :
              path \in UNION {ShortestPaths(d, along) : d \in Conflicts(along)}}

\* Mutant: one removal is taken to be enough.
RepairOnce(accepted) ==
    IF Conflicts(accepted) = {} THEN {accepted} ELSE {accepted \ {v} : v \in Victims(accepted)}

\* repair_correspondences: what may be kept.
Repaired(accepted) ==
    LET kept[s \in SUBSET accepted] ==
            IF Conflicts(s) = {} THEN {s} ELSE UNION {kept[s \ {v}] : v \in Victims(s)}
    IN kept[accepted]

-----------------------------------------------------------------------------
(* Candidates.                                                              *)

\* generate_candidates: pairs of live classes above the minimum; with a scope
\* only those that touch a class of it.
Candidates(scope) ==
    {p \in Pairs : p \subseteq alive /\ score[p] > 0 /\ p \cap scope # {}}

ProvisionalType(p) == IF score[p] = 2 THEN "equivalent" ELSE "related"

\* save_correspondences under fresh keys.
Fresh(pairs) ==
    LET Order == CHOOSE f \in [pairs -> 1..Cardinality(pairs)] : \A p, q \in pairs : p # q => f[p] # f[q] IN
    {[key |-> made + Order[p], pair |-> p, conf |-> score[p], status |-> "candidate",
      kind |-> ProvisionalType(p)] : p \in pairs}

At_(w, at) == task[w].at = at
Start(w, frame) ==
    /\ task[w] = Idle /\ tasks < MaxTasks
    /\ tasks' = tasks + 1
    /\ task' = [task EXCEPT ![w] = frame]
Then_(w, at) == task' = [task EXCEPT ![w].at = at]
Done(w) == task' = [task EXCEPT ![w] = Idle]
Writing(w) == task[w].at \in {"generate", "delete", "save"}

\* POST /sessions: the session first, then its candidates.
CreateSession(w) ==
    /\ session = "none" /\ task[w] = Idle
    /\ session' = "candidates_generated"
    /\ task' = [task EXCEPT ![w] = [Idle EXCEPT !.at = "generate", !.keys = Nodes]]
    /\ UNCHANGED <<score, alive, rows, made, masters, tasks, decisions, crossed, dropped>>

Generate(w) ==
    /\ At_(w, "generate")
    /\ task' = [task EXCEPT ![w].at = "save",
                           ![w].pairs = Candidates(task[w].keys) \ task[w].pairs]
    /\ UNCHANGED <<score, alive, session, rows, made, masters, tasks, decisions, crossed, dropped>>

Save(w) ==
    /\ At_(w, "save")
    /\ rows' = rows \cup Fresh(task[w].pairs)
    /\ made' = made + Cardinality(task[w].pairs)
    /\ Done(w)
    /\ UNCHANGED <<score, alive, session, masters, tasks, decisions, crossed, dropped>>

\* POST /candidates/{key}/{decision}: a write to a row that is gone fails.
Decide(r, status) ==
    /\ decisions < MaxDecisions /\ decisions' = decisions + 1
    /\ r \in rows /\ r.status # status
    /\ rows' = (rows \ {r}) \cup {[r EXCEPT !.status = status]}
    /\ UNCHANGED <<score, alive, session, made, masters, task, tasks, crossed, dropped>>

-----------------------------------------------------------------------------
(* Adjudication: at the band without the model, else with its verdict.      *)

BeginAdjudicate(w) ==
    /\ session # "none"
    /\ \E r \in rows : r.status = "candidate"
    /\ Start(w, [Idle EXCEPT !.at = "judge", !.rows = {r \in rows : r.status = "candidate"}])
    /\ UNCHANGED <<score, alive, session, rows, made, masters, decisions, crossed, dropped>>

\* _type_from_verdict; the recommendation that goes with it decides nothing.
Refined(r, verdict) == IF verdict \in {"none", "uncertain"} THEN r.kind ELSE verdict

\* The most confident first; an await precedes the write below the band.  Only
\* the type is written, never the status, and only to a row that is still there.
Adjudicate(w, r, verdict) ==
    /\ At_(w, "judge")
    /\ r \in task[w].rows /\ \A c \in task[w].rows : c.conf <= r.conf
    /\ r.conf = 2 => verdict = r.kind
    /\ rows' = {IF c.key = r.key THEN [c EXCEPT !.kind = Refined(r, verdict)] ELSE c : c \in rows}
    /\ task' = [task EXCEPT ![w] = IF task[w].rows = {r} THEN Idle ELSE [task[w] EXCEPT !.rows = @ \ {r}]]
    /\ UNCHANGED <<score, alive, session, made, masters, tasks, decisions, crossed, dropped>>

-----------------------------------------------------------------------------
(* Refresh after a source has changed.                                      *)

\* An edit of a source class: its pairs score differently, or it expires.
EditSource(n) ==
    /\ tasks < MaxTasks /\ tasks' = tasks + 1
    /\ n \in alive
    /\ \/ \E p \in Pairs, s \in 0..2 : n \in p /\ score' = [score EXCEPT ![p] = s] /\ UNCHANGED alive
       \/ alive' = alive \ {n} /\ UNCHANGED score
    /\ UNCHANGED <<session, rows, made, masters, task, decisions, crossed, dropped>>

\* POST /refresh: every correspondence is read, those of a changed class are
\* stale, the pairs of the others are not generated again.
BeginRefresh(w, changed) ==
    LET stale == {r \in rows : r.pair \cap changed # {}} IN
    /\ session # "none"
    /\ Start(w, [at |-> "delete", keys |-> changed, rows |-> stale, pairs |-> {r.pair : r \in rows \ stale}])
    /\ crossed' = (crossed \/ \E v \in Workers : Writing(v))
    /\ UNCHANGED <<score, alive, session, rows, made, masters, decisions, dropped>>

\* Mutant: what has been decided is left in place.
DeleteUndecided(w) ==
    /\ At_(w, "delete")
    /\ rows' = {r \in rows : r.status # "candidate" \/ \A s \in task[w].rows : s.key # r.key}
    /\ Then_(w, "generate")
    /\ UNCHANGED <<score, alive, session, made, masters, tasks, decisions, crossed, dropped>>

\* delete_correspondences by key; the summary counts decisions as they were read.
DeleteStale(w) ==
    LET gone == {r \in rows : \E s \in task[w].rows : s.key = r.key} IN
    /\ At_(w, "delete")
    /\ rows' = rows \ gone
    /\ dropped' = dropped \cup {r \in gone : r.status # "candidate"
                                   /\ \A s \in task[w].rows : s.key = r.key => s.status # r.status}
    /\ Then_(w, "generate")
    /\ UNCHANGED <<score, alive, session, made, masters, tasks, decisions, crossed>>

-----------------------------------------------------------------------------
(* POST /materialize: there is no guard on the status of the session.       *)

BeginMaterialize(w) ==
    /\ session # "none"
    /\ \E kept \in LET accepted == {r \in rows : r.status = "accepted"} IN
                    IF AlignmentRepairEnabled THEN Repaired(accepted) ELSE {accepted} :
            Start(w, [Idle EXCEPT !.at = "register", !.rows = kept])
    /\ UNCHANGED <<score, alive, session, rows, made, masters, decisions, crossed, dropped>>

RegisterMaster(w) ==
    /\ At_(w, "register")
    /\ masters' = Append(masters, {})
    /\ task' = [task EXCEPT ![w] = [@ EXCEPT !.at = "classes", !.keys = {Len(masters) + 1}]]
    /\ UNCHANGED <<score, alive, session, rows, made, tasks, decisions, crossed, dropped>>

\* One class and its equivalent_class edges per cluster.
CreateMasterClass(w) ==
    \E k \in task[w].keys :
        /\ At_(w, "classes")
        /\ \E cluster \in Clusters(task[w].rows) \ masters[k] :
               masters' = [masters EXCEPT ![k] = @ \cup {cluster}]
        /\ UNCHANGED <<score, alive, session, rows, made, task, tasks, decisions, crossed, dropped>>

SetSessionMaster(w) ==
    \E k \in task[w].keys :
        /\ At_(w, "classes")
        /\ masters[k] = Clusters(task[w].rows)
        /\ session' = "materialized"
        /\ Done(w)
        /\ UNCHANGED <<score, alive, rows, made, masters, tasks, decisions, crossed, dropped>>

Task(w) ==
    \/ Generate(w) \/ Save(w) \/ DeleteStale(w)
    \/ RegisterMaster(w) \/ CreateMasterClass(w) \/ SetSessionMaster(w)
    \/ \E r \in task[w].rows, verdict \in Verdicts : Adjudicate(w, r, verdict)

AlignmentNext ==
    \/ \E w \in Workers :
         \/ Task(w) \/ CreateSession(w) \/ BeginAdjudicate(w) \/ BeginMaterialize(w)
         \/ \E n \in Changing : BeginRefresh(w, {n})
    \/ \E r \in rows, status \in {"accepted", "rejected"} : Decide(r, status)
    \/ \E n \in Changing : EditSource(n)

AlignmentSpec == AlignmentInit /\ [][AlignmentNext]_alignment

-----------------------------------------------------------------------------
(* With the repair switched on, as it is by default, no class of a master   *)
(* stands for two source classes that are declared disjoint                 *)
(* (alignment_repair.py:137), however many paths of accepted                *)
(* correspondences join them.                                               *)
MasterCoherent ==
    AlignmentRepairEnabled => \A k \in 1..Len(masters) : \A class \in masters[k], d \in Disjoint : ~(d \subseteq class)

(* A pair has one correspondence in the session, whatever has been decided  *)
(* about it and refreshed, unless two refreshes overlapped                  *)
(* (alignment.py:806).                                                      *)
OneCorrespondence ==
    ~crossed => \A r, s \in rows : r.pair = s.pair => r.key = s.key
=============================================================================
