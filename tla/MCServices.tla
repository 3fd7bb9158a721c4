------------------------------ MODULE MCServices ------------------------------
(***************************************************************************)
(* Small instances of Curation, Alignment, Consolidation and SnapshotCache, *)
(* one behaviour each: part names the one that runs.                       *)
(***************************************************************************)
EXTENDS MCCuration, Alignment, Consolidation, SnapshotCache

MCSourceOf == [a1 |-> "A", a2 |-> "A", b1 |-> "B", b2 |-> "B"]
MCDisjoint == {{"a1", "a2"}, {"b1", "b2"}}
\* Two pairs in the band the model is asked about, one above it, one below min_score.
MCSimilarity == [p \in Pairs |-> IF p = {"a2", "b2"} THEN 0 ELSE IF p = {"a1", "b1"} THEN 2 ELSE 1]
MCProcessOf == [t \in Handlers |-> CHOOSE w \in Processes : TRUE]
MCSymmetry == Permutations(Workers) \cup Permutations(Passes)

VARIABLE part

ServicesInit ==
    /\ part \in {"curation", "alignment", "consolidation", "snapshots"}
    /\ Init /\ AlignmentInit /\ ConsolidationInit /\ SnapshotInit
    /\ part # "consolidation" => \A c \in Classes : belief[c].current = 1
    /\ part # "curation" => edges = {}

ServicesNext ==
    /\ UNCHANGED part
    /\ \/ part = "curation" /\ Next /\ UNCHANGED <<alignment, consolidation, snapshots>>
       \/ part = "alignment" /\ AlignmentNext /\ UNCHANGED <<vars, consolidation, snapshots>>
       \/ part = "consolidation" /\ ConsolidationNext /\ UNCHANGED <<vars, alignment, snapshots>>
       \/ part = "snapshots" /\ SnapshotNext /\ UNCHANGED <<vars, alignment, consolidation>>

ServicesSpec ==
    ServicesInit /\ [][ServicesNext]_<<part, vars, alignment, consolidation, snapshots>>

-----------------------------------------------------------------------------
(* What docs and comments say and the code does not do: each is violated    *)
(* under MCServices.cfg, when it is checked in place of the properties.     *)

(* PRD.md:2784, the master is built from accepted equivalences: its classes *)
(* are clusters over accepted correspondences of every kind.                *)
EquivalencesOnly == \A w \in Workers : task[w].at = "classes" => \A r \in task[w].rows : r.kind = "equivalent"

(* alignment.py, the decisions a refresh invalidates "are invalidated by    *)
(* the edit and reported in the summary": the summary counts those that     *)
(* were read before the deletion.                                           *)
DecisionsReported == dropped = {}

(* consolidation.py, "Return live classes older than": an expired class     *)
(* without last_evidenced_at gets a row too.                                *)
StaleIsLive == \A c \in Classes : IsStale(belief[c]) => belief[c].live

(* confidence_decay.py, "pure age-based dampener": the decayed value is     *)
(* written back, so the age counts again on the next pass.                  *)
PureAge ==
    ~overlap => \A c \in Classes :
        belief[c].current \in {Decayed(v, a) : v \in Confidences, a \in 0 .. belief[c].age}

(* revision_safety.py, ConsolidationCursor: the status of a key only moves  *)
(* forward; a new pass with the key sets it back to running.                *)
StatusMonotonic == [][\A j \in JobKeys : cursor[j].status = "completed" => cursor'[j].status = "completed"]_consolidation

(* temporal.py:44, "Invalidated on any write to the ontology": only         *)
(* create_version does.                                                     *)
CacheFresh ==
    \A w \in Processes, ts \in Times :
        (\A t \in Handlers : thread[t] = Resting) /\ cache[w][ts] # Miss => cache[w][ts].rows = SnapshotAt(ts)
=============================================================================
