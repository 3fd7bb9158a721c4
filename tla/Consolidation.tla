---------------------------- MODULE Consolidation ----------------------------
(***************************************************************************)
(* The consolidation job of one ontology: rules, confidence decay, stale   *)
(* beliefs, with a checkpoint after each stage (services/consolidation.py, *)
(* services/confidence_decay.py, services/revision_safety.py, api/admin.py)*)
(*                                                                         *)
(* Passes are requests on threads: two may run at the same time, next to   *)
(* new evidence, and a restart ends them.  Ages are in half-lives.         *)
(***************************************************************************)
EXTENDS Naturals, FiniteSets

CONSTANTS
    Classes,
    Confidences,   \* what an extraction or new evidence may give a class
    Floor,         \* belief_revision_decay_floor
    DecayEnabled,  \* belief_revision_decay_enabled
    StaleLimit,    \* stale_inbox_limit
    JobKeys,
    Passes,        \* passes that may run at the same time
    MaxPasses, MaxAge, MaxRestarts

VARIABLES
    belief,        \* belief[c]: current_confidence, age of the evidence, live or expired
    cursor,        \* cursor[j]: the document of consolidation_jobs
    inbox,         \* inbox[c][j]: pending rows about c written by job j
    pass,          \* pass[p]: where a pass stands and what it remembers
    passes, restarts,
    overlap        \* history: a class was decayed by two passes at once

consolidation == <<belief, cursor, inbox, pass, passes, restarts, overlap>>

Off == [at |-> "off", job |-> "", dry |-> FALSE, read |-> <<>>, left |-> {}]
Least(a, b) == IF a < b THEN a ELSE b
Most(a, b) == IF a > b THEN a ELSE b

ConsolidationInit ==
    /\ belief \in [Classes -> [current : Confidences, age : {0}, live : {TRUE}, evidenced : {FALSE}]]
    /\ cursor = [j \in JobKeys |-> [stage |-> "none", status |-> "none"]]
    /\ inbox = [c \in Classes |-> [j \in JobKeys |-> 0]]
    /\ pass = [p \in Passes |-> Off]
    /\ passes = 0 /\ restarts = 0 /\ overlap = FALSE

Age ==
    /\ \E c \in Classes : belief[c].age < MaxAge
    /\ belief' = [c \in Classes |-> [belief[c] EXCEPT !.age = Least(@ + 1, MaxAge)]]
    /\ UNCHANGED <<cursor, inbox, pass, passes, restarts, overlap>>

\* REINFORCE writes current_confidence and last_evidenced_at in place.
Reinforce(c, after) ==
    /\ belief[c].live /\ belief[c].age > 0
    /\ belief' = [belief EXCEPT ![c].current = after, ![c].age = 0, ![c].evidenced = TRUE]
    /\ UNCHANGED <<cursor, inbox, pass, passes, restarts, overlap>>

Expire(c) ==
    /\ belief[c].live
    /\ belief' = [belief EXCEPT ![c].live = FALSE]
    /\ UNCHANGED <<cursor, inbox, pass, passes, restarts, overlap>>

-----------------------------------------------------------------------------
(* Decay.                                                                   *)

\* Mutant: the floor is taken for a target.
DecayedToFloor(value, age) == IF age = 0 THEN value ELSE Most(Floor, value \div 2^age)

\* compute_decayed_confidence: never below the floor and never up.
Decayed(value, age) == IF age = 0 THEN value ELSE Least(value, Most(Floor, value \div 2^age))

\* A preview is forced past the flag, but writes nothing.
WritesLive(dry) == DecayEnabled /\ ~dry

-----------------------------------------------------------------------------
(* The job.                                                                 *)

Checkpoint(p, stage, status) ==
    cursor' = [cursor EXCEPT ![pass[p].job] = [stage |-> stage, status |-> status]]

\* A new pass starts at the rules, whatever the cursor of the key says.
RunConsolidation(p, j, dry) ==
    /\ pass[p] = Off /\ passes < MaxPasses
    /\ passes' = passes + 1
    /\ cursor' = [cursor EXCEPT ![j] = [stage |-> "rules", status |-> "running"]]
    /\ pass' = [pass EXCEPT ![p] = [Off EXCEPT !.at = "rules", !.job = j, !.dry = dry]]
    /\ UNCHANGED <<belief, inbox, restarts, overlap>>

\* The rule engine names entities; each gets a row, and a row that cannot be
\* written is skipped.
RulesStage(p) ==
    /\ pass[p].at = "rules"
    /\ \E broken \in SUBSET Classes :
           inbox' = [c \in Classes |-> IF c \in broken /\ ~pass[p].dry
                                       THEN [inbox[c] EXCEPT ![pass[p].job] = @ + 1] ELSE inbox[c]]
    /\ Checkpoint(p, "decay", "running")
    /\ pass' = [pass EXCEPT ![p].at = "decay"]
    /\ UNCHANGED <<belief, passes, restarts, overlap>>

\* The live classes are read once.
ReadBeliefs(p) ==
    /\ pass[p].at = "decay"
    /\ pass' = [pass EXCEPT ![p].at = "write", ![p].read = belief,
                            ![p].left = {c \in Classes : belief[c].live /\ (DecayEnabled \/ pass[p].dry)}]
    /\ UNCHANGED <<belief, cursor, inbox, passes, restarts, overlap>>

\* Each that moves is written, from what was read; a failed write is skipped.
DecayClass(p, c) ==
    LET was == pass[p].read[c]
        now == Decayed(was.current, was.age) IN
    /\ pass[p].at = "write" /\ c \in pass[p].left
    /\ pass' = [pass EXCEPT ![p].left = @ \ {c}]
    /\ IF WritesLive(pass[p].dry) /\ now # was.current
       THEN belief' = [belief EXCEPT ![c].current = now] \/ UNCHANGED belief
       ELSE UNCHANGED belief
    /\ overlap' = (overlap \/ belief[c].current # was.current)
    /\ UNCHANGED <<cursor, inbox, passes, restarts>>

EndDecay(p) ==
    /\ pass[p].at = "write" /\ pass[p].left = {}
    /\ Checkpoint(p, "stale", "running")
    /\ pass' = [pass EXCEPT ![p].at = "stale"]
    /\ UNCHANGED <<belief, inbox, passes, restarts, overlap>>

\* The condition of the query: AND binds tighter than OR, so a class without
\* last_evidenced_at counts whether or not it is live.
IsStale(b) == IF b.evidenced THEN b.live /\ b.age > 1 ELSE b.age > 1

\* The oldest first, at most stale_inbox_limit of them.
StaleStage(p) ==
    LET stale == {c \in Classes : IsStale(belief[c])} IN
    /\ pass[p].at = "stale"
    /\ \E picked \in SUBSET stale :
         /\ Cardinality(picked) = Least(StaleLimit, Cardinality(stale))
         /\ \A c \in picked, d \in stale \ picked : belief[c].age >= belief[d].age
         /\ inbox' = [c \in Classes |-> IF c \in picked /\ ~pass[p].dry
                                        THEN [inbox[c] EXCEPT ![pass[p].job] = @ + 1] ELSE inbox[c]]
    /\ Checkpoint(p, "done", "completed")
    /\ pass' = [pass EXCEPT ![p] = Off]
    /\ UNCHANGED <<belief, passes, restarts, overlap>>

\* An exception in a stage fails the job at that stage.
FailStage(p) ==
    /\ pass[p] # Off
    /\ Checkpoint(p, IF pass[p].at = "write" THEN "decay" ELSE pass[p].at, "failed")
    /\ pass' = [pass EXCEPT ![p] = Off]
    /\ UNCHANGED <<belief, inbox, passes, restarts, overlap>>

Restart ==
    /\ restarts < MaxRestarts /\ restarts' = restarts + 1
    /\ \E p \in Passes : pass[p] # Off
    /\ pass' = [p \in Passes |-> Off]
    /\ UNCHANGED <<belief, cursor, inbox, passes, overlap>>

Pass(p) ==
    \/ RulesStage(p) \/ ReadBeliefs(p) \/ EndDecay(p) \/ StaleStage(p) \/ FailStage(p)
    \/ \E c \in Classes : DecayClass(p, c)

ConsolidationNext ==
    \/ \E p \in Passes : Pass(p) \/ \E j \in JobKeys, dry \in BOOLEAN : RunConsolidation(p, j, dry)
    \/ \E c \in Classes : Expire(c) \/ \E after \in Confidences : Reinforce(c, after)
    \/ Age \/ Restart

-----------------------------------------------------------------------------
(* Decay never raises a confidence and never takes one below the floor,     *)
(* whatever the age and however low it starts (confidence_decay.py:84),     *)
(* unless what the pass had read was overtaken by another pass or by new    *)
(* evidence.                                                                *)
DecayBounded ==
    [][\A c \in Classes : belief'[c].age = belief[c].age /\ ~overlap' =>
          /\ belief'[c].current <= belief[c].current
          /\ belief'[c].current < belief[c].current => belief'[c].current >= Floor]_consolidation
=============================================================================
