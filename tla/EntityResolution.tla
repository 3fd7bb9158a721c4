--------------------------- MODULE EntityResolution ---------------------------
(***************************************************************************)
(* Entity resolution: pipeline runs that propose pairs of similar classes, *)
(* the curator's verdicts on the pairs, and the merge behind an accepted   *)
(* one.  Source: backend/app/services/er.py and api/er.py.                 *)
(*                                                                         *)
(* A run whose request has no configuration uses the process's one         *)
(* configuration object and writes the run's ontology into it.             *)
(***************************************************************************)
EXTENDS Naturals, Sequences, FiniteSets

CONSTANTS
    Threads,     \* request handlers that may run at the same time
    Ontologies,
    NoOntology,  \* the configuration's ontology before the first run
    NumClasses,  \* classes that exist initially
    Operations,  \* what the handlers do, a subset of AllOperations
    MaxOps,      \* bound: operations begun
    MaxAborts    \* bound: operations cut short and expiries that fail unnoticed

AllOperations == {"run", "decide", "merge"}

ASSUME OperationsAssumption == Operations \subseteq AllOperations
ASSUME OntologyAssumption == NoOntology \notin Ontologies
ASSUME ResolutionBounds == NumClasses \in Nat /\ MaxOps \in Nat /\ MaxAborts \in Nat

VARIABLES
    docs,     \* class versions; the index is the _key
    edges,    \* current edges between classes, as pairs of keys
    pairs,    \* similarTo: the candidate pairs
    active,   \* _active_config.ontology_id
    runs,     \* _run_store
    merges,   \* history: the merges that have updated their winner
    op,       \* op[t]: the operation thread t is in the middle of
    overlapped,  \* history: an operation has begun while another was under way
    ops, aborts

classes == <<docs, edges>>
counters == <<overlapped, ops, aborts>>
vars == <<docs, edges, pairs, active, runs, merges, op, overlapped, ops, aborts>>

Doc == [ontology : Ontologies, root : Nat \ {0}, live : BOOLEAN]
Pair == [from : Nat \ {0}, to : Nat \ {0}, tag : Ontologies \cup {NoOntology},
         accepted : BOOLEAN, rejected : BOOLEAN]
Run == [ontology : Ontologies,
        status : {"blocking", "scoring", "complete", "failed"}]
\* pair 0: asked for directly; key: the new version of the winner; retired: the
\* version before it is no longer current.
Merge == [pair : Nat, loser : Nat, winner : Nat, key : Nat, retired : BOOLEAN]

Op == [pc : {"idle", "block", "score", "merge", "update", "write", "expire", "mark"},
       run : Nat,                      \* the run under way
       todo : SUBSET (Nat \X Nat),     \* candidate pairs still to be scored
       pair : Nat,                     \* the pair decided on, 0 for a direct merge
       verdict : {"accept", "reject"},
       source : Nat, target : Nat]

IdleOp == [pc |-> "idle", run |-> 0, todo |-> {}, pair |-> 0, verdict |-> "accept",
           source |-> 0, target |-> 0]

\* Mutant: the reads forget the filter on expired.
LiveOfAnyAge == DOMAIN docs

Live == {k \in DOMAIN docs : docs[k].live}
Unresolved(p) == ~pairs[p].accepted /\ ~pairs[p].rejected

\* The candidates endpoint of a run: the run's config is the shared object.
Listed(r) == {p \in DOMAIN pairs : pairs[p].tag = active /\ Unresolved(p)}

Begin(t, kind, o) ==
    /\ kind \in Operations
    /\ op[t].pc = "idle"
    /\ ops < MaxOps
    /\ ops' = ops + 1
    /\ overlapped' = (overlapped \/ \E s \in Threads : op[s].pc # "idle")
    /\ op' = [op EXCEPT ![t] = o]

Goto(t, pc) == op' = [op EXCEPT ![t].pc = pc]
Finish(t) == op' = [op EXCEPT ![t] = IdleOp]

-----------------------------------------------------------------------------
Init ==
    /\ \E ontology \in [1 .. NumClasses -> Ontologies] :
          docs = [k \in 1 .. NumClasses |->
                     [ontology |-> ontology[k], root |-> k, live |-> TRUE]]
    /\ edges = {<<1, 2>>}
    /\ pairs = <<>>
    /\ active = NoOntology
    /\ runs = <<>>
    /\ merges = {}
    /\ op = [t \in Threads |-> IdleOp]
    /\ overlapped = FALSE
    /\ ops = 0 /\ aborts = 0

-----------------------------------------------------------------------------
(* run_er_pipeline.                                                         *)

\* Mutant: a configuration that has an ontology already keeps it.
BeginRunKeepsConfig(t) ==
    \E o \in Ontologies :
        /\ Begin(t, "run", [IdleOp EXCEPT !.pc = "block", !.run = Len(runs) + 1])
        /\ active' = IF active = NoOntology THEN o ELSE active
        /\ runs' = Append(runs, [ontology |-> o, status |-> "blocking"])
        /\ UNCHANGED <<classes, pairs, merges, aborts>>

BeginRun(t) ==
    \E o \in Ontologies :
        /\ Begin(t, "run", [IdleOp EXCEPT !.pc = "block", !.run = Len(runs) + 1])
        /\ active' = o
        /\ runs' = Append(runs, [ontology |-> o, status |-> "blocking"])
        /\ UNCHANGED <<classes, pairs, merges, aborts>>

\* Classes of the ontology that share a token of their labels: any of its pairs.
Block(t) ==
    LET mine == {k \in Live : docs[k].ontology = runs[op[t].run].ontology} IN
    /\ op[t].pc = "block"
    /\ \E candidates \in SUBSET {c \in mine \X mine : c[1] < c[2]} :
          op' = [op EXCEPT ![t].pc = "score", ![t].todo = candidates]
    /\ runs' = [runs EXCEPT ![op[t].run].status = "scoring"]
    /\ UNCHANGED <<classes, pairs, active, merges, counters>>

\* Both classes are read again, and a score below the threshold is dropped; the
\* tag is read from the configuration for every edge.
Score(t) ==
    /\ op[t].pc = "score"
    /\ \E c \in op[t].todo :
          /\ op' = [op EXCEPT ![t].todo = @ \ {c}]
          /\ \/ UNCHANGED pairs
             \/ /\ {c[1], c[2]} \subseteq Live
                /\ pairs' = Append(pairs, [from |-> c[1], to |-> c[2], tag |-> active,
                                           accepted |-> FALSE, rejected |-> FALSE])
    /\ UNCHANGED <<classes, active, runs, merges, counters>>

\* Mutant: the status is one that the enumeration does not have.
FinishRunClustered(t) ==
    /\ op[t].pc = "score" /\ op[t].todo = {}
    /\ runs' = [runs EXCEPT ![op[t].run].status = "clustered"]
    /\ Finish(t)
    /\ UNCHANGED <<classes, pairs, active, merges, counters>>

\* Clustering the scored pairs is left out: only a listing reads the clusters.
FinishRun(t) ==
    /\ op[t].pc = "score" /\ op[t].todo = {}
    /\ runs' = [runs EXCEPT ![op[t].run].status = "complete"]
    /\ Finish(t)
    /\ UNCHANGED <<classes, pairs, active, merges, counters>>

-----------------------------------------------------------------------------
(* accept_candidate and reject_candidate read the pair, act and write their *)
(* stamp at the end.                                                        *)

\* Mutant: a rejected pair may still be accepted, and the other way round.
BeginDecisionUnchecked(t) ==
    \E p \in DOMAIN pairs, verdict \in {"accept", "reject"} :
        /\ IF verdict = "accept" THEN ~pairs[p].accepted ELSE ~pairs[p].rejected
        /\ Begin(t, "decide",
                 [IdleOp EXCEPT !.pc = IF verdict = "accept" THEN "merge" ELSE "mark",
                                !.pair = p, !.verdict = verdict,
                                !.source = pairs[p].from, !.target = pairs[p].to])
        /\ UNCHANGED <<classes, pairs, active, runs, merges, aborts>>

\* A pair that has a verdict is answered at once.
BeginDecision(t) ==
    \E p \in DOMAIN pairs, verdict \in {"accept", "reject"} :
        /\ Unresolved(p)
        /\ Begin(t, "decide",
                 [IdleOp EXCEPT !.pc = IF verdict = "accept" THEN "merge" ELSE "mark",
                                !.pair = p, !.verdict = verdict,
                                !.source = pairs[p].from, !.target = pairs[p].to])
        /\ UNCHANGED <<classes, pairs, active, runs, merges, aborts>>

Mark(t) ==
    /\ op[t].pc = "mark"
    /\ pairs' = IF op[t].verdict = "accept" THEN [pairs EXCEPT ![op[t].pair].accepted = TRUE]
                ELSE [pairs EXCEPT ![op[t].pair].rejected = TRUE]
    /\ Finish(t)
    /\ UNCHANGED <<classes, active, runs, merges, counters>>

-----------------------------------------------------------------------------
(* execute_merge, behind an accepted pair or asked for directly.            *)

BeginMerge(t) ==
    \E source, target \in DOMAIN docs :
        /\ Begin(t, "merge", [IdleOp EXCEPT !.pc = "merge",
                                            !.source = source, !.target = target])
        /\ UNCHANGED <<classes, pairs, active, runs, merges, aborts>>

\* "Source or target class not found" otherwise.
ReadClasses(t) ==
    /\ op[t].pc = "merge"
    /\ IF {op[t].source, op[t].target} \subseteq Live THEN Goto(t, "update") ELSE Finish(t)
    /\ UNCHANGED <<classes, pairs, active, runs, merges, counters>>

\* Mutant: the exception is swallowed and the source expired all the same.
ReadTargetSwallowed(t) ==
    /\ op[t].pc = "update"
    /\ IF op[t].target \in Live THEN Goto(t, "write") ELSE Goto(t, "expire")
    /\ UNCHANGED <<classes, pairs, active, runs, merges, counters>>

\* update_class on the target raises if it has a successor by now.
ReadTarget(t) ==
    /\ op[t].pc = "update"
    /\ IF op[t].target \in Live THEN Goto(t, "write") ELSE Finish(t)
    /\ UNCHANGED <<classes, pairs, active, runs, merges, counters>>

\* expire_entity: the rows it leaves.  A write that fails is logged, and the
\* merge goes on all the same.
Retired(k) == [docs EXCEPT ![k].live = FALSE]
Expires(k, rows) ==
    \/ rows = Retired(k) /\ UNCHANGED aborts
    \/ rows = docs /\ aborts < MaxAborts /\ aborts' = aborts + 1

\* The rest of update_class; TemporalStore has its steps.
UpdateTarget(t) ==
    LET k == op[t].target
        new == Len(docs) + 1
        End(j) == IF j = k THEN new ELSE j IN
    /\ op[t].pc = "write"
    /\ \E rows \in {docs, Retired(k)} :
          /\ Expires(k, rows)
          /\ docs' = Append(rows, [docs[k] EXCEPT !.live = TRUE])
          /\ merges' = merges \cup {[pair |-> op[t].pair, loser |-> docs[op[t].source].root,
                                      winner |-> docs[k].root, key |-> new, retired |-> ~rows[k].live]}
    /\ edges' = {<<End(e[1]), End(e[2])>> : e \in edges}
    /\ Goto(t, "expire")
    /\ UNCHANGED <<pairs, active, runs, overlapped, ops>>

\* The source alone, and not its edges.
ExpireSource(t) ==
    /\ op[t].pc = "expire"
    /\ Expires(op[t].source, docs')
    /\ IF op[t].pair = 0 THEN Finish(t) ELSE Goto(t, "mark")
    /\ UNCHANGED <<edges, pairs, active, runs, merges, overlapped, ops>>

-----------------------------------------------------------------------------
\* An exception in a run is caught and reported.
Abort(t) ==
    /\ op[t].pc # "idle"
    /\ aborts < MaxAborts
    /\ aborts' = aborts + 1
    /\ runs' = IF op[t].run = 0 THEN runs
               ELSE [runs EXCEPT ![op[t].run].status = "failed"]
    /\ Finish(t)
    /\ UNCHANGED <<classes, pairs, active, merges, overlapped, ops>>

Next ==
    \E t \in Threads :
        \/ BeginRun(t) \/ Block(t) \/ Score(t) \/ FinishRun(t)
        \/ BeginDecision(t) \/ Mark(t)
        \/ BeginMerge(t) \/ ReadClasses(t) \/ ReadTarget(t)
        \/ UpdateTarget(t) \/ ExpireSource(t)
        \/ Abort(t)

Spec == Init /\ [][Next]_vars

-----------------------------------------------------------------------------
(* Properties.                                                              *)

TypeOK ==
    /\ docs \in Seq(Doc)
    /\ edges \subseteq (Nat \X Nat)
    /\ pairs \in Seq(Pair)
    /\ active \in Ontologies \cup {NoOntology}
    /\ runs \in Seq(Run)
    /\ merges \subseteq Merge
    /\ op \in [Threads -> Op]
    /\ overlapped \in BOOLEAN
    /\ ops \in Nat /\ aborts \in Nat

(* As long as operations do not overlap, a pair is filed under the ontology *)
(* of its classes (_execute_scoring reads it from the configuration of the  *)
(* process).                                                                *)
PairsFiledRight ==
    ~overlapped => \A p \in DOMAIN pairs : docs[pairs[p].from].ontology = pairs[p].tag

(* As long as operations do not overlap, no pair is both accepted and       *)
(* rejected (api/er.py: "Rejection of an already-accepted pair is a 409").  *)
DecidedOneWay ==
    ~overlapped => \A p \in DOMAIN pairs : ~(pairs[p].accepted /\ pairs[p].rejected)

(* As long as operations do not overlap, wherever they die, accepting a     *)
(* pair again merges nothing twice, unless the first merge failed to expire *)
(* the winner's old version (api/er.py: "a second accept returns            *)
(* ``status: "already_accepted"`` without re-merging").                     *)
MergedOnce ==
    ~overlapped => \A m, n \in merges : m.pair = n.pair /\ m.pair # 0 /\ m.key < n.key => ~m.retired

(* However many merges run at once and wherever they die, a class that has  *)
(* no current version was merged into one that has, directly or through     *)
(* others (execute_merge updates the winner before it expires the loser).   *)
RootsFrom(r) ==
    {s \in 1 .. NumClasses :
        \A S \in SUBSET (1 .. NumClasses) :
            r \in S /\ (\A m \in merges : m.loser \in S => m.winner \in S) => s \in S}
WinnersSurvive ==
    \A r \in 1 .. NumClasses : \E k \in Live : docs[k].root \in RootsFrom(r)
=============================================================================
