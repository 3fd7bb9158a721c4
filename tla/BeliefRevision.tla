---------------------------- MODULE BeliefRevision ----------------------------
(***************************************************************************)
(* Belief revision: the pipeline's revisions of what earlier documents     *)
(* established, their audit rows, and the curators' decisions on the rows  *)
(* that wait for one.  Source: backend/app/db/temporal_revisions_repo.py,  *)
(* db/revision_meta_repo.py, extraction/agents/belief_revision.py and      *)
(* services/revision_actions.py.                                           *)
(*                                                                         *)
(* One action is one database call; update_entity is one action here and   *)
(* TemporalStore has its steps.                                            *)
(***************************************************************************)
EXTENDS Naturals, Sequences, FiniteSets

CONSTANTS
    Threads,         \* pipeline runs and request handlers
    Documents,       \* the documents that trigger revisions
    NumEntities,     \* entities that exist initially
    MaxTouchpoints,  \* bound: touchpoints of one run
    MaxOps,          \* bound: operations begun
    MaxAborts,       \* bound: operations cut short by a crash
    MaxFaults        \* bound: versions whose expiry fails unnoticed

ASSUME RevisionBounds ==
    /\ NumEntities \in Nat /\ MaxTouchpoints \in Nat
    /\ MaxOps \in Nat /\ MaxAborts \in Nat /\ MaxFaults \in Nat

VARIABLES
    docs,     \* entity versions; the index is the _key
    rows,     \* revision_meta
    effects,  \* history: the revisions applied to the graph
    op,       \* op[t]: the operation thread t is in the middle of
    overlapped,  \* history: an operation has begun while another was under way
    kept,     \* history: versions whose expiry has failed unnoticed
    ops, aborts

counters == <<overlapped, kept, ops, aborts>>
vars == <<docs, rows, effects, op, overlapped, kept, ops, aborts>>

Actions == {"REINFORCE", "REVISE", "GAP_FILL", "RETRACT", "FLAG_FOR_CURATION"}
Decisions == {"accepted", "rejected", "modified"}
Statuses == {"applied", "pending"} \cup Decisions

\* evidence: how many times each document's quotes have been added.
Version == [entity : Nat \ {0}, status : {"draft", "approved"}, live : BOOLEAN,
            evidence : [Documents -> Nat]]
Revision == [doc : Documents, key : Nat \ {0}, action : Actions]
\* log: entries of decision_log; decisions: history, how often one was written.
Row == [revision : Revision, status : Statuses, log : Nat, decisions : Nat]

NoEvidence == [d \in Documents |-> 0]

Op == [pc : {"idle", "ask", "guard", "find", "read", "write", "record", "mark", "stamp"},
       todo : Seq(Revision),            \* revisions still to make, the first in hand
       row : Nat,                       \* the row decided on, 0 in a pipeline run
       decision : Decisions,
       payload : BOOLEAN,               \* a new vertex or edge was supplied
       seen : [Documents -> Nat],       \* evidence of the version as it was read
       log : Nat]                       \* decision_log as it was read

IdleOp == [pc |-> "idle", todo |-> <<>>, row |-> 0, decision |-> "accepted",
           payload |-> FALSE, seen |-> NoEvidence, log |-> 0]

Live == {k \in DOMAIN docs : docs[k].live}
InHand(t) == Head(op[t].todo)
Goto(t, pc) == op' = [op EXCEPT ![t].pc = pc]

CanBegin(t) == op[t].pc = "idle" /\ ops < MaxOps
Count ==
    /\ ops' = ops + 1
    /\ overlapped' = (overlapped \/ \E s \in Threads : op[s].pc # "idle")
Begin(t, o) == Count /\ op' = [op EXCEPT ![t] = o]

\* The revision in hand is dealt with: a decision goes on to its row, a run to
\* its next touchpoint.
Proceed(t) ==
    LET o == op[t] IN
    op' = [op EXCEPT ![t] =
              IF o.row # 0 THEN [o EXCEPT !.pc = "mark"]
              ELSE IF Len(o.todo) > 1 THEN [o EXCEPT !.pc = "guard", !.todo = Tail(o.todo)]
              ELSE IdleOp]

\* It raises: a run catches that and goes on, a decision is answered with an error.
Fail(t) == IF op[t].row # 0 THEN op' = [op EXCEPT ![t] = IdleOp] ELSE Proceed(t)

-----------------------------------------------------------------------------
InitWith(n) ==
    /\ \E status \in [1 .. n -> {"draft", "approved"}] :
          docs = [k \in 1 .. n |->
                     [entity |-> k, status |-> status[k], live |-> TRUE,
                      evidence |-> NoEvidence]]
    /\ rows = <<>>
    /\ effects = <<>>
    /\ op = [t \in Threads |-> IdleOp]
    /\ overlapped = FALSE
    /\ kept = {}
    /\ ops = 0 /\ aborts = 0

Init == InitWith(NumEntities)

-----------------------------------------------------------------------------
(* belief_revision_node: discovery names current versions; a rule or the    *)
(* language model chooses an action for each.                               *)

BeginRun(t) ==
    /\ CanBegin(t)
    /\ \E d \in Documents, n \in 1 .. MaxTouchpoints :
       \E key \in [1 .. n -> Live], action \in [1 .. n -> Actions] :
          LET Touchpoint(i) == [doc |-> d, key |-> key[i], action |-> action[i]] IN
          Begin(t, [IdleOp EXCEPT !.pc = "guard",
                                  !.todo = [i \in 1 .. n |-> Touchpoint(i)]])
    /\ UNCHANGED <<docs, rows, effects, kept, aborts>>

\* Mutant: a retraction does not count as a change of structure.
RevisionsOfStructure == {"REVISE", "GAP_FILL"}

StructuralActions == {"REVISE", "RETRACT", "GAP_FILL"}

\* should_flag_for_curation, on the document with that key, current or not.
Guard(t) ==
    LET published == docs[InHand(t).key].status = "approved" IN
    /\ op[t].pc = "guard"
    /\ op' = [op EXCEPT ![t].pc = "find",
                        ![t].todo[1].action =
                            IF published /\ @ \in StructuralActions
                            THEN "FLAG_FOR_CURATION" ELSE @]
    /\ UNCHANGED <<docs, rows, effects, counters>>

-----------------------------------------------------------------------------
(* supersede.                                                               *)

\* Mutant: only rows that wait for a decision are looked for.
PriorPending(r) == \E i \in DOMAIN rows : rows[i].revision = r /\ rows[i].status = "pending"

\* _find_existing_revision.
Prior(r) ==
    \E i \in DOMAIN rows : rows[i].revision = r /\ rows[i].status \in {"applied", "pending"}

NeedsPayload == {"REVISE", "GAP_FILL"}

FindPrior(t) ==
    LET r == InHand(t) IN
    /\ op[t].pc = "find"
    /\ CASE Prior(r) -> Proceed(t)
         [] ~Prior(r) /\ r.action \in NeedsPayload /\ ~op[t].payload -> Fail(t)
         [] ~Prior(r) /\ r.action = "FLAG_FOR_CURATION" -> Goto(t, "record")
         [] ~Prior(r) /\ r.action \in {"RETRACT", "GAP_FILL"}
               /\ (op[t].payload \/ r.action = "RETRACT") -> Goto(t, "write")
         [] OTHER -> Goto(t, "read")
    /\ UNCHANGED <<docs, rows, effects, counters>>

\* get_current, for REINFORCE and REVISE.
ReadCurrent(t) ==
    LET k == InHand(t).key IN
    /\ op[t].pc = "read"
    /\ IF k \in Live
       THEN op' = [op EXCEPT ![t].pc = "write", ![t].seen = docs[k].evidence]
       ELSE Fail(t)
    /\ UNCHANGED <<docs, rows, effects, counters>>

\* expire_entity expires a version whether or not it is current.  A write that
\* fails is logged and swallowed: then the version is still what it was.
Expire(k, still) ==
    /\ still => Cardinality(kept \cup {k}) <= MaxFaults
    /\ kept' = IF still THEN kept \cup {k} ELSE kept

\* Mutant: the new version starts without evidence.
SuccessorBare(k, evidence, status, still) ==
    Append([docs EXCEPT ![k].live = @ /\ still],
           [docs[k] EXCEPT !.live = TRUE, !.evidence = NoEvidence, !.status = status])

\* update_entity: a new version with the data of the old one as it was read.
Successor(k, evidence, status, still) ==
    Append([docs EXCEPT ![k].live = @ /\ still],
           [docs[k] EXCEPT !.live = TRUE, !.evidence = evidence, !.status = status])

\* A RETRACT whose expiry fails is a no-op that goes on to its row all the same;
\* the edge of a GAP_FILL is in effects alone.
Write(t) ==
    LET r == InHand(t)
        k == r.key IN
    /\ op[t].pc = "write"
    /\ \E still \in BOOLEAN :
          /\ still => r.action \in {"REVISE", "RETRACT"}
          /\ Expire(k, still)
          /\ docs' = CASE r.action = "REINFORCE" ->
                              [docs EXCEPT ![k].evidence = [op[t].seen EXCEPT ![r.doc] = @ + 1]]
                       [] r.action = "REVISE" -> Successor(k, op[t].seen, docs[k].status, still)
                       [] r.action = "RETRACT" -> [docs EXCEPT ![k].live = @ /\ still]
                       [] r.action = "GAP_FILL" -> docs
          /\ effects' = IF still /\ r.action = "RETRACT" THEN effects ELSE Append(effects, r)
    /\ Goto(t, "record")
    /\ UNCHANGED <<rows, overlapped, ops, aborts>>

\* Mutant: a flagged revision is recorded as applied.
RecordApplied(t) ==
    /\ op[t].pc = "record"
    /\ rows' = Append(rows, [revision |-> InHand(t), status |-> "applied",
                             log |-> 0, decisions |-> 0])
    /\ Proceed(t)
    /\ UNCHANGED <<docs, effects, counters>>

\* Mutant: a reinforcement changes no structure and leaves no row.
RecordStructural(t) ==
    LET r == InHand(t)
        flagged == r.action = "FLAG_FOR_CURATION" IN
    /\ op[t].pc = "record"
    /\ rows' = IF r.action = "REINFORCE" THEN rows
               ELSE Append(rows, [revision |-> r,
                                  status |-> IF flagged THEN "pending" ELSE "applied",
                                  log |-> 0, decisions |-> 0])
    /\ Proceed(t)
    /\ UNCHANGED <<docs, effects, counters>>

\* record_revision.
Record(t) ==
    LET flagged == InHand(t).action = "FLAG_FOR_CURATION" IN
    /\ op[t].pc = "record"
    /\ rows' = Append(rows, [revision |-> InHand(t),
                             status |-> IF flagged THEN "pending" ELSE "applied",
                             log |-> 0, decisions |-> 0])
    /\ Proceed(t)
    /\ UNCHANGED <<docs, effects, counters>>

-----------------------------------------------------------------------------
(* accept_revision, reject_revision and modify_revision.  A row that is not *)
(* pending is answered with the decision it has.                            *)

Pending(i) == rows[i].status = "pending"

\* Mutant: the row is not looked at.
PendingOrDecided(i) == rows[i].status # "applied"

Decidable(i) == Pending(i)

\* What waits is always FLAG_FOR_CURATION, of which accepting changes nothing.
BeginDecision(t) ==
    /\ CanBegin(t)
    /\ \E i \in DOMAIN rows, decision \in {"accepted", "rejected"} :
          /\ Decidable(i)
          /\ Begin(t, [IdleOp EXCEPT !.pc = "mark", !.row = i, !.decision = decision])
    /\ UNCHANGED <<docs, rows, effects, kept, aborts>>

\* Without an override_action, or with FLAG_FOR_CURATION for one, the payload is
\* not used.
BeginModification(t) ==
    /\ CanBegin(t)
    /\ \E i \in DOMAIN rows, action \in Actions, payload \in BOOLEAN :
          /\ Decidable(i)
          /\ Begin(t, [IdleOp EXCEPT
                !.pc = IF action = "FLAG_FOR_CURATION" THEN "mark" ELSE "find",
                !.todo = <<[rows[i].revision EXCEPT !.action = action]>>,
                !.row = i, !.decision = "modified", !.payload = payload])
    /\ UNCHANGED <<docs, rows, effects, kept, aborts>>

\* update_status reads the row,
LoadRow(t) ==
    /\ op[t].pc = "mark"
    /\ op' = [op EXCEPT ![t].pc = "stamp", ![t].log = rows[op[t].row].log]
    /\ UNCHANGED <<docs, rows, effects, counters>>

\* Mutant: the status written is the verb of the decision.
StampVerb(t) ==
    LET verb == [accepted |-> "accept", rejected |-> "reject", modified |-> "modify"] IN
    /\ op[t].pc = "stamp"
    /\ rows' = [rows EXCEPT ![op[t].row].status = verb[op[t].decision],
                            ![op[t].row].log = op[t].log + 1,
                            ![op[t].row].decisions = @ + 1]
    /\ op' = [op EXCEPT ![t] = IdleOp]
    /\ UNCHANGED <<docs, effects, counters>>

\* and writes the status with the log as it was read and one entry more.
Stamp(t) ==
    /\ op[t].pc = "stamp"
    /\ rows' = [rows EXCEPT ![op[t].row].status = op[t].decision,
                            ![op[t].row].log = op[t].log + 1,
                            ![op[t].row].decisions = @ + 1]
    /\ op' = [op EXCEPT ![t] = IdleOp]
    /\ UNCHANGED <<docs, effects, counters>>

-----------------------------------------------------------------------------
\* A curator approves an entity meanwhile (Curation's ApplyDecision), which makes
\* a version.
Approve(t) ==
    /\ CanBegin(t)
    /\ \E k \in Live, still \in BOOLEAN :
          docs' = Successor(k, docs[k].evidence, "approved", still) /\ Expire(k, still)
    /\ Count
    /\ UNCHANGED <<rows, effects, op, aborts>>

Abort(t) ==
    /\ op[t].pc # "idle"
    /\ aborts < MaxAborts
    /\ aborts' = aborts + 1
    /\ op' = [op EXCEPT ![t] = IdleOp]
    /\ UNCHANGED <<docs, rows, effects, overlapped, kept, ops>>

Next ==
    \E t \in Threads :
        \/ BeginRun(t) \/ Guard(t)
        \/ FindPrior(t) \/ ReadCurrent(t) \/ Write(t) \/ Record(t)
        \/ BeginDecision(t) \/ BeginModification(t) \/ LoadRow(t) \/ Stamp(t)
        \/ Approve(t) \/ Abort(t)

Spec == Init /\ [][Next]_vars

-----------------------------------------------------------------------------
(* Properties.                                                              *)

TypeOK ==
    /\ docs \in Seq(Version)
    /\ rows \in Seq(Row)
    /\ effects \in Seq(Revision)
    /\ op \in [Threads -> Op]
    /\ overlapped \in BOOLEAN /\ kept \subseteq Nat
    /\ ops \in Nat /\ aborts \in Nat

(* As long as no call fails, no run retires a current version that has been *)
(* approved, whoever approves, decides and revises at the same time: the    *)
(* guard reads the version two calls before the write, and an approval      *)
(* makes a new one (_apply_mechanical and _apply_llm, "published-item guard").*)
PublishedProtected ==
    [][\A t \in Threads : aborts = 0 /\ op[t].row = 0 /\ Write(t) =>
          \A k \in Live : docs[k].status = "approved" => docs'[k].live]_vars

(* A row that says "applied" tells of a revision that was made, whatever    *)
(* overlaps and dies, but for the retraction of a version whose expiry has  *)
(* failed unnoticed (supersede writes the row last, and writes it after     *)
(* "supersede RETRACT no-op" too).                                          *)
AppliedRowsAreTrue ==
    \A i \in DOMAIN rows : rows[i].status = "applied" =>
        \/ \E j \in DOMAIN effects : effects[j] = rows[i].revision
        \/ rows[i].revision.action = "RETRACT" /\ rows[i].revision.key \in kept

(* Every crash costs at most one row: the revisions made are those with a   *)
(* row, those whose row is about to be written, and one at most for each    *)
(* operation that died (supersede).                                         *)
UnrecordedAreCrashes ==
    LET recorded == {i \in DOMAIN rows : rows[i].status = "applied"}
        inHand == {t \in Threads : op[t].pc = "record"
                                     /\ InHand(t).action # "FLAG_FOR_CURATION"} IN
    Len(effects) <= Cardinality(recorded) + Cardinality(inHand) + aborts

(* As long as operations do not overlap and none dies, whichever expiries   *)
(* fail unnoticed, repeating a run makes no revision twice                  *)
(* (temporal_revisions_repo.py, "the supersede pass is replay-safe").       *)
NothingTwice == \A i, j \in DOMAIN effects : effects[i] = effects[j] => i = j
ReplaySafe == ~overlapped /\ aborts = 0 => NothingTwice

(* As long as operations do not overlap, wherever they die, a document has  *)
(* one question about an entity in the inbox at most, and a question is     *)
(* decided once (revision_actions.py, "re-calling on an already-decided row *)
(* returns the current state").                                             *)
OneQuestion ==
    ~overlapped =>
        /\ \A i, j \in DOMAIN rows :
              Pending(i) /\ Pending(j) /\ rows[i].revision = rows[j].revision => i = j
        /\ \A i \in DOMAIN rows : rows[i].decisions = rows[i].log /\ rows[i].log <= 1

(* As long as operations do not overlap and no expiry fails unnoticed,      *)
(* wherever operations die, a current version has the evidence of every     *)
(* reinforcement its entity was given, through all revisions and approvals  *)
(* (_apply_reinforce replaces the whole list, _apply_revise copies it).     *)
EvidenceKept ==
    ~overlapped /\ kept = {} => \A k \in Live, d \in Documents :
        docs[k].evidence[d] =
            Cardinality({j \in DOMAIN effects :
                            /\ effects[j].action = "REINFORCE" /\ effects[j].doc = d
                            /\ docs[effects[j].key].entity = docs[k].entity})
=============================================================================
