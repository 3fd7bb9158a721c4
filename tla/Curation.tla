------------------------------- MODULE Curation -------------------------------
(***************************************************************************)
(* Review of extracted entities: decisions with their audit rows, merging  *)
(* entities into one, and promotion of what was approved to production.    *)
(* Source: backend/app/services/curation.py and promotion.py.              *)
(*                                                                         *)
(* The steps inside a version update or a cascade are TemporalStore's; one *)
(* action here is one of the calls that these services make.               *)
(***************************************************************************)
EXTENDS Naturals, Sequences, FiniteSets

CONSTANTS
    Threads,       \* request handlers that may run at the same time
    NumSeeded,     \* entities that exist initially
    SeedHomes,     \* the ontologies they may be in
    SeedStatuses,  \* the statuses they may have
    Operations,    \* operations the handlers perform, a subset of AllOperations
    MaxRelations,  \* bound: relations between them initially
    MaxSources,    \* bound: sources of one merge
    MaxOps,        \* bound: operations begun
    MaxAborts,     \* bound: operations cut short by an exception or a crash
    MaxFaults      \* bound: expiries that fail unnoticed, entities whose promotion fails

AllOperations == {"decide", "merge", "promote"}

ASSUME OperationsAssumption == Operations \subseteq AllOperations
ASSUME SeedAssumption ==
    SeedHomes \subseteq {"staging", "production"} /\ SeedStatuses \subseteq {"draft", "approved"}
ASSUME CurationBounds ==
    /\ NumSeeded \in Nat /\ MaxRelations \in Nat /\ MaxSources \in Nat
    /\ MaxOps \in Nat /\ MaxAborts \in Nat /\ MaxFaults \in Nat

VARIABLES
    docs,     \* all entity versions; the index is the _key
    edges,    \* the current edges of all collections
    copies,   \* edges inserted so far
    audit,    \* curation_decisions, as pairs of entity_key and action
    effects,  \* history: the data changes made, as such pairs
    op,       \* op[t]: the operation thread t is in the middle of
    overlapped,  \* history: an operation has begun while another was under way
    ops, aborts, faults

graph == <<docs, edges, copies>>
records == <<audit, effects>>
counters == <<overlapped, ops, aborts, faults>>
vars == <<docs, edges, copies, audit, effects, op, overlapped, ops, aborts, faults>>

Homes == {"staging", "production"}
Statuses == {"draft", "approved"}
Actions == {"approve", "reject", "edit", "merge"}

\* root: the first version of the entity; source: the staging version that
\* promotion copied, 0 for none.
Doc == [home : Homes, status : Statuses, live : BOOLEAN,
        root : Nat \ {0}, source : Nat]
Edge == [id : Nat, rel : Nat, from : Nat, to : Nat]

\* What a handler holds between two calls.
Op == [pc : {"idle", "apply", "source", "expire", "move", "target", "record",
             "promote", "edges", "insert"},
       key : Nat,                        \* the entity decided on, or the merge target
       action : Actions,
       todo : SUBSET Nat,                \* merge sources or entities still to promote
       cur : Nat,                        \* the merge source in hand
       keyMap : SUBSET (Nat \X Nat),     \* promotion: old and new _id
       pending : SUBSET Edge,            \* promotion: edges read and not yet copied
       home : Homes,                     \* promotion: the target ontology
       before : SUBSET (Nat \X Nat \X Nat)]  \* history: relations at the start

IdleOp == [pc |-> "idle", key |-> 0, action |-> "merge", todo |-> {}, cur |-> 0,
           keyMap |-> {}, pending |-> {}, home |-> "staging", before |-> {}]

Live == {k \in DOMAIN docs : docs[k].live}
Touching(k) == {e \in edges : k \in {e.from, e.to}}
Relations(among) ==
    LET joined == {e \in edges : {e.from, e.to} \subseteq among} IN
    {<<e.rel, docs[e.from].root, docs[e.to].root>> : e \in joined}

\* Mutant: the query forgets the filter on expired.
ApprovedOfAnyAge ==
    {k \in DOMAIN docs : docs[k].home = "staging" /\ docs[k].status = "approved"}

Approved == {k \in Live : docs[k].home = "staging" /\ docs[k].status = "approved"}

CanBegin(t, kind) == kind \in Operations /\ op[t].pc = "idle" /\ ops < MaxOps

Begin(t, o) ==
    /\ ops' = ops + 1
    /\ overlapped' = (overlapped \/ \E s \in Threads : op[s].pc # "idle")
    /\ op' = [op EXCEPT ![t] = o]

Finish(t) == op' = [op EXCEPT ![t] = IdleOp]

\* Mutant: only the outgoing edges are re-created.
MovedOutgoing(old, new) ==
    {[e EXCEPT !.from = IF @ = old THEN new ELSE @] : e \in edges}

\* re_create_edges for every edge collection: both directions.
Moved(old, new) ==
    LET End(k) == IF k = old THEN new ELSE k IN
    {[e EXCEPT !.from = End(@), !.to = End(@)] : e \in edges}

\* expire_entity: the rows it leaves.  A write that fails is logged, and the
\* caller goes on all the same.
Retired(k) == [docs EXCEPT ![k].live = FALSE]
Expires(k, rows) ==
    \/ rows = Retired(k) /\ UNCHANGED faults
    \/ rows = docs /\ faults < MaxFaults /\ faults' = faults + 1

\* Mutant: an edit gives the version a status of its own.
SucceedEdited(k, status) ==
    LET new == [docs[k] EXCEPT !.status = IF @ = status THEN "edited" ELSE status] IN
    /\ \E rows \in {docs, Retired(k)} : Expires(k, rows) /\ docs' = Append(rows, new)
    /\ edges' = Moved(k, Len(docs) + 1)
    /\ UNCHANGED copies

\* update_entity: the version k is succeeded by one with another status.
Succeed(k, status) ==
    /\ \E rows \in {docs, Retired(k)} :
          Expires(k, rows) /\ docs' = Append(rows, [docs[k] EXCEPT !.status = status])
    /\ edges' = Moved(k, Len(docs) + 1)
    /\ UNCHANGED copies

\* expire_class_cascade: the entity and the edges at it, some of which may stay.
Withdraw(k) ==
    /\ \E gone \in SUBSET Touching(k) :
          /\ edges' = edges \ gone
          /\ \/ gone = Touching(k) /\ Expires(k, docs')
             \/ /\ gone # Touching(k) /\ docs' \in {docs, Retired(k)}
                /\ faults < MaxFaults /\ faults' = faults + 1
    /\ UNCHANGED copies

-----------------------------------------------------------------------------
Seeded == 1 .. NumSeeded

Init ==
    /\ \E home \in [Seeded -> SeedHomes], status \in [Seeded -> SeedStatuses] :
          docs = [k \in Seeded |-> [home |-> home[k], status |-> status[k],
                                    live |-> TRUE, root |-> k, source |-> 0]]
    /\ \E n \in 0 .. MaxRelations :
       \E ends \in [1 .. n -> {p \in Seeded \X Seeded : p[1] # p[2]}] :
          edges = {[id |-> i, rel |-> i, from |-> ends[i][1], to |-> ends[i][2]] :
                      i \in 1 .. n}
    /\ copies = MaxRelations
    /\ audit = {} /\ effects = {}
    /\ op = [t \in Threads |-> IdleOp]
    /\ overlapped = FALSE
    /\ ops = 0 /\ aborts = 0 /\ faults = 0

-----------------------------------------------------------------------------
(* record_decision and its temporal side effect.  The entity is named by    *)
(* the _key the client saw, which need not be current any more.             *)

\* Mutant: no audit row yet; ApplyDecision is where it would be written.
RecordDecisionLater(t) ==
    /\ CanBegin(t, "decide")
    /\ \E k \in DOMAIN docs, action \in Actions :
        /\ Begin(t, [IdleOp EXCEPT !.pc = "apply", !.key = k, !.action = action])
        /\ UNCHANGED <<graph, records, aborts, faults>>

RecordDecision(t) ==
    /\ CanBegin(t, "decide")
    /\ \E k \in DOMAIN docs, action \in Actions :
        /\ Begin(t, [IdleOp EXCEPT !.pc = "apply", !.key = k, !.action = action])
        /\ audit' = audit \cup {<<k, action>>}
        /\ UNCHANGED <<graph, effects, aborts, faults>>

\* A version that is not current raises; "merge" has no side effect here.
ApplyDecision(t) ==
    LET k == op[t].key
        action == op[t].action IN
    /\ op[t].pc = "apply"
    /\ IF action = "merge" \/ k \notin Live THEN UNCHANGED <<graph, effects, faults>>
       ELSE /\ effects' = effects \cup {<<k, action>>}
            /\ \/ action = "approve" /\ Succeed(k, "approved")
               \/ action = "edit" /\ Succeed(k, docs[k].status)
               \/ action = "reject" /\ Withdraw(k)
    /\ Finish(t)
    /\ UNCHANGED <<audit, overlapped, ops, aborts>>

-----------------------------------------------------------------------------
(* merge_entities.  The endpoint refuses a target that is its own source.   *)

BeginMerge(t) ==
    /\ CanBegin(t, "merge")
    /\ \E target \in Live, sources \in SUBSET DOMAIN docs :
        /\ Cardinality(sources) \in 1 .. MaxSources /\ target \notin sources
        /\ Begin(t, [IdleOp EXCEPT !.pc = "source", !.key = target,
                                   !.todo = sources, !.before = Relations(Live)])
        /\ UNCHANGED <<graph, records, aborts, faults>>

\* A source that is not current is skipped.
ReadSource(t) ==
    /\ op[t].pc = "source"
    /\ \E s \in op[t].todo :
          op' = [op EXCEPT ![t].todo = @ \ {s},
                           ![t].cur = s,
                           ![t].pc = IF s \in Live THEN "expire" ELSE "source"]
    /\ UNCHANGED <<graph, records, counters>>

ExpireSource(t) ==
    /\ op[t].pc = "expire"
    /\ Expires(op[t].cur, docs')
    /\ op' = [op EXCEPT ![t].pc = "move"]
    /\ UNCHANGED <<edges, copies, records, overlapped, ops, aborts>>

\* The target is the version read at the start.
MoveEdges(t) ==
    /\ op[t].pc = "move"
    /\ edges' = Moved(op[t].cur, op[t].key)
    /\ op' = [op EXCEPT ![t].pc = "source"]
    /\ UNCHANGED <<docs, copies, records, counters>>

\* A write among the moves raises: the edges of left are not reached, and the
\* one in hand may be expired without its copy.
MoveFails(t) ==
    /\ op[t].pc = "move"
    /\ aborts < MaxAborts /\ aborts' = aborts + 1
    /\ \E left \in SUBSET Touching(op[t].cur) :
       \E unmoved \in {left} \cup {left \cup {e} : e \in Touching(op[t].cur)} :
          edges' = left \cup {e \in Moved(op[t].cur, op[t].key) : \A d \in unmoved : d.id # e.id}
    /\ Finish(t)
    /\ UNCHANGED <<docs, copies, records, overlapped, ops, faults>>

\* update_entity raises if the target has a successor by now.
MergeTarget(t) ==
    LET k == op[t].key IN
    /\ op[t].pc = "source" /\ op[t].todo = {}
    /\ IF k \in Live
       THEN /\ Succeed(k, "approved")
            /\ effects' = effects \cup {<<k, "merge">>}
            /\ op' = [op EXCEPT ![t].pc = "record"]
       ELSE Finish(t) /\ UNCHANGED <<graph, effects, faults>>
    /\ UNCHANGED <<audit, overlapped, ops, aborts>>

RecordMerge(t) ==
    /\ op[t].pc = "record"
    /\ audit' = audit \cup {<<op[t].key, "merge">>}
    /\ Finish(t)
    /\ UNCHANGED <<graph, effects, counters>>

-----------------------------------------------------------------------------
(* promote_staging.  Without an ontology_id the target is staging itself.   *)

BeginPromotion(t) ==
    /\ CanBegin(t, "promote")
    /\ \E home \in Homes :
        /\ Begin(t, [IdleOp EXCEPT !.pc = "promote", !.todo = Approved, !.home = home,
                                   !.before = Relations(Approved)])
        /\ UNCHANGED <<graph, records, aborts, faults>>

\* The query states no order; the entities are copied by ascending _key here.
PromoteEntity(t) ==
    /\ op[t].pc = "promote"
    /\ \E k \in op[t].todo :
          /\ \A j \in op[t].todo : k <= j
          /\ docs' = Append(docs, [docs[k] EXCEPT !.home = op[t].home, !.live = TRUE,
                                                  !.status = "approved",
                                                  !.root = Len(docs) + 1, !.source = k])
          /\ op' = [op EXCEPT ![t].todo = @ \ {k},
                              ![t].keyMap = @ \cup {<<k, Len(docs) + 1>>}]
    /\ UNCHANGED <<edges, copies, records, counters>>

\* The exception is reported and the loop goes on.
PromotionFault(t) ==
    /\ op[t].pc = "promote"
    /\ faults < MaxFaults /\ faults' = faults + 1
    /\ \E k \in op[t].todo :
          /\ \A j \in op[t].todo : k <= j
          /\ op' = [op EXCEPT ![t].todo = @ \ {k},
                              ![t].before = {r \in @ : docs[k].root \notin {r[2], r[3]}}]
    /\ UNCHANGED <<graph, records, overlapped, ops, aborts>>

Mapped(t) == {p[1] : p \in op[t].keyMap}

\* Every current edge is read; those with a promoted end are kept.
QueryEdges(t) ==
    /\ op[t].pc = "promote" /\ op[t].todo = {}
    /\ op' = [op EXCEPT ![t].pc = "insert",
                        ![t].pending = {e \in edges : {e.from, e.to} \cap Mapped(t) # {}}]
    /\ UNCHANGED <<graph, records, counters>>

New(t, k) == (CHOOSE p \in op[t].keyMap : p[1] = k)[2]

\* Mutant: the target of an edge is left where it was.
ResolveSourceOnly(t, k) ==
    IF \E e \in op[t].pending : e.from = k /\ k \in Mapped(t) THEN New(t, k) ELSE k

Resolve(t, k) == IF k \in Mapped(t) THEN New(t, k) ELSE k

PromoteEdge(t) ==
    /\ op[t].pc = "insert"
    /\ \E e \in op[t].pending :
          /\ edges' = edges \cup {[id |-> copies + 1, rel |-> e.rel,
                                    from |-> Resolve(t, e.from), to |-> Resolve(t, e.to)]}
          /\ op' = [op EXCEPT ![t].pending = @ \ {e}]
    /\ copies' = copies + 1
    /\ UNCHANGED <<docs, records, counters>>

ReportPromotion(t) ==
    /\ op[t].pc = "insert" /\ op[t].pending = {}
    /\ Finish(t)
    /\ UNCHANGED <<graph, records, counters>>

-----------------------------------------------------------------------------
Abort(t) ==
    /\ op[t].pc # "idle"
    /\ aborts < MaxAborts
    /\ aborts' = aborts + 1
    /\ Finish(t)
    /\ UNCHANGED <<graph, records, overlapped, ops, faults>>

Next ==
    \E t \in Threads :
        \/ RecordDecision(t) \/ ApplyDecision(t)
        \/ BeginMerge(t) \/ ReadSource(t) \/ ExpireSource(t) \/ MoveEdges(t)
        \/ MoveFails(t) \/ MergeTarget(t) \/ RecordMerge(t)
        \/ BeginPromotion(t) \/ PromoteEntity(t) \/ PromotionFault(t)
        \/ QueryEdges(t) \/ PromoteEdge(t) \/ ReportPromotion(t)
        \/ Abort(t)

Spec == Init /\ [][Next]_vars

-----------------------------------------------------------------------------
(* Properties.                                                              *)

TypeOK ==
    /\ docs \in Seq(Doc)
    /\ edges \subseteq Edge
    /\ copies \in Nat
    /\ audit \subseteq Nat \X Actions
    /\ effects \subseteq Nat \X Actions
    /\ op \in [Threads -> Op]
    /\ overlapped \in BOOLEAN
    /\ ops \in Nat /\ aborts \in Nat /\ faults \in Nat

(* No approval, rejection or edit changes the graph without its audit row,  *)
(* whichever handlers run at once and wherever one dies (record_decision    *)
(* writes the row first).                                                   *)
DecisionsAudited == \A e \in effects : e[2] # "merge" => e \in audit

(* As long as operations do not overlap, a merge that ends keeps every      *)
(* relation between current entities, now with the winner in the losers'    *)
(* place (merge_entities: "Re-point source edges to the target").           *)
MergeKeepsRelations ==
    [][\A t \in Threads : ~overlapped /\ MergeTarget(t) /\ op'[t].pc = "record" =>
          \A r \in op[t].before : \E e \in edges' :
              LET winner == docs[op[t].key].root IN
              /\ e.rel = r[1]
              /\ {e.from, e.to} \subseteq Live'
              /\ docs'[e.from].root \in {r[2], winner}
              /\ docs'[e.to].root \in {r[3], winner}]_vars

(* As long as operations do not overlap, promotion copies every relation    *)
(* between the entities it copies (promote_staging: "Re-create edges        *)
(* between promoted entities").                                             *)
PromotionKeepsRelations ==
    [][\A t \in Threads : ~overlapped /\ ReportPromotion(t) =>
          \A r \in op[t].before : \E e \in edges :
              /\ e.rel = r[1]
              /\ \A end \in {<<e.from, r[2]>>, <<e.to, r[3]>>} :
                    LET source == docs[end[1]].source IN
                    source # 0 /\ docs[source].root = end[2]]_vars

(* As long as operations do not overlap, what is copied to production has   *)
(* not been rejected, edited or merged away since (promote_staging).        *)
PromotesCurrent ==
    [][\A t \in Threads : ~overlapped /\ PromoteEntity(t) => docs'[Len(docs')].source \in Live]_vars
=============================================================================
