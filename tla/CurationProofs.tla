---------------------------- MODULE CurationProofs ----------------------------
(***************************************************************************)
(* Theorems about Curation for any number of threads, entities, relations, *)
(* operations and interruptions.                                           *)
(*                                                                         *)
(* What a merge or a promotion has read stays good while it runs alone:    *)
(* Serial says that it does until an overlap is recorded, and MergeKnows   *)
(* and PromotionKnows say where each relation is between its steps.        *)
(***************************************************************************)
EXTENDS Curation, SequenceTheorems, TLAPS

\* What the thread t does in a step.
Step(t) ==
    \/ RecordDecision(t) \/ ApplyDecision(t)
    \/ BeginMerge(t) \/ ReadSource(t) \/ ExpireSource(t) \/ MoveEdges(t)
    \/ MoveFails(t) \/ MergeTarget(t) \/ RecordMerge(t)
    \/ BeginPromotion(t) \/ PromoteEntity(t) \/ PromotionFault(t)
    \/ QueryEdges(t) \/ PromoteEdge(t) \/ ReportPromotion(t)
    \/ Abort(t)

\* A step adds versions, never changes what one stands for, revives none.
DocsGrow ==
    /\ docs' \in Seq(Doc)
    /\ Len(docs) <= Len(docs')
    /\ \A i \in 1 .. Len(docs) : /\ docs'[i].root = docs[i].root
                                 /\ docs'[i].source = docs[i].source
                                 /\ docs'[i].live => docs[i].live

-----------------------------------------------------------------------------
(* The inductive invariants.                                                *)

\* With the types: keys that a thread remembers are keys of versions, and what
\* it has promoted is the copy of what it remembers it for.
TInv ==
    /\ TypeOK
    /\ \A t \in Threads :
          /\ op[t].todo \subseteq 1 .. Len(docs)
          /\ \A p \in op[t].keyMap : /\ p[1] \in 1 .. Len(docs)
                                     /\ p[2] \in 1 .. Len(docs)
                                     /\ docs[p[2]].source = p[1]

\* A decision about to be applied has its audit row.
RowFirst == \A t \in Threads : op[t].pc = "apply" => <<op[t].key, op[t].action>> \in audit

AuditInv == TInv /\ RowFirst /\ DecisionsAudited

\* As long as no overlap is recorded, one thread at a time is at work.
Serial ==
    ~overlapped => \A s, t \in Threads : op[s].pc # "idle" /\ op[t].pc # "idle" => s = t

\* Between the steps of a merge, each relation there was has an edge whose ends
\* are current, or are the source in hand, which has just been expired.
Carries(t, k, root) ==
    /\ k \in 1 .. Len(docs)
    /\ docs[k].root \in {root, docs[op[t].key].root}
    /\ docs[k].live \/ (op[t].pc = "move" /\ k = op[t].cur)

MergeKnows(t) ==
    op[t].pc \in {"source", "expire", "move"} =>
        /\ op[t].key \in Live /\ op[t].key \notin op[t].todo
        /\ op[t].pc # "source" => op[t].cur # op[t].key
        /\ \A r \in op[t].before : \E e \in edges :
              e.rel = r[1] /\ Carries(t, e.from, r[2]) /\ Carries(t, e.to, r[3])

\* Between the steps of a promotion, each relation to copy has an edge between
\* versions that are, or will be, copied; once edges are copied too, that edge
\* waits for its turn or has its copy.
Covers(t, k, root) ==
    /\ k \in 1 .. Len(docs) /\ k \in op[t].todo \cup Mapped(t)
    /\ docs[k].root = root

CopyOf(k, root) ==
    k \in 1 .. Len(docs) /\ docs[k].source \in 1 .. Len(docs) /\ docs[docs[k].source].root = root

PromotionKnows(t) ==
    /\ op[t].pc = "promote" => \A r \in op[t].before : \E e \in edges :
          e.rel = r[1] /\ Covers(t, e.from, r[2]) /\ Covers(t, e.to, r[3])
    /\ op[t].pc = "insert" => op[t].todo = {} /\ \A r \in op[t].before :
          \/ \E e \in op[t].pending :
                e.rel = r[1] /\ Covers(t, e.from, r[2]) /\ Covers(t, e.to, r[3])
          \/ \E e \in edges : e.rel = r[1] /\ CopyOf(e.from, r[2]) /\ CopyOf(e.to, r[3])

SerialInv == TInv /\ Serial
MergeInv == SerialInv /\ (~overlapped => \A t \in Threads : MergeKnows(t))
PromotionInv == SerialInv /\ (~overlapped => \A t \in Threads : PromotionKnows(t))

-----------------------------------------------------------------------------
(* Types.                                                                   *)

(* Any thread's record and any version, taken apart.                        *)
LEMMA Facts ==
    ASSUME TypeOK
    PROVE  /\ docs \in Seq(Doc) /\ Len(docs) \in Nat /\ DOMAIN docs = 1 .. Len(docs)
           /\ \A i \in 1 .. Len(docs) :
                 /\ docs[i] \in Doc /\ docs[i].root \in Nat \ {0} /\ docs[i].source \in Nat
                 /\ docs[i].home \in Homes /\ docs[i].status \in Statuses
                 /\ docs[i].live \in BOOLEAN
           /\ \A e \in edges : e.rel \in Nat /\ e.from \in Nat /\ e.to \in Nat /\ e \in Edge
           /\ Live \subseteq 1 .. Len(docs) /\ Approved \subseteq Live
<1>1. docs \in Seq(Doc)
  BY DEF TypeOK
<1>2. Len(docs) \in Nat /\ DOMAIN docs = 1 .. Len(docs)
  BY <1>1, LenProperties
<1>3. \A i \in 1 .. Len(docs) : docs[i] \in Doc
  BY <1>1, ElementOfSeq
<1> QED BY <1>1, <1>2, <1>3 DEF TypeOK, Doc, Edge, Live, Approved

(* Writing one thread's record leaves the others alone.                     *)
LEMMA OpStep ==
    ASSUME op \in [Threads -> Op], NEW t \in Threads, NEW o,
           op' = [op EXCEPT ![t] = o]
    PROVE  /\ op'[t] = o
           /\ \A u \in Threads : u # t => op'[u] = op[u]
           /\ o \in Op => op' \in [Threads -> Op]
OBVIOUS

LEMMA IdleType == IdleOp \in Op /\ IdleOp.pc = "idle" /\ IdleOp.todo = {} /\ IdleOp.keyMap = {}
BY DEF IdleOp, Op, Actions, Homes

-----------------------------------------------------------------------------
(* The writes.                                                              *)

(* Expiring a version changes nothing else.                                 *)
LEMMA ExpireVersion ==
    ASSUME TypeOK, NEW k \in 1 .. Len(docs), docs' = Retired(k)
    PROVE  /\ DocsGrow /\ Len(docs') = Len(docs)
           /\ ~docs'[k].live /\ docs'[k].root = docs[k].root
           /\ docs'[k].source = docs[k].source
           /\ \A i \in 1 .. Len(docs) : i # k => docs'[i] = docs[i]
<1> DEFINE v == [docs[k] EXCEPT !.live = FALSE]
<1>1. docs \in Seq(Doc) /\ docs[k] \in Doc /\ Len(docs) \in Nat
  BY Facts
<1>2. /\ v \in Doc /\ ~v.live /\ v.root = docs[k].root /\ v.source = docs[k].source
  BY <1>1 DEF Doc
<1>3. docs' = [docs EXCEPT ![k] = v]
  BY DEF Retired
<1> HIDE DEF v
<1> DEFINE new == [docs EXCEPT ![k] = v]
<1>4. /\ new \in Seq(Doc) /\ Len(new) = Len(docs)
      /\ \A j \in 1 .. Len(docs) : new[j] = IF j = k THEN v ELSE docs[j]
  BY <1>1, <1>2, ExceptSeq
<1> HIDE DEF new
<1>5. docs' = new
  BY <1>3 DEF new
<1> QED BY <1>1, <1>2, <1>4, <1>5 DEF DocsGrow

(* expire_entity: the version is expired or stays what it is.               *)
LEMMA VersionExpires ==
    ASSUME TypeOK, NEW k, docs' \in {docs, Retired(k)}
    PROVE  /\ DocsGrow /\ Len(docs') = Len(docs)
           /\ \A i \in 1 .. Len(docs) : i # k => docs'[i] = docs[i]
<1>1. Len(docs) \in Nat /\ docs \in Seq(Doc) /\ DOMAIN docs = 1 .. Len(docs)
  BY Facts
<1>2. CASE docs' = docs
  BY <1>1, <1>2 DEF DocsGrow
<1>3. CASE docs' = Retired(k) /\ k \in 1 .. Len(docs)
  BY <1>3, ExpireVersion
<1>4. CASE docs' = Retired(k) /\ k \notin 1 .. Len(docs)
  BY <1>1, <1>2, <1>4 DEF Retired
<1> QED BY <1>2, <1>3, <1>4

(* update_entity: the successor stands for the same entity.                 *)
LEMMA SucceedVersion ==
    ASSUME TypeOK, NEW k \in Live, NEW status \in Statuses, Succeed(k, status)
    PROVE  /\ DocsGrow /\ Len(docs') = Len(docs) + 1
           /\ docs'[k].root = docs[k].root
           /\ \A i \in 1 .. Len(docs) : i # k => docs'[i] = docs[i]
           /\ docs'[Len(docs) + 1].live /\ docs'[Len(docs) + 1].root = docs[k].root
<1> DEFINE v == [docs[k] EXCEPT !.live = FALSE]
           w == [docs[k] EXCEPT !.status = status]
<1>1. /\ docs \in Seq(Doc) /\ docs[k] \in Doc /\ Len(docs) \in Nat
      /\ k \in 1 .. Len(docs) /\ docs[k].live
  BY Facts DEF Live
<1>2. /\ v \in Doc /\ ~v.live /\ v.root = docs[k].root /\ v.source = docs[k].source
      /\ w \in Doc /\ w.live /\ w.root = docs[k].root
  BY <1>1 DEF Doc
<1>3. PICK old \in {docs, Retired(k)} : docs' = Append(old, w)
  BY DEF Succeed
<1> HIDE DEF w
<1>4. /\ old \in Seq(Doc) /\ Len(old) = Len(docs)
      /\ \A j \in 1 .. Len(docs) : j # k => old[j] = docs[j]
      /\ old[k].root = docs[k].root /\ old[k].source = docs[k].source
  <2>1. CASE old = docs
    BY <1>1, <2>1
  <2>2. CASE old = Retired(k)
    <3>1. old = [docs EXCEPT ![k] = v]
      BY <2>2 DEF Retired
    <3> HIDE DEF v
    <3>2. /\ old \in Seq(Doc) /\ Len(old) = Len(docs)
          /\ \A j \in 1 .. Len(docs) : old[j] = IF j = k THEN v ELSE docs[j]
      BY <1>1, <1>2, <3>1, ExceptSeq
    <3> QED BY <1>1, <1>2, <3>2
  <2> QED BY <1>3, <2>1, <2>2
<1>5. /\ docs' \in Seq(Doc) /\ Len(docs') = Len(docs) + 1
      /\ \A j \in 1 .. Len(docs) : docs'[j] = old[j]
      /\ docs'[Len(docs) + 1] = w
  BY <1>2, <1>3, <1>4, AppendProperties
<1> QED BY <1>1, <1>2, <1>4, <1>5 DEF DocsGrow

(* _promote_entity: the copy stands for an entity of its own.               *)
LEMMA CopyVersion ==
    ASSUME TypeOK, NEW k \in 1 .. Len(docs), NEW home \in Homes,
           docs' = Append(docs, [docs[k] EXCEPT !.home = home, !.live = TRUE,
                                                !.status = "approved",
                                                !.root = Len(docs) + 1, !.source = k])
    PROVE  /\ DocsGrow /\ Len(docs') = Len(docs) + 1
           /\ \A i \in 1 .. Len(docs) : docs'[i] = docs[i]
           /\ docs'[Len(docs) + 1].root = Len(docs) + 1
           /\ docs'[Len(docs) + 1].source = k
<1> DEFINE w == [docs[k] EXCEPT !.home = home, !.live = TRUE, !.status = "approved",
                                !.root = Len(docs) + 1, !.source = k]
<1>1. docs \in Seq(Doc) /\ docs[k] \in Doc /\ Len(docs) \in Nat
  BY Facts
<1>2. w \in Doc /\ w.root = Len(docs) + 1 /\ w.source = k
  <2>1. Len(docs) + 1 \in Nat \ {0} /\ k \in Nat
    BY <1>1
  <2> QED BY <1>1, <2>1 DEF Doc, Statuses
<1> HIDE DEF w
<1>3. docs' = Append(docs, w)
  BY DEF w
<1>4. /\ docs' \in Seq(Doc) /\ Len(docs') = Len(docs) + 1
      /\ \A j \in 1 .. Len(docs) : docs'[j] = docs[j]
      /\ docs'[Len(docs) + 1] = w
  BY <1>1, <1>2, <1>3, AppendProperties
<1> QED BY <1>1, <1>2, <1>4 DEF DocsGrow

(* re_create_edges: each edge is found again, at the new end if it was at   *)
(* the old one.                                                             *)
LEMMA MovedEdges ==
    ASSUME TypeOK, NEW old \in Nat, NEW new \in Nat
    PROVE  /\ Moved(old, new) \subseteq Edge
           /\ \A e \in edges : \E f \in Moved(old, new) :
                 /\ f.rel = e.rel
                 /\ f.from = IF e.from = old THEN new ELSE e.from
                 /\ f.to = IF e.to = old THEN new ELSE e.to
<1> DEFINE End(k) == IF k = old THEN new ELSE k
           F(e) == [e EXCEPT !.from = End(@), !.to = End(@)]
<1>1. Moved(old, new) = {F(e) : e \in edges}
  BY DEF Moved
<1>2. \A e \in edges : /\ F(e) \in Edge /\ F(e).rel = e.rel
                        /\ F(e).from = End(e.from) /\ F(e).to = End(e.to)
  BY DEF TypeOK, Edge
<1>3. Moved(old, new) \subseteq Edge
  BY <1>1, <1>2
<1>4. ASSUME NEW e \in edges
      PROVE  \E f \in Moved(old, new) :
                /\ f.rel = e.rel
                /\ f.from = IF e.from = old THEN new ELSE e.from
                /\ f.to = IF e.to = old THEN new ELSE e.to
  <2>1. F(e) \in Moved(old, new)
    BY <1>1
  <2> WITNESS F(e) \in Moved(old, new)
  <2> QED BY <1>2
<1> QED BY <1>3, <1>4
-----------------------------------------------------------------------------
(* Each step keeps the types and the versions.                              *)

LEMMA SameVersions == ASSUME TypeOK, UNCHANGED docs PROVE DocsGrow
<1>1. Len(docs) \in Nat /\ docs \in Seq(Doc)
  BY Facts
<1> QED BY <1>1 DEF DocsGrow

(* A step whose new record has keys of versions keeps the rest.             *)
LEMMA TypesKept ==
    ASSUME TInv, DocsGrow, NEW t \in Threads, NEW o \in Op, op' = [op EXCEPT ![t] = o],
           o.todo \subseteq 1 .. Len(docs'),
           \A p \in o.keyMap : /\ p[1] \in 1 .. Len(docs')
                               /\ p[2] \in 1 .. Len(docs')
                               /\ docs'[p[2]].source = p[1],
           edges' \subseteq Edge, copies' \in Nat,
           audit' \subseteq Nat \X Actions, effects' \subseteq Nat \X Actions,
           overlapped' \in BOOLEAN, ops' \in Nat, aborts' \in Nat, faults' \in Nat
    PROVE  TInv'
<1>1. Len(docs) \in Nat /\ Len(docs') \in Nat /\ Len(docs) <= Len(docs')
      /\ 1 .. Len(docs) \subseteq 1 .. Len(docs')
  BY Facts, LenProperties DEF DocsGrow, TInv
<1>2. op \in [Threads -> Op]
  BY DEF TInv, TypeOK
<1>3. /\ op'[t] = o /\ op' \in [Threads -> Op]
      /\ \A u \in Threads : u # t => op'[u] = op[u]
  BY <1>2, OpStep
<1>4. TypeOK'
  BY <1>3 DEF TypeOK, DocsGrow
<1>5. ASSUME NEW u \in Threads
      PROVE  /\ op'[u].todo \subseteq 1 .. Len(docs')
             /\ \A p \in op'[u].keyMap : /\ p[1] \in 1 .. Len(docs')
                                         /\ p[2] \in 1 .. Len(docs')
                                         /\ docs'[p[2]].source = p[1]
  <2>1. CASE u = t
    BY <1>3, <2>1
  <2>2. CASE u # t
    <3>1. op'[u] = op[u] /\ op[u].todo \subseteq 1 .. Len(docs)
      BY <1>3, <2>2 DEF TInv
    <3>2. \A p \in op[u].keyMap : /\ p[1] \in 1 .. Len(docs)
                                  /\ p[2] \in 1 .. Len(docs)
                                  /\ docs[p[2]].source = p[1]
      BY DEF TInv
    <3> QED BY <1>1, <3>1, <3>2 DEF DocsGrow
  <2> QED BY <2>1, <2>2
<1> QED BY <1>4, <1>5 DEF TInv

(* A step that ends the operation and one that changes only its program     *)
(* counter need no more than the types of the rest.                         *)
LEMMA OwnRecord ==
    ASSUME TInv, NEW t \in Threads
    PROVE  /\ op[t] \in Op /\ op \in [Threads -> Op]
           /\ op[t].key \in Nat /\ op[t].cur \in Nat /\ op[t].action \in Actions
           /\ op[t].todo \in SUBSET Nat /\ op[t].home \in Homes
           /\ op[t].keyMap \in SUBSET (Nat \X Nat)
           /\ op[t].pending \in SUBSET Edge
           /\ op[t].before \in SUBSET (Nat \X Nat \X Nat)
           /\ op[t].todo \subseteq 1 .. Len(docs)
           /\ \A p \in op[t].keyMap : /\ p[1] \in 1 .. Len(docs)
                                       /\ p[2] \in 1 .. Len(docs)
                                       /\ docs[p[2]].source = p[1]
BY DEF TInv, TypeOK, Op

LEMMA RelationTypes ==
    ASSUME TypeOK, NEW among \in SUBSET Live
    PROVE  Relations(among) \subseteq Nat \X Nat \X Nat
<1> DEFINE joined == {e \in edges : {e.from, e.to} \subseteq among}
<1>1. \A e \in joined : e.rel \in Nat /\ docs[e.from].root \in Nat /\ docs[e.to].root \in Nat
  BY Facts
<1>2. Relations(among) = {<<e.rel, docs[e.from].root, docs[e.to].root>> : e \in joined}
  BY DEF Relations
<1> HIDE DEF joined
<1> QED BY <1>1, <1>2

(* The beginning of an operation.                                           *)
LEMMA BeginTypes ==
    ASSUME TInv, NEW t \in Threads, NEW o \in Op, Begin(t, o),
           o.todo \subseteq 1 .. Len(docs), o.keyMap = {},
           UNCHANGED <<graph, effects, aborts, faults>>, audit' \subseteq Nat \X Actions
    PROVE  TInv' /\ DocsGrow
<1>1. TypeOK /\ docs' = docs /\ edges' = edges /\ copies' = copies
  BY DEF TInv, graph
<1>2. DocsGrow
  BY <1>1, SameVersions
<1>3. overlapped' \in BOOLEAN
  BY DEF Begin, TInv, TypeOK
<1>4. /\ ops' \in Nat /\ aborts' \in Nat /\ faults' \in Nat
      /\ edges' \subseteq Edge /\ copies' \in Nat /\ effects' \subseteq Nat \X Actions
  BY <1>1 DEF Begin, TypeOK
<1>5. op' = [op EXCEPT ![t] = o]
  BY DEF Begin
<1> QED BY <1>1, <1>2, <1>3, <1>4, <1>5, TypesKept

(* The end of an operation.                                                 *)
LEMMA FinishTypes ==
    ASSUME TInv, DocsGrow, NEW t \in Threads, Finish(t),
           edges' \subseteq Edge, copies' \in Nat,
           audit' \subseteq Nat \X Actions, effects' \subseteq Nat \X Actions,
           overlapped' = overlapped, ops' = ops, aborts' \in Nat, faults' \in Nat
    PROVE  TInv'
<1>1. op' = [op EXCEPT ![t] = IdleOp]
  BY DEF Finish
<1>2. overlapped' \in BOOLEAN /\ ops' \in Nat
  BY DEF TInv, TypeOK
<1> QED BY <1>1, <1>2, IdleType, TypesKept
(* Every action keeps the types and only adds versions.                     *)
LEMMA StepTypes ==
    ASSUME TInv, NEW t \in Threads, Step(t)
    PROVE  TInv' /\ DocsGrow
<1>1. /\ TypeOK /\ docs \in Seq(Doc) /\ Len(docs) \in Nat /\ DOMAIN docs = 1 .. Len(docs)
      /\ Live \subseteq 1 .. Len(docs) /\ Approved \subseteq Live
      /\ edges \subseteq Edge /\ copies \in Nat /\ overlapped \in BOOLEAN
      /\ audit \subseteq Nat \X Actions /\ effects \subseteq Nat \X Actions
      /\ ops \in Nat /\ aborts \in Nat /\ faults \in Nat
  BY Facts DEF TInv, TypeOK
<1>2. op[t] \in Op /\ op \in [Threads -> Op]
  BY OwnRecord
<1>3. ASSUME NEW o \in Op, op' = [op EXCEPT ![t] = o], DocsGrow,
              o.todo \subseteq op[t].todo, o.keyMap = op[t].keyMap,
              edges' \subseteq Edge, copies' \in Nat,
              audit' \subseteq Nat \X Actions, effects' \subseteq Nat \X Actions,
              overlapped' = overlapped, ops' = ops, aborts' = aborts, faults' \in Nat
       PROVE  TInv'
  <2>1. /\ 1 .. Len(docs) \subseteq 1 .. Len(docs')
        /\ \A i \in 1 .. Len(docs) : docs'[i].source = docs[i].source
    BY <1>1, <1>3, LenProperties DEF DocsGrow
  <2>2. o.todo \subseteq 1 .. Len(docs')
    BY <1>3, <2>1, OwnRecord
  <2>3. \A p \in o.keyMap : /\ p[1] \in 1 .. Len(docs') /\ p[2] \in 1 .. Len(docs')
                            /\ docs'[p[2]].source = p[1]
    BY <1>3, <2>1, OwnRecord
  <2> QED BY <1>1, <1>3, <2>2, <2>3, TypesKept
<1>4. ASSUME NEW o \in Op, op' = [op EXCEPT ![t] = o], UNCHANGED <<graph, records>>,
             o.todo \subseteq op[t].todo, o.keyMap = op[t].keyMap,
             overlapped' = overlapped, ops' = ops, aborts' = aborts, faults' \in Nat
      PROVE  TInv' /\ DocsGrow
  <2>1. docs' = docs /\ edges' = edges /\ copies' = copies /\ audit' = audit /\ effects' = effects
    BY <1>4 DEF graph, records
  <2>2. DocsGrow
    BY <1>1, <2>1, SameVersions
  <2> QED BY <1>1, <1>4, <1>3, <2>1, <2>2
<1>5. ASSUME NEW k \in Live, NEW status \in Statuses, Succeed(k, status)
      PROVE  DocsGrow /\ edges' \subseteq Edge /\ copies' \in Nat /\ faults' \in Nat
  <2>1. DocsGrow
    BY <1>1, <1>5, SucceedVersion
  <2>2. k \in Nat /\ Len(docs) + 1 \in Nat
    BY <1>1
  <2>3. edges' = Moved(k, Len(docs) + 1) /\ copies' = copies /\ faults' \in Nat
    BY <1>1, <1>5 DEF Succeed, Expires
  <2> QED BY <1>1, <2>1, <2>2, <2>3, MovedEdges
<1>6. CASE RecordDecision(t)
  <2>1. PICK k \in DOMAIN docs, action \in Actions :
           /\ Begin(t, [IdleOp EXCEPT !.pc = "apply", !.key = k, !.action = action])
           /\ audit' = audit \cup {<<k, action>>}
           /\ UNCHANGED <<graph, effects, aborts, faults>>
    BY <1>6 DEF RecordDecision
  <2> DEFINE o == [IdleOp EXCEPT !.pc = "apply", !.key = k, !.action = action]
  <2>2. k \in Nat
    BY <1>1
  <2>3. o \in Op /\ o.todo = {} /\ o.keyMap = {}
    BY <2>2, IdleType DEF IdleOp, Op
  <2>4. audit' \subseteq Nat \X Actions
    BY <1>1, <2>1, <2>2
  <2> QED BY <2>1, <2>3, <2>4, BeginTypes
<1>7. CASE ApplyDecision(t)
  <2> DEFINE k == op[t].key
             action == op[t].action
  <2>1. k \in Nat /\ action \in Actions
    BY OwnRecord
  <2>2. /\ Finish(t) /\ audit' = audit /\ overlapped' = overlapped /\ ops' = ops
        /\ aborts' = aborts
    BY <1>7 DEF ApplyDecision
  <2>3. /\ DocsGrow /\ edges' \subseteq Edge /\ copies' \in Nat /\ effects' \subseteq Nat \X Actions
        /\ faults' \in Nat
    <3>1. CASE action = "merge" \/ k \notin Live
      BY <1>1, <1>7, <3>1, SameVersions DEF ApplyDecision, graph
    <3>2. CASE ~(action = "merge" \/ k \notin Live)
      <4>1. effects' = effects \cup {<<k, action>>} /\ k \in Live
        BY <1>7, <3>2 DEF ApplyDecision
      <4>2. effects' \subseteq Nat \X Actions
        BY <1>1, <2>1, <4>1
      <4>3. CASE Succeed(k, "approved")
        BY <1>5, <4>1, <4>2, <4>3 DEF Statuses
      <4>4. CASE Succeed(k, docs[k].status)
        <5>1. docs[k].status \in Statuses
          BY <1>1, <4>1, Facts
        <5> QED BY <1>5, <4>1, <4>2, <4>4, <5>1
      <4>5. CASE Withdraw(k)
        <5>1. docs' \in {docs, Retired(k)} /\ edges' \subseteq edges /\ copies' = copies /\ faults' \in Nat
          BY <1>1, <4>5 DEF Withdraw, Expires
        <5>2. DocsGrow
          BY <1>1, <5>1, VersionExpires
        <5> QED BY <1>1, <4>2, <5>1, <5>2
      <4> QED BY <1>7, <3>2, <4>3, <4>4, <4>5 DEF ApplyDecision
    <3> QED BY <3>1, <3>2
  <2> QED BY <1>1, <2>2, <2>3, FinishTypes
<1>8. CASE BeginMerge(t)
  <2>1. PICK target \in Live, sources \in SUBSET DOMAIN docs :
           /\ Begin(t, [IdleOp EXCEPT !.pc = "source", !.key = target,
                                      !.todo = sources, !.before = Relations(Live)])
           /\ UNCHANGED <<graph, records, aborts, faults>>
    BY <1>8 DEF BeginMerge
  <2> DEFINE o == [IdleOp EXCEPT !.pc = "source", !.key = target,
                                 !.todo = sources, !.before = Relations(Live)]
  <2>2. /\ target \in Nat /\ sources \subseteq Nat /\ sources \subseteq 1 .. Len(docs)
        /\ Relations(Live) \subseteq Nat \X Nat \X Nat
    BY <1>1, RelationTypes
  <2>3. o \in Op /\ o.todo = sources /\ o.keyMap = {}
    BY <2>2, IdleType DEF IdleOp, Op
  <2> QED BY <1>1, <2>1, <2>2, <2>3, BeginTypes DEF records
<1>9. CASE ReadSource(t)
  <2>1. PICK s \in op[t].todo :
           op' = [op EXCEPT ![t].todo = @ \ {s}, ![t].cur = s,
                            ![t].pc = IF s \in Live THEN "expire" ELSE "source"]
    BY <1>9 DEF ReadSource
  <2> DEFINE o == [op[t] EXCEPT !.todo = @ \ {s}, !.cur = s,
                                !.pc = IF s \in Live THEN "expire" ELSE "source"]
  <2>2. s \in Nat
    BY OwnRecord
  <2>3. o \in Op /\ o.todo \subseteq op[t].todo /\ o.keyMap = op[t].keyMap
    BY <1>2, <2>2 DEF Op
  <2>4. op' = [op EXCEPT ![t] = o]
    BY <1>2, <2>1
  <2> QED BY <1>1, <1>4, <1>9, <2>3, <2>4 DEF ReadSource, counters
<1>10. CASE ExpireSource(t)
  <2> DEFINE o == [op[t] EXCEPT !.pc = "move"]
  <2>1. o \in Op /\ o.todo = op[t].todo /\ o.keyMap = op[t].keyMap
    BY <1>2 DEF Op
  <2>2. op' = [op EXCEPT ![t] = o]
    BY <1>2, <1>10 DEF ExpireSource
  <2>3. docs' \in {docs, Retired(op[t].cur)} /\ faults' \in Nat
    BY <1>1, <1>10 DEF ExpireSource, Expires
  <2>4. DocsGrow
    BY <1>1, <2>3, VersionExpires
  <2> HIDE DEF o
  <2> QED BY <1>1, <1>10, <1>3, <2>1, <2>2, <2>3, <2>4 DEF ExpireSource, records
<1>11. CASE MoveEdges(t)
  <2> DEFINE o == [op[t] EXCEPT !.pc = "source"]
  <2>1. o \in Op /\ o.todo = op[t].todo /\ o.keyMap = op[t].keyMap
    BY <1>2 DEF Op
  <2>2. op' = [op EXCEPT ![t] = o] /\ docs' = docs /\ DocsGrow
    BY <1>1, <1>2, <1>11, SameVersions DEF MoveEdges
  <2>3. edges' \subseteq Edge
    BY <1>1, <1>11, OwnRecord, MovedEdges DEF MoveEdges
  <2> HIDE DEF o
  <2> QED BY <1>1, <1>11, <1>3, <2>1, <2>2, <2>3 DEF MoveEdges, records, counters
<1>12. CASE MergeTarget(t)
  <2> DEFINE k == op[t].key
  <2>1. audit' = audit /\ overlapped' = overlapped /\ ops' = ops /\ aborts' = aborts
    BY <1>12 DEF MergeTarget
  <2>2. CASE k \in Live
    <3> DEFINE o == [op[t] EXCEPT !.pc = "record"]
    <3>1. Succeed(k, "approved") /\ effects' = effects \cup {<<k, "merge">>}
      BY <1>12, <2>2 DEF MergeTarget
    <3>2. DocsGrow /\ edges' \subseteq Edge /\ copies' \in Nat /\ faults' \in Nat
      BY <1>5, <2>2, <3>1 DEF Statuses
    <3>3. effects' \subseteq Nat \X Actions
      BY <1>1, <3>1, OwnRecord DEF Actions
    <3>4. o \in Op /\ o.todo = op[t].todo /\ o.keyMap = op[t].keyMap
      BY <1>2 DEF Op
    <3>5. op' = [op EXCEPT ![t] = o]
      BY <1>2, <1>12, <2>2 DEF MergeTarget
    <3> HIDE DEF o, k
    <3> QED BY <1>1, <1>3, <2>1, <3>2, <3>3, <3>4, <3>5
  <2>3. CASE k \notin Live
    <3>1. /\ Finish(t) /\ docs' = docs /\ edges' = edges /\ copies' = copies /\ effects' = effects
          /\ faults' = faults
      BY <1>12, <2>3 DEF MergeTarget, graph
    <3> QED BY <1>1, <2>1, <3>1, SameVersions, FinishTypes
  <2> QED BY <2>2, <2>3
<1>13. CASE RecordMerge(t)
  <2>1. audit' \subseteq Nat \X Actions
    BY <1>1, <1>13, OwnRecord DEF RecordMerge, Actions
  <2> QED BY <1>1, <1>13, <2>1, SameVersions, FinishTypes DEF RecordMerge, graph, counters
<1>14. CASE BeginPromotion(t)
  <2> DEFINE before == Relations(Approved)
             o(home) == [IdleOp EXCEPT !.pc = "promote", !.todo = Approved, !.home = home,
                                       !.before = before]
  <2>1. PICK home \in Homes : Begin(t, o(home)) /\ UNCHANGED <<graph, records, aborts, faults>>
    BY <1>14 DEF BeginPromotion
  <2>2. Approved \subseteq Nat /\ Approved \subseteq 1 .. Len(docs) /\ before \subseteq Nat \X Nat \X Nat
    BY <1>1, RelationTypes
  <2> HIDE DEF before
  <2>3. o(home) \in Op /\ o(home).todo = Approved /\ o(home).keyMap = {}
    BY <2>2, IdleType DEF IdleOp, Op
  <2> HIDE DEF o
  <2> QED BY <1>1, <2>1, <2>2, <2>3, BeginTypes DEF records
<1>15. CASE PromoteEntity(t)
  <2>1. PICK k \in op[t].todo :
           /\ docs' = Append(docs, [docs[k] EXCEPT !.home = op[t].home, !.live = TRUE,
                                                   !.status = "approved",
                                                   !.root = Len(docs) + 1, !.source = k])
           /\ op' = [op EXCEPT ![t].todo = @ \ {k},
                               ![t].keyMap = @ \cup {<<k, Len(docs) + 1>>}]
    BY <1>15 DEF PromoteEntity
  <2> DEFINE o == [op[t] EXCEPT !.todo = @ \ {k}, !.keyMap = @ \cup {<<k, Len(docs) + 1>>}]
  <2>2. k \in 1 .. Len(docs) /\ k \in Nat /\ Len(docs) + 1 \in Nat
    BY <1>1, OwnRecord
  <2>3. /\ DocsGrow /\ Len(docs') = Len(docs) + 1
        /\ \A i \in 1 .. Len(docs) : docs'[i] = docs[i]
        /\ docs'[Len(docs) + 1].source = k
    <3>1. op[t].home \in Homes
      BY OwnRecord
    <3> QED BY <1>1, <2>1, <2>2, <3>1, CopyVersion
  <2>4. o \in Op /\ o.todo = op[t].todo \ {k} /\ o.keyMap = op[t].keyMap \cup {<<k, Len(docs) + 1>>}
    <3> DEFINE map == op[t].keyMap \cup {<<k, Len(docs) + 1>>}
    <3>1. map \in SUBSET (Nat \X Nat)
      BY <2>2, OwnRecord
    <3> HIDE DEF map
    <3>2. [op[t] EXCEPT !.todo = @ \ {k}, !.keyMap = map] \in Op
      BY <1>2, <3>1 DEF Op
    <3>3. o = [op[t] EXCEPT !.todo = @ \ {k}, !.keyMap = map]
      BY DEF map
    <3>4. /\ [op[t] EXCEPT !.todo = @ \ {k}, !.keyMap = map].todo = op[t].todo \ {k}
          /\ [op[t] EXCEPT !.todo = @ \ {k}, !.keyMap = map].keyMap = map
      BY <1>2 DEF Op
    <3> QED BY <3>2, <3>3, <3>4 DEF map
  <2>5. op' = [op EXCEPT ![t] = o]
    BY <1>2, <2>1
  <2> HIDE DEF o
  <2>6. o.todo \subseteq 1 .. Len(docs')
    BY <1>1, <2>3, <2>4, OwnRecord
  <2>7. \A p \in o.keyMap : /\ p[1] \in 1 .. Len(docs') /\ p[2] \in 1 .. Len(docs')
                            /\ docs'[p[2]].source = p[1]
    BY <1>1, <2>2, <2>3, <2>4, OwnRecord
  <2> QED BY <1>1, <1>15, <2>3, <2>4, <2>5, <2>6, <2>7, TypesKept
          DEF PromoteEntity, records, counters
<1>16. CASE PromotionFault(t)
  <2>1. PICK k \in op[t].todo :
           op' = [op EXCEPT ![t].todo = @ \ {k},
                            ![t].before = {r \in @ : docs[k].root \notin {r[2], r[3]}}]
    BY <1>16 DEF PromotionFault
  <2> DEFINE left == {r \in op[t].before : docs[k].root \notin {r[2], r[3]}}
             o == [op[t] EXCEPT !.todo = @ \ {k}, !.before = left]
  <2>2. left \in SUBSET (Nat \X Nat \X Nat)
    BY OwnRecord
  <2>3. op' = [op EXCEPT ![t] = o]
    BY <1>2, <2>1
  <2> HIDE DEF left
  <2>4. o \in Op /\ o.todo \subseteq op[t].todo /\ o.keyMap = op[t].keyMap
    BY <1>2, <2>2 DEF Op
  <2> HIDE DEF o
  <2>5. faults' \in Nat
    BY <1>1, <1>16 DEF PromotionFault
  <2> QED BY <1>4, <1>16, <2>3, <2>4, <2>5 DEF PromotionFault
<1>17. CASE QueryEdges(t)
  <2> DEFINE read == {e \in edges : {e.from, e.to} \cap Mapped(t) # {}}
             o == [op[t] EXCEPT !.pc = "insert", !.pending = read]
  <2>1. read \subseteq Edge
    BY <1>1
  <2>2. op' = [op EXCEPT ![t] = o]
    BY <1>2, <1>17 DEF QueryEdges
  <2> HIDE DEF read
  <2>3. o \in Op /\ o.todo \subseteq op[t].todo /\ o.keyMap = op[t].keyMap
    BY <1>2, <2>1 DEF Op
  <2> QED BY <1>1, <1>4, <1>17, <2>2, <2>3 DEF QueryEdges, counters
<1>18. CASE PromoteEdge(t)
  <2>1. PICK e \in op[t].pending :
           /\ edges' = edges \cup {[id |-> copies + 1, rel |-> e.rel,
                                     from |-> Resolve(t, e.from), to |-> Resolve(t, e.to)]}
           /\ op' = [op EXCEPT ![t].pending = @ \ {e}]
    BY <1>18 DEF PromoteEdge
  <2> DEFINE o == [op[t] EXCEPT !.pending = @ \ {e}]
  <2>2. o \in Op /\ o.todo = op[t].todo /\ o.keyMap = op[t].keyMap
    BY <1>2 DEF Op
  <2>3. op' = [op EXCEPT ![t] = o]
    BY <1>2, <2>1
  <2>4. \A k \in Nat : Resolve(t, k) \in Nat
    BY OwnRecord DEF Resolve, Mapped, New
  <2>5. edges' \subseteq Edge
    <3>1. e.rel \in Nat /\ e.from \in Nat /\ e.to \in Nat /\ copies + 1 \in Nat
      BY <1>1, OwnRecord DEF Edge
    <3> QED BY <1>1, <2>1, <2>4, <3>1 DEF Edge
  <2>6. docs' = docs /\ copies' \in Nat /\ DocsGrow
    BY <1>1, <1>18, SameVersions DEF PromoteEdge
  <2> HIDE DEF o
  <2> QED BY <1>1, <1>18, <1>3, <2>2, <2>3, <2>5, <2>6 DEF PromoteEdge, records, counters
<1>19. CASE ReportPromotion(t)
  BY <1>1, <1>19, SameVersions, FinishTypes DEF ReportPromotion, graph, records, counters
<1>20. CASE Abort(t)
  BY <1>1, <1>20, SameVersions, FinishTypes DEF Abort, graph, records
<1>21. CASE MoveFails(t)
  <2>1. edges' \subseteq edges \cup Moved(op[t].cur, op[t].key)
    BY <1>21 DEF MoveFails, Touching
  <2>2. edges' \subseteq Edge
    BY <1>1, <2>1, OwnRecord, MovedEdges
  <2> QED BY <1>1, <1>21, <2>2, SameVersions, FinishTypes DEF MoveFails, records
<1> QED BY <1>6, <1>7, <1>8, <1>9, <1>10, <1>11, <1>12, <1>13, <1>14, <1>15, <1>16, <1>17,
           <1>18, <1>19, <1>20, <1>21 DEF Step

(* The initial states have the types.                                       *)
LEMMA InitTypes == Init => TInv
<1> SUFFICES ASSUME Init PROVE TInv
  OBVIOUS
<1>1. PICK home \in [Seeded -> SeedHomes], status \in [Seeded -> SeedStatuses] :
         docs = [k \in Seeded |-> [home |-> home[k], status |-> status[k],
                                   live |-> TRUE, root |-> k, source |-> 0]]
  BY DEF Init
<1>2. docs \in [1 .. NumSeeded -> Doc]
  <2>1. ASSUME NEW k \in Seeded
        PROVE  [home |-> home[k], status |-> status[k], live |-> TRUE,
                root |-> k, source |-> 0] \in Doc
    <3>1. k \in Nat \ {0}
      BY CurationBounds DEF Seeded
    <3>2. home[k] \in SeedHomes /\ status[k] \in SeedStatuses
      BY <1>1
    <3>3. home[k] \in Homes /\ status[k] \in Statuses
      BY <3>2, SeedAssumption DEF Homes, Statuses
    <3> QED BY <3>1, <3>3 DEF Doc
  <2> QED BY <1>1, <2>1 DEF Seeded
<1>3. docs \in Seq(Doc)
  BY <1>2, CurationBounds, SeqDef
<1>4. PICK n \in 0 .. MaxRelations : \E ends \in [1 .. n -> {p \in Seeded \X Seeded : p[1] # p[2]}] :
         edges = {[id |-> i, rel |-> i, from |-> ends[i][1], to |-> ends[i][2]] : i \in 1 .. n}
  BY DEF Init
<1>5. PICK ends \in [1 .. n -> {p \in Seeded \X Seeded : p[1] # p[2]}] :
         edges = {[id |-> i, rel |-> i, from |-> ends[i][1], to |-> ends[i][2]] : i \in 1 .. n}
  BY <1>4
<1>6. \A i \in 1 .. n : ends[i][1] \in Nat /\ ends[i][2] \in Nat
  BY <1>5, CurationBounds DEF Seeded
<1>7. edges \subseteq Edge
  BY <1>4, <1>5, <1>6, CurationBounds DEF Edge
<1>8. op \in [Threads -> Op] /\ \A t \in Threads : op[t] = IdleOp
  BY IdleType DEF Init
<1>9. TypeOK
  BY <1>3, <1>7, <1>8, CurationBounds DEF Init, TypeOK
<1> QED BY <1>8, <1>9, IdleType DEF TInv

(* Every reachable state has the declared types, whatever the handlers do   *)
(* at once and wherever they die.                                           *)
THEOREM TypesHold == Spec => []TInv
<1>1. TInv /\ [Next]_vars => TInv'
  <2> SUFFICES ASSUME TInv, [Next]_vars PROVE TInv'
    OBVIOUS
  <2>1. CASE Next
    <3>1. PICK t \in Threads : Step(t)
      BY <2>1 DEF Next, Step
    <3> QED BY <3>1, StepTypes
  <2>2. CASE UNCHANGED vars
    BY <2>2 DEF vars, TInv, TypeOK
  <2> QED BY <2>1, <2>2
<1> QED BY <1>1, InitTypes, PTL DEF Spec
-----------------------------------------------------------------------------
(* Decisions and their audit rows.                                          *)

(* A step writes its own thread's record; it begins an operation or goes on *)
(* with one.                                                                *)
LEMMA StepShape ==
    ASSUME TInv, NEW t \in Threads, Step(t)
    PROVE  /\ \A u \in Threads : u # t => op'[u] = op[u]
           /\ \/ op[t].pc = "idle" /\ \E o : Begin(t, o)
              \/ op[t].pc # "idle" /\ overlapped' = overlapped
<1>1. op \in [Threads -> Op]
  BY OwnRecord
<1>2. CASE RecordDecision(t)
  BY <1>1, <1>2 DEF RecordDecision, Begin, CanBegin
<1>3. CASE BeginMerge(t)
  BY <1>1, <1>3 DEF BeginMerge, Begin, CanBegin
<1>4. CASE BeginPromotion(t)
  BY <1>1, <1>4 DEF BeginPromotion, Begin, CanBegin
<1>5. CASE ApplyDecision(t) \/ RecordMerge(t) \/ ReportPromotion(t) \/ Abort(t) \/ MoveFails(t)
  BY <1>1, <1>5 DEF ApplyDecision, RecordMerge, ReportPromotion, Abort, MoveFails, Finish, counters
<1>6. CASE MergeTarget(t)
  BY <1>1, <1>6 DEF MergeTarget, Finish, counters
<1>7. CASE ReadSource(t) \/ ExpireSource(t) \/ MoveEdges(t)
  BY <1>1, <1>7 DEF ReadSource, ExpireSource, MoveEdges, counters
<1>8. CASE PromoteEntity(t) \/ PromotionFault(t)
  BY <1>1, <1>8 DEF PromoteEntity, PromotionFault, counters
<1>9. CASE QueryEdges(t) \/ PromoteEdge(t)
  BY <1>1, <1>9 DEF QueryEdges, PromoteEdge, counters
<1> QED BY <1>2, <1>3, <1>4, <1>5, <1>6, <1>7, <1>8, <1>9 DEF Step

(* Only record_decision leads to a decision that is about to be applied,    *)
(* and only that one and the merge are recorded as data changes.            *)
LEMMA AuditStep ==
    ASSUME AuditInv, NEW t \in Threads, Step(t)
    PROVE  RowFirst' /\ DecisionsAudited'
<1>1. TInv /\ op \in [Threads -> Op] /\ \A u \in Threads : u # t => op'[u] = op[u]
  BY OwnRecord, StepShape DEF AuditInv
<1>2. ASSUME audit \subseteq audit', op'[t].pc = "apply" => <<op'[t].key, op'[t].action>> \in audit',
             \A e \in effects' \ effects : e[2] # "merge" => e \in audit
      PROVE  RowFirst' /\ DecisionsAudited'
  BY <1>1, <1>2 DEF AuditInv, RowFirst, DecisionsAudited
<1>3. CASE RecordDecision(t)
  <2>1. PICK k \in DOMAIN docs, action \in Actions :
           /\ Begin(t, [IdleOp EXCEPT !.pc = "apply", !.key = k, !.action = action])
           /\ audit' = audit \cup {<<k, action>>} /\ effects' = effects
    BY <1>3 DEF RecordDecision
  <2>2. op'[t].key = k /\ op'[t].action = action
    BY <1>1, <2>1 DEF Begin, IdleOp
  <2> QED BY <1>2, <2>1, <2>2
<1>4. CASE ApplyDecision(t)
  <2>1. op[t].pc = "apply" /\ audit' = audit /\ effects' \subseteq effects \cup {<<op[t].key, op[t].action>>}
    BY <1>4 DEF ApplyDecision
  <2>2. <<op[t].key, op[t].action>> \in audit
    BY <2>1 DEF AuditInv, RowFirst
  <2>3. op'[t].pc = "idle"
    BY <1>1, <1>4, IdleType DEF ApplyDecision, Finish
  <2> QED BY <1>2, <2>1, <2>2, <2>3
<1>5. CASE MergeTarget(t)
  <2>1. audit' = audit /\ effects' \subseteq effects \cup {<<op[t].key, "merge">>}
    BY <1>5 DEF MergeTarget
  <2>2. op'[t].pc # "apply"
    <3>1. op' = [op EXCEPT ![t].pc = "record"] \/ op' = [op EXCEPT ![t] = IdleOp]
      BY <1>5 DEF MergeTarget, Finish
    <3> QED BY <1>1, <3>1, OwnRecord, IdleType DEF Op
  <2> QED BY <1>2, <2>1, <2>2
<1>6. CASE BeginMerge(t) \/ BeginPromotion(t)
  <2>1. op'[t].pc # "apply"
    BY <1>1, <1>6 DEF BeginMerge, BeginPromotion, Begin, IdleOp
  <2>2. audit' = audit /\ effects' = effects
    BY <1>6 DEF BeginMerge, BeginPromotion, records
  <2> QED BY <1>2, <2>1, <2>2
<1>7. CASE RecordMerge(t) \/ ReportPromotion(t) \/ Abort(t) \/ MoveFails(t)
  <2>1. op'[t].pc = "idle"
    BY <1>1, <1>7, IdleType DEF RecordMerge, ReportPromotion, Abort, MoveFails, Finish
  <2>2. audit \subseteq audit' /\ effects' = effects
    BY <1>7 DEF RecordMerge, ReportPromotion, Abort, MoveFails, records
  <2> QED BY <1>2, <2>1, <2>2
<1>8. CASE ReadSource(t) \/ ExpireSource(t) \/ MoveEdges(t)
  <2>1. op'[t].pc # "apply"
    <3>1. CASE ReadSource(t)
      BY <1>1, <3>1, OwnRecord DEF ReadSource, Op
    <3>2. CASE ExpireSource(t) \/ MoveEdges(t)
      BY <1>1, <3>2, OwnRecord DEF ExpireSource, MoveEdges, Op
    <3> QED BY <1>8, <3>1, <3>2
  <2>2. audit' = audit /\ effects' = effects
    BY <1>8 DEF ReadSource, ExpireSource, MoveEdges, records
  <2> QED BY <1>2, <2>1, <2>2
<1>9. CASE PromoteEntity(t) \/ PromotionFault(t) \/ QueryEdges(t) \/ PromoteEdge(t)
  <2>1. op'[t].pc # "apply"
    <3>1. CASE PromoteEntity(t)
      BY <1>1, <3>1, OwnRecord DEF PromoteEntity, Op
    <3>2. CASE PromotionFault(t)
      BY <1>1, <3>2, OwnRecord DEF PromotionFault, Op
    <3>3. CASE QueryEdges(t) \/ PromoteEdge(t)
      BY <1>1, <3>3, OwnRecord DEF QueryEdges, PromoteEdge, Op
    <3> QED BY <1>9, <3>1, <3>2, <3>3
  <2>2. audit' = audit /\ effects' = effects
    BY <1>9 DEF PromoteEntity, PromotionFault, QueryEdges, PromoteEdge, records
  <2> QED BY <1>2, <2>1, <2>2
<1> QED BY <1>3, <1>4, <1>5, <1>6, <1>7, <1>8, <1>9 DEF Step

(* No approval, rejection or edit changes the graph without its audit row.  *)
THEOREM DecisionsAreAudited == Spec => []DecisionsAudited
<1>1. Init => AuditInv
  BY InitTypes, IdleType DEF Init, AuditInv, RowFirst, DecisionsAudited
<1>2. AuditInv /\ [Next]_vars => AuditInv'
  <2> SUFFICES ASSUME AuditInv, [Next]_vars PROVE AuditInv'
    OBVIOUS
  <2>1. CASE Next
    <3>1. PICK t \in Threads : Step(t)
      BY <2>1 DEF Next, Step
    <3> QED BY <3>1, StepTypes, AuditStep DEF AuditInv
  <2>2. CASE UNCHANGED vars
    BY <2>2 DEF vars, AuditInv, TInv, TypeOK, RowFirst, DecisionsAudited
  <2> QED BY <2>1, <2>2
<1>3. AuditInv => DecisionsAudited
  BY DEF AuditInv
<1> QED BY <1>1, <1>2, <1>3, PTL DEF Spec

-----------------------------------------------------------------------------
(* One operation at a time.                                                 *)

(* Without an overlap the thread that steps is the only one at work.        *)
LEMMA Alone ==
    ASSUME TInv, Serial, NEW t \in Threads, Step(t), ~overlapped'
    PROVE  /\ ~overlapped
           /\ \A u \in Threads : u # t => op[u].pc = "idle" /\ op'[u] = op[u]
BY StepShape DEF Serial, Begin

(* A single thread is at work as long as no overlap is recorded.            *)
LEMMA SerialStep ==
    ASSUME SerialInv, NEW t \in Threads, Step(t)
    PROVE  SerialInv'
<1>1. TInv'
  BY StepTypes DEF SerialInv
<1>2. Serial'
  BY Alone DEF SerialInv, Serial
<1> QED BY <1>1, <1>2 DEF SerialInv

LEMMA InitSerial == Init => SerialInv
<1>1. Init => TInv
  BY InitTypes
<1>2. Init => Serial
  BY IdleType DEF Init, Serial
<1> QED BY <1>1, <1>2 DEF SerialInv
-----------------------------------------------------------------------------
(* Merging.                                                                 *)

(* The pieces of MergeKnows, with the record of the thread after the step.  *)
LEMMA MergeKnowsNext ==
    ASSUME NEW t, op'[t].key \in Live', op'[t].key \notin op'[t].todo,
           op'[t].pc # "source" => op'[t].cur # op'[t].key,
           \A r \in op'[t].before : \E e \in edges' :
              e.rel = r[1] /\ Carries(t, e.from, r[2])' /\ Carries(t, e.to, r[3])'
    PROVE  MergeKnows(t)'
BY DEF MergeKnows

(* Every relation is found by the edges between the versions in question.   *)
LEMMA RelationsFound ==
    ASSUME NEW among
    PROVE  \A r \in Relations(among) : \E e \in edges :
              /\ e.rel = r[1] /\ e.from \in among /\ e.to \in among
              /\ docs[e.from].root = r[2] /\ docs[e.to].root = r[3]
<1> DEFINE joined == {e \in edges : {e.from, e.to} \subseteq among}
<1>1. Relations(among) = {<<e.rel, docs[e.from].root, docs[e.to].root>> : e \in joined}
  BY DEF Relations
<1>2. ASSUME NEW r \in Relations(among)
      PROVE  \E e \in edges : /\ e.rel = r[1] /\ e.from \in among /\ e.to \in among
                              /\ docs[e.from].root = r[2] /\ docs[e.to].root = r[3]
  <2>1. PICK e \in joined : r = <<e.rel, docs[e.from].root, docs[e.to].root>>
    BY <1>1
  <2> QED BY <2>1
<1> QED BY <1>2

(* Each step of a merge that runs alone keeps track of the relations.       *)
LEMMA MergeStep ==
    ASSUME MergeInv, NEW t \in Threads, Step(t), ~overlapped'
    PROVE  \A u \in Threads : MergeKnows(u)'
<1>1. /\ TInv /\ TypeOK /\ DocsGrow /\ ~overlapped /\ op \in [Threads -> Op]
      /\ docs \in Seq(Doc) /\ Len(docs) \in Nat /\ DOMAIN docs = 1 .. Len(docs) /\ Live \subseteq 1 .. Len(docs)
      /\ MergeKnows(t)
  BY Alone, StepTypes, OwnRecord, Facts DEF MergeInv, SerialInv, TInv
<1> SUFFICES MergeKnows(t)'
  BY Alone DEF MergeKnows, MergeInv, SerialInv
<1> DEFINE Merging == {"source", "expire", "move"}
<1>2. CASE op'[t].pc \notin Merging
  BY <1>2 DEF MergeKnows
<1>3. CASE RecordDecision(t) \/ BeginPromotion(t)
  <2>1. op'[t].pc \notin Merging
    BY ZenonT(40), <1>1, <1>3 DEF RecordDecision, BeginPromotion, Begin, IdleOp
  <2> QED BY <1>2, <2>1
<1>4. CASE ApplyDecision(t) \/ RecordMerge(t) \/ ReportPromotion(t) \/ Abort(t) \/ MoveFails(t)
  <2>1. op'[t].pc = "idle"
    BY <1>1, <1>4, IdleType DEF ApplyDecision, RecordMerge, ReportPromotion, Abort, MoveFails, Finish
  <2> QED BY <1>2, <2>1
<1>5. CASE MergeTarget(t)
  <2>1. op' = [op EXCEPT ![t].pc = "record"] \/ op' = [op EXCEPT ![t] = IdleOp]
    BY <1>5 DEF MergeTarget, Finish
  <2>2. op'[t].pc \notin Merging
    BY <1>1, <2>1, OwnRecord, IdleType DEF Op
  <2> QED BY <1>2, <2>2
<1>6. CASE PromoteEntity(t) \/ PromotionFault(t) \/ QueryEdges(t) \/ PromoteEdge(t)
  <2>1. op'[t].pc \in {"promote", "insert"}
    <3>1. CASE PromoteEntity(t)
      BY <1>1, <3>1, OwnRecord DEF PromoteEntity, Op
    <3>2. CASE PromotionFault(t)
      BY <1>1, <3>2, OwnRecord DEF PromotionFault, Op
    <3>3. CASE QueryEdges(t) \/ PromoteEdge(t)
      BY <1>1, <3>3, OwnRecord DEF QueryEdges, PromoteEdge, Op
    <3> QED BY <1>6, <3>1, <3>2, <3>3
  <2> QED BY <1>2, <2>1
<1>7. CASE BeginMerge(t)
  <2>1. PICK target \in Live, sources \in SUBSET DOMAIN docs :
           /\ target \notin sources
           /\ Begin(t, [IdleOp EXCEPT !.pc = "source", !.key = target,
                                      !.todo = sources, !.before = Relations(Live)])
           /\ docs' = docs /\ edges' = edges
    BY <1>7 DEF BeginMerge, graph
  <2>2. /\ op'[t].pc = "source" /\ op'[t].key = target /\ op'[t].todo = sources
        /\ op'[t].before = Relations(Live)
    BY <1>1, <2>1 DEF Begin, IdleOp
  <2>3. Live' = Live
    BY <2>1 DEF Live
  <2>4. ASSUME NEW r \in Relations(Live)
        PROVE  \E e \in edges' :
                  e.rel = r[1] /\ Carries(t, e.from, r[2])' /\ Carries(t, e.to, r[3])'
    <3>1. PICK e \in edges : /\ e.rel = r[1] /\ e.from \in Live /\ e.to \in Live
                             /\ docs[e.from].root = r[2] /\ docs[e.to].root = r[3]
      BY <1>1, RelationsFound
    <3> QED BY <1>1, <2>1, <3>1 DEF Carries, Live
  <2> QED BY <2>1, <2>2, <2>3, <2>4, MergeKnowsNext
<1>8. CASE ReadSource(t)
  <2>1. /\ op[t].pc = "source" /\ docs' = docs /\ edges' = edges
        /\ op[t].key \in Live /\ op[t].key \notin op[t].todo
    BY <1>1, <1>8 DEF ReadSource, graph, MergeKnows
  <2>2. PICK s \in op[t].todo :
           op' = [op EXCEPT ![t].todo = @ \ {s}, ![t].cur = s,
                            ![t].pc = IF s \in Live THEN "expire" ELSE "source"]
    BY <1>8 DEF ReadSource
  <2>3. /\ op'[t].key = op[t].key /\ op'[t].todo = op[t].todo \ {s} /\ op'[t].cur = s
        /\ op'[t].before = op[t].before
    BY <1>1, <2>2, OwnRecord DEF Op
  <2>4. Live' = Live
    BY <2>1 DEF Live
  <2>5. ASSUME NEW r \in op[t].before
        PROVE  \E e \in edges' :
                  e.rel = r[1] /\ Carries(t, e.from, r[2])' /\ Carries(t, e.to, r[3])'
    <3>1. PICK e \in edges : e.rel = r[1] /\ Carries(t, e.from, r[2]) /\ Carries(t, e.to, r[3])
      BY <1>1, <2>1 DEF MergeKnows
    <3> QED BY <2>1, <2>3, <3>1 DEF Carries
  <2> QED BY <2>1, <2>3, <2>4, <2>5, MergeKnowsNext
<1>9. CASE ExpireSource(t)
  <2>1. /\ op[t].pc = "expire" /\ docs' \in {docs, Retired(op[t].cur)} /\ edges' = edges
        /\ op[t].key \in Live /\ op[t].key \notin op[t].todo /\ op[t].cur # op[t].key
    BY <1>1, <1>9 DEF ExpireSource, Expires, MergeKnows
  <2>2. op' = [op EXCEPT ![t].pc = "move"]
    BY <1>9 DEF ExpireSource
  <2>3. /\ op'[t].key = op[t].key /\ op'[t].todo = op[t].todo /\ op'[t].cur = op[t].cur
        /\ op'[t].before = op[t].before /\ op'[t].pc = "move"
    BY <1>1, <2>2, OwnRecord DEF Op
  <2>4. /\ Len(docs') = Len(docs)
        /\ \A i \in 1 .. Len(docs) : /\ docs'[i].root = docs[i].root
                                     /\ i # op[t].cur => docs'[i] = docs[i]
    BY <1>1, <2>1, VersionExpires DEF DocsGrow
  <2>5. op[t].key \in Live' /\ op[t].key \in 1 .. Len(docs)
    <3>1. DOMAIN docs' = 1 .. Len(docs')
      BY <1>1, LenProperties DEF DocsGrow
    <3> QED BY <1>1, <2>1, <2>4, <3>1 DEF Live
  <2>6. ASSUME NEW r \in op[t].before
        PROVE  \E e \in edges' :
                  e.rel = r[1] /\ Carries(t, e.from, r[2])' /\ Carries(t, e.to, r[3])'
    <3>1. PICK e \in edges : e.rel = r[1] /\ Carries(t, e.from, r[2]) /\ Carries(t, e.to, r[3])
      BY <1>1, <2>1 DEF MergeKnows
    <3>2. ASSUME NEW k, NEW root, Carries(t, k, root) PROVE Carries(t, k, root)'
      BY <1>1, <2>1, <2>3, <2>4, <2>5, <3>2 DEF Carries
    <3> QED BY <2>1, <3>1, <3>2
  <2> QED BY <2>1, <2>3, <2>5, <2>6, MergeKnowsNext
<1>10. CASE MoveEdges(t)
  <2> DEFINE key == op[t].key
             cur == op[t].cur
  <2>1. /\ op[t].pc = "move" /\ edges' = Moved(cur, key) /\ docs' = docs
        /\ key \in Live /\ key \notin op[t].todo
    BY <1>1, <1>10 DEF MoveEdges, MergeKnows
  <2>2. op' = [op EXCEPT ![t].pc = "source"]
    BY <1>10 DEF MoveEdges
  <2>3. /\ op'[t].key = key /\ op'[t].todo = op[t].todo /\ op'[t].before = op[t].before
        /\ op'[t].pc = "source"
    BY <1>1, <2>2, OwnRecord DEF Op
  <2>4. Live' = Live
    BY <2>1 DEF Live
  <2>5. ASSUME NEW r \in op[t].before
        PROVE  \E f \in edges' :
                  f.rel = r[1] /\ Carries(t, f.from, r[2])' /\ Carries(t, f.to, r[3])'
    <3>1. PICK e \in edges : e.rel = r[1] /\ Carries(t, e.from, r[2]) /\ Carries(t, e.to, r[3])
      BY <1>1, <2>1 DEF MergeKnows
    <3> key \in Nat /\ cur \in Nat
      BY <1>1, OwnRecord
    <3> HIDE DEF key, cur
    <3>2. PICK f \in edges' : /\ f.rel = e.rel
                              /\ f.from = IF e.from = cur THEN key ELSE e.from
                              /\ f.to = IF e.to = cur THEN key ELSE e.to
      <4>1. TypeOK
        BY <1>1
      <4>2. \A g \in edges : \E f \in Moved(cur, key) :
                 /\ f.rel = g.rel
                 /\ f.from = IF g.from = cur THEN key ELSE g.from
                 /\ f.to = IF g.to = cur THEN key ELSE g.to
        BY <4>1, MovedEdges
      <4> QED BY <2>1, <3>1, <4>2
    <3>3. ASSUME NEW k, NEW root, Carries(t, k, root)
          PROVE  /\ k = cur => Carries(t, key, root)'
                 /\ k # cur => Carries(t, k, root)'
      <4>1. key \in 1 .. Len(docs) /\ docs[key].live
        BY <1>1, <2>1 DEF Live
      <4> QED BY <2>1, <2>3, <3>3, <4>1 DEF Carries, key, cur
    <3> key' = key
      BY <2>3 DEF key
    <3>4. Carries(t, f.from, r[2])'
      <4>1. CASE e.from = cur
        BY <3>1, <3>2, <3>3, <4>1
      <4>2. CASE e.from # cur
        BY <3>1, <3>2, <3>3, <4>2
      <4> QED BY <4>1, <4>2
    <3>5. Carries(t, f.to, r[3])'
      <4>1. CASE e.to = cur
        BY <3>1, <3>2, <3>3, <4>1
      <4>2. CASE e.to # cur
        BY <3>1, <3>2, <3>3, <4>2
      <4> QED BY <4>1, <4>2
    <3> QED BY <3>1, <3>2, <3>4, <3>5
  <2> QED BY <2>1, <2>3, <2>4, <2>5, MergeKnowsNext
<1> QED BY <1>3, <1>4, <1>5, <1>6, <1>7, <1>8, <1>9, <1>10 DEF Step
(* The last step of a merge: the target is succeeded, its edges follow.     *)
LEMMA MergeEnds ==
    ASSUME MergeInv, NEW t \in Threads, ~overlapped, MergeTarget(t), op'[t].pc = "record",
           NEW r \in op[t].before
    PROVE  \E f \in edges' :
              LET winner == docs[op[t].key].root IN
              /\ f.rel = r[1]
              /\ {f.from, f.to} \subseteq Live'
              /\ docs'[f.from].root \in {r[2], winner}
              /\ docs'[f.to].root \in {r[3], winner}
<1> DEFINE k == op[t].key
           new == Len(docs) + 1
<1>1. /\ TInv /\ TypeOK /\ op \in [Threads -> Op] /\ Len(docs) \in Nat
      /\ DOMAIN docs = 1 .. Len(docs) /\ k \in Nat
  BY OwnRecord, Facts DEF MergeInv, SerialInv, TInv
<1>2. k \in Live /\ Succeed(k, "approved") /\ op[t].pc = "source"
  <2>1. CASE k \notin Live
    BY <1>1, <2>1, IdleType DEF MergeTarget, Finish
  <2> QED BY <2>1 DEF MergeTarget
<1>3. PICK e \in edges : e.rel = r[1] /\ Carries(t, e.from, r[2]) /\ Carries(t, e.to, r[3])
  BY <1>2 DEF MergeInv, MergeKnows
<1>4. /\ DocsGrow /\ Len(docs') = new
      /\ \A i \in 1 .. Len(docs) : i # k => docs'[i] = docs[i]
      /\ docs'[new].live /\ docs'[new].root = docs[k].root
  BY <1>1, <1>2, SucceedVersion DEF Statuses
<1>5. DOMAIN docs' = 1 .. new
  BY <1>4, LenProperties DEF DocsGrow
<1> HIDE DEF k
<1>6. PICK f \in edges' : /\ f.rel = e.rel
                          /\ f.from = IF e.from = k THEN new ELSE e.from
                          /\ f.to = IF e.to = k THEN new ELSE e.to
  <2>1. edges' = Moved(k, new) /\ new \in Nat
    BY <1>1, <1>2 DEF Succeed
  <2> QED BY <1>1, <2>1, MovedEdges
<1>7. new \in Live' /\ docs'[new].root = docs[k].root
  BY <1>1, <1>4, <1>5 DEF Live
<1>8. ASSUME NEW i, NEW root, Carries(t, i, root), i # k
      PROVE  i \in Live' /\ docs'[i].root \in {root, docs[k].root}
  BY <1>1, <1>2, <1>4, <1>5, <1>8 DEF Carries, Live, k
<1>9. f.from \in Live' /\ docs'[f.from].root \in {r[2], docs[k].root}
  <2>1. CASE e.from = k
    BY <1>6, <1>7, <2>1
  <2>2. CASE e.from # k
    BY <1>3, <1>6, <1>8, <2>2
  <2> QED BY <2>1, <2>2
<1>10. f.to \in Live' /\ docs'[f.to].root \in {r[3], docs[k].root}
  <2>1. CASE e.to = k
    BY <1>6, <1>7, <2>1
  <2>2. CASE e.to # k
    BY <1>3, <1>6, <1>8, <2>2
  <2> QED BY <2>1, <2>2
<1> QED BY <1>3, <1>6, <1>9, <1>10 DEF k

(* A merge that ends without another operation next to it has kept every    *)
(* relation between current entities, with the winner in the losers' place. *)
THEOREM MergesKeepRelations == Spec => MergeKeepsRelations
<1>1. Init => MergeInv
  BY InitSerial, IdleType DEF Init, MergeInv, MergeKnows
<1>2. MergeInv /\ [Next]_vars => MergeInv'
  <2> SUFFICES ASSUME MergeInv, [Next]_vars PROVE MergeInv'
    OBVIOUS
  <2>1. CASE Next
    <3>1. PICK t \in Threads : Step(t)
      BY <2>1 DEF Next, Step
    <3> QED BY <3>1, SerialStep, MergeStep DEF MergeInv
  <2>2. CASE UNCHANGED vars
    BY <2>2 DEF vars, MergeInv, SerialInv, TInv, TypeOK, Serial, MergeKnows, Carries, Live
  <2> QED BY <2>1, <2>2
<1>3. MergeInv /\ [Next]_vars =>
         [\A t \in Threads : ~overlapped /\ MergeTarget(t) /\ op'[t].pc = "record" =>
             \A r \in op[t].before : \E e \in edges' :
                 LET winner == docs[op[t].key].root IN
                 /\ e.rel = r[1]
                 /\ {e.from, e.to} \subseteq Live'
                 /\ docs'[e.from].root \in {r[2], winner}
                 /\ docs'[e.to].root \in {r[3], winner}]_vars
  BY MergeEnds
<1> QED BY <1>1, <1>2, <1>3, PTL DEF Spec, MergeKeepsRelations

-----------------------------------------------------------------------------
(* Promotion.                                                               *)

(* A version that was promoted before its edges are read is found by the    *)
(* key map.                                                                 *)
LEMMA ResolvedCopy ==
    ASSUME TInv, NEW t \in Threads, NEW k \in Mapped(t)
    PROVE  Resolve(t, k) \in 1 .. Len(docs) /\ docs[Resolve(t, k)].source = k
<1>1. \E p \in op[t].keyMap : p[1] = k
  BY DEF Mapped
<1>2. \A p \in op[t].keyMap : p[2] \in 1 .. Len(docs) /\ docs[p[2]].source = p[1]
  BY OwnRecord
<1> DEFINE p == CHOOSE p \in op[t].keyMap : p[1] = k
<1>3. p \in op[t].keyMap /\ p[1] = k
  BY <1>1
<1>4. Resolve(t, k) = p[2]
  BY DEF Resolve, New
<1> HIDE DEF p
<1> QED BY <1>2, <1>3, <1>4

(* Each step of a promotion that runs alone keeps track of what it copies.  *)
LEMMA PromotionStep ==
    ASSUME PromotionInv, NEW t \in Threads, Step(t), ~overlapped'
    PROVE  \A u \in Threads : PromotionKnows(u)'
<1>1. /\ TInv /\ TypeOK /\ DocsGrow /\ ~overlapped /\ op \in [Threads -> Op]
      /\ docs \in Seq(Doc) /\ Len(docs) \in Nat /\ DOMAIN docs = 1 .. Len(docs)
      /\ Live \subseteq 1 .. Len(docs)
      /\ PromotionKnows(t)
  BY Alone, StepTypes, OwnRecord, Facts DEF PromotionInv, SerialInv, TInv
<1> SUFFICES PromotionKnows(t)'
  BY Alone DEF PromotionKnows, PromotionInv, SerialInv
<1>2. CASE op'[t].pc \notin {"promote", "insert"}
  BY <1>2 DEF PromotionKnows
<1>3. CASE RecordDecision(t) \/ BeginMerge(t)
  <2>1. op'[t].pc \notin {"promote", "insert"}
    BY ZenonT(40), <1>1, <1>3 DEF RecordDecision, BeginMerge, Begin, IdleOp
  <2> QED BY <1>2, <2>1
<1>4. CASE ApplyDecision(t) \/ RecordMerge(t) \/ ReportPromotion(t) \/ Abort(t) \/ MoveFails(t)
  <2>1. op'[t].pc = "idle"
    BY <1>1, <1>4, IdleType DEF ApplyDecision, RecordMerge, ReportPromotion, Abort, MoveFails, Finish
  <2> QED BY <1>2, <2>1
<1>5. CASE MergeTarget(t)
  <2>1. op' = [op EXCEPT ![t].pc = "record"] \/ op' = [op EXCEPT ![t] = IdleOp]
    BY <1>5 DEF MergeTarget, Finish
  <2>2. op'[t].pc \notin {"promote", "insert"}
    BY <1>1, <2>1, OwnRecord, IdleType DEF Op
  <2> QED BY <1>2, <2>2
<1>6. CASE ReadSource(t) \/ ExpireSource(t) \/ MoveEdges(t)
  <2>1. op'[t].pc \notin {"promote", "insert"}
    <3>1. CASE ReadSource(t)
      BY <1>1, <3>1, OwnRecord DEF ReadSource, Op
    <3>2. CASE ExpireSource(t) \/ MoveEdges(t)
      BY <1>1, <3>2, OwnRecord DEF ExpireSource, MoveEdges, Op
    <3> QED BY <1>6, <3>1, <3>2
  <2> QED BY <1>2, <2>1
<1>7. CASE BeginPromotion(t)
  <2> DEFINE before == Relations(Approved)
  <2>1. PICK home \in Homes :
           /\ Begin(t, [IdleOp EXCEPT !.pc = "promote", !.todo = Approved, !.home = home,
                                      !.before = before])
           /\ docs' = docs /\ edges' = edges
    BY <1>7 DEF BeginPromotion, graph
  <2>2. op'[t].pc = "promote" /\ op'[t].todo = Approved /\ op'[t].before = before
    BY <1>1, <2>1 DEF Begin, IdleOp
  <2>3. ASSUME NEW r \in before
        PROVE  \E e \in edges' :
                  e.rel = r[1] /\ Covers(t, e.from, r[2])' /\ Covers(t, e.to, r[3])'
    <3>1. PICK e \in edges : /\ e.rel = r[1] /\ e.from \in Approved /\ e.to \in Approved
                             /\ docs[e.from].root = r[2] /\ docs[e.to].root = r[3]
      BY RelationsFound
    <3>2. Approved \subseteq Live
      BY DEF Approved
    <3> QED BY <1>1, <2>1, <2>2, <3>1, <3>2 DEF Covers
  <2> QED BY <2>2, <2>3 DEF PromotionKnows
<1>8. CASE PromoteEntity(t)
  <2>1. PICK k \in op[t].todo :
           op' = [op EXCEPT ![t].todo = @ \ {k},
                            ![t].keyMap = @ \cup {<<k, Len(docs) + 1>>}]
    BY <1>8 DEF PromoteEntity
  <2>2. /\ op'[t].todo = op[t].todo \ {k} /\ op'[t].before = op[t].before
        /\ op'[t].keyMap = op[t].keyMap \cup {<<k, Len(docs) + 1>>} /\ op'[t].pc = op[t].pc
    BY <1>1, <2>1, OwnRecord DEF Op
  <2>3. op[t].pc = "promote" /\ edges' = edges
    BY <1>8 DEF PromoteEntity
  <2>4. Mapped(t)' = Mapped(t) \cup {k}
    <3>1. <<k, Len(docs) + 1>>[1] = k
      OBVIOUS
    <3> QED BY <2>2, <3>1 DEF Mapped
  <2>5. ASSUME NEW i, NEW root, Covers(t, i, root) PROVE Covers(t, i, root)'
    <3>1. i \in 1 .. Len(docs') /\ docs'[i].root = docs[i].root
      BY <1>1, <2>5, LenProperties DEF DocsGrow, Covers
    <3> QED BY <2>2, <2>4, <2>5, <3>1 DEF Covers
  <2> QED BY <1>1, <2>2, <2>3, <2>5 DEF PromotionKnows
<1>9. CASE PromotionFault(t)
  <2>1. PICK k \in op[t].todo :
           op' = [op EXCEPT ![t].todo = @ \ {k},
                            ![t].before = {r \in @ : docs[k].root \notin {r[2], r[3]}}]
    BY <1>9 DEF PromotionFault
  <2>2. /\ op'[t].todo = op[t].todo \ {k}
        /\ op'[t].before = {r \in op[t].before : docs[k].root \notin {r[2], r[3]}}
        /\ op'[t].keyMap = op[t].keyMap /\ op'[t].pc = op[t].pc
    BY <1>1, <2>1, OwnRecord DEF Op
  <2>3. op[t].pc = "promote" /\ edges' = edges /\ docs' = docs
    BY <1>9 DEF PromotionFault, graph
  <2>4. ASSUME NEW i, NEW root, Covers(t, i, root), root # docs[k].root PROVE Covers(t, i, root)'
    BY <2>2, <2>3, <2>4 DEF Covers, Mapped
  <2>5. ASSUME NEW r \in op'[t].before
        PROVE  \E e \in edges' :
                  e.rel = r[1] /\ Covers(t, e.from, r[2])' /\ Covers(t, e.to, r[3])'
    <3>1. PICK e \in edges : e.rel = r[1] /\ Covers(t, e.from, r[2]) /\ Covers(t, e.to, r[3])
      BY <1>1, <2>2, <2>3 DEF PromotionKnows
    <3> QED BY <2>2, <2>3, <2>4, <3>1
  <2> QED BY <2>2, <2>3, <2>5 DEF PromotionKnows
<1>10. CASE QueryEdges(t)
  <2> DEFINE read == {e \in edges : {e.from, e.to} \cap Mapped(t) # {}}
  <2>1. op[t].pc = "promote" /\ op[t].todo = {} /\ edges' = edges /\ docs' = docs
    BY <1>10 DEF QueryEdges, graph
  <2>2. /\ op'[t].todo = {} /\ op'[t].before = op[t].before /\ op'[t].pc = "insert"
        /\ op'[t].keyMap = op[t].keyMap /\ op'[t].pending = read
    BY <1>1, <1>10, <2>1, OwnRecord DEF QueryEdges, Op
  <2>3. ASSUME NEW i, NEW root, Covers(t, i, root) PROVE Covers(t, i, root)' /\ i \in Mapped(t)
    BY <2>1, <2>2, <2>3 DEF Covers, Mapped
  <2>4. ASSUME NEW r \in op[t].before
        PROVE  \E e \in op'[t].pending :
                  e.rel = r[1] /\ Covers(t, e.from, r[2])' /\ Covers(t, e.to, r[3])'
    <3>1. PICK e \in edges : e.rel = r[1] /\ Covers(t, e.from, r[2]) /\ Covers(t, e.to, r[3])
      BY <1>1, <2>1 DEF PromotionKnows
    <3>2. e \in read
      BY <2>3, <3>1
    <3> QED BY <2>2, <2>3, <3>1, <3>2
  <2> QED BY <2>2, <2>4 DEF PromotionKnows
<1>11. CASE PromoteEdge(t)
  <2>1. PICK e \in op[t].pending :
           /\ edges' = edges \cup {[id |-> copies + 1, rel |-> e.rel,
                                     from |-> Resolve(t, e.from), to |-> Resolve(t, e.to)]}
           /\ op' = [op EXCEPT ![t].pending = @ \ {e}]
    BY <1>11 DEF PromoteEdge
  <2> DEFINE new == [id |-> copies + 1, rel |-> e.rel,
                     from |-> Resolve(t, e.from), to |-> Resolve(t, e.to)]
  <2>2. op[t].pc = "insert" /\ op[t].todo = {} /\ docs' = docs
    BY <1>1, <1>11 DEF PromoteEdge, PromotionKnows
  <2>3. /\ op'[t].todo = {} /\ op'[t].before = op[t].before /\ op'[t].pc = "insert"
        /\ op'[t].keyMap = op[t].keyMap /\ op'[t].pending = op[t].pending \ {e}
    BY <1>1, <2>1, <2>2, OwnRecord DEF Op
  <2>4. ASSUME NEW i, NEW root, Covers(t, i, root)
        PROVE  Covers(t, i, root)' /\ CopyOf(Resolve(t, i), root)
    <3>1. i \in Mapped(t)
      BY <2>2, <2>4 DEF Covers
    <3>2. Resolve(t, i) \in 1 .. Len(docs) /\ docs[Resolve(t, i)].source = i
      BY <1>1, <3>1, ResolvedCopy
    <3> QED BY <2>2, <2>3, <2>4, <3>2 DEF Covers, CopyOf, Mapped
  <2>5. \A i, root : CopyOf(i, root) => CopyOf(i, root)'
    BY <2>2 DEF CopyOf
  <2>6. ASSUME NEW r \in op[t].before
        PROVE  \/ \E f \in op'[t].pending :
                     f.rel = r[1] /\ Covers(t, f.from, r[2])' /\ Covers(t, f.to, r[3])'
               \/ \E f \in edges' : f.rel = r[1] /\ CopyOf(f.from, r[2])' /\ CopyOf(f.to, r[3])'
    <3>1. CASE \E f \in edges : f.rel = r[1] /\ CopyOf(f.from, r[2]) /\ CopyOf(f.to, r[3])
      BY <2>1, <2>5, <3>1
    <3>2. CASE \E f \in op[t].pending :
                  f.rel = r[1] /\ Covers(t, f.from, r[2]) /\ Covers(t, f.to, r[3])
      <4>1. PICK f \in op[t].pending :
                    f.rel = r[1] /\ Covers(t, f.from, r[2]) /\ Covers(t, f.to, r[3])
        BY <3>2
      <4>2. CASE f # e
        BY <2>3, <2>4, <4>1, <4>2
      <4>3. CASE f = e
        <5>1. new.rel = r[1] /\ new.from = Resolve(t, e.from) /\ new.to = Resolve(t, e.to)
          BY <4>1, <4>3
        <5>2. new \in edges'
          BY <2>1
        <5>3. CopyOf(Resolve(t, e.from), r[2]) /\ CopyOf(Resolve(t, e.to), r[3])
          BY <2>4, <4>1, <4>3
        <5> HIDE DEF new
        <5>4. CopyOf(new.from, r[2]) /\ CopyOf(new.to, r[3])
          BY <5>1, <5>3
        <5> QED BY <2>5, <5>1, <5>2, <5>4
      <4> QED BY <4>2, <4>3
    <3> QED BY <1>1, <2>2, <3>1, <3>2 DEF PromotionKnows
  <2> QED BY <2>3, <2>6 DEF PromotionKnows
<1> QED BY <1>3, <1>4, <1>5, <1>6, <1>7, <1>8, <1>9, <1>10, <1>11 DEF Step

(* A promotion that ends without another operation next to it has copied    *)
(* every relation between the entities it has copied.                       *)
THEOREM PromotionsKeepRelations == Spec => PromotionKeepsRelations
<1>1. Init => PromotionInv
  BY InitSerial, IdleType DEF Init, PromotionInv, PromotionKnows
<1>2. PromotionInv /\ [Next]_vars => PromotionInv'
  <2> SUFFICES ASSUME PromotionInv, [Next]_vars PROVE PromotionInv'
    OBVIOUS
  <2>1. CASE Next
    <3>1. PICK t \in Threads : Step(t)
      BY <2>1 DEF Next, Step
    <3> QED BY <3>1, SerialStep, PromotionStep DEF PromotionInv
  <2>2. CASE UNCHANGED vars
    <3>1. SerialInv'
      BY <2>2 DEF vars, PromotionInv, SerialInv, TInv, TypeOK, Serial
    <3>2. ASSUME NEW t \in Threads PROVE PromotionKnows(t)' <=> PromotionKnows(t)
      BY <2>2 DEF vars, PromotionKnows, Covers, CopyOf, Mapped
    <3> QED BY <2>2, <3>1, <3>2 DEF vars, PromotionInv
  <2> QED BY <2>1, <2>2
<1>3. PromotionInv /\ [Next]_vars =>
         [\A t \in Threads : ~overlapped /\ ReportPromotion(t) =>
             \A r \in op[t].before : \E e \in edges :
                 /\ e.rel = r[1]
                 /\ \A end \in {<<e.from, r[2]>>, <<e.to, r[3]>>} :
                       LET source == docs[end[1]].source IN
                       source # 0 /\ docs[source].root = end[2]]_vars
  <2> SUFFICES ASSUME PromotionInv, NEW t \in Threads, ~overlapped, ReportPromotion(t),
                      NEW r \in op[t].before
               PROVE  \E e \in edges :
                 /\ e.rel = r[1]
                 /\ \A end \in {<<e.from, r[2]>>, <<e.to, r[3]>>} :
                       LET source == docs[end[1]].source IN
                       source # 0 /\ docs[source].root = end[2]
    OBVIOUS
  <2>1. PICK e \in edges : e.rel = r[1] /\ CopyOf(e.from, r[2]) /\ CopyOf(e.to, r[3])
    BY DEF PromotionInv, PromotionKnows, ReportPromotion
  <2> QED BY <2>1 DEF CopyOf
<1> QED BY <1>1, <1>2, <1>3, PTL DEF Spec, PromotionKeepsRelations
=============================================================================
