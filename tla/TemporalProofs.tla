---------------------------- MODULE TemporalProofs ----------------------------
(***************************************************************************)
(* Theorems about TemporalStore.                                           *)
(*                                                                         *)
(* The first part is for any number of threads, concepts, operations,      *)
(* interruptions and write failures: no action takes anything away from    *)
(* the store (StoreGrows), so what a thread knows about documents it read  *)
(* stays true while other threads act (KnowledgeIsStable), and each action *)
(* leaves its own thread with the knowledge its next action needs.         *)
(*                                                                         *)
(* The second is what one handler at a time makes of the store, wherever   *)
(* it is interrupted: the store implements VersionHistory, no current      *)
(* relation hangs on an expired version, and no edit loses a relation.     *)
(* For any number of concepts, operations and interruptions, as long as no *)
(* write of expire_entity fails unnoticed and every caller of              *)
(* update_entity passes a list of edge collections.                        *)
(***************************************************************************)
EXTENDS TemporalRefinement, SequenceTheorems, TLAPS

\* A step keeps every document, with its concept, its number or its endpoints,
\* and makes nothing current that was not.
DocsGrow ==
    /\ docs' \in Seq(Version)
    /\ Len(docs) <= Len(docs')
    /\ \A i \in DOMAIN docs : /\ docs'[i].concept = docs[i].concept
                              /\ docs'[i].version = docs[i].version
                              /\ docs[i].expired # NeverExpires
                                    => docs'[i].expired # NeverExpires
EdgesGrow ==
    /\ edges' \in Seq(Edge)
    /\ Len(edges) <= Len(edges')
    /\ \A e \in DOMAIN edges : /\ edges'[e].from = edges[e].from
                               /\ edges'[e].to = edges[e].to
                               /\ edges'[e].lineage = edges[e].lineage
                               /\ edges[e].expired # NeverExpires
                                     => edges'[e].expired # NeverExpires
StoreGrows == DocsGrow /\ EdgesGrow

-----------------------------------------------------------------------------
(* The writes.                                                              *)

(* Stamping a version (expire_entity) changes its expired field only.       *)
LEMMA StampVersionGrows ==
    ASSUME docs \in Seq(Version), NEW i \in DOMAIN docs, NEW ts \in Nat,
           ts # NeverExpires, docs' = Stamped(docs, i, ts)
    PROVE  /\ DocsGrow
           /\ Len(docs') = Len(docs)
           /\ docs'[i].expired = ts
<1> DEFINE v == [docs[i] EXCEPT !.expired = ts]
<1>1. i \in 1 .. Len(docs) /\ docs[i] \in Version
  BY ElementOfSeq, LenProperties
<1>2. v \in Version
  BY <1>1 DEF Version
<1>3. docs' = [docs EXCEPT ![i] = v]
  BY DEF Stamped
<1>4. /\ docs' \in Seq(Version)
      /\ Len(docs') = Len(docs)
      /\ \A j \in 1 .. Len(docs) : docs'[j] = IF j = i THEN v ELSE docs[j]
  <2> HIDE DEF v
  <2> QED BY <1>1, <1>2, <1>3, ExceptSeq
<1>5. /\ v.concept = docs[i].concept /\ v.version = docs[i].version /\ v.expired = ts
  BY <1>1 DEF Version
<1> HIDE DEF v
<1> QED BY <1>1, <1>4, <1>5, LenProperties DEF DocsGrow

(* Stamping an edge changes its expired field only.                         *)
LEMMA StampEdgeGrows ==
    ASSUME edges \in Seq(Edge), NEW i \in DOMAIN edges, NEW ts \in Nat,
           ts # NeverExpires, edges' = Stamped(edges, i, ts)
    PROVE  EdgesGrow /\ Len(edges') = Len(edges)
<1> DEFINE v == [edges[i] EXCEPT !.expired = ts]
<1>1. i \in 1 .. Len(edges) /\ edges[i] \in Edge
  BY ElementOfSeq, LenProperties
<1>2. v \in Edge
  BY <1>1 DEF Edge
<1>3. edges' = [edges EXCEPT ![i] = v]
  BY DEF Stamped
<1>4. /\ edges' \in Seq(Edge)
      /\ Len(edges') = Len(edges)
      /\ \A j \in 1 .. Len(edges) : edges'[j] = IF j = i THEN v ELSE edges[j]
  <2> HIDE DEF v
  <2> QED BY <1>1, <1>2, <1>3, ExceptSeq
<1>5. /\ v.from = edges[i].from /\ v.to = edges[i].to
      /\ v.lineage = edges[i].lineage /\ v.expired = ts
  BY <1>1 DEF Edge
<1> HIDE DEF v
<1> QED BY <1>1, <1>4, <1>5, LenProperties DEF EdgesGrow

(* Inserting a version (create_version) leaves the others alone.            *)
LEMMA InsertVersionGrows ==
    ASSUME docs \in Seq(Version), NEW d \in Version, docs' = Append(docs, d)
    PROVE  /\ DocsGrow
           /\ Len(docs') = Len(docs) + 1
           /\ docs'[Len(docs) + 1] = d
           /\ \A i \in DOMAIN docs : docs'[i] = docs[i]
BY AppendProperties, LenProperties DEF DocsGrow

(* Inserting an edge leaves the others alone.                               *)
LEMMA InsertEdgeGrows ==
    ASSUME edges \in Seq(Edge), NEW d \in Edge, edges' = Append(edges, d)
    PROVE  /\ EdgesGrow
           /\ Len(edges') = Len(edges) + 1
           /\ edges'[Len(edges) + 1] = d
           /\ \A i \in DOMAIN edges : edges'[i] = edges[i]
BY AppendProperties, LenProperties DEF EdgesGrow

(* A step that writes nothing.                                              *)
LEMMA NothingWritten ==
    ASSUME TypeOK
    PROVE  /\ UNCHANGED docs => DocsGrow
           /\ UNCHANGED edges => EdgesGrow
BY LenProperties DEF TypeOK, DocsGrow, EdgesGrow

-----------------------------------------------------------------------------
(* What stays true.                                                         *)

(* The store growing keeps all keys valid and all concepts the same.        *)
LEMMA KeysStayValid ==
    ASSUME TypeOK, StoreGrows
    PROVE  /\ DOMAIN docs \subseteq DOMAIN docs'
           /\ DOMAIN edges \subseteq DOMAIN edges'
           /\ \A i \in DOMAIN docs \cup {SourceDoc} : ConceptOf(i)' = ConceptOf(i)
           /\ 0 \notin DOMAIN docs' /\ 0 \notin DOMAIN edges'
<1>1. /\ DOMAIN docs = 1 .. Len(docs) /\ DOMAIN docs' = 1 .. Len(docs')
      /\ DOMAIN edges = 1 .. Len(edges) /\ DOMAIN edges' = 1 .. Len(edges')
      /\ Len(docs) \in Nat /\ Len(docs') \in Nat
      /\ Len(edges) \in Nat /\ Len(edges') \in Nat
  BY LenProperties DEF TypeOK, StoreGrows, DocsGrow, EdgesGrow
<1> QED BY <1>1 DEF StoreGrows, DocsGrow, EdgesGrow, ConceptOf, SourceDoc

(* What a thread knows survives the steps of the others.                    *)
LEMMA KnowledgeIsStable ==
    ASSUME TypeOK, StoreGrows, NEW u \in Threads, OpKnows(u), op'[u] = op[u]
    PROVE  OpKnows(u)'
<1>1. /\ DOMAIN docs \subseteq DOMAIN docs'
      /\ DOMAIN edges \subseteq DOMAIN edges'
      /\ 0 \notin DOMAIN docs /\ 0 \notin DOMAIN edges
  BY KeysStayValid, LenProperties DEF TypeOK
<1>2. \A i \in DOMAIN docs : docs'[i].concept = docs[i].concept
  BY DEF StoreGrows, DocsGrow
<1>3. \A e \in DOMAIN edges : edges'[e].from = edges[e].from /\ edges'[e].to = edges[e].to
  BY DEF StoreGrows, EdgesGrow
<1> QED BY <1>1, <1>2, <1>3 DEF OpKnows, Concepts

(* Edges that are only stamped keep their endpoints and their concepts.     *)
LEMMA EdgesStayWellFormed ==
    ASSUME TypeOK, EdgesWellFormed, EdgesKeepConcepts, StoreGrows,
           Len(edges') = Len(edges)
    PROVE  EdgesWellFormed' /\ EdgesKeepConcepts'
<1>1. /\ DOMAIN edges' = DOMAIN edges
      /\ DOMAIN docs \subseteq DOMAIN docs'
      /\ \A i \in DOMAIN docs \cup {SourceDoc} : ConceptOf(i)' = ConceptOf(i)
  BY KeysStayValid, LenProperties DEF TypeOK, StoreGrows, EdgesGrow
<1>2. \A e \in DOMAIN edges : /\ edges'[e].from = edges[e].from
                              /\ edges'[e].to = edges[e].to
                              /\ edges'[e].lineage = edges[e].lineage
  BY DEF StoreGrows, EdgesGrow
<1>3. EdgesWellFormed'
  BY <1>1, <1>2 DEF EdgesWellFormed, SourceDoc
<1>4. EdgesKeepConcepts'
  BY <1>1, <1>2 DEF EdgesKeepConcepts, EdgesWellFormed
<1> QED BY <1>3, <1>4

(* An inserted edge that joins versions of the concepts its lineage joins,  *)
(* or that starts a lineage of its own.                                     *)
LEMMA InsertedEdgeWellFormed ==
    ASSUME TypeOK, EdgesWellFormed, EdgesKeepConcepts, UNCHANGED docs,
           NEW d \in Edge, edges' = Append(edges, d),
           d.from \in DOMAIN docs, d.to \in DOMAIN docs \cup {SourceDoc},
           \/ d.lineage = Len(edges) + 1
           \/ /\ d.lineage \in DOMAIN edges
              /\ ConceptOf(d.from) = ConceptOf(edges[d.lineage].from)
              /\ ConceptOf(d.to) = ConceptOf(edges[d.lineage].to)
    PROVE  EdgesWellFormed' /\ EdgesKeepConcepts'
<1> DEFINE n == Len(edges) + 1
<1>1. /\ EdgesGrow /\ Len(edges') = n /\ edges'[n] = d
      /\ \A i \in DOMAIN edges : edges'[i] = edges[i]
  BY InsertEdgeGrows DEF TypeOK
<1>2. /\ DOMAIN edges = 1 .. Len(edges) /\ Len(edges) \in Nat
      /\ DOMAIN edges' = 1 .. n
  BY <1>1, LenProperties DEF TypeOK, EdgesGrow
<1>3. DOMAIN edges' = DOMAIN edges \cup {n} /\ n \notin DOMAIN edges
  BY <1>2
<1>4. \A i : ConceptOf(i)' = ConceptOf(i)
  BY DEF ConceptOf
<1> HIDE DEF n
<1>5. EdgesWellFormed'
  BY <1>1, <1>3 DEF EdgesWellFormed, n
<1>6. EdgesKeepConcepts'
  <2> SUFFICES ASSUME NEW e \in DOMAIN edges'
               PROVE  /\ ConceptOf(edges'[e].from) = ConceptOf(edges'[edges'[e].lineage].from)
                      /\ ConceptOf(edges'[e].to) = ConceptOf(edges'[edges'[e].lineage].to)
    BY <1>4 DEF EdgesKeepConcepts
  <2>1. CASE e \in DOMAIN edges
    BY <2>1, <1>1, <1>3 DEF EdgesKeepConcepts, EdgesWellFormed
  <2>2. CASE e = n
    BY <2>2, <1>1, <1>3 DEF n
  <2> QED BY <2>1, <2>2, <1>3
<1> QED BY <1>5, <1>6

-----------------------------------------------------------------------------
(* One step of each kind.                                                   *)

(* A step of thread t that writes at most stamps is safe if t still knows   *)
(* what its next action needs.                                              *)
LEMMA StampingStep ==
    ASSUME IndInv, NEW t \in Threads, StoreGrows, Len(edges') = Len(edges),
           TypeOK', OpKnows(t)', \A u \in Threads \ {t} : op'[u] = op[u]
    PROVE  IndInv'
<1>1. \A u \in Threads : OpKnows(u)'
  BY KnowledgeIsStable DEF IndInv
<1>2. EdgesWellFormed' /\ EdgesKeepConcepts'
  BY EdgesStayWellFormed DEF IndInv
<1> QED BY <1>1, <1>2 DEF IndInv

(* So is one that inserts an edge of the right kind.                        *)
LEMMA InsertingStep ==
    ASSUME IndInv, NEW t \in Threads, StoreGrows,
           EdgesWellFormed', EdgesKeepConcepts',
           TypeOK', OpKnows(t)', \A u \in Threads \ {t} : op'[u] = op[u]
    PROVE  IndInv'
<1>1. \A u \in Threads : OpKnows(u)'
  BY KnowledgeIsStable DEF IndInv
<1> QED BY <1>1 DEF IndInv

(* Numeric facts about the clock.                                           *)
LEMMA ClockFacts ==
    ASSUME TypeOK
    PROVE  /\ clock \in Nat /\ clock # NeverExpires /\ clock <= MaxClock
           /\ Tick => clock' \in 1 .. MaxClock
           /\ \A t \in Threads : op[t] \in Op
           /\ \A t \in Threads : OpKnows(t) =>
                 op[t].now \in Nat /\ op[t].now # NeverExpires
           /\ NeverExpires \in Nat
<1>1. \A t \in Threads : op[t] \in Op
  BY DEF TypeOK
<1>2. \A t \in Threads : op[t].now \in Nat
  BY <1>1 DEF Op
<1> QED BY BoundsAssumption, <1>1, <1>2 DEF TypeOK, Tick, OpKnows

(* A thread between operations knows nothing.                               *)
LEMMA IdleKnows ==
    ASSUME NEW t \in Threads, op'[t] = IdleOp
    PROVE  OpKnows(t)' /\ op'[t] \in Op
<1>1. MaxClock \in Nat /\ 0 <= MaxClock
  BY BoundsAssumption
<1>2. <<>> \in Seq(Collections)
  BY EmptySeq
<1> QED BY <1>1, <1>2 DEF IdleOp, OpKnows, Op

(* The queries of re_create_edges and of the cascade.                       *)
LEMMA Queries ==
    ASSUME TypeOK, NEW col, NEW id
    PROVE  /\ Outbound(col, id) \subseteq DOMAIN edges
           /\ Inbound(col, id) \subseteq DOMAIN edges
           /\ \A e \in Outbound(col, id) : edges[e].from = id
           /\ \A e \in Inbound(col, id) : edges[e].to = id
           /\ DOMAIN edges \subseteq Nat /\ DOMAIN docs \subseteq Nat
           /\ 0 \notin DOMAIN edges /\ 0 \notin DOMAIN docs
           /\ Current(docs) \subseteq DOMAIN docs
           /\ Current(edges) \subseteq DOMAIN edges
BY LenProperties DEF Outbound, Inbound, Current, TypeOK

(* The beginning of an operation writes nothing.                            *)
LEMMA StartKeepsIndInv ==
    ASSUME IndInv, NEW t \in Threads, StartOf(t)
    PROVE  IndInv' /\ StoreGrows
<1> USE DEF IndInv
<1>1. StoreGrows /\ Len(edges') = Len(edges)
  BY NothingWritten DEF StartOf, BeginCreateClass, BeginUpdate, BeginCascade,
     BeginRelate, BeginUpdateEdge, store, StoreGrows
<1>2. \A u \in Threads \ {t} : op'[u] = op[u]
  BY DEF StartOf, BeginCreateClass, BeginUpdate, BeginCascade, BeginRelate,
     BeginUpdateEdge, Begin, TypeOK
<1>3. /\ RepoEdgeCollections \in Seq(Collections)
      /\ TemporalEdgeCollections \in Seq(Collections)
      /\ <<>> \in Seq(Collections)
  BY DEF RepoEdgeCollections, TemporalEdgeCollections, Collections
<1>4. \A path : EdgeCollectionsOf(path) \in Seq(Collections)
  BY <1>3 DEF EdgeCollectionsOf
<1>5. IdleOp \in Op /\ 0 <= MaxClock
  BY <1>3, BoundsAssumption DEF IdleOp, Op
<1>6. /\ UNCHANGED <<store, retired, aborts, faults>>
      /\ ops' = ops + 1
  BY DEF StartOf, BeginCreateClass, BeginUpdate, BeginCascade, BeginRelate,
     BeginUpdateEdge, Begin
<1>7. op'[t] \in Op /\ op' \in [Threads -> Op] /\ OpKnows(t)'
  <2>1. CASE BeginCreateClass(t)
    <3>1. PICK c \in Concepts :
             op' = [op EXCEPT ![t] = [IdleOp EXCEPT !.pc = "insertClass", !.key = c]]
      BY <2>1 DEF BeginCreateClass, Begin
    <3>2. c \in Nat
      BY BoundsAssumption DEF Concepts
    <3> QED BY <3>1, <3>2, <1>3, <1>5 DEF TypeOK, IdleOp, Op, OpKnows
  <2>2. CASE BeginUpdate(t)
    <3>1. PICK k \in Current(docs), path \in UpdatePaths :
             op' = [op EXCEPT ![t] = [IdleOp EXCEPT !.pc = "expire", !.key = k,
                                                    !.cols = EdgeCollectionsOf(path)]]
      BY <2>2 DEF BeginUpdate, Begin
    <3>2. k \in Nat /\ k \in DOMAIN docs /\ docs' = docs
      BY Queries, <1>6 DEF store
    <3> QED BY <3>1, <3>2, <1>3, <1>4, <1>5 DEF TypeOK, IdleOp, Op, OpKnows
  <2>3. CASE BeginCascade(t)
    <3>1. PICK k \in Current(docs) :
             op' = [op EXCEPT ![t] = [IdleOp EXCEPT !.pc = "cascade", !.key = k,
                                                    !.cols = RepoEdgeCollections]]
      BY <2>3 DEF BeginCascade, Begin
    <3>2. k \in Nat /\ k \in DOMAIN docs /\ docs' = docs
      BY Queries, <1>6 DEF store
    <3> QED BY <3>1, <3>2, <1>3, <1>5 DEF TypeOK, IdleOp, Op, OpKnows
  <2>4. CASE BeginRelate(t)
    <3>1. PICK k \in Current(docs) :
             op' = [op EXCEPT ![t] = [IdleOp EXCEPT !.pc = "readTo", !.key = k]]
      BY <2>4 DEF BeginRelate, Begin
    <3>2. k \in Nat /\ k \in DOMAIN docs /\ docs' = docs
      BY Queries, <1>6 DEF store
    <3> QED BY <3>1, <3>2, <1>3, <1>5 DEF TypeOK, IdleOp, Op, OpKnows
  <2>5. CASE BeginUpdateEdge(t)
    <3>1. PICK e \in Current(edges) :
             op' = [op EXCEPT ![t] = [IdleOp EXCEPT !.pc = "edgeExpire", !.cur = e]]
      BY <2>5 DEF BeginUpdateEdge, Begin
    <3>2. e \in Nat /\ e \in DOMAIN edges /\ e # 0 /\ edges' = edges
      BY Queries, <1>6 DEF store
    <3> QED BY <3>1, <3>2, <1>3, <1>5 DEF TypeOK, IdleOp, Op, OpKnows
  <2> QED BY <2>1, <2>2, <2>3, <2>4, <2>5 DEF StartOf
<1>8. TypeOK'
  BY <1>6, <1>7 DEF TypeOK, store
<1> QED BY <1>1, <1>2, <1>7, <1>8, StampingStep

(* expire_entity, whether its write takes effect or fails.                  *)
LEMMA ExpireVersionStep ==
    ASSUME TypeOK, NEW k \in DOMAIN docs, StampVersion(k), UNCHANGED edges
    PROVE  /\ StoreGrows /\ Len(edges') = Len(edges)
           /\ docs' \in Seq(Version) /\ DOMAIN docs' = DOMAIN docs
           /\ faults' \in Nat
           /\ UNCHANGED faults => docs'[k].expired # NeverExpires
<1>1. EdgesGrow
  BY NothingWritten
<1>2. CASE docs' = Stamped(docs, k, clock) /\ UNCHANGED faults
  BY <1>1, <1>2, StampVersionGrows, ClockFacts, LenProperties
     DEF TypeOK, StoreGrows, DocsGrow
<1>3. CASE WriteFails /\ UNCHANGED docs
  BY <1>1, <1>3, NothingWritten DEF WriteFails, TypeOK, StoreGrows
<1> QED BY <1>2, <1>3 DEF StampVersion

LEMMA ExpireEdgeStep ==
    ASSUME TypeOK, NEW e \in DOMAIN edges, StampEdge(e), UNCHANGED docs
    PROVE  /\ StoreGrows /\ Len(edges') = Len(edges)
           /\ edges' \in Seq(Edge) /\ DOMAIN edges' = DOMAIN edges
           /\ faults' \in Nat
<1>1. DocsGrow
  BY NothingWritten
<1>2. CASE edges' = Stamped(edges, e, clock) /\ UNCHANGED faults
  BY <1>1, <1>2, StampEdgeGrows, ClockFacts, LenProperties
     DEF TypeOK, StoreGrows, EdgesGrow
<1>3. CASE WriteFails /\ UNCHANGED edges
  BY <1>1, <1>3, NothingWritten DEF WriteFails, TypeOK, StoreGrows
<1> QED BY <1>2, <1>3 DEF StampEdge

(* The steps that write to the vertices, or to nothing.                     *)
LEMMA VertexStepKeepsIndInv ==
    ASSUME IndInv, NEW t \in Threads,
           \/ InsertClass(t) \/ ExpireOld(t) \/ CreateNew(t) \/ FinishUpdate(t)
           \/ ExpireClass(t) \/ Abort(t) \/ TargetMissing(t)
    PROVE  IndInv' /\ StoreGrows
<1> USE DEF IndInv
<1>0. op[t] \in Op /\ OpKnows(t)
  BY ClockFacts
<1>1. CASE InsertClass(t)
  <2> DEFINE d == [concept |-> op[t].key, version |-> 1,
                   created |-> clock, expired |-> NeverExpires]
  <2>1. d \in Version
    BY <1>1, <1>0, ClockFacts DEF InsertClass, OpKnows, Version
  <2>2. docs' = Append(docs, d) /\ UNCHANGED edges
    BY <1>1 DEF InsertClass
  <2> HIDE DEF d
  <2>3. StoreGrows /\ docs' \in Seq(Version) /\ Len(edges') = Len(edges)
    BY <2>1, <2>2, InsertVersionGrows, NothingWritten DEF TypeOK, StoreGrows, DocsGrow
  <2>4. OpKnows(t)' /\ op'[t] \in Op
    BY <1>1, IdleKnows DEF InsertClass, Finish, TypeOK
  <2>5. TypeOK'
    BY <1>1, <2>3, <2>4, ClockFacts DEF InsertClass, Finish, TypeOK, counters
  <2> QED BY <1>1, <2>3, <2>4, <2>5, StampingStep DEF InsertClass, Finish, TypeOK
<1>2. CASE ExpireOld(t)
  <2>1. op[t].key \in DOMAIN docs
    BY <1>2, <1>0 DEF ExpireOld, OpKnows
  <2>2. /\ StoreGrows /\ Len(edges') = Len(edges)
        /\ docs' \in Seq(Version) /\ DOMAIN docs' = DOMAIN docs
        /\ faults' \in Nat
    BY <1>2, <2>1, ExpireVersionStep DEF ExpireOld
  <2>3. op' = [op EXCEPT ![t].pc = "create"] /\ edges' = edges
    BY <1>2 DEF ExpireOld, Goto
  <2>4. op'[t] \in Op /\ op' \in [Threads -> Op]
    BY <1>0, <2>3 DEF TypeOK, Op
  <2>5. OpKnows(t)'
    BY <1>0, <1>2, <2>1, <2>2, <2>3 DEF OpKnows, ExpireOld, TypeOK
  <2>6. TypeOK'
    BY <1>2, <2>2, <2>3, <2>4, ClockFacts DEF ExpireOld, TypeOK
  <2> QED BY <2>2, <2>3, <2>5, <2>6, StampingStep DEF TypeOK
<1>3. CASE CreateNew(t)
  <2> DEFINE d == [concept |-> docs[op[t].key].concept,
                   version |-> docs[op[t].key].version + 1,
                   created |-> clock, expired |-> NeverExpires]
  <2>1. op[t].key \in DOMAIN docs /\ docs[op[t].key] \in Version
    BY <1>3, <1>0, LenProperties, ElementOfSeq DEF CreateNew, OpKnows, TypeOK
  <2>2. d \in Version
    BY <2>1, ClockFacts DEF Version
  <2>3. docs' = Append(docs, d) /\ UNCHANGED edges
    BY <1>3 DEF CreateNew
  <2>3a. d.concept = docs[op[t].key].concept
    OBVIOUS
  <2> HIDE DEF d
  <2>4. /\ StoreGrows /\ docs' \in Seq(Version) /\ Len(edges') = Len(edges)
        /\ Len(docs') = Len(docs) + 1 /\ docs'[Len(docs) + 1] = d
        /\ docs'[op[t].key] = docs[op[t].key]
    BY <2>1, <2>2, <2>3, InsertVersionGrows, NothingWritten
       DEF TypeOK, StoreGrows, DocsGrow
  <2>5. Len(docs) \in Nat /\ Len(docs) + 1 \in DOMAIN docs' /\ op[t].key \in DOMAIN docs'
    BY <2>1, <2>4, LenProperties DEF TypeOK
  <2>6. op' = [op EXCEPT ![t].pc = "collect", ![t].new = Len(docs) + 1]
    BY <1>3 DEF CreateNew
  <2>6a. Len(docs) + 1 \in Nat
    BY <2>5
  <2>6b. op'[t] = [op[t] EXCEPT !.pc = "collect", !.new = Len(docs) + 1]
    BY <2>6 DEF TypeOK
  <2>6c. op'[t] \in Op
    BY <1>0, <2>6a, <2>6b DEF Op
  <2>7. op'[t] \in Op /\ op' \in [Threads -> Op]
    BY <2>6, <2>6c DEF TypeOK
  <2>8. OpKnows(t)'
    BY <1>0, <1>3, <2>3, <2>3a, <2>4, <2>5, <2>6 DEF OpKnows, CreateNew, TypeOK
  <2>9. TypeOK'
    BY <1>3, <2>4, <2>7, <2>3, ClockFacts DEF CreateNew, TypeOK, counters
  <2> QED BY <2>4, <2>6, <2>8, <2>9, StampingStep DEF TypeOK
<1>4. CASE FinishUpdate(t) \/ Abort(t) \/ TargetMissing(t)
  <2>1. /\ UNCHANGED <<docs, edges, clock, retired>> /\ UNCHANGED <<ops, faults>>
        /\ op' = [op EXCEPT ![t] = IdleOp]
    BY <1>4 DEF FinishUpdate, Abort, TargetMissing, Finish, store, counters
  <2>2. aborts' \in Nat
    BY <1>4 DEF FinishUpdate, Abort, TargetMissing, counters, TypeOK
  <2>3. StoreGrows /\ Len(edges') = Len(edges)
    BY <2>1, NothingWritten DEF StoreGrows
  <2>4. OpKnows(t)' /\ op'[t] \in Op
    BY <2>1, IdleKnows DEF TypeOK
  <2>5. TypeOK'
    BY <2>1, <2>2, <2>4 DEF TypeOK
  <2> QED BY <2>1, <2>3, <2>4, <2>5, StampingStep DEF TypeOK
<1>5. CASE ExpireClass(t)
  <2>1. op[t].key \in DOMAIN docs
    BY <1>5, <1>0 DEF ExpireClass, OpKnows
  <2>2. /\ StoreGrows /\ Len(edges') = Len(edges)
        /\ docs' \in Seq(Version) /\ DOMAIN docs' = DOMAIN docs
        /\ faults' \in Nat
    BY <1>5, <2>1, ExpireVersionStep DEF ExpireClass
  <2>3. op' = [op EXCEPT ![t].pc = "sweep"] /\ edges' = edges
    BY <1>5 DEF ExpireClass, Goto
  <2>4. op'[t] \in Op /\ op' \in [Threads -> Op]
    BY <1>0, <2>3 DEF TypeOK, Op
  <2>5. OpKnows(t)'
    BY <1>0, <1>5, <2>1, <2>2, <2>3 DEF OpKnows, ExpireClass, TypeOK
  <2>6. TypeOK'
    BY <1>5, <2>2, <2>3, <2>4, ClockFacts DEF ExpireClass, TypeOK
  <2> QED BY <2>2, <2>3, <2>5, <2>6, StampingStep DEF TypeOK
<1> QED BY <1>1, <1>2, <1>3, <1>4, <1>5

(* The queries, and the steps from one collection to the next.              *)
LEMMA QueryStepKeepsIndInv ==
    ASSUME IndInv, NEW t \in Threads,
           \/ QueryOutbound(t) \/ QueryInbound(t) \/ NextCollection(t)
           \/ QueryTouching(t) \/ ReadTarget(t)
    PROVE  IndInv' /\ StoreGrows
<1> USE DEF IndInv
<1>1. UNCHANGED <<docs, edges, retired, ops, aborts, faults>>
  BY DEF QueryOutbound, QueryInbound, NextCollection, QueryTouching, ReadTarget,
     store, counters
<1>2. StoreGrows /\ Len(edges') = Len(edges)
  BY <1>1, NothingWritten DEF StoreGrows
<1>3. op[t] \in Op /\ OpKnows(t)
  BY ClockFacts
<1>4. clock' \in 1 .. MaxClock
  BY ClockFacts DEF QueryOutbound, QueryInbound, NextCollection, QueryTouching,
     ReadTarget, store, TypeOK
<1>5. op[t].cols # <<>> =>
         Head(op[t].cols) \in Collections /\ Tail(op[t].cols) \in Seq(Collections)
  BY <1>3, HeadTailProperties DEF Op
<1>6. /\ op' = [op EXCEPT ![t] = op'[t]] /\ op'[t] \in Op
      /\ OpKnows(t)'
  <2>1. CASE QueryOutbound(t)
    <3> DEFINE found == Outbound(Head(op[t].cols), op[t].key)
    <3>1. op' = [op EXCEPT ![t].pc = "outbound", ![t].now = clock, ![t].todo = found]
      BY <2>1 DEF QueryOutbound
    <3>2. /\ found \subseteq DOMAIN edges /\ found \subseteq Nat
          /\ \A e \in found : edges[e].from = op[t].key
      BY Queries
    <3> HIDE DEF found
    <3>3. op'[t] \in Op
      BY <1>3, <3>1, <3>2, ClockFacts DEF TypeOK, Op
    <3>4. op[t].pc = "collect" /\ op[t].cols # <<>> /\ op[t].cur = 0
      BY <2>1, <1>3 DEF QueryOutbound, OpKnows
    <3>5. /\ op'[t].pc = "outbound" /\ op'[t].key = op[t].key /\ op'[t].new = op[t].new
          /\ op'[t].cols = op[t].cols /\ op'[t].now = clock
          /\ op'[t].cur = 0 /\ op'[t].todo = found
      BY <1>3, <3>1, <3>4 DEF Op, TypeOK
    <3>6. OpKnows(t)'
      BY <1>1, <1>3, <3>2, <3>4, <3>5, ClockFacts DEF OpKnows
    <3> QED BY <3>1, <3>3, <3>6 DEF TypeOK
  <2>2. CASE QueryInbound(t)
    <3> DEFINE found == Inbound(Head(op[t].cols), op[t].key)
    <3>1. op' = [op EXCEPT ![t].pc = "inbound", ![t].todo = found]
      BY <2>2 DEF QueryInbound
    <3>2. /\ found \subseteq DOMAIN edges /\ found \subseteq Nat
          /\ \A e \in found : edges[e].to = op[t].key
      BY Queries
    <3> HIDE DEF found
    <3>3. op'[t] \in Op
      BY <1>3, <3>1, <3>2 DEF TypeOK, Op
    <3>4. op[t].pc = "outbound" /\ op[t].cur = 0
      BY <2>2 DEF QueryInbound
    <3>5. /\ op'[t].pc = "inbound" /\ op'[t].key = op[t].key /\ op'[t].new = op[t].new
          /\ op'[t].cols = op[t].cols /\ op'[t].now = op[t].now
          /\ op'[t].cur = 0 /\ op'[t].todo = found
      BY <1>3, <3>1, <3>4 DEF Op, TypeOK
    <3>6. OpKnows(t)'
      BY <1>1, <1>3, <3>2, <3>4, <3>5 DEF OpKnows
    <3> QED BY <3>1, <3>3, <3>6 DEF TypeOK
  <2>3. CASE NextCollection(t)
    <3>1. op' = [op EXCEPT ![t].pc = "collect", ![t].cols = Tail(op[t].cols)]
      BY <2>3 DEF NextCollection
    <3>2. op[t].pc = "inbound" /\ op[t].cols # <<>> /\ op[t].cur = 0
      BY <2>3, <1>3 DEF NextCollection, OpKnows
    <3>3. op'[t] \in Op
      BY <1>3, <1>5, <3>1, <3>2 DEF TypeOK, Op
    <3>4. /\ op'[t].pc = "collect" /\ op'[t].key = op[t].key /\ op'[t].new = op[t].new
          /\ op'[t].now = op[t].now /\ op'[t].cur = 0 /\ op'[t].todo = op[t].todo
      BY <1>3, <3>1, <3>2 DEF Op, TypeOK
    <3>5. OpKnows(t)'
      BY <1>1, <1>3, <3>2, <3>4 DEF OpKnows
    <3> QED BY <3>1, <3>3, <3>5 DEF TypeOK
  <2>4. CASE QueryTouching(t)
    <3>1. CASE op[t].cols = <<>>
      <4>1. op' = [op EXCEPT ![t] = IdleOp]
        BY <2>4, <3>1 DEF QueryTouching, Finish
      <4> QED BY <4>1, IdleKnows DEF TypeOK
    <3>2. CASE op[t].cols # <<>>
      <4> DEFINE col == Head(op[t].cols)
                 found == Outbound(col, op[t].key) \cup Inbound(col, op[t].key)
      <4>1. op' = [op EXCEPT ![t].cols = Tail(op[t].cols), ![t].todo = found]
        BY <2>4, <3>2 DEF QueryTouching
      <4>2. found \subseteq DOMAIN edges /\ found \subseteq Nat
        BY Queries
      <4> HIDE DEF found
      <4>3. op'[t] \in Op
        BY <1>3, <1>5, <3>2, <4>1, <4>2 DEF TypeOK, Op
      <4>4. op[t].pc = "sweep"
        BY <2>4 DEF QueryTouching
      <4>5. /\ op'[t].pc = "sweep" /\ op'[t].key = op[t].key /\ op'[t].new = op[t].new
            /\ op'[t].now = op[t].now /\ op'[t].cur = op[t].cur /\ op'[t].todo = found
        BY <1>3, <4>1, <4>4 DEF Op, TypeOK
      <4>6. OpKnows(t)'
        BY <1>1, <1>3, <4>2, <4>4, <4>5 DEF OpKnows
      <4> QED BY <4>1, <4>3, <4>6 DEF TypeOK
    <3> QED BY <3>1, <3>2
  <2>5. CASE ReadTarget(t)
    <3>1. PICK k \in Current(docs) :
             op' = [op EXCEPT ![t].pc = "replace", ![t].new = k,
                              ![t].todo = Outbound("relation", op[t].key)
                                            \cap Inbound("relation", k)]
      BY <2>5 DEF ReadTarget
    <3> DEFINE found == Outbound("relation", op[t].key) \cap Inbound("relation", k)
    <3>2. found \subseteq DOMAIN edges /\ found \subseteq Nat
          /\ k \in DOMAIN docs /\ k \in Nat
      BY Queries
    <3>2a. op' = [op EXCEPT ![t].pc = "replace", ![t].new = k, ![t].todo = found]
      BY <3>1
    <3> HIDE DEF found
    <3>3. op'[t] = [op[t] EXCEPT !.pc = "replace", !.new = k, !.todo = found]
      BY <3>2a DEF TypeOK
    <3>4. op'[t] \in Op
      BY <1>3, <3>3, <3>2 DEF Op
    <3>5. op[t].pc = "readTo"
      BY <2>5 DEF ReadTarget
    <3>6. /\ op'[t].pc = "replace" /\ op'[t].key = op[t].key /\ op'[t].new = k
          /\ op'[t].now = op[t].now /\ op'[t].cur = op[t].cur /\ op'[t].todo = found
      BY <1>3, <3>3 DEF Op
    <3>7. OpKnows(t)'
      BY <1>1, <1>3, <3>2, <3>5, <3>6 DEF OpKnows
    <3> QED BY <3>2a, <3>4, <3>7 DEF TypeOK
  <2> QED BY <2>1, <2>2, <2>3, <2>4, <2>5
<1>7. TypeOK'
  BY <1>1, <1>4, <1>6 DEF TypeOK
<1> QED BY <1>2, <1>6, <1>7, StampingStep DEF TypeOK

(* The steps that stamp an edge.                                            *)
LEMMA EdgeStampKeepsIndInv ==
    ASSUME IndInv, NEW t \in Threads,
           ExpireEdge(t) \/ SweepEdge(t) \/ ReplaceEdge(t) \/ ExpireEdgeVersion(t)
    PROVE  IndInv' /\ StoreGrows
<1> USE DEF IndInv
<1>1. op[t] \in Op /\ OpKnows(t)
  BY ClockFacts
<1>2. CASE ExpireEdge(t)
  <2>1. PICK e \in op[t].todo : /\ edges' = Stamped(edges, e, op[t].now)
                                /\ op' = [op EXCEPT ![t].cur = e, ![t].todo = op[t].todo \ {e}]
    BY <1>2 DEF ExpireEdge
  <2>2. e \in DOMAIN edges /\ e \in Nat /\ e # 0
    BY <1>1, Queries DEF OpKnows
  <2>3. UNCHANGED <<docs, clock, retired, ops, aborts, faults>>
    BY <1>2 DEF ExpireEdge, counters
  <2>4. /\ StoreGrows /\ Len(edges') = Len(edges)
        /\ edges' \in Seq(Edge) /\ DOMAIN edges' = DOMAIN edges
    BY <1>1, <2>1, <2>2, <2>3, StampEdgeGrows, NothingWritten, ClockFacts, LenProperties
       DEF TypeOK, StoreGrows, EdgesGrow
  <2>5. \A f \in DOMAIN edges : edges'[f].from = edges[f].from /\ edges'[f].to = edges[f].to
    BY <2>4 DEF StoreGrows, EdgesGrow
  <2>6. op'[t] = [op[t] EXCEPT !.cur = e, !.todo = op[t].todo \ {e}]
    BY <2>1 DEF TypeOK
  <2>7. op'[t] \in Op
    BY <1>1, <2>2, <2>6 DEF Op
  <2>8. /\ op'[t].pc = op[t].pc /\ op'[t].key = op[t].key /\ op'[t].new = op[t].new
        /\ op'[t].cols = op[t].cols /\ op'[t].now = op[t].now
        /\ op'[t].cur = e /\ op'[t].todo = op[t].todo \ {e}
    BY <1>1, <2>6 DEF Op
  <2>9. OpKnows(t)'
    <3>1. /\ op[t].pc = "outbound" => \A f \in op[t].todo : edges[f].from = op[t].key
          /\ op[t].pc = "inbound" => \A f \in op[t].todo : edges[f].to = op[t].key
          /\ op[t].pc \in {"outbound", "inbound"}
      BY <1>1, <1>2 DEF OpKnows, ExpireEdge
    <3>2. \A f \in op'[t].todo \cup ({op'[t].cur} \ {0}) : f \in op[t].todo
      BY <2>1, <2>8
    <3>3. op[t].todo \subseteq DOMAIN edges
      BY <1>1 DEF OpKnows
    <3>4. /\ op'[t].pc = "outbound" =>
                \A f \in op'[t].todo \cup ({op'[t].cur} \ {0}) : edges'[f].from = op'[t].key
          /\ op'[t].pc = "inbound" =>
                \A f \in op'[t].todo \cup ({op'[t].cur} \ {0}) : edges'[f].to = op'[t].key
      BY <2>5, <2>8, <3>1, <3>2, <3>3
    <3> QED BY <1>1, <2>2, <2>3, <2>4, <2>8, <3>1, <3>3, <3>4 DEF OpKnows
  <2>10. TypeOK'
    BY <2>1, <2>3, <2>4, <2>7 DEF TypeOK
  <2> QED BY <2>1, <2>4, <2>9, <2>10, StampingStep DEF TypeOK
<1>3. CASE SweepEdge(t) \/ ReplaceEdge(t)
  <2>1. PICK e \in op[t].todo : /\ StampEdge(e)
                                /\ retired' = retired \cup {edges[e].lineage}
                                /\ op' = [op EXCEPT ![t].todo = op[t].todo \ {e}]
    BY <1>3 DEF SweepEdge, ReplaceEdge
  <2>2. e \in DOMAIN edges
    BY <1>1 DEF OpKnows
  <2>3. /\ UNCHANGED <<docs, ops, aborts>> /\ Tick
        /\ op[t].pc \in {"sweep", "replace"}
    BY <1>3 DEF SweepEdge, ReplaceEdge
  <2>4. /\ StoreGrows /\ Len(edges') = Len(edges)
        /\ edges' \in Seq(Edge) /\ DOMAIN edges' = DOMAIN edges
        /\ faults' \in Nat
    BY <2>1, <2>2, <2>3, ExpireEdgeStep
  <2>5. edges[e].lineage \in Nat
    <3>1. edges[e] \in Edge
      BY <2>2, ElementOfSeq, LenProperties DEF TypeOK
    <3> QED BY <3>1 DEF Edge
  <2>6. op'[t] \in Op
    BY <1>1, <2>1 DEF TypeOK, Op
  <2>7. OpKnows(t)'
    BY <1>1, <2>1, <2>3, <2>4 DEF OpKnows, TypeOK
  <2>8. TypeOK'
    BY <2>1, <2>3, <2>4, <2>5, <2>6, ClockFacts DEF TypeOK
  <2> QED BY <2>1, <2>4, <2>7, <2>8, StampingStep DEF TypeOK
<1>4. CASE ExpireEdgeVersion(t)
  <2>1. /\ op[t].pc = "edgeExpire" /\ StampEdge(op[t].cur) /\ Tick
        /\ op' = [op EXCEPT ![t].pc = "edgeCreate"]
        /\ UNCHANGED <<docs, retired, ops, aborts>>
    BY <1>4 DEF ExpireEdgeVersion, Goto
  <2>2. op[t].cur \in DOMAIN edges
    BY <1>1, <2>1 DEF OpKnows
  <2>3. /\ StoreGrows /\ Len(edges') = Len(edges)
        /\ edges' \in Seq(Edge) /\ DOMAIN edges' = DOMAIN edges
        /\ faults' \in Nat
    BY <2>1, <2>2, ExpireEdgeStep
  <2>4. op'[t] \in Op
    BY <1>1, <2>1 DEF TypeOK, Op
  <2>5. OpKnows(t)'
    BY <1>1, <2>1, <2>2, <2>3 DEF OpKnows, TypeOK
  <2>6. TypeOK'
    BY <2>1, <2>3, <2>4, ClockFacts DEF TypeOK
  <2> QED BY <2>1, <2>3, <2>5, <2>6, StampingStep DEF TypeOK
<1> QED BY <1>2, <1>3, <1>4

(* The steps that insert an edge.                                           *)
LEMMA EdgeInsertKeepsIndInv ==
    ASSUME IndInv, NEW t \in Threads,
           InsertCopy(t) \/ InsertEdge(t) \/ CreateEdgeVersion(t)
    PROVE  IndInv' /\ StoreGrows
<1> USE DEF IndInv
<1>1. op[t] \in Op /\ OpKnows(t)
  BY ClockFacts
<1>2. \A e \in DOMAIN edges : edges[e] \in Edge
  BY ElementOfSeq, LenProperties DEF TypeOK
<1>3. ASSUME NEW d \in Edge, edges' = Append(edges, d), UNCHANGED docs,
             UNCHANGED <<retired, ops, aborts, faults>>, clock' \in 1 .. MaxClock,
             d.from \in DOMAIN docs, d.to \in DOMAIN docs \cup {SourceDoc},
             \/ d.lineage = Len(edges) + 1
             \/ /\ d.lineage \in DOMAIN edges
                /\ ConceptOf(d.from) = ConceptOf(edges[d.lineage].from)
                /\ ConceptOf(d.to) = ConceptOf(edges[d.lineage].to),
             op' = [op EXCEPT ![t] = op'[t]], op'[t] \in Op, OpKnows(t)'
      PROVE  IndInv' /\ StoreGrows
  <2>1. EdgesWellFormed' /\ EdgesKeepConcepts'
    BY <1>3, InsertedEdgeWellFormed
  <2>2. StoreGrows /\ edges' \in Seq(Edge)
    BY <1>3, InsertEdgeGrows, NothingWritten DEF StoreGrows, EdgesGrow, TypeOK
  <2>3. TypeOK'
    BY <1>3, <2>2 DEF TypeOK
  <2> QED BY <1>3, <2>1, <2>2, <2>3, InsertingStep DEF TypeOK
<1>4. CASE InsertCopy(t)
  <2> DEFINE old == edges[op[t].cur]
  <2>1. /\ op[t].pc \in {"outbound", "inbound"} /\ op[t].cur # 0
        /\ edges' = Append(edges, Copy(t)) /\ op' = [op EXCEPT ![t].cur = 0]
        /\ UNCHANGED <<docs, clock, retired, ops, aborts, faults>>
    BY <1>4 DEF InsertCopy, counters
  <2>2. /\ op[t].cur \in DOMAIN edges /\ old \in Edge
        /\ op[t].key \in DOMAIN docs /\ op[t].new \in DOMAIN docs
        /\ docs[op[t].new].concept = docs[op[t].key].concept
        /\ op[t].pc = "outbound" => old.from = op[t].key
        /\ op[t].pc = "inbound" => old.to = op[t].key
    BY <1>1, <1>2, <2>1 DEF OpKnows
  <2>3. /\ Copy(t) \in Edge
        /\ Copy(t).lineage = old.lineage
        /\ Copy(t).from = IF op[t].pc = "outbound" THEN op[t].new ELSE old.from
        /\ Copy(t).to = IF op[t].pc = "inbound" THEN op[t].new ELSE old.to
    BY <1>1, <2>1, <2>2, ClockFacts DEF Copy, Edge, Op
  <2>4. ConceptOf(op[t].new) = ConceptOf(op[t].key)
    BY <2>2 DEF ConceptOf
  <2>5. /\ old.from \in DOMAIN docs /\ old.to \in DOMAIN docs \cup {SourceDoc}
        /\ old.lineage \in DOMAIN edges
        /\ ConceptOf(old.from) = ConceptOf(edges[old.lineage].from)
        /\ ConceptOf(old.to) = ConceptOf(edges[old.lineage].to)
    BY <2>2 DEF EdgesWellFormed, EdgesKeepConcepts
  <2>6. /\ Copy(t).from \in DOMAIN docs /\ Copy(t).to \in DOMAIN docs \cup {SourceDoc}
        /\ Copy(t).lineage \in DOMAIN edges
        /\ ConceptOf(Copy(t).from) = ConceptOf(edges[Copy(t).lineage].from)
        /\ ConceptOf(Copy(t).to) = ConceptOf(edges[Copy(t).lineage].to)
    BY <2>2, <2>3, <2>4, <2>5
  <2>7. /\ EdgesGrow /\ DOMAIN edges \subseteq DOMAIN edges'
        /\ \A e \in DOMAIN edges : edges'[e] = edges[e]
    <3>1. EdgesGrow /\ \A e \in DOMAIN edges : edges'[e] = edges[e]
      BY <2>1, <2>3, InsertEdgeGrows DEF TypeOK
    <3>2. DocsGrow
      BY <2>1, NothingWritten
    <3> QED BY <3>1, <3>2, KeysStayValid DEF StoreGrows
  <2>8. op'[t] = [op[t] EXCEPT !.cur = 0]
    BY <2>1 DEF TypeOK
  <2>9. op'[t] \in Op
    BY <1>1, <2>8 DEF Op
  <2>10. /\ op'[t].pc = op[t].pc /\ op'[t].key = op[t].key /\ op'[t].new = op[t].new
         /\ op'[t].cols = op[t].cols /\ op'[t].now = op[t].now
         /\ op'[t].cur = 0 /\ op'[t].todo = op[t].todo
    BY <1>1, <2>8 DEF Op
  <2>11. OpKnows(t)'
    BY <1>1, <2>1, <2>7, <2>10 DEF OpKnows
  <2>12. op' = [op EXCEPT ![t] = op'[t]] /\ clock' \in 1 .. MaxClock
    BY <2>1, <2>8 DEF TypeOK
  <2> QED BY <1>3, <2>1, <2>3, <2>6, <2>9, <2>11, <2>12
<1>5. CASE InsertEdge(t)
  <2> DEFINE d == NewEdge("relation", op[t].key, op[t].new)
  <2>1. /\ op[t].pc = "replace" /\ edges' = Append(edges, d)
        /\ op' = [op EXCEPT ![t] = IdleOp] /\ Tick
        /\ UNCHANGED <<docs, retired, ops, aborts, faults>>
    BY <1>5 DEF InsertEdge, Finish, counters
  <2>2. op[t].key \in DOMAIN docs /\ op[t].new \in DOMAIN docs
    BY <1>1, <2>1 DEF OpKnows
  <2>3. /\ d \in Edge /\ d.lineage = Len(edges) + 1
        /\ d.from = op[t].key /\ d.to = op[t].new
    <3>1. Len(edges) + 1 \in Nat \ {0}
      BY LenProperties DEF TypeOK
    <3> QED BY <1>1, <3>1, ClockFacts DEF NewEdge, Edge, Collections, Op
  <2> HIDE DEF d
  <2>4. /\ OpKnows(t)' /\ op'[t] \in Op /\ op' = [op EXCEPT ![t] = op'[t]]
        /\ clock' \in 1 .. MaxClock
    BY <2>1, IdleKnows, ClockFacts DEF TypeOK
  <2> QED BY <1>3, <2>1, <2>2, <2>3, <2>4
<1>6. CASE CreateEdgeVersion(t)
  <2> DEFINE old == edges[op[t].cur]
             d == [old EXCEPT !.created = clock, !.expired = NeverExpires]
  <2>1. /\ op[t].pc = "edgeCreate" /\ edges' = Append(edges, d)
        /\ op' = [op EXCEPT ![t] = IdleOp] /\ Tick
        /\ UNCHANGED <<docs, retired, ops, aborts, faults>>
    BY <1>6 DEF CreateEdgeVersion, Finish, counters
  <2>2. op[t].cur \in DOMAIN edges /\ old \in Edge
    BY <1>1, <1>2, <2>1 DEF OpKnows
  <2>3. /\ d \in Edge /\ d.lineage = old.lineage /\ d.from = old.from /\ d.to = old.to
    BY <2>2, ClockFacts DEF Edge
  <2> HIDE DEF d
  <2>4. /\ old.from \in DOMAIN docs /\ old.to \in DOMAIN docs \cup {SourceDoc}
        /\ old.lineage \in DOMAIN edges
        /\ ConceptOf(old.from) = ConceptOf(edges[old.lineage].from)
        /\ ConceptOf(old.to) = ConceptOf(edges[old.lineage].to)
    BY <2>2 DEF EdgesWellFormed, EdgesKeepConcepts
  <2>5. /\ OpKnows(t)' /\ op'[t] \in Op /\ op' = [op EXCEPT ![t] = op'[t]]
        /\ clock' \in 1 .. MaxClock
    BY <2>1, IdleKnows, ClockFacts DEF TypeOK
  <2> QED BY <1>3, <2>1, <2>3, <2>4, <2>5
<1> QED BY <1>4, <1>5, <1>6

-----------------------------------------------------------------------------
(* The theorems about any number of threads.                                *)

LEMMA InitEstablishesIndInv == Init => IndInv
<1> SUFFICES ASSUME Init PROVE IndInv
  OBVIOUS
<1>1. /\ NumSeeded \in Nat /\ NumConcepts \in Nat /\ NumSeeded <= NumConcepts
      /\ NeverExpires \in Nat /\ MaxClock \in Nat /\ 1 <= MaxClock
  BY BoundsAssumption
<1>2. Seeded \subseteq Concepts
  BY <1>1 DEF Seeded, Concepts
<1>3. docs \in [1 .. NumSeeded -> Version]
  BY <1>1, <1>2 DEF Init, Version, Seeded
<1>4. docs \in Seq(Version) /\ DOMAIN docs = Seeded
  BY <1>1, <1>3, SeqDef DEF Seeded
<1>5. \A c \in Seeded : c \in Nat /\ c # 0
  BY <1>1 DEF Seeded
<1>6. \A col \in Collections, f \in Seeded, g \in Seeded \cup {SourceDoc} :
         SeedEdge(col, f, g) \in Edge
  BY <1>1, <1>5 DEF SeedEdge, Edge, SourceDoc
<1>7. \/ edges = <<>>
      \/ \E col \in Collections, f \in Seeded, g \in Seeded \cup {SourceDoc} :
            edges = <<SeedEdge(col, f, g)>>
  BY DEF Init, Collections
<1>8. edges \in Seq(Edge) /\ EdgesWellFormed /\ EdgesKeepConcepts
  <2>1. CASE edges = <<>>
    BY <2>1 DEF EdgesWellFormed, EdgesKeepConcepts
  <2>2. CASE edges # <<>>
    <3>1. PICK col \in Collections, f \in Seeded, g \in Seeded \cup {SourceDoc} :
             edges = <<SeedEdge(col, f, g)>>
      BY <2>2, <1>7
    <3> DEFINE e == SeedEdge(col, f, g)
    <3>2. e \in Edge /\ e.lineage = 1 /\ e.from = f /\ e.to = g
      BY <1>6 DEF SeedEdge
    <3> HIDE DEF e
    <3>3. edges \in Seq(Edge) /\ DOMAIN edges = {1} /\ edges[1] = e
      BY <3>1, <3>2 DEF e
    <3> QED BY <3>2, <3>3, <1>4 DEF EdgesWellFormed, EdgesKeepConcepts
  <2> QED BY <2>1, <2>2
<1>9. IdleOp \in Op
  BY EmptySeq DEF IdleOp, Op
<1>10. TypeOK
  BY <1>1, <1>4, <1>8, <1>9 DEF Init, TypeOK
<1>11. \A t \in Threads : OpKnows(t)
  BY <1>1 DEF Init, OpKnows, IdleOp
<1> QED BY <1>8, <1>10, <1>11 DEF IndInv

LEMMA NextKeepsIndInv == IndInv /\ [Next]_vars => IndInv' /\ StoreGrows
<1> SUFFICES ASSUME IndInv, [Next]_vars PROVE IndInv' /\ StoreGrows
  OBVIOUS
<1>1. ASSUME NEW t \in Threads, StartOf(t) PROVE IndInv' /\ StoreGrows
  BY <1>1, StartKeepsIndInv
<1>2. ASSUME NEW t \in Threads, StepOf(t) PROVE IndInv' /\ StoreGrows
  BY <1>2, VertexStepKeepsIndInv, QueryStepKeepsIndInv, EdgeStampKeepsIndInv,
     EdgeInsertKeepsIndInv DEF StepOf
<1>3. ASSUME NEW t \in Threads, Abort(t) PROVE IndInv' /\ StoreGrows
  BY <1>3, VertexStepKeepsIndInv
<1>4. CASE UNCHANGED vars
  <2>1. StoreGrows
    BY <1>4, NothingWritten DEF IndInv, vars, StoreGrows
  <2> QED BY <2>1, <1>4 DEF vars, IndInv, TypeOK, EdgesWellFormed, EdgesKeepConcepts,
          OpKnows, ConceptOf
<1> QED BY <1>1, <1>2, <1>3, <1>4 DEF Next

LEMMA Inductive == Spec => []IndInv
<1>1. IndInv /\ [Next]_vars => IndInv'
  BY NextKeepsIndInv
<1> QED BY InitEstablishesIndInv, <1>1, PTL DEF Spec

(* The state has its type, at every interleaving and interruption.          *)
THEOREM TypeCorrect == Spec => []TypeOK
<1>1. IndInv => TypeOK
  BY DEF IndInv
<1> QED BY <1>1, Inductive, PTL

(* However many handlers re-create edges at once, every copy of an edge     *)
(* joins versions of the concepts the first copy joined.                    *)
THEOREM EdgesAlwaysKeepConcepts == Spec => []EdgesKeepConcepts
<1>1. IndInv => EdgesKeepConcepts
  BY DEF IndInv
<1> QED BY <1>1, Inductive, PTL

(* Nothing that has been expired ever becomes current again.                *)
THEOREM NothingIsResurrected == Spec => NoResurrection
<1>1. IndInv /\ [Next]_vars =>
         [/\ \A i \in DOMAIN docs : docs[i].expired # NeverExpires
                                       => docs'[i].expired # NeverExpires
          /\ \A e \in DOMAIN edges : edges[e].expired # NeverExpires
                                       => edges'[e].expired # NeverExpires]_vars
  BY NextKeepsIndInv DEF StoreGrows, DocsGrow, EdgesGrow
<1> QED BY <1>1, Inductive, PTL DEF Spec, NoResurrection

-----------------------------------------------------------------------------
(* A superseded version has been expired.                                   *)

(* A store that grows without a new version keeps all predecessors expired. *)
LEMMA PredecessorsStayExpired ==
    ASSUME TypeOK, DocsGrow, Len(docs') = Len(docs), StandsOnExpired
    PROVE  StandsOnExpired'
<1>1. DOMAIN docs' = DOMAIN docs /\ DOMAIN docs = 1 .. Len(docs) /\ Len(docs) \in Nat
  BY LenProperties DEF TypeOK, DocsGrow
<1>2. \A i \in DOMAIN docs : \A p \in 1 .. i - 1 : p \in DOMAIN docs
  BY <1>1
<1> QED BY <1>1, <1>2 DEF StandsOnExpired, DocsGrow

LEMMA NextKeepsPredecessorInv ==
    ASSUME IndInv, PredecessorInv, [Next]_vars, faults' = 0
    PROVE  PredecessorInv'
<1> USE DEF IndInv
<1>1. ~WriteFails
  BY DEF WriteFails, PredecessorInv
<1>2. StoreGrows
  BY NextKeepsIndInv
<1>3. ASSUME NEW t \in Threads, ExpireOld(t) PROVE PredecessorInv'
  <2>1. /\ docs' = Stamped(docs, op[t].key, clock) /\ faults' = faults
        /\ op' = [op EXCEPT ![t].pc = "create"] /\ op[t].key \in DOMAIN docs
    BY <1>1, <1>3 DEF ExpireOld, StampVersion, Goto, OpKnows
  <2>2. Len(docs') = Len(docs) /\ docs'[op[t].key].expired # NeverExpires
    BY <2>1, StampVersionGrows, ClockFacts DEF TypeOK
  <2>3. StandsOnExpired'
    BY <1>2, <2>2, PredecessorsStayExpired DEF StoreGrows, PredecessorInv
  <2>4. ASSUME NEW u \in Threads, op'[u].pc = "create"
        PROVE  docs'[op'[u].key].expired # NeverExpires
    <3>1. CASE u = t
      BY <2>1, <2>2, <3>1 DEF TypeOK, Op
    <3>2. CASE u # t
      <4>1. op'[u] = op[u]
        BY <2>1, <3>2 DEF TypeOK
      <4>2. op[u].key \in DOMAIN docs /\ docs[op[u].key].expired # NeverExpires
        BY <4>1, <2>4 DEF PredecessorInv, OpKnows
      <4> QED BY <4>1, <4>2, <1>2 DEF StoreGrows, DocsGrow
    <3> QED BY <3>1, <3>2
  <2> QED BY <2>1, <2>3, <2>4 DEF PredecessorInv
<1>4. ASSUME NEW t \in Threads, NEW d \in Version, docs' = Append(docs, d),
             d.version = 1 \/ /\ op[t].key \in DOMAIN docs
                              /\ d.concept = docs[op[t].key].concept
                              /\ d.version = docs[op[t].key].version + 1
                              /\ docs[op[t].key].expired # NeverExpires,
             faults' = faults, op'[t].pc # "create",
             \A u \in Threads \ {t} : op'[u] = op[u]
      PROVE  PredecessorInv'
  <2>1. /\ Len(docs') = Len(docs) + 1 /\ docs'[Len(docs) + 1] = d
        /\ \A i \in DOMAIN docs : docs'[i] = docs[i]
    BY <1>4, InsertVersionGrows DEF TypeOK
  <2>2. /\ DOMAIN docs = 1 .. Len(docs) /\ DOMAIN docs' = 1 .. Len(docs) + 1
        /\ Len(docs) \in Nat
    BY <1>2, <2>1, LenProperties DEF TypeOK, StoreGrows, DocsGrow
  <2>3. ASSUME NEW i \in DOMAIN docs', docs'[i].version > 1
        PROVE  \E p \in 1 .. i - 1 : /\ docs'[p].concept = docs'[i].concept
                                     /\ docs'[p].version + 1 = docs'[i].version
                                     /\ docs'[p].expired # NeverExpires
    <3>1. CASE i \in DOMAIN docs
      <4>1. PICK p \in 1 .. i - 1 : /\ docs[p].concept = docs[i].concept
                                    /\ docs[p].version + 1 = docs[i].version
                                    /\ docs[p].expired # NeverExpires
        BY <2>1, <2>3, <3>1 DEF PredecessorInv, StandsOnExpired
      <4>2. p \in DOMAIN docs
        BY <2>2, <3>1
      <4> QED BY <2>1, <3>1, <4>1, <4>2
    <3>2. CASE i = Len(docs) + 1
      <4>1. d.version > 1 /\ docs'[i] = d
        BY <2>1, <2>3, <3>2
      <4>2. /\ op[t].key \in DOMAIN docs /\ op[t].key \in 1 .. i - 1
            /\ docs'[op[t].key] = docs[op[t].key]
        BY <1>4, <2>1, <2>2, <3>2, <4>1
      <4> QED BY <1>4, <4>1, <4>2
    <3> QED BY <2>2, <3>1, <3>2
  <2>4. ASSUME NEW u \in Threads, op'[u].pc = "create"
        PROVE  docs'[op'[u].key].expired # NeverExpires
    <3>1. u # t /\ op'[u] = op[u]
      BY <1>4, <2>4
    <3>2. op[u].key \in DOMAIN docs /\ docs[op[u].key].expired # NeverExpires
      BY <3>1, <2>4 DEF PredecessorInv, OpKnows
    <3> QED BY <2>1, <3>1, <3>2
  <2> QED BY <1>4, <2>3, <2>4 DEF PredecessorInv, StandsOnExpired
<1>5. ASSUME NEW t \in Threads, InsertClass(t) PROVE PredecessorInv'
  <2> DEFINE d == [concept |-> op[t].key, version |-> 1,
                   created |-> clock, expired |-> NeverExpires]
  <2>1. d \in Version /\ d.version = 1
    BY <1>5, ClockFacts DEF InsertClass, OpKnows, Version
  <2>2. docs' = Append(docs, d) /\ faults' = faults /\ op' = [op EXCEPT ![t] = IdleOp]
    BY <1>5 DEF InsertClass, Finish, counters
  <2> HIDE DEF d
  <2>3. op'[t].pc # "create" /\ \A u \in Threads \ {t} : op'[u] = op[u]
    BY <2>2 DEF TypeOK, IdleOp
  <2> QED BY <1>4, <2>1, <2>2, <2>3
<1>6. ASSUME NEW t \in Threads, CreateNew(t) PROVE PredecessorInv'
  <2> DEFINE k == op[t].key
             d == [concept |-> docs[k].concept, version |-> docs[k].version + 1,
                   created |-> clock, expired |-> NeverExpires]
  <2>1. k \in DOMAIN docs /\ docs[k] \in Version /\ docs[k].expired # NeverExpires
    BY <1>6, ElementOfSeq, LenProperties DEF CreateNew, OpKnows, TypeOK, PredecessorInv
  <2>2. d \in Version /\ d.concept = docs[k].concept /\ d.version = docs[k].version + 1
    BY <2>1, ClockFacts DEF Version
  <2>3. docs' = Append(docs, d) /\ faults' = faults
        /\ op' = [op EXCEPT ![t].pc = "collect", ![t].new = Len(docs) + 1]
    BY <1>6 DEF CreateNew, counters
  <2> HIDE DEF d
  <2>4. op'[t].pc # "create" /\ \A u \in Threads \ {t} : op'[u] = op[u]
    BY <2>3, ClockFacts DEF TypeOK, Op
  <2> QED BY <1>4, <2>1, <2>2, <2>3, <2>4
<1>7. ASSUME Len(docs') = Len(docs), faults' = faults,
             \A u \in Threads : op'[u].pc = "create" => op'[u] = op[u]
      PROVE  PredecessorInv'
  <2>1. StandsOnExpired'
    BY <1>2, <1>7, PredecessorsStayExpired DEF StoreGrows, PredecessorInv
  <2>2. ASSUME NEW u \in Threads, op'[u].pc = "create"
        PROVE  docs'[op'[u].key].expired # NeverExpires
    <3>1. op'[u] = op[u] /\ op[u].key \in DOMAIN docs
          /\ docs[op[u].key].expired # NeverExpires
      BY <1>7, <2>2 DEF PredecessorInv, OpKnows
    <3> QED BY <3>1, <1>2 DEF StoreGrows, DocsGrow
  <2> QED BY <1>7, <2>1, <2>2 DEF PredecessorInv
<1>8. ASSUME NEW t \in Threads, StartOf(t) PROVE PredecessorInv'
  <2>1. docs' = docs /\ faults' = faults
    BY <1>8 DEF StartOf, BeginCreateClass, BeginUpdate, BeginCascade, BeginRelate,
       BeginUpdateEdge, store
  <2>2. \A u \in Threads : op'[u].pc = "create" => op'[u] = op[u]
    BY <1>8 DEF StartOf, BeginCreateClass, BeginUpdate, BeginCascade, BeginRelate,
       BeginUpdateEdge, Begin, IdleOp, TypeOK
  <2> QED BY <1>7, <2>1, <2>2
<1>9. ASSUME NEW t \in Threads, StepOf(t) \/ Abort(t), ~ExpireOld(t), ~CreateNew(t),
             ~InsertClass(t)
      PROVE  PredecessorInv'
  <2>1. faults' = faults
    BY <1>1, <1>9 DEF StepOf, Abort, QueryOutbound, QueryInbound, ExpireEdge, InsertCopy,
       NextCollection, FinishUpdate, ExpireClass, QueryTouching, SweepEdge, ReadTarget,
       TargetMissing, ReplaceEdge, InsertEdge, ExpireEdgeVersion, CreateEdgeVersion,
       StampVersion, StampEdge, counters
  <2>2. Len(docs') = Len(docs)
    <3>1. CASE ExpireClass(t)
      <4>1. op[t].key \in DOMAIN docs /\ StampVersion(op[t].key) /\ UNCHANGED edges
        BY <3>1 DEF ExpireClass, OpKnows
      <4>2. DOMAIN docs' = DOMAIN docs /\ docs' \in Seq(Version)
        BY <4>1, ExpireVersionStep
      <4> QED BY <4>2, LenProperties DEF TypeOK
    <3>2. CASE ~ExpireClass(t)
      BY <3>2, <1>9 DEF StepOf, Abort, QueryOutbound, QueryInbound, ExpireEdge,
         InsertCopy, NextCollection, FinishUpdate, QueryTouching, SweepEdge, ReadTarget,
         TargetMissing, ReplaceEdge, InsertEdge, ExpireEdgeVersion, CreateEdgeVersion,
         store
    <3> QED BY <3>1, <3>2
  <2>3. \A u \in Threads \ {t} : op'[u] = op[u]
    BY <1>9 DEF StepOf, Abort, QueryOutbound, QueryInbound, ExpireEdge, InsertCopy,
       NextCollection, FinishUpdate, ExpireClass, QueryTouching, SweepEdge, ReadTarget,
       TargetMissing, ReplaceEdge, InsertEdge, ExpireEdgeVersion, CreateEdgeVersion,
       Goto, Finish, TypeOK
  <2>4. op'[t].pc # "create"
    <3>1. op[t] \in Op /\ DOMAIN op = Threads
      BY DEF TypeOK
    <3>2. CASE op' = [op EXCEPT ![t] = IdleOp]
      BY <3>1, <3>2 DEF IdleOp
    <3>3. CASE ExpireEdge(t) \/ InsertCopy(t) \/ SweepEdge(t) \/ ReplaceEdge(t)
      <4>1. ASSUME NEW e, op' = [op EXCEPT ![t].todo = @ \ {e}] PROVE op'[t].pc = op[t].pc
        BY <3>1, <4>1 DEF Op
      <4>2. ASSUME NEW e, op' = [op EXCEPT ![t].cur = e, ![t].todo = @ \ {e}]
            PROVE  op'[t].pc = op[t].pc
        BY <3>1, <4>2 DEF Op
      <4>3. CASE ExpireEdge(t)
        BY <4>2, <4>3 DEF ExpireEdge
      <4>4. CASE InsertCopy(t)
        BY <3>1, <4>4 DEF InsertCopy, Op
      <4>5. CASE SweepEdge(t) \/ ReplaceEdge(t)
        BY <4>1, <4>5 DEF SweepEdge, ReplaceEdge
      <4> QED BY <3>3, <4>3, <4>4, <4>5
    <3>4. CASE QueryTouching(t)
      BY <3>1, <3>4 DEF QueryTouching, Finish, IdleOp, Op
    <3>5. CASE QueryOutbound(t) \/ QueryInbound(t) \/ NextCollection(t) \/ ReadTarget(t)
      BY <3>1, <3>5 DEF QueryOutbound, QueryInbound, NextCollection, ReadTarget, Op
    <3>6. CASE ExpireClass(t) \/ ExpireEdgeVersion(t)
      BY <3>1, <3>6 DEF ExpireClass, ExpireEdgeVersion, Goto, Op
    <3>7. CASE FinishUpdate(t) \/ TargetMissing(t) \/ InsertEdge(t)
               \/ CreateEdgeVersion(t) \/ Abort(t)
      BY <3>2, <3>7 DEF FinishUpdate, TargetMissing, InsertEdge, CreateEdgeVersion,
         Abort, Finish
    <3> QED BY <1>9, <3>3, <3>4, <3>5, <3>6, <3>7 DEF StepOf
  <2> QED BY <1>7, <2>1, <2>2, <2>3, <2>4
<1>10. CASE UNCHANGED vars
  BY <1>7, <1>10 DEF vars
<1> QED BY <1>3, <1>5, <1>6, <1>8, <1>9, <1>10 DEF Next, StepOf

(* No step takes a failed write back.                                       *)
LEMMA FaultsStay ==
    ASSUME TypeOK, [Next]_vars, faults' = 0
    PROVE  faults = 0
<1>1. ASSUME NEW t \in Threads, StartOf(t) PROVE faults = 0
  BY <1>1 DEF StartOf, BeginCreateClass, BeginUpdate, BeginCascade, BeginRelate,
     BeginUpdateEdge
<1>2. ASSUME NEW t \in Threads, StepOf(t) \/ Abort(t) PROVE faults' = faults \/ WriteFails
  BY <1>2 DEF StepOf, Abort, InsertClass, ExpireOld, CreateNew, QueryOutbound,
     QueryInbound, ExpireEdge, InsertCopy, NextCollection, FinishUpdate, ExpireClass,
     QueryTouching, SweepEdge, ReadTarget, TargetMissing, ReplaceEdge, InsertEdge,
     ExpireEdgeVersion, CreateEdgeVersion, StampVersion, StampEdge, counters
<1>3. ~WriteFails
  BY DEF WriteFails, TypeOK
<1>4. CASE UNCHANGED vars
  BY <1>4 DEF vars
<1> QED BY <1>1, <1>2, <1>3, <1>4 DEF Next

(* However edits interleave and wherever they stop, a version numbered      *)
(* above 1 succeeds an expired one, until a write of expire_entity fails.   *)
THEOREM SupersededIsExpired == Spec => []PredecessorExpired
<1> DEFINE Inv == faults = 0 => PredecessorInv
<1>1. Init => Inv
  <2> SUFFICES ASSUME Init PROVE PredecessorInv
    OBVIOUS
  <2>1. \A i \in DOMAIN docs : docs[i].version = 1
    BY DEF Init
  <2> QED BY <2>1 DEF Init, PredecessorInv, StandsOnExpired, IdleOp
<1>2. IndInv /\ Inv /\ [Next]_vars => Inv'
  <2> SUFFICES ASSUME IndInv, Inv, [Next]_vars, faults' = 0 PROVE PredecessorInv'
    OBVIOUS
  <2>1. PredecessorInv
    BY FaultsStay DEF IndInv
  <2> QED BY <2>1, NextKeepsPredecessorInv
<1>3. Inv => PredecessorExpired
  BY DEF PredecessorInv, PredecessorExpired
<1> HIDE DEF Inv
<1> QED BY <1>1, <1>2, <1>3, Inductive, PTL DEF Spec

-----------------------------------------------------------------------------
(***************************************************************************)
(* One handler at a time.                                                  *)
(***************************************************************************)
\* The setting of the theorems, about the constants alone.
OneAtATime ==
    /\ SingleThread
    /\ MaxExpireFaults = 0
    /\ UpdatePaths \subseteq {"edit", "revert"}

-----------------------------------------------------------------------------
(* The versions.                                                            *)

\* What a lone thread knows of the versions at each place.
VersionKnown(t) ==
    /\ op[t].pc \in {"expire", "cascade", "readTo", "replace"} => op[t].key \in Current(docs)
    /\ op[t].pc = "replace" => op[t].new \in Current(docs)
    /\ op[t].pc = "insertClass" => CurrentOf(op[t].key) = {}
    /\ op[t].pc = "create" =>
          /\ op[t].key \notin Current(docs)
          /\ CurrentOf(docs[op[t].key].concept) = {}
          /\ \A i \in Expired(docs[op[t].key].concept) : docs[i].expired <= docs[op[t].key].expired
    /\ op[t].pc \in {"collect", "outbound", "inbound"} =>
          op[t].key \notin Current(docs) /\ op[t].new \in Current(docs)
    /\ op[t].pc = "sweep" => op[t].key \notin Current(docs)

\* Stamps are taken from a clock that does not go back.
PastIsPast == \A i \in DOMAIN docs : i \notin Current(docs) => docs[i].expired <= clock

VersionInv ==
    /\ IndInv /\ faults = 0
    /\ AtMostOneCurrent /\ PastIsPast
    /\ \A t \in Threads : VersionKnown(t)

-----------------------------------------------------------------------------
(* The relations.                                                           *)

Lists == {<<>>, <<"relation">>, <<"extracted_from">>, <<"relation", "extracted_from">>}
RelationAhead(t) == op[t].cols # <<>> /\ Head(op[t].cols) = "relation"

\* The end k of the relation e may be the expired version op[t].key, whose
\* edges of that direction are still to be found or to be handled.
MayHang(t, e, k, pc, later) ==
    /\ k = op[t].key
    /\ \/ op[t].pc = "create"
       \/ op[t].pc = "collect" /\ RelationAhead(t)
       \/ op[t].pc = pc /\ RelationAhead(t) /\ e \in op[t].todo
       \/ later
       \/ op[t].pc = "sweep" /\ (RelationAhead(t) \/ e \in op[t].todo)

FromHangs(t, e) == MayHang(t, e, edges[e].from, "outbound", FALSE)
ToHangs(t, e) ==
    MayHang(t, e, edges[e].to, "inbound", op[t].pc = "outbound" /\ RelationAhead(t))

Sound(t, e) ==
    /\ edges[e].from \in Current(docs) \/ FromHangs(t, e)
    /\ edges[e].to \in Current(docs) \/ ToHangs(t, e)

\* The edge in hand: its copy will be as sound.
InHand(t) ==
    /\ op[t].pc \in {"edgeExpire", "edgeCreate"} =>
          /\ edges[op[t].cur].col = "relation"
          /\ edges[op[t].cur].from \in Current(docs) /\ edges[op[t].cur].to \in Current(docs)
    /\ op[t].pc \in {"outbound", "inbound"} =>
          /\ \A e \in op[t].todo \cup ({op[t].cur} \ {0}) : edges[e].col = Head(op[t].cols)
          /\ op[t].todo \subseteq Current(edges)
    /\ op[t].pc = "outbound" /\ op[t].cur # 0 /\ RelationAhead(t) =>
          edges[op[t].cur].to \in Current(docs) \cup {op[t].key}
    /\ op[t].pc = "inbound" /\ op[t].cur # 0 /\ RelationAhead(t) =>
          edges[op[t].cur].from \in Current(docs)
    /\ op[t].pc = "sweep" =>
          /\ op[t].cols \in {<<>>, <<"relation">>}
          /\ RelationAhead(t) => op[t].todo = {}
    /\ op[t].pc = "cascade" => op[t].cols = <<"relation">> /\ op[t].todo = {}
    /\ op[t].pc \in {"expire", "create"} => RelationAhead(t)
    /\ op[t].cols \in Lists

Relation(e) == e \in Current(edges) /\ edges[e].col = "relation"

\* Each relation that nobody meant to end has a current copy, or is in hand.
Kept(t, l) ==
    edges[l].col = "relation" /\ l \notin retired /\ edges[l].lineage = l =>
        \/ LiveCopies(l) # {}
        \/ /\ op[t].cur # 0 /\ op[t].pc \in {"outbound", "inbound", "edgeCreate"}
           /\ edges[op[t].cur].lineage = l

\* Copies stay in the collection of the first.
SameCollection == \A e \in DOMAIN edges : edges[edges[e].lineage].col = edges[e].col

RelationsHold(t) ==
    /\ InHand(t)
    /\ \A e \in DOMAIN edges : Relation(e) => Sound(t, e)
    /\ \A l \in DOMAIN edges : Kept(t, l)

RelationInv ==
    /\ VersionInv
    /\ SameCollection
    /\ aborts = 0 => \A t \in Threads : RelationsHold(t)

-----------------------------------------------------------------------------
(* Steps, as far as the versions see them.                                  *)

Act(t) == StartOf(t) \/ StepOf(t) \/ Abort(t)

\* The current version k is expired now.
Retires(k) ==
    /\ k \in Current(docs) /\ DOMAIN docs' = DOMAIN docs
    /\ Current(docs)' = Current(docs) \ {k}
    /\ \A i \in DOMAIN docs : /\ docs'[i].concept = docs[i].concept
                              /\ docs'[i].version = docs[i].version
                              /\ docs'[i].created = docs[i].created
                              /\ i # k => docs'[i] = docs[i]
    /\ docs'[k].expired = clock

\* The version v of the concept c becomes current now.
Adds(c, v) ==
    LET n == Len(docs) + 1 IN
    /\ n \notin DOMAIN docs /\ DOMAIN docs' = DOMAIN docs \cup {n}
    /\ Current(docs)' = Current(docs) \cup {n}
    /\ \A i \in DOMAIN docs : docs'[i] = docs[i]
    /\ docs'[n].concept = c /\ docs'[n].version = v /\ docs'[n].created = clock
    /\ docs'[n].expired = NeverExpires

(* expire_entity on a current version retires it.                           *)
LEMMA StampRetires ==
    ASSUME TypeOK, NEW k \in Current(docs), docs' = Stamped(docs, k, clock)
    PROVE  Retires(k)
<1> DEFINE v == [docs[k] EXCEPT !.expired = clock]
<1>1. docs \in Seq(Version) /\ DOMAIN docs = 1 .. Len(docs) /\ Len(docs) \in Nat
  BY LenProperties DEF TypeOK
<1>2. k \in 1 .. Len(docs) /\ docs[k] \in Version
  BY <1>1, ElementOfSeq DEF Current
<1>3. clock \in Nat /\ clock # NeverExpires
  BY ClockFacts
<1>4. /\ v \in Version /\ v.concept = docs[k].concept /\ v.version = docs[k].version
      /\ v.created = docs[k].created /\ v.expired = clock
  BY <1>2, <1>3 DEF Version
<1>5. docs' = [docs EXCEPT ![k] = v]
  BY DEF Stamped
<1> HIDE DEF v
<1>6. /\ docs' \in Seq(Version) /\ Len(docs') = Len(docs)
      /\ \A j \in 1 .. Len(docs) : docs'[j] = IF j = k THEN v ELSE docs[j]
  BY <1>1, <1>2, <1>4, <1>5, ExceptSeq
<1>7. DOMAIN docs' = DOMAIN docs
  BY <1>1, <1>6, LenProperties
<1>8. Current(docs)' = Current(docs) \ {k}
  BY <1>1, <1>3, <1>4, <1>6, <1>7 DEF Current
<1> QED BY <1>1, <1>2, <1>4, <1>6, <1>7, <1>8 DEF Retires

(* create_version makes a version current.                                  *)
LEMMA InsertAdds ==
    ASSUME TypeOK, NEW c \in Concepts, NEW v \in Nat \ {0},
           docs' = Append(docs, [concept |-> c, version |-> v,
                                 created |-> clock, expired |-> NeverExpires])
    PROVE  Adds(c, v)
<1> DEFINE d == [concept |-> c, version |-> v, created |-> clock, expired |-> NeverExpires]
<1>1. docs \in Seq(Version) /\ DOMAIN docs = 1 .. Len(docs) /\ Len(docs) \in Nat
  BY LenProperties DEF TypeOK
<1>2. d \in Version /\ d.concept = c /\ d.version = v /\ d.created = clock /\ d.expired = NeverExpires
  BY ClockFacts DEF Version
<1>3. docs' = Append(docs, d)
  OBVIOUS
<1> HIDE DEF d
<1>4. /\ docs' \in Seq(Version) /\ Len(docs') = Len(docs) + 1
      /\ \A i \in 1 .. Len(docs) : docs'[i] = docs[i]
      /\ docs'[Len(docs) + 1] = d
  BY <1>1, <1>2, <1>3, AppendProperties
<1>5. DOMAIN docs' = DOMAIN docs \cup {Len(docs) + 1} /\ Len(docs) + 1 \notin DOMAIN docs
  BY <1>1, <1>4, LenProperties
<1>6. Current(docs)' = Current(docs) \cup {Len(docs) + 1}
  BY <1>1, <1>2, <1>4, <1>5 DEF Current
<1> QED BY <1>1, <1>2, <1>4, <1>5, <1>6 DEF Adds

(* What a step does to the versions.                                        *)
LEMMA VersionSteps ==
    ASSUME OneAtATime, VersionInv, NEW t \in Threads, Act(t)
    PROVE  /\ \/ UNCHANGED docs
              \/ op[t].pc \in {"expire", "cascade"} /\ Retires(op[t].key)
              \/ op[t].pc = "insertClass" /\ Adds(op[t].key, 1)
              \/ op[t].pc = "create" /\ Adds(docs[op[t].key].concept, docs[op[t].key].version + 1)
           /\ clock \in Nat /\ clock' \in Nat /\ clock <= clock' /\ faults' = 0
<1>1. /\ TypeOK /\ OpKnows(t) /\ VersionKnown(t) /\ faults = 0 /\ MaxExpireFaults = 0
      /\ clock \in 1 .. MaxClock /\ MaxClock \in Nat
  BY BoundsAssumption DEF OneAtATime, VersionInv, IndInv, TypeOK
<1>2. ~WriteFails
  BY <1>1 DEF WriteFails
<1>3. Tick => clock' \in Nat /\ clock <= clock'
  BY <1>1 DEF Tick
<1>4. CASE StartOf(t) \/ Abort(t)
  <2>1. UNCHANGED <<docs, clock, faults>>
    BY <1>4 DEF StartOf, BeginCreateClass, BeginUpdate, BeginCascade, BeginRelate,
                BeginUpdateEdge, Abort, store
  <2> QED BY <1>1, <2>1
<1>5. CASE InsertClass(t)
  <2>1. op[t].key \in Concepts
    BY <1>1, <1>5 DEF InsertClass, OpKnows
  <2>2. Adds(op[t].key, 1)
    BY <1>1, <1>5, <2>1, InsertAdds DEF InsertClass
  <2> QED BY <1>1, <1>3, <1>5, <2>2 DEF InsertClass, counters
<1>6. CASE ExpireOld(t) \/ ExpireClass(t)
  <2>1. op[t].pc \in {"expire", "cascade"} /\ op[t].key \in Current(docs)
    BY <1>1, <1>6 DEF ExpireOld, ExpireClass, VersionKnown
  <2>2. docs' = Stamped(docs, op[t].key, clock) /\ faults' = faults
    BY <1>2, <1>6 DEF ExpireOld, ExpireClass, StampVersion
  <2>3. Retires(op[t].key)
    BY <1>1, <2>1, <2>2, StampRetires
  <2> QED BY <1>1, <1>3, <1>6, <2>1, <2>2, <2>3 DEF ExpireOld, ExpireClass
<1>7. CASE CreateNew(t)
  <2>1. op[t].key \in DOMAIN docs
    BY <1>1, <1>7 DEF CreateNew, OpKnows
  <2>2. docs[op[t].key] \in Version
    BY <1>1, <2>1, LenProperties, ElementOfSeq DEF TypeOK
  <2>3. docs[op[t].key].concept \in Concepts /\ docs[op[t].key].version + 1 \in Nat \ {0}
    BY <2>2 DEF Version
  <2>4. Adds(docs[op[t].key].concept, docs[op[t].key].version + 1)
    BY <1>1, <1>7, <2>3, InsertAdds DEF CreateNew
  <2> QED BY <1>1, <1>3, <1>7, <2>4 DEF CreateNew, counters
<1>8. CASE QueryOutbound(t)
  BY <1>1, <1>3, <1>8 DEF QueryOutbound, counters
<1>9. CASE QueryInbound(t) \/ NextCollection(t) \/ FinishUpdate(t) \/ QueryTouching(t)
           \/ ReadTarget(t) \/ TargetMissing(t)
  <2>1. UNCHANGED <<docs, clock, faults>>
    BY <1>9 DEF QueryInbound, NextCollection, FinishUpdate, QueryTouching, ReadTarget,
                TargetMissing, store, counters
  <2> QED BY <1>1, <2>1
<1>10. CASE ExpireEdge(t) \/ InsertCopy(t)
  BY <1>1, <1>10 DEF ExpireEdge, InsertCopy, counters
<1>11. CASE SweepEdge(t) \/ ReplaceEdge(t) \/ ExpireEdgeVersion(t)
  BY <1>1, <1>2, <1>3, <1>11 DEF SweepEdge, ReplaceEdge, ExpireEdgeVersion, StampEdge
<1>12. CASE InsertEdge(t) \/ CreateEdgeVersion(t)
  BY <1>1, <1>3, <1>12 DEF InsertEdge, CreateEdgeVersion, counters
<1> QED BY <1>4, <1>5, <1>6, <1>7, <1>8, <1>9, <1>10, <1>11, <1>12 DEF Act, StepOf
-----------------------------------------------------------------------------
(* The invariant about the versions.                                        *)

(* Each kind of step keeps one current version per concept, and the past    *)
(* behind the clock.                                                        *)
LEMMA HistoryKept ==
    ASSUME OneAtATime, VersionInv, NEW t \in Threads, Act(t)
    PROVE  AtMostOneCurrent' /\ PastIsPast'
<1>1. /\ TypeOK /\ VersionKnown(t) /\ AtMostOneCurrent /\ PastIsPast
      /\ Current(docs) \subseteq DOMAIN docs
      /\ \A i \in DOMAIN docs : docs[i].expired \in Nat
      /\ \A k \in Current(docs) : k \in CurrentOf(docs[k].concept)
  <2>1. TypeOK
    BY DEF VersionInv, IndInv
  <2>2. \A i \in DOMAIN docs : docs[i] \in Version
    BY <2>1, LenProperties, ElementOfSeq DEF TypeOK
  <2> QED BY <2>1, <2>2 DEF VersionInv, Version, Current, CurrentOf
<1>2. clock \in Nat /\ clock' \in Nat /\ clock <= clock'
  BY VersionSteps
<1>3. CASE UNCHANGED docs
  <2>1. AtMostOneCurrent'
    BY <1>1, <1>3 DEF AtMostOneCurrent, Current
  <2>2. PastIsPast'
    BY <1>1, <1>2, <1>3 DEF PastIsPast, Current
  <2> QED BY <2>1, <2>2
<1>4. CASE Retires(op[t].key)
  <2>1. AtMostOneCurrent'
    BY <1>1, <1>4 DEF AtMostOneCurrent, Retires
  <2>2. PastIsPast'
    BY <1>1, <1>2, <1>4 DEF PastIsPast, Retires
  <2> QED BY <2>1, <2>2
<1>5. ASSUME NEW c, NEW v, Adds(c, v), CurrentOf(c) = {}
      PROVE  AtMostOneCurrent' /\ PastIsPast'
  <2> DEFINE n == Len(docs) + 1
  <2>1. /\ Current(docs)' = Current(docs) \cup {n} /\ docs'[n].concept = c
        /\ n \notin DOMAIN docs /\ DOMAIN docs' = DOMAIN docs \cup {n}
        /\ \A i \in DOMAIN docs : docs'[i] = docs[i]
    BY <1>5 DEF Adds
  <2> HIDE DEF n
  <2>2. \A k \in Current(docs) : docs[k].concept # c
    BY <1>1, <1>5
  <2>3. AtMostOneCurrent'
    BY <1>1, <2>1, <2>2 DEF AtMostOneCurrent
  <2>4. PastIsPast'
    BY <1>1, <1>2, <2>1 DEF PastIsPast
  <2> QED BY <2>3, <2>4
<1>6. /\ op[t].pc = "insertClass" => CurrentOf(op[t].key) = {}
      /\ op[t].pc = "create" => CurrentOf(docs[op[t].key].concept) = {}
  BY <1>1 DEF VersionKnown
<1> QED BY <1>3, <1>4, <1>5, <1>6, VersionSteps

(* Each action leaves the lone thread with what its next one needs.         *)
LEMMA VersionKnowledgeKept ==
    ASSUME OneAtATime, VersionInv, NEW t \in Threads, Act(t)
    PROVE  VersionKnown(t)'
<1>1. /\ TypeOK /\ OpKnows(t) /\ VersionKnown(t) /\ PastIsPast /\ AtMostOneCurrent
      /\ op \in [Threads -> Op] /\ op[t] \in Op
      /\ Current(docs) \subseteq DOMAIN docs
  BY DEF VersionInv, IndInv, TypeOK, Current
<1>2. ASSUME op'[t].pc \in {"idle", "edgeExpire", "edgeCreate"} PROVE VersionKnown(t)'
  BY <1>2 DEF VersionKnown
<1>3. ASSUME UNCHANGED docs
      PROVE  /\ Current(docs)' = Current(docs) /\ \A c : CurrentOf(c)' = CurrentOf(c)
             /\ \A c : Expired(c)' = Expired(c)
  BY <1>3 DEF CurrentOf, Current, Expired
<1>4. CASE StartOf(t)
  <2>1. UNCHANGED docs
    BY <1>4 DEF StartOf, BeginCreateClass, BeginUpdate, BeginCascade, BeginRelate,
                BeginUpdateEdge, store
  <2>2. CASE BeginCreateClass(t)
    <3>1. PICK c \in Concepts : /\ CurrentOf(c) = {}
                                /\ op' = [op EXCEPT ![t] = [IdleOp EXCEPT !.pc = "insertClass", !.key = c]]
      BY <2>2 DEF BeginCreateClass, Begin
    <3>2. op'[t].pc = "insertClass" /\ op'[t].key = c
      BY <1>1, <3>1 DEF IdleOp
    <3> QED BY <1>3, <2>1, <3>1, <3>2 DEF VersionKnown
  <2>3. CASE BeginUpdate(t) \/ BeginCascade(t) \/ BeginRelate(t)
    <3>1. op'[t].pc \in {"expire", "cascade", "readTo"} /\ op'[t].key \in Current(docs)
      BY ZenonT(40), <1>1, <2>3 DEF BeginUpdate, BeginCascade, BeginRelate, Begin, IdleOp
    <3> QED BY <1>3, <2>1, <3>1 DEF VersionKnown
  <2>4. CASE BeginUpdateEdge(t)
    <3>1. op'[t].pc = "edgeExpire"
      BY <1>1, <2>4 DEF BeginUpdateEdge, Begin, IdleOp
    <3> QED BY <1>2, <3>1
  <2> QED BY <1>4, <2>2, <2>3, <2>4 DEF StartOf
<1>5. CASE InsertClass(t) \/ FinishUpdate(t) \/ TargetMissing(t) \/ InsertEdge(t)
           \/ CreateEdgeVersion(t) \/ Abort(t)
  <2>1. op'[t].pc = "idle"
    BY <1>1, <1>5 DEF InsertClass, FinishUpdate, TargetMissing, InsertEdge, CreateEdgeVersion,
                      Abort, Finish, IdleOp
  <2> QED BY <1>2, <2>1
<1>6. CASE ExpireOld(t)
  <2>1. PICK k \in Current(docs) : k = op[t].key
    BY <1>1, <1>6 DEF ExpireOld, VersionKnown
  <2>2. PICK c : c = docs[k].concept
    OBVIOUS
  <2>3. op'[t].pc = "create" /\ op'[t].key = k
    <3>1. op' = [op EXCEPT ![t].pc = "create"]
      BY <1>6 DEF ExpireOld, Goto
    <3> QED BY <1>1, <2>1, <3>1 DEF Op
  <2>4. Retires(k)
    <3>1. ~WriteFails
      BY DEF WriteFails, OneAtATime, VersionInv
    <3> QED BY <1>1, <1>6, <2>1, <3>1, StampRetires DEF ExpireOld, StampVersion
  <2>5. docs'[k].concept = c /\ k \notin Current(docs)' /\ docs'[k].expired = clock
    BY <1>1, <2>2, <2>4 DEF Retires
  <2>6. CurrentOf(c)' = {}
    <3>1. \A i \in Current(docs)' : i \in Current(docs) /\ i # k /\ docs'[i] = docs[i]
      BY <1>1, <2>4 DEF Retires
    <3>2. \A i \in Current(docs)' : docs'[i].concept # c
      BY <1>1, <2>2, <3>1 DEF AtMostOneCurrent
    <3> QED BY <3>2 DEF CurrentOf
  <2>7. \A i \in DOMAIN docs : i \notin Current(docs)' => docs'[i].expired <= clock
    <3> SUFFICES ASSUME NEW i \in DOMAIN docs, i \notin Current(docs)' PROVE docs'[i].expired <= clock
      OBVIOUS
    <3>1. CASE i = k
      BY <2>5, <3>1, ClockFacts, <1>1
    <3>2. CASE i # k
      BY <2>4, <3>2, <1>1 DEF Retires, PastIsPast
    <3> QED BY <3>1, <3>2
  <2>8. \A i \in Expired(c)' : docs'[i].expired <= docs'[k].expired
    BY <2>4, <2>5, <2>7 DEF Expired, Retires
  <2> QED BY <2>3, <2>5, <2>6, <2>8 DEF VersionKnown
<1>7. CASE CreateNew(t)
  <2> DEFINE n == Len(docs) + 1
  <2>1. op[t].pc = "create" /\ op' = [op EXCEPT ![t].pc = "collect", ![t].new = n]
    BY <1>7 DEF CreateNew
  <2>2. op'[t].pc = "collect" /\ op'[t].new = n /\ op'[t].key = op[t].key
    BY <1>1, <2>1 DEF Op
  <2>3. op[t].key \notin Current(docs) /\ op[t].key \in DOMAIN docs
    BY <1>1, <2>1 DEF VersionKnown, OpKnows
  <2>4. Current(docs)' = Current(docs) \cup {n} /\ n \notin DOMAIN docs
    <3>1. \E c, v : Adds(c, v)
      <4>1. docs[op[t].key] \in Version
        BY <1>1, <2>3, LenProperties, ElementOfSeq DEF TypeOK
      <4>2. docs[op[t].key].concept \in Concepts /\ docs[op[t].key].version + 1 \in Nat \ {0}
        BY <4>1 DEF Version
      <4> QED BY <1>1, <1>7, <4>2, InsertAdds DEF CreateNew
    <3> QED BY <3>1 DEF Adds
  <2> HIDE DEF n
  <2> QED BY <2>2, <2>3, <2>4 DEF VersionKnown
<1>8. CASE QueryOutbound(t) \/ QueryInbound(t) \/ ExpireEdge(t) \/ InsertCopy(t) \/ NextCollection(t)
  <2>1. op[t].pc \in {"collect", "outbound", "inbound"} /\ docs' = docs
    BY <1>8 DEF QueryOutbound, QueryInbound, ExpireEdge, InsertCopy, NextCollection, store
  <2>2. /\ op'[t].pc \in {"collect", "outbound", "inbound"}
        /\ op'[t].key = op[t].key /\ op'[t].new = op[t].new
    <3>1. CASE QueryOutbound(t)
      BY <1>1, <3>1 DEF QueryOutbound, Op
    <3>2. CASE QueryInbound(t)
      BY <1>1, <3>2 DEF QueryInbound, Op
    <3>3. CASE ExpireEdge(t)
      BY <1>1, <3>3 DEF ExpireEdge, Op
    <3>4. CASE InsertCopy(t)
      BY <1>1, <3>4 DEF InsertCopy, Op
    <3>5. CASE NextCollection(t)
      BY <1>1, <3>5 DEF NextCollection, Op
    <3> QED BY <1>8, <3>1, <3>2, <3>3, <3>4, <3>5
  <2> QED BY <1>1, <1>3, <2>1, <2>2 DEF VersionKnown
<1>9. CASE ExpireClass(t)
  <2>1. op[t].pc = "cascade" /\ op' = [op EXCEPT ![t].pc = "sweep"] /\ op[t].key \in Current(docs)
    BY <1>1, <1>9 DEF ExpireClass, Goto, VersionKnown
  <2>2. op'[t].pc = "sweep" /\ op'[t].key = op[t].key
    BY <1>1, <2>1 DEF Op
  <2>3. Retires(op[t].key)
    <3>1. ~WriteFails
      BY DEF WriteFails, OneAtATime, VersionInv
    <3> QED BY <1>1, <1>9, <2>1, <3>1, StampRetires DEF ExpireClass, StampVersion
  <2> QED BY <2>2, <2>3 DEF Retires, VersionKnown
<1>10. CASE QueryTouching(t) \/ SweepEdge(t)
  <2>1. op[t].pc = "sweep" /\ docs' = docs
    BY <1>10 DEF QueryTouching, SweepEdge, store
  <2>2. op'[t].pc = "idle" \/ (op'[t].pc = "sweep" /\ op'[t].key = op[t].key)
    <3>1. CASE QueryTouching(t)
      BY <1>1, <2>1, <3>1 DEF QueryTouching, Finish, IdleOp, Op
    <3>2. CASE SweepEdge(t)
      BY <1>1, <2>1, <3>2 DEF SweepEdge, Op
    <3> QED BY <1>10, <3>1, <3>2
  <2> QED BY <1>1, <1>2, <1>3, <2>1, <2>2 DEF VersionKnown
<1>11. CASE ReadTarget(t)
  <2>1. op[t].pc = "readTo" /\ docs' = docs /\ op'[t].pc = "replace" /\ op'[t].key = op[t].key
        /\ op'[t].new \in Current(docs)
    BY <1>1, <1>11 DEF ReadTarget, store, Op
  <2> QED BY <1>1, <1>3, <2>1 DEF VersionKnown
<1>12. CASE ReplaceEdge(t)
  <2>1. op[t].pc = "replace" /\ docs' = docs /\ op'[t].pc = "replace" /\ op'[t].key = op[t].key
        /\ op'[t].new = op[t].new
    BY <1>1, <1>12 DEF ReplaceEdge, Op
  <2> QED BY <1>1, <1>3, <2>1 DEF VersionKnown
<1>13. CASE ExpireEdgeVersion(t)
  <2>1. op'[t].pc = "edgeCreate"
    BY <1>1, <1>13 DEF ExpireEdgeVersion, Goto
  <2> QED BY <1>2, <2>1
<1> QED BY <1>4, <1>5, <1>6, <1>7, <1>8, <1>9, <1>10, <1>11, <1>12, <1>13 DEF Act, StepOf

(* One thread's step is everybody's step.                                   *)
LEMMA NextKeepsVersionInv ==
    ASSUME OneAtATime, VersionInv, [Next]_vars
    PROVE  VersionInv'
<1>1. IndInv'
  BY NextKeepsIndInv DEF VersionInv
<1>2. CASE UNCHANGED vars
  <2>1. /\ UNCHANGED <<docs, op, clock, faults>>
        /\ VersionInv
    BY <1>2 DEF vars
  <2>2. AtMostOneCurrent' /\ PastIsPast' /\ faults' = 0
    BY <2>1 DEF VersionInv, AtMostOneCurrent, PastIsPast, Current
  <2>3. \A t \in Threads : VersionKnown(t)'
    BY <2>1 DEF VersionInv, VersionKnown, CurrentOf, Expired, Current
  <2> QED BY <1>1, <2>2, <2>3 DEF VersionInv
<1>3. CASE Next
  <2>1. PICK t \in Threads : Act(t)
    BY <1>3 DEF Next, Act
  <2>2. AtMostOneCurrent' /\ PastIsPast' /\ VersionKnown(t)' /\ faults' = 0
    BY <2>1, HistoryKept, VersionKnowledgeKept, VersionSteps
  <2>3. \A u \in Threads : u = t
    BY DEF OneAtATime, SingleThread
  <2> QED BY <1>1, <2>2, <2>3 DEF VersionInv
<1> QED BY <1>2, <1>3

LEMMA InitEstablishesVersionInv == Init => VersionInv
<1> SUFFICES ASSUME Init PROVE VersionInv
  OBVIOUS
<1>1. IndInv /\ faults = 0
  BY InitEstablishesIndInv DEF Init
<1>2. /\ DOMAIN docs = Seeded /\ \A c \in Seeded : docs[c].concept = c
      /\ \A c \in Seeded : docs[c].expired = NeverExpires
  BY DEF Init
<1>3. AtMostOneCurrent /\ PastIsPast
  BY <1>2 DEF AtMostOneCurrent, PastIsPast, Current
<1>4. \A t \in Threads : VersionKnown(t)
  BY DEF Init, IdleOp, VersionKnown
<1> QED BY <1>1, <1>3, <1>4 DEF VersionInv

LEMMA VersionsInductive ==
    ASSUME OneAtATime
    PROVE  Spec => []VersionInv
<1>1. VersionInv /\ [Next]_vars => VersionInv'
  BY NextKeepsVersionInv
<1> QED BY InitEstablishesVersionInv, <1>1, PTL DEF Spec

(* One handler at a time, interrupted anywhere, never leaves a concept with *)
(* two current versions (create_class, update_entity, expire_class_cascade).*)
THEOREM OneCurrentVersion ==
    ASSUME OneAtATime
    PROVE  Spec => []AtMostOneCurrent
<1>1. VersionInv => AtMostOneCurrent
  BY DEF VersionInv
<1> QED BY <1>1, VersionsInductive, PTL

-----------------------------------------------------------------------------
(* The refinement of VersionHistory, the values of the mapping named.       *)

Number == [c \in Concepts |-> IF CurrentOf(c) = {} THEN 0 ELSE docs[TheCurrent(c)].version]
Since == [c \in Concepts |-> IF CurrentOf(c) = {} THEN 0 ELSE docs[TheCurrent(c)].created]
IntervalOf(i) == [version |-> docs[i].version, created |-> docs[i].created,
                  expired |-> docs[i].expired]
Past == [c \in Concepts |-> {IntervalOf(i) : i \in Expired(c)}]

(* TheCurrent is the current version, there being no other.                 *)
LEMMA CurrentView ==
    AtMostOneCurrent =>
        \A c \in Concepts :
            /\ CurrentOf(c) = {} => Number[c] = 0 /\ Since[c] = 0
            /\ \A k \in CurrentOf(c) : Number[c] = docs[k].version /\ Since[c] = docs[k].created
<1> SUFFICES ASSUME AtMostOneCurrent, NEW c \in Concepts, NEW k \in CurrentOf(c)
             PROVE  Number[c] = docs[k].version /\ Since[c] = docs[k].created
  BY DEF Number, Since
<1>1. TheCurrent(c) \in CurrentOf(c)
  BY DEF TheCurrent
<1>2. TheCurrent(c) = k
  BY <1>1 DEF AtMostOneCurrent, CurrentOf
<1> QED BY <1>2 DEF Number, Since

LEMMA CurrentViewNext ==
    AtMostOneCurrent' =>
        \A c \in Concepts :
            /\ CurrentOf(c)' = {} => Number'[c] = 0 /\ Since'[c] = 0
            /\ \A k \in CurrentOf(c)' :
                  Number'[c] = docs'[k].version /\ Since'[c] = docs'[k].created
<1>1. (AtMostOneCurrent =>
        \A c \in Concepts :
            /\ CurrentOf(c) = {} => Number[c] = 0 /\ Since[c] = 0
            /\ \A k \in CurrentOf(c) : Number[c] = docs[k].version /\ Since[c] = docs[k].created)'
  BY CurrentView, PTL
<1> QED BY <1>1

(* Retiring the current version of a concept closes its interval.           *)
LEMMA RetiresRefines ==
    ASSUME TypeOK, AtMostOneCurrent, AtMostOneCurrent', NEW k \in Current(docs), Retires(k),
           clock \in Nat, clock' \in Nat, clock <= clock'
    PROVE  \E c \in Concepts : History!Retire(c)
<1>1. PICK c \in Concepts : c = docs[k].concept /\ docs[k].version \in Nat \ {0}
  <2>1. docs[k] \in Version
    BY LenProperties, ElementOfSeq DEF TypeOK, Current
  <2> QED BY <2>1 DEF Version
<1>2. /\ CurrentOf(c) = {k} /\ CurrentOf(c)' = {}
      /\ Expired(c)' = Expired(c) \cup {k} /\ k \notin Expired(c)
  BY <1>1 DEF Retires, CurrentOf, Expired, AtMostOneCurrent, Current
<1>3. ASSUME NEW a \in Concepts, a # c
      PROVE  CurrentOf(a)' = CurrentOf(a) /\ Expired(a)' = Expired(a)
  <2>1. Current(docs) \subseteq DOMAIN docs
    BY DEF Current
  <2>2. CurrentOf(a)' = CurrentOf(a)
    BY <1>1, <1>3, <2>1 DEF Retires, CurrentOf
  <2>3. Expired(a)' = Expired(a)
    BY <1>1, <1>3, <2>1 DEF Retires, Expired
  <2> QED BY <2>2, <2>3
<1>4. \A i \in DOMAIN docs : i # k => docs'[i] = docs[i]
  BY DEF Retires
<1>5. Number' = [Number EXCEPT ![c] = 0] /\ Since' = [Since EXCEPT ![c] = 0]
  <2>1. Number'[c] = 0 /\ Since'[c] = 0
    BY <1>2, CurrentViewNext
  <2>2. ASSUME NEW a \in Concepts, a # c
        PROVE  Number'[a] = Number[a] /\ Since'[a] = Since[a]
    <3>1. CASE CurrentOf(a) = {}
      BY <1>3, <2>2, <3>1, CurrentView, CurrentViewNext
    <3>2. ASSUME NEW i \in CurrentOf(a) PROVE Number'[a] = Number[a] /\ Since'[a] = Since[a]
      <4>1. docs'[i] = docs[i] /\ i \in CurrentOf(a)'
        BY <1>1, <1>3, <1>4, <2>2 DEF CurrentOf, Current
      <4> QED BY <4>1, CurrentView, CurrentViewNext
    <3> QED BY <3>1, <3>2
  <2> QED BY <2>1, <2>2 DEF Number, Since
<1>6. Number[c] = docs[k].version /\ Since[c] = docs[k].created
  BY <1>2, CurrentView
<1>7. Past' = [Past EXCEPT ![c] = @ \cup {[version |-> Number[c], created |-> Since[c],
                                          expired |-> clock]}]
  <2>1. \A i \in DOMAIN docs : i # k => IntervalOf(i)' = IntervalOf(i)
    BY <1>4 DEF IntervalOf
  <2>2. IntervalOf(k)' = [version |-> Number[c], created |-> Since[c], expired |-> clock]
    BY <1>6 DEF IntervalOf, Retires, Current
  <2>3. \A a \in Concepts : Expired(a) \subseteq DOMAIN docs /\ (k \notin Expired(a))
    BY DEF Expired
  <2>4. ASSUME NEW a \in Concepts, a # c PROVE Past'[a] = Past[a]
    BY <1>3, <2>1, <2>3, <2>4 DEF Past
  <2>5. Past'[c] = Past[c] \cup {IntervalOf(k)'}
    BY <1>2, <2>1, <2>3 DEF Past
  <2> QED BY <2>2, <2>4, <2>5 DEF Past
<1>8. Number[c] # 0
  BY <1>1, <1>6
<1>9. History!Retire(c)
  BY <1>5, <1>7, <1>8 DEF History!Retire, History!TimePasses, Number, Since, Past, IntervalOf
<1> QED BY <1>9

(* A new version becomes the current one, the past as it was.               *)
LEMMA AddsRefines ==
    ASSUME TypeOK, AtMostOneCurrent, AtMostOneCurrent', NEW c \in Concepts, NEW v,
           Adds(c, v), CurrentOf(c) = {}, clock \in Nat, clock' \in Nat, clock <= clock'
    PROVE  /\ History!Activate(c, v)
           /\ Past[c] = {IntervalOf(i) : i \in Expired(c)}
<1>1. PICK n : n = Len(docs) + 1
  OBVIOUS
<1>2. /\ n \notin DOMAIN docs /\ DOMAIN docs' = DOMAIN docs \cup {n}
      /\ Current(docs)' = Current(docs) \cup {n}
      /\ \A i \in DOMAIN docs : docs'[i] = docs[i]
      /\ docs'[n].concept = c /\ docs'[n].version = v /\ docs'[n].created = clock
      /\ Current(docs) \subseteq DOMAIN docs
  BY <1>1 DEF Adds, Current
<1>3. n \in CurrentOf(c)'
  BY <1>2 DEF CurrentOf
<1>4. ASSUME NEW a \in Concepts
      PROVE  Expired(a)' = Expired(a) /\ (a # c => CurrentOf(a)' = CurrentOf(a))
  <2>1. Expired(a)' = Expired(a)
    BY <1>2 DEF Expired
  <2>2. a # c => CurrentOf(a)' = CurrentOf(a)
    BY <1>2 DEF CurrentOf
  <2> QED BY <2>1, <2>2
<1>5. Number' = [Number EXCEPT ![c] = v] /\ Since' = [Since EXCEPT ![c] = clock]
  <2>1. Number'[c] = v /\ Since'[c] = clock
    BY <1>2, <1>3, CurrentViewNext
  <2>2. ASSUME NEW a \in Concepts, a # c
        PROVE  Number'[a] = Number[a] /\ Since'[a] = Since[a]
    <3>1. CASE CurrentOf(a) = {}
      BY <1>4, <2>2, <3>1, CurrentView, CurrentViewNext
    <3>2. ASSUME NEW i \in CurrentOf(a) PROVE Number'[a] = Number[a] /\ Since'[a] = Since[a]
      <4>1. docs'[i] = docs[i] /\ i \in CurrentOf(a)'
        BY <1>2, <1>4, <2>2 DEF CurrentOf, Current
      <4> QED BY <4>1, CurrentView, CurrentViewNext
    <3> QED BY <3>1, <3>2
  <2> QED BY <2>1, <2>2 DEF Number, Since
<1>6. Past' = Past
  <2>1. \A i \in DOMAIN docs : IntervalOf(i)' = IntervalOf(i)
    BY <1>2 DEF IntervalOf
  <2>2. \A a \in Concepts : Expired(a) \subseteq DOMAIN docs
    BY DEF Expired
  <2>3. ASSUME NEW a \in Concepts PROVE Past'[a] = Past[a]
    BY <1>4, <2>1, <2>2 DEF Past
  <2> QED BY <2>3 DEF Past
<1>7. Number[c] = 0
  BY CurrentView
<1>8. History!Activate(c, v)
  BY <1>5, <1>6, <1>7 DEF History!Activate, History!TimePasses, Number, Since, Past, IntervalOf
<1> QED BY <1>8 DEF Past

(* No step of the store is more than one step of the history.               *)
LEMMA StepRefines ==
    ASSUME OneAtATime, VersionInv, [Next]_vars
    PROVE  [History!Next]_(History!vars)
<1>1. AtMostOneCurrent /\ AtMostOneCurrent' /\ TypeOK
  BY NextKeepsVersionInv DEF VersionInv, IndInv
<1>2. CASE UNCHANGED vars
  <2>1. UNCHANGED <<docs, clock>>
    BY <1>2 DEF vars
  <2> QED BY <2>1 DEF History!vars, CurrentOf, TheCurrent, Expired, Current
<1>3. CASE Next
  <2>1. PICK t \in Threads : Act(t)
    BY <1>3 DEF Next, Act
  <2>2. VersionKnown(t) /\ OpKnows(t) /\ clock \in Nat /\ clock' \in Nat /\ clock <= clock'
    BY <2>1, VersionSteps DEF VersionInv, IndInv
  <2>3. CASE UNCHANGED docs
    <3>1. UNCHANGED <<Number, Since, Past>>
      BY <2>3 DEF Number, Since, Past, IntervalOf, CurrentOf, TheCurrent, Expired, Current
    <3>2. History!Wait
      BY <2>2, <3>1 DEF History!Wait, History!TimePasses, Number, Since, Past, IntervalOf
    <3> QED BY <3>2 DEF History!Next
  <2>4. CASE op[t].pc \in {"expire", "cascade"} /\ Retires(op[t].key)
    <3>1. op[t].key \in Current(docs)
      BY <2>4 DEF Retires
    <3>2. \E c \in Concepts : History!Retire(c)
      BY <1>1, <2>2, <2>4, <3>1, RetiresRefines
    <3> QED BY <3>2 DEF History!Next
  <2>5. CASE op[t].pc = "insertClass" /\ Adds(op[t].key, 1)
    <3>1. op[t].key \in Concepts /\ CurrentOf(op[t].key) = {}
      BY <2>2, <2>5 DEF VersionKnown, OpKnows
    <3>2. History!Introduce(op[t].key)
      BY <1>1, <2>2, <2>5, <3>1, AddsRefines DEF History!Introduce
    <3> QED BY <3>1, <3>2 DEF History!Next
  <2>6. CASE op[t].pc = "create" /\ Adds(docs[op[t].key].concept, docs[op[t].key].version + 1)
    <3>1. PICK k \in DOMAIN docs : k = op[t].key
      BY <2>2, <2>6 DEF OpKnows
    <3>2. PICK c \in Concepts : c = docs[k].concept
      <4>1. docs[k] \in Version
        BY <1>1, LenProperties, ElementOfSeq DEF TypeOK
      <4> QED BY <4>1 DEF Version
    <3>3. /\ CurrentOf(c) = {} /\ k \in Expired(c)
          /\ \A i \in Expired(c) : docs[i].expired <= docs[k].expired
      BY <2>2, <2>6, <3>1, <3>2 DEF VersionKnown, Expired
    <3>4. Adds(c, docs[k].version + 1)
      BY <2>6, <3>1, <3>2
    <3>5. History!Activate(c, docs[k].version + 1) /\ Past[c] = {IntervalOf(i) : i \in Expired(c)}
      BY <1>1, <2>2, <3>3, <3>4, AddsRefines
    <3>6. \A i \in Expired(c) : IntervalOf(i).expired = docs[i].expired
      BY DEF IntervalOf
    <3>7. IntervalOf(k) \in Past[c] /\ IntervalOf(k).version = docs[k].version
      BY <3>3, <3>5 DEF IntervalOf
    <3>8. \A q \in Past[c] : q.expired <= IntervalOf(k).expired
      BY <3>3, <3>5, <3>6
    <3>9. \E p \in Past[c] : /\ \A q \in Past[c] : q.expired <= p.expired
                             /\ History!Activate(c, p.version + 1)
      BY <3>5, <3>7, <3>8
    <3>10. History!Succeed(c)
      BY <3>9 DEF History!Succeed, Past, IntervalOf
    <3> QED BY <3>10 DEF History!Next
  <2> QED BY <2>1, <2>3, <2>4, <2>5, <2>6, VersionSteps
<1> QED BY <1>2, <1>3

LEMMA InitRefines == Init => History!Init
<1> SUFFICES ASSUME Init PROVE History!Init
  OBVIOUS
<1>1. /\ DOMAIN docs = Seeded /\ clock = 1
      /\ \A c \in Seeded : /\ docs[c].concept = c /\ docs[c].expired = NeverExpires
                          /\ docs[c].version = 1 /\ docs[c].created = 0
  BY DEF Init
<1>2. \A c \in Concepts : Expired(c) = {}
  BY <1>1 DEF Expired, Current
<1>3. AtMostOneCurrent
  BY InitEstablishesVersionInv DEF VersionInv
<1>4. ASSUME NEW c \in Concepts PROVE Number[c] \in {0, 1} /\ Since[c] = 0
  <2>1. CASE CurrentOf(c) = {}
    BY <1>3, <2>1, CurrentView
  <2>2. ASSUME NEW k \in CurrentOf(c) PROVE Number[c] \in {0, 1} /\ Since[c] = 0
    <3>1. k \in Seeded
      BY <1>1 DEF CurrentOf, Current
    <3> QED BY <1>1, <1>3, <3>1, CurrentView
  <2> QED BY <2>1, <2>2
<1>5. /\ Number \in [Concepts -> {0, 1}]
      /\ Since = [c \in Concepts |-> 0]
      /\ Past = [c \in Concepts |-> {}]
  BY <1>2, <1>4 DEF Number, Since, Past
<1> QED BY <1>1, <1>5 DEF History!Init, Number, Since, Past, IntervalOf

(* One handler at a time, interrupted anywhere, the store keeps the history *)
(* of every concept that VersionHistory promises: each step of update_entity,*)
(* create_class and expire_class_cascade retires, introduces or succeeds a  *)
(* version, and no re-creation of edges touches one.                        *)
THEOREM StoreImplementsHistory ==
    ASSUME OneAtATime
    PROVE  Spec => ImplementsHistory
<1>1. VersionInv /\ [Next]_vars => [History!Next]_(History!vars)
  BY StepRefines
<1> QED BY InitRefines, VersionsInductive, <1>1, PTL DEF Spec, ImplementsHistory, History!Spec

-----------------------------------------------------------------------------
(* Steps, as far as the edges see them.                                     *)

\* What stays of every edge there is.
EdgesStay ==
    \A i \in DOMAIN edges : /\ edges'[i].lineage = edges[i].lineage /\ edges'[i].col = edges[i].col
                            /\ edges'[i].from = edges[i].from /\ edges'[i].to = edges[i].to

\* The edge e is expired now.
Ends(e) ==
    /\ e \in DOMAIN edges /\ DOMAIN edges' = DOMAIN edges
    /\ EdgesStay
    /\ Current(edges)' = Current(edges) \ {e}
    /\ \A l : LiveCopies(l)' = LiveCopies(l) \ {e}

\* A copy of the lineage l joins from and to now.
Begins(n, l, col, from, to) ==
    /\ n \notin DOMAIN edges /\ DOMAIN edges' = DOMAIN edges \cup {n}
    /\ EdgesStay
    /\ Current(edges)' = Current(edges) \cup {n}
    /\ \A k : LiveCopies(k) \subseteq LiveCopies(k)'
    /\ \A k : k = l => n \in LiveCopies(k)'
    /\ edges'[n].lineage = l /\ edges'[n].col = col
    /\ edges'[n].from = from /\ edges'[n].to = to

LEMMA StampEnds ==
    ASSUME TypeOK, NEW e \in DOMAIN edges, NEW ts \in Nat, ts # NeverExpires,
           edges' = Stamped(edges, e, ts)
    PROVE  Ends(e)
<1> DEFINE v == [edges[e] EXCEPT !.expired = ts]
<1>1. edges \in Seq(Edge) /\ DOMAIN edges = 1 .. Len(edges) /\ Len(edges) \in Nat
  BY LenProperties DEF TypeOK
<1>2. edges[e] \in Edge
  BY <1>1, ElementOfSeq
<1>3. /\ v \in Edge /\ v.lineage = edges[e].lineage /\ v.col = edges[e].col
      /\ v.from = edges[e].from /\ v.to = edges[e].to /\ v.expired = ts
  BY <1>2 DEF Edge
<1>4. edges' = [edges EXCEPT ![e] = v]
  BY DEF Stamped
<1> HIDE DEF v
<1>5. /\ edges' \in Seq(Edge) /\ Len(edges') = Len(edges)
      /\ \A j \in 1 .. Len(edges) : edges'[j] = IF j = e THEN v ELSE edges[j]
  BY <1>1, <1>3, <1>4, ExceptSeq
<1>6. DOMAIN edges' = DOMAIN edges
  BY <1>1, <1>5, LenProperties
<1>7. EdgesStay
  BY <1>1, <1>3, <1>5 DEF EdgesStay
<1>8. Current(edges)' = Current(edges) \ {e}
  BY <1>1, <1>3, <1>5, <1>6 DEF Current
<1>9. Current(edges) \subseteq DOMAIN edges
  BY DEF Current
<1>10. \A l : LiveCopies(l)' = LiveCopies(l) \ {e}
  BY <1>7, <1>8, <1>9 DEF LiveCopies, EdgesStay
<1> QED BY <1>6, <1>7, <1>8, <1>10 DEF Ends

LEMMA InsertBegins ==
    ASSUME TypeOK, NEW d \in Edge, d.expired = NeverExpires, edges' = Append(edges, d)
    PROVE  Begins(Len(edges) + 1, d.lineage, d.col, d.from, d.to)
<1>1. edges \in Seq(Edge) /\ DOMAIN edges = 1 .. Len(edges) /\ Len(edges) \in Nat
  BY LenProperties DEF TypeOK
<1>2. PICK n : n = Len(edges) + 1
  OBVIOUS
<1>3. /\ edges' \in Seq(Edge) /\ Len(edges') = Len(edges) + 1
      /\ \A i \in 1 .. Len(edges) : edges'[i] = edges[i]
      /\ edges'[n] = d
  BY <1>1, <1>2, AppendProperties
<1>4. DOMAIN edges' = DOMAIN edges \cup {n} /\ n \notin DOMAIN edges
  BY <1>1, <1>2, <1>3, LenProperties
<1>5. EdgesStay
  BY <1>1, <1>3 DEF EdgesStay
<1>6. Current(edges)' = Current(edges) \cup {n} /\ Current(edges) \subseteq DOMAIN edges
  BY <1>1, <1>3, <1>4 DEF Current
<1>7. \A k : LiveCopies(k) \subseteq LiveCopies(k)'
  BY <1>5, <1>6 DEF LiveCopies, EdgesStay
<1>8. \A k : k = d.lineage => n \in LiveCopies(k)'
  BY <1>3, <1>6 DEF LiveCopies
<1> QED BY <1>2, <1>3, <1>4, <1>5, <1>6, <1>7, <1>8 DEF Begins

-----------------------------------------------------------------------------
(* The invariant about the relations, one group of actions at a time.       *)

LEMMA Unwritten ==
    ASSUME UNCHANGED <<docs, edges>>
    PROVE  /\ Current(docs)' = Current(docs) /\ Current(edges)' = Current(edges)
           /\ \A l : LiveCopies(l)' = LiveCopies(l)
           /\ EdgesStay
BY DEF Current, LiveCopies, EdgesStay

\* Nothing of the expired version is left to handle.
Quiet(t) ==
    \A e \in DOMAIN edges : Relation(e) =>
        edges[e].from \in Current(docs) /\ edges[e].to \in Current(docs)

(* Outside update_entity and the cascade no relation hangs.                 *)
LEMMA QuietPlaces ==
    ASSUME NEW t \in Threads, RelationsHold(t),
           op[t].pc \in {"idle", "expire", "cascade", "readTo", "replace", "edgeExpire",
                        "edgeCreate", "insertClass"}
    PROVE  Quiet(t)
BY DEF RelationsHold, Sound, FromHangs, ToHangs, MayHang, Quiet

(* A handler that begins: the store is quiet.                               *)
LEMMA StartKeepsRelations ==
    ASSUME OneAtATime, VersionInv, NEW t \in Threads, RelationsHold(t), StartOf(t)
    PROVE  RelationsHold(t)'
<1>1. /\ op \in [Threads -> Op] /\ op[t] \in Op /\ op[t].pc = "idle"
      /\ UNCHANGED <<docs, edges, retired>>
  BY DEF VersionInv, IndInv, TypeOK, StartOf, BeginCreateClass, BeginUpdate, BeginCascade,
              BeginRelate, BeginUpdateEdge, Begin, store
<1>2. Quiet(t) /\ \A l \in DOMAIN edges : Kept(t, l)
  BY <1>1, QuietPlaces DEF RelationsHold
<1>3. InHand(t)'
  <2>1. CASE BeginCreateClass(t)
    <3>1. op'[t].pc = "insertClass" /\ op'[t].cols = <<>>
      BY <1>1, <2>1 DEF BeginCreateClass, Begin, IdleOp
    <3> QED BY <3>1 DEF InHand, Lists
  <2>2. CASE BeginUpdate(t)
    <3>1. PICK path \in UpdatePaths : op'[t].pc = "expire" /\ op'[t].cols = EdgeCollectionsOf(path)
      BY <1>1, <2>2 DEF BeginUpdate, Begin, IdleOp
    <3>2. path \in {"edit", "revert"}
      BY DEF OneAtATime
    <3>3. /\ op'[t].cols \in Lists /\ op'[t].cols # <<>> /\ Head(op'[t].cols) = "relation"
      BY <3>1, <3>2 DEF EdgeCollectionsOf, RepoEdgeCollections, TemporalEdgeCollections, Lists
    <3> QED BY <3>1, <3>3 DEF InHand, RelationAhead
  <2>3. CASE BeginCascade(t)
    <3>1. op'[t].pc = "cascade" /\ op'[t].cols = <<"relation">> /\ op'[t].todo = {}
      BY <1>1, <2>3 DEF BeginCascade, Begin, IdleOp, RepoEdgeCollections
    <3> QED BY <3>1 DEF InHand, Lists
  <2>4. CASE BeginRelate(t)
    <3>1. op'[t].pc = "readTo" /\ op'[t].cols = <<>>
      BY <1>1, <2>4 DEF BeginRelate, Begin, IdleOp
    <3> QED BY <3>1 DEF InHand, Lists
  <2>5. CASE BeginUpdateEdge(t)
    <3>1. PICK e \in Current(edges) : /\ edges[e].col = "relation"
                                    /\ op'[t].pc = "edgeExpire" /\ op'[t].cols = <<>>
                                    /\ op'[t].cur = e
      BY <1>1, <2>5 DEF BeginUpdateEdge, Begin, IdleOp
    <3>2. Relation(e) /\ e \in DOMAIN edges
      BY <3>1 DEF Relation, Current
    <3> QED BY <1>1, <1>2, <3>1, <3>2, Unwritten DEF InHand, Lists, Quiet
  <2> QED BY <2>1, <2>2, <2>3, <2>4, <2>5 DEF StartOf
<1>4. \A e \in DOMAIN edges' : Relation(e)' => Sound(t, e)'
  BY <1>1, <1>2, Unwritten DEF Relation, Sound, Quiet
<1>5. \A l \in DOMAIN edges' : Kept(t, l)'
  BY <1>1, <1>2, Unwritten DEF Kept
<1> QED BY <1>3, <1>4, <1>5 DEF RelationsHold

(* A handler that ends, or reads the next class, with nothing left to do.   *)
LEMMA EndKeepsRelations ==
    ASSUME OneAtATime, VersionInv, NEW t \in Threads, RelationsHold(t),
           Quiet(t), op[t].pc \notin {"edgeCreate"}, op[t].cur = 0 \/ op[t].pc = "edgeExpire",
           UNCHANGED <<docs, edges, retired>>, InHand(t)'
    PROVE  RelationsHold(t)'
<1>1. \A e \in DOMAIN edges' : Relation(e)' => Sound(t, e)'
  BY Unwritten DEF Relation, Sound, Quiet
<1>2. \A l \in DOMAIN edges' : Kept(t, l)'
  BY Unwritten DEF Kept, RelationsHold
<1> QED BY <1>1, <1>2 DEF RelationsHold

(* The queries, whose results are the edges left to handle.                 *)
LEMMA QueryKeepsRelations ==
    ASSUME OneAtATime, VersionInv, NEW t \in Threads, RelationsHold(t),
           \/ QueryOutbound(t) \/ QueryInbound(t) \/ NextCollection(t) \/ FinishUpdate(t)
           \/ QueryTouching(t) \/ ReadTarget(t) \/ TargetMissing(t)
    PROVE  RelationsHold(t)'
<1>1. /\ op \in [Threads -> Op] /\ op[t] \in Op /\ OpKnows(t) /\ InHand(t)
      /\ op[t].cols \in Lists
  BY DEF VersionInv, IndInv, TypeOK, RelationsHold, InHand
<1>2. UNCHANGED <<docs, edges, retired>>
  BY DEF QueryOutbound, QueryInbound, NextCollection, FinishUpdate, QueryTouching,
         ReadTarget, TargetMissing, store
<1>3. \A e \in DOMAIN edges : Relation(e) => Sound(t, e)
  BY DEF RelationsHold
<1>4. \A l \in DOMAIN edges : Kept(t, l)
  BY DEF RelationsHold
<1>5. op[t].cols # <<>> => Tail(op[t].cols) \in Lists
  <2>1. /\ Tail(<<"relation">>) = <<>> /\ Tail(<<"extracted_from">>) = <<>>
        /\ Tail(<<"relation", "extracted_from">>) = <<"extracted_from">>
    OBVIOUS
  <2> QED BY <1>1, <2>1 DEF Lists
<1>6. ASSUME op[t].cur = 0 \/ op[t].pc \notin {"outbound", "inbound", "edgeCreate"}
      PROVE  \A l \in DOMAIN edges' : Kept(t, l)'
  BY <1>2, <1>4, <1>6, Unwritten DEF Kept
<1>7. CASE QueryOutbound(t)
  <2>1. op[t].pc = "collect" /\ op[t].cols # <<>> /\ op[t].cur = 0
    BY <1>1, <1>7 DEF QueryOutbound, OpKnows
  <2>2. /\ op'[t].pc = "outbound" /\ op'[t].key = op[t].key /\ op'[t].cols = op[t].cols
        /\ op'[t].cur = op[t].cur /\ op'[t].todo = Outbound(Head(op[t].cols), op[t].key)
    BY <1>1, <1>7 DEF QueryOutbound, Op
  <2>3. InHand(t)'
    BY <1>1, <1>2, <2>1, <2>2, Unwritten DEF InHand, Outbound
  <2>4. \A e \in DOMAIN edges' : Relation(e)' => Sound(t, e)'
    BY <1>2, <1>3, <2>1, <2>2, Unwritten
       DEF Relation, Sound, FromHangs, ToHangs, MayHang, RelationAhead, Outbound
  <2> QED BY <1>6, <2>1, <2>3, <2>4 DEF RelationsHold
<1>8. CASE QueryInbound(t)
  <2>1. op[t].pc = "outbound" /\ op[t].cur = 0 /\ op[t].todo = {}
    BY <1>8 DEF QueryInbound
  <2>2. /\ op'[t].pc = "inbound" /\ op'[t].key = op[t].key /\ op'[t].cols = op[t].cols
        /\ op'[t].cur = op[t].cur /\ op'[t].todo = Inbound(Head(op[t].cols), op[t].key)
    BY <1>1, <1>8 DEF QueryInbound, Op
  <2>3. InHand(t)'
    BY <1>1, <1>2, <2>1, <2>2, Unwritten DEF InHand, Inbound
  <2>4. \A e \in DOMAIN edges' : Relation(e)' => Sound(t, e)'
    BY <1>2, <1>3, <2>1, <2>2, Unwritten
       DEF Relation, Sound, FromHangs, ToHangs, MayHang, RelationAhead, Inbound
  <2> QED BY <1>6, <2>1, <2>3, <2>4 DEF RelationsHold
<1>9. CASE NextCollection(t)
  <2>1. op[t].pc = "inbound" /\ op[t].cur = 0 /\ op[t].todo = {} /\ op[t].cols # <<>>
    BY <1>1, <1>9 DEF NextCollection, OpKnows
  <2>2. op'[t].pc = "collect" /\ op'[t].cols = Tail(op[t].cols)
    BY <1>1, <1>9 DEF NextCollection, Op
  <2>3. InHand(t)'
    BY <1>5, <2>1, <2>2 DEF InHand
  <2>4. Quiet(t)
    BY <1>3, <2>1 DEF Quiet, Sound, FromHangs, ToHangs, MayHang
  <2> QED BY <1>2, <2>1, <2>3, <2>4, EndKeepsRelations
<1>10. CASE FinishUpdate(t) \/ TargetMissing(t)
  <2>1. op'[t].pc = "idle" /\ op'[t].cols = <<>>
    BY <1>1, <1>10 DEF FinishUpdate, TargetMissing, Finish, IdleOp
  <2>2. op[t].pc = "readTo" \/ (op[t].pc = "collect" /\ op[t].cols = <<>>)
    BY <1>10 DEF FinishUpdate, TargetMissing
  <2>3. InHand(t)'
    BY <2>1 DEF InHand, Lists
  <2>4. Quiet(t)
    BY <1>3, <2>2 DEF Quiet, Sound, FromHangs, ToHangs, MayHang, RelationAhead
  <2>5. \A e \in DOMAIN edges' : Relation(e)' => Sound(t, e)'
    BY <1>2, <2>4, Unwritten DEF Relation, Sound, Quiet
  <2> QED BY <1>6, <2>2, <2>3, <2>5 DEF RelationsHold
<1>11. CASE QueryTouching(t)
  <2>1. op[t].pc = "sweep" /\ op[t].todo = {} /\ op[t].cols \in {<<>>, <<"relation">>}
    BY <1>1, <1>11 DEF QueryTouching, InHand
  <2>2. CASE op[t].cols = <<>>
    <3>1. op'[t].pc = "idle" /\ op'[t].cols = <<>>
      BY <1>1, <1>11, <2>2 DEF QueryTouching, Finish, IdleOp
    <3>2. Quiet(t)
      BY <1>3, <2>1, <2>2 DEF Quiet, Sound, FromHangs, ToHangs, MayHang, RelationAhead
    <3>3. \A e \in DOMAIN edges' : Relation(e)' => Sound(t, e)'
      BY <1>2, <3>2, Unwritten DEF Relation, Sound, Quiet
    <3>4. InHand(t)'
      BY <3>1 DEF InHand, Lists
    <3> QED BY <1>6, <2>1, <3>3, <3>4 DEF RelationsHold
  <2>3. CASE op[t].cols = <<"relation">>
    <3>1. /\ op'[t].pc = "sweep" /\ op'[t].cols = <<>> /\ op'[t].key = op[t].key
          /\ op'[t].todo = Outbound("relation", op[t].key) \cup Inbound("relation", op[t].key)
      <4>1. /\ op[t].cols # <<>> /\ Head(op[t].cols) = "relation" /\ Tail(op[t].cols) = <<>>
        BY <2>3
      <4>2. op' = [op EXCEPT ![t].cols = Tail(op[t].cols),
                             ![t].todo = Outbound(Head(op[t].cols), op[t].key)
                                           \cup Inbound(Head(op[t].cols), op[t].key)]
        BY <1>1, <1>11, <4>1 DEF QueryTouching
      <4> QED BY <1>1, <2>1, <4>1, <4>2 DEF Op
    <3>2. InHand(t)'
      BY <3>1 DEF InHand, RelationAhead, Lists
    <3>3. \A e \in DOMAIN edges' : Relation(e)' => Sound(t, e)'
      BY <1>2, <1>3, <2>1, <3>1, Unwritten
         DEF Relation, Sound, FromHangs, ToHangs, MayHang, RelationAhead, Outbound, Inbound
    <3> QED BY <1>6, <2>1, <3>2, <3>3 DEF RelationsHold
  <2> QED BY <2>1, <2>2, <2>3
<1>12. CASE ReadTarget(t)
  <2>1. op[t].pc = "readTo" /\ op'[t].pc = "replace" /\ op'[t].cols = op[t].cols
    <3>1. PICK k \in Current(docs) :
             op' = [op EXCEPT ![t].pc = "replace", ![t].new = k,
                              ![t].todo = Outbound("relation", op[t].key)
                                            \cap Inbound("relation", k)]
      BY <1>12 DEF ReadTarget
    <3> QED BY <1>1, <1>12, <3>1 DEF ReadTarget, Op
  <2>2. InHand(t)'
    BY <1>1, <2>1 DEF InHand
  <2>3. \A e \in DOMAIN edges' : Relation(e)' => Sound(t, e)'
    BY <1>2, <1>3, <2>1, Unwritten DEF Relation, Sound, FromHangs, ToHangs, MayHang
  <2> QED BY <1>6, <2>1, <2>2, <2>3 DEF RelationsHold
<1> QED BY <1>7, <1>8, <1>9, <1>10, <1>11, <1>12

(* The writes to the versions.  What hung on the version retired is what    *)
(* the queries still to come will find.                                     *)
LEMMA VersionStepKeepsRelations ==
    ASSUME OneAtATime, VersionInv, NEW t \in Threads, RelationsHold(t),
           InsertClass(t) \/ ExpireOld(t) \/ CreateNew(t) \/ ExpireClass(t)
    PROVE  RelationsHold(t)'
<1>1. /\ op \in [Threads -> Op] /\ op[t] \in Op /\ InHand(t) /\ VersionKnown(t)
      /\ \A e \in DOMAIN edges : Relation(e) => Sound(t, e)
  BY DEF VersionInv, IndInv, TypeOK, RelationsHold
<1>2. UNCHANGED <<edges, retired>>
  BY DEF InsertClass, ExpireOld, CreateNew, ExpireClass
<1>3. Current(edges)' = Current(edges) /\ \A l : LiveCopies(l)' = LiveCopies(l)
  BY <1>2 DEF Current, LiveCopies
<1>4. \A l \in DOMAIN edges' : Kept(t, l)'
  <2>1. op[t].pc \notin {"outbound", "inbound", "edgeCreate"}
    BY DEF InsertClass, ExpireOld, CreateNew, ExpireClass
  <2> QED BY <1>2, <1>3, <2>1 DEF Kept, RelationsHold
<1>5. CASE InsertClass(t)
  <2>1. op[t].pc = "insertClass" /\ op'[t].pc = "idle" /\ op'[t].cols = <<>>
    BY <1>1, <1>5 DEF InsertClass, Finish, IdleOp
  <2>2. Current(docs) \subseteq Current(docs)'
    <3>1. \/ UNCHANGED docs
          \/ \E c, v : Adds(c, v)
      BY <1>5, <2>1, VersionSteps DEF Act, StepOf
    <3> QED BY <3>1 DEF Adds, Current
  <2>3. InHand(t)'
    BY <2>1 DEF InHand, Lists
  <2>4. \A e \in DOMAIN edges' : Relation(e)' => Sound(t, e)'
    BY <1>1, <1>2, <1>3, <2>1, <2>2 DEF Relation, Sound, FromHangs, ToHangs, MayHang
  <2> QED BY <1>4, <2>3, <2>4 DEF RelationsHold
<1>6. CASE ExpireOld(t) \/ ExpireClass(t)
  <2>1. op[t].pc \in {"expire", "cascade"} /\ Quiet(t)
    BY <1>6, QuietPlaces DEF ExpireOld, ExpireClass
  <2>2. /\ op'[t].key = op[t].key /\ op'[t].cols = op[t].cols
        /\ op'[t].todo = op[t].todo
        /\ op[t].pc = "expire" => op'[t].pc = "create"
        /\ op[t].pc = "cascade" => op'[t].pc = "sweep"
    BY <1>1, <1>6 DEF ExpireOld, ExpireClass, Goto, Op
  <2>3. Current(docs) \ {op[t].key} \subseteq Current(docs)'
    <3>1. UNCHANGED docs \/ Retires(op[t].key)
      BY <1>6, <2>1, VersionSteps DEF Act, StepOf
    <3> QED BY <3>1 DEF Retires, Current
  <2>4. op[t].pc = "cascade" => op[t].cols = <<"relation">> /\ op[t].todo = {}
    BY <1>1 DEF InHand
  <2>5. op'[t].pc = "sweep" => op'[t].cols = <<"relation">> /\ op'[t].todo = {}
    BY <2>1, <2>2, <2>4
  <2>6. RelationAhead(t)'
    <3>1. Head(<<"relation">>) = "relation" /\ <<"relation">> # <<>>
      OBVIOUS
    <3>2. op[t].pc = "expire" => op[t].cols # <<>> /\ Head(op[t].cols) = "relation"
      BY <1>1 DEF InHand, RelationAhead
    <3> QED BY <2>1, <2>2, <2>4, <3>1, <3>2 DEF RelationAhead
  <2>7. InHand(t)'
    <3>1. op'[t].cols \in Lists
      BY <1>1, <2>2 DEF InHand
    <3> QED BY <2>1, <2>2, <2>5, <2>6, <3>1 DEF InHand
  <2>8. \A e \in DOMAIN edges' : Relation(e)' => Sound(t, e)'
    BY <1>2, <1>3, <2>1, <2>2, <2>3, <2>6 DEF Quiet, Relation, Sound, FromHangs, ToHangs, MayHang
  <2> QED BY <1>4, <2>7, <2>8 DEF RelationsHold
<1>7. CASE CreateNew(t)
  <2>1. /\ op[t].pc = "create" /\ op'[t].pc = "collect" /\ op'[t].key = op[t].key
        /\ op'[t].cols = op[t].cols
    BY <1>1, <1>7 DEF CreateNew, Op
  <2>2. Current(docs) \subseteq Current(docs)'
    <3>1. \/ UNCHANGED docs
          \/ \E c, v : Adds(c, v)
      BY <1>7, <2>1, VersionSteps DEF Act, StepOf
    <3> QED BY <3>1 DEF Adds, Current
  <2>3. InHand(t)' /\ RelationAhead(t)'
    BY <1>1, <2>1 DEF InHand, RelationAhead
  <2>4. \A e \in DOMAIN edges' : Relation(e)' => Sound(t, e)'
    BY <1>1, <1>2, <1>3, <2>1, <2>2, <2>3 DEF Relation, Sound, FromHangs, ToHangs, MayHang
  <2> QED BY <1>4, <2>3, <2>4 DEF RelationsHold
<1> QED BY <1>5, <1>6, <1>7

(* An edge is expired: to be copied, or because somebody meant to end it.   *)
LEMMA StampKeepsRelations ==
    ASSUME OneAtATime, VersionInv, NEW t \in Threads, RelationsHold(t),
           ExpireEdge(t) \/ SweepEdge(t) \/ ReplaceEdge(t) \/ ExpireEdgeVersion(t)
    PROVE  RelationsHold(t)'
<1>1. /\ op \in [Threads -> Op] /\ op[t] \in Op /\ OpKnows(t) /\ InHand(t) /\ TypeOK
      /\ \A e \in DOMAIN edges : Relation(e) => Sound(t, e)
      /\ \A l \in DOMAIN edges : Kept(t, l)
      /\ op[t].cols \in Lists /\ 0 \notin DOMAIN edges
  BY LenProperties DEF VersionInv, IndInv, TypeOK, RelationsHold, InHand
<1>2. UNCHANGED docs /\ Current(docs)' = Current(docs)
  BY DEF ExpireEdge, SweepEdge, ReplaceEdge, ExpireEdgeVersion, Current
<1>3. ~WriteFails
  BY DEF WriteFails, OneAtATime, VersionInv
<1>4. CASE ExpireEdge(t)
  <2>1. PICK e \in op[t].todo :
          /\ edges' = Stamped(edges, e, op[t].now)
          /\ op' = [op EXCEPT ![t].cur = e, ![t].todo = @ \ {e}]
    BY <1>4 DEF ExpireEdge
  <2>2. /\ op[t].pc \in {"outbound", "inbound"} /\ op[t].cur = 0 /\ UNCHANGED retired
        /\ e \in DOMAIN edges
    BY <1>1, <1>4, <2>1 DEF ExpireEdge, OpKnows
  <2>3. /\ op'[t].pc = op[t].pc /\ op'[t].key = op[t].key /\ op'[t].cols = op[t].cols
        /\ op'[t].cur = e /\ op'[t].todo = op[t].todo \ {e}
    BY <1>1, <2>1 DEF Op
  <2>4. Ends(e)
    BY <1>1, <2>1, <2>2, ClockFacts, StampEnds
  <2>5. /\ edges[e].col = Head(op[t].cols) /\ e \in Current(edges)
        /\ \A f \in op[t].todo : f \in Current(edges) /\ edges[f].col = Head(op[t].cols)
    BY <1>1, <2>1, <2>2 DEF InHand
  <2>6. RelationAhead(t) => Sound(t, e)
    BY <1>1, <2>2, <2>5 DEF RelationAhead, Relation
  <2>7. op[t].pc = "outbound" /\ RelationAhead(t) => edges[e].to \in Current(docs) \cup {op[t].key}
    BY <2>6 DEF Sound, ToHangs, MayHang
  <2>8. op[t].pc = "inbound" /\ RelationAhead(t) => edges[e].from \in Current(docs)
    BY <2>6 DEF Sound, FromHangs, MayHang
  <2>9. InHand(t)'
    BY <1>1, <1>2, <2>2, <2>3, <2>4, <2>5, <2>7, <2>8 DEF InHand, RelationAhead, Ends, EdgesStay, OpKnows
  <2>10. \A f \in DOMAIN edges' : Relation(f)' => Sound(t, f)'
    BY <1>1, <1>2, <2>2, <2>3, <2>4
       DEF Relation, Sound, FromHangs, ToHangs, MayHang, RelationAhead, Ends, EdgesStay
  <2>11. \A l \in DOMAIN edges' : Kept(t, l)'
    <3> SUFFICES ASSUME NEW l \in DOMAIN edges, LiveCopies(l)' = {}, Kept(t, l)
                 PROVE  Kept(t, l)'
      BY <1>1, <2>4 DEF Kept, Ends
    <3>1. CASE LiveCopies(l) = {}
      BY <2>2, <2>4, <3>1 DEF Kept, Ends, EdgesStay
    <3>2. CASE e \in LiveCopies(l)
      BY <1>1, <2>2, <2>3, <2>4, <3>2 DEF Kept, Ends, EdgesStay, LiveCopies
    <3> QED BY <2>4, <3>1, <3>2 DEF Ends
  <2> QED BY <2>9, <2>10, <2>11 DEF RelationsHold
<1>5. CASE SweepEdge(t) \/ ReplaceEdge(t)
  <2>1. PICK e \in op[t].todo :
          /\ StampEdge(e) /\ retired' = retired \cup {edges[e].lineage}
          /\ op' = [op EXCEPT ![t].todo = @ \ {e}]
    BY <1>5 DEF SweepEdge, ReplaceEdge
  <2>2. op[t].pc \in {"sweep", "replace"} /\ e \in DOMAIN edges
    BY <1>1, <1>5, <2>1 DEF SweepEdge, ReplaceEdge, OpKnows
  <2>3. /\ op'[t].pc = op[t].pc /\ op'[t].key = op[t].key /\ op'[t].cols = op[t].cols
        /\ op'[t].todo = op[t].todo \ {e}
    BY <1>1, <2>1 DEF Op
  <2>4. Ends(e)
    BY <1>1, <1>3, <2>1, <2>2, ClockFacts, StampEnds DEF StampEdge
  <2>5. InHand(t)'
    BY <1>1, <2>2, <2>3 DEF InHand, RelationAhead
  <2>6. \A f \in DOMAIN edges' : Relation(f)' => Sound(t, f)'
    BY <1>1, <1>2, <2>2, <2>3, <2>4
       DEF Relation, Sound, FromHangs, ToHangs, MayHang, RelationAhead, Ends, EdgesStay
  <2>7. \A l \in DOMAIN edges' : Kept(t, l)'
    <3> SUFFICES ASSUME NEW l \in DOMAIN edges, LiveCopies(l)' = {}, Kept(t, l)
                 PROVE  Kept(t, l)'
      BY <1>1, <2>4 DEF Kept, Ends
    <3>1. CASE LiveCopies(l) = {}
      BY <2>1, <2>2, <2>4, <3>1 DEF Kept, Ends, EdgesStay
    <3>2. CASE e \in LiveCopies(l)
      <4>1. l \in retired'
        BY <2>1, <3>2 DEF LiveCopies
      <4> QED BY <4>1 DEF Kept
    <3> QED BY <2>4, <3>1, <3>2 DEF Ends
  <2> QED BY <2>5, <2>6, <2>7 DEF RelationsHold
<1>6. CASE ExpireEdgeVersion(t)
  <2>1. op[t].pc = "edgeExpire" /\ UNCHANGED retired /\ op[t].cur \in DOMAIN edges
    BY <1>1, <1>6 DEF ExpireEdgeVersion, OpKnows
  <2>2. /\ op'[t].pc = "edgeCreate" /\ op'[t].cur = op[t].cur /\ op'[t].cols = op[t].cols
    BY <1>1, <1>6 DEF ExpireEdgeVersion, Goto, Op
  <2>3. PICK e \in DOMAIN edges : e = op[t].cur
    BY <2>1
  <2>4. Ends(e)
    BY <1>1, <1>3, <1>6, <2>3, ClockFacts, StampEnds DEF ExpireEdgeVersion, StampEdge
  <2>5. InHand(t)'
    BY <1>1, <1>2, <2>1, <2>2, <2>3, <2>4 DEF InHand, Ends, EdgesStay
  <2>6. \A f \in DOMAIN edges' : Relation(f)' => Sound(t, f)'
    BY <1>1, <1>2, <2>1, <2>4 DEF Relation, Sound, FromHangs, ToHangs, MayHang, Ends, EdgesStay
  <2>7. \A l \in DOMAIN edges' : Kept(t, l)'
    <3> SUFFICES ASSUME NEW l \in DOMAIN edges, LiveCopies(l)' = {}, Kept(t, l)
                 PROVE  Kept(t, l)'
      BY <1>1, <2>4 DEF Kept, Ends
    <3>1. CASE LiveCopies(l) = {}
      BY <2>1, <2>4, <3>1 DEF Kept, Ends, EdgesStay
    <3>2. CASE e \in LiveCopies(l)
      <4>1. edges[e].lineage = l /\ edges'[e].lineage = l /\ e # 0
        BY <1>1, <2>4, <3>2 DEF LiveCopies, Ends, EdgesStay
      <4> QED BY <2>2, <2>3, <4>1 DEF Kept
    <3> QED BY <2>4, <3>1, <3>2 DEF Ends
  <2> QED BY <2>5, <2>6, <2>7 DEF RelationsHold
<1> QED BY <1>4, <1>5, <1>6

(* What each of the three inserts inserts.                                  *)
LEMMA WhatBegins ==
    ASSUME VersionInv, NEW t \in Threads,
           InsertCopy(t) \/ InsertEdge(t) \/ CreateEdgeVersion(t)
    PROVE  \E n :
       /\ InsertEdge(t) => Begins(n, n, "relation", op[t].key, op[t].new)
       /\ ~InsertEdge(t) =>
             /\ op[t].cur \in DOMAIN edges
             /\ Begins(n, edges[op[t].cur].lineage, edges[op[t].cur].col,
                       IF op[t].pc = "outbound" THEN op[t].new ELSE edges[op[t].cur].from,
                       IF op[t].pc = "inbound" THEN op[t].new ELSE edges[op[t].cur].to)
<1>1. /\ TypeOK /\ OpKnows(t) /\ op[t] \in Op /\ Len(edges) + 1 \in Nat \ {0}
      /\ clock \in Nat /\ NeverExpires \in Nat
      /\ \A e \in DOMAIN edges : edges[e] \in Edge
  BY ClockFacts, BoundsAssumption, LenProperties, ElementOfSeq DEF VersionInv, IndInv, TypeOK
<1>2. CASE InsertEdge(t)
  <2>1. /\ edges' = Append(edges, NewEdge("relation", op[t].key, op[t].new))
    BY <1>2 DEF InsertEdge
  <2>2. /\ NewEdge("relation", op[t].key, op[t].new) \in Edge
        /\ NewEdge("relation", op[t].key, op[t].new).lineage = Len(edges) + 1
        /\ NewEdge("relation", op[t].key, op[t].new).col = "relation"
        /\ NewEdge("relation", op[t].key, op[t].new).from = op[t].key
        /\ NewEdge("relation", op[t].key, op[t].new).to = op[t].new
        /\ NewEdge("relation", op[t].key, op[t].new).expired = NeverExpires
    BY <1>1 DEF NewEdge, Edge, Op, Collections
  <2>3. Begins(Len(edges) + 1, Len(edges) + 1, "relation", op[t].key, op[t].new)
    <3>1. ASSUME NEW d \in Edge, d = NewEdge("relation", op[t].key, op[t].new)
          PROVE  Begins(Len(edges) + 1, d.lineage, d.col, d.from, d.to)
      BY <1>1, <2>1, <2>2, <3>1, InsertBegins
    <3> QED BY <2>2, <3>1
  <2> QED BY <1>2, <2>3
<1>3. ASSUME ~InsertEdge(t), NEW d \in Edge, d.expired = NeverExpires, edges' = Append(edges, d),
             op[t].cur \in DOMAIN edges,
             d.lineage = edges[op[t].cur].lineage, d.col = edges[op[t].cur].col,
             d.from = IF op[t].pc = "outbound" THEN op[t].new ELSE edges[op[t].cur].from,
             d.to = IF op[t].pc = "inbound" THEN op[t].new ELSE edges[op[t].cur].to
      PROVE  /\ op[t].cur \in DOMAIN edges
             /\ Begins(Len(edges) + 1, edges[op[t].cur].lineage, edges[op[t].cur].col,
                       IF op[t].pc = "outbound" THEN op[t].new ELSE edges[op[t].cur].from,
                       IF op[t].pc = "inbound" THEN op[t].new ELSE edges[op[t].cur].to)
  <2>1. Begins(Len(edges) + 1, d.lineage, d.col, d.from, d.to)
    BY <1>1, <1>3, InsertBegins
  <2> QED BY <1>3, <2>1
<1>4. CASE InsertCopy(t)
  <2>1. op[t].pc \in {"outbound", "inbound"} /\ op[t].cur # 0 /\ edges' = Append(edges, Copy(t))
    BY <1>4 DEF InsertCopy
  <2>2. op[t].cur \in DOMAIN edges /\ ~InsertEdge(t)
    BY <1>1, <2>1 DEF OpKnows, InsertEdge
  <2>3. /\ Copy(t) \in Edge /\ Copy(t).expired = NeverExpires
        /\ Copy(t).lineage = edges[op[t].cur].lineage /\ Copy(t).col = edges[op[t].cur].col
        /\ Copy(t).from = IF op[t].pc = "outbound" THEN op[t].new ELSE edges[op[t].cur].from
        /\ Copy(t).to = IF op[t].pc = "inbound" THEN op[t].new ELSE edges[op[t].cur].to
    BY <1>1, <2>2 DEF Copy, Edge, Op
  <2> QED BY <1>3, <2>1, <2>2, <2>3
<1>5. CASE CreateEdgeVersion(t)
  <2> DEFINE v == [edges[op[t].cur] EXCEPT !.created = clock, !.expired = NeverExpires]
  <2>1. op[t].pc = "edgeCreate" /\ edges' = Append(edges, v)
    BY <1>5 DEF CreateEdgeVersion
  <2>2. op[t].cur \in DOMAIN edges /\ ~InsertEdge(t)
    BY <1>1, <2>1 DEF OpKnows, InsertEdge
  <2>3. /\ v \in Edge /\ v.expired = NeverExpires
        /\ v.lineage = edges[op[t].cur].lineage /\ v.col = edges[op[t].cur].col
        /\ v.from = edges[op[t].cur].from /\ v.to = edges[op[t].cur].to
    BY <1>1, <2>2 DEF Edge
  <2> HIDE DEF v
  <2> QED BY <1>3, <2>1, <2>2, <2>3
<1> QED BY <1>2, <1>4, <1>5

(* An edge is inserted: the copy of the one in hand, or a relation between  *)
(* the two classes that were read.                                          *)
LEMMA InsertKeepsRelations ==
    ASSUME OneAtATime, VersionInv, NEW t \in Threads, RelationsHold(t),
           InsertCopy(t) \/ InsertEdge(t) \/ CreateEdgeVersion(t)
    PROVE  RelationsHold(t)'
<1>1. /\ op \in [Threads -> Op] /\ op[t] \in Op /\ OpKnows(t) /\ InHand(t) /\ VersionKnown(t)
      /\ \A e \in DOMAIN edges : Relation(e) => Sound(t, e)
      /\ \A l \in DOMAIN edges : Kept(t, l)
      /\ op[t].cols \in Lists
      /\ \A e \in DOMAIN edges : edges[e].lineage \in DOMAIN edges
  BY DEF VersionInv, IndInv, TypeOK, RelationsHold, InHand, EdgesWellFormed
<1>2. UNCHANGED <<docs, retired>> /\ Current(docs)' = Current(docs)
  BY DEF InsertCopy, InsertEdge, CreateEdgeVersion, Current
<1>3. ASSUME NEW n, NEW from, NEW to, op[t].cur \in DOMAIN edges,
             Begins(n, edges[op[t].cur].lineage, edges[op[t].cur].col, from, to)
      PROVE  \A l \in DOMAIN edges' : Kept(t, l)'
  <2> SUFFICES ASSUME NEW l \in DOMAIN edges' PROVE Kept(t, l)'
    OBVIOUS
  <2>1. CASE l = n
    BY <1>1, <1>3, <2>1 DEF Kept, Begins
  <2>2. CASE l # n
    <3>1. l \in DOMAIN edges /\ Kept(t, l)
      BY <1>1, <1>3, <2>2 DEF Begins
    <3>2. CASE LiveCopies(l) # {}
      BY <1>3, <3>2 DEF Kept, Begins
    <3>3. CASE edges[op[t].cur].lineage = l
      BY <1>3, <3>3 DEF Kept, Begins
    <3> QED BY <1>2, <1>3, <3>1, <3>2, <3>3 DEF Kept, Begins, EdgesStay
  <2> QED BY <2>1, <2>2
<1>4. CASE InsertCopy(t)
  <2>1. op[t].pc \in {"outbound", "inbound"} /\ op[t].cur # 0 /\ ~InsertEdge(t)
    BY <1>4 DEF InsertCopy, InsertEdge
  <2>2. /\ op'[t].pc = op[t].pc /\ op'[t].key = op[t].key /\ op'[t].cols = op[t].cols
        /\ op'[t].cur = 0 /\ op'[t].todo = op[t].todo
    BY <1>1, <1>4 DEF InsertCopy, Op
  <2>3. PICK n, from, to :
          /\ Begins(n, edges[op[t].cur].lineage, edges[op[t].cur].col, from, to)
          /\ from = IF op[t].pc = "outbound" THEN op[t].new ELSE edges[op[t].cur].from
          /\ to = IF op[t].pc = "inbound" THEN op[t].new ELSE edges[op[t].cur].to
    BY <1>4, <2>1, WhatBegins
  <2>4. op[t].new \in Current(docs) /\ op[t].cur \in DOMAIN edges
    BY <1>1, <2>1 DEF VersionKnown, OpKnows
  <2>5. InHand(t)'
    <3>1. /\ op'[t].todo \subseteq Current(edges)'
          /\ \A e \in op'[t].todo : edges'[e].col = Head(op'[t].cols)
      BY <1>1, <2>1, <2>2, <2>3 DEF InHand, Begins, EdgesStay, OpKnows
    <3> QED BY <1>1, <2>1, <2>2, <3>1 DEF InHand
  <2>6. Relation(n)' => Sound(t, n)'
    <3> SUFFICES ASSUME Relation(n)' PROVE Sound(t, n)'
      OBVIOUS
    <3>1. RelationAhead(t) /\ RelationAhead(t)'
      BY <1>1, <2>1, <2>2, <2>3 DEF Relation, Begins, InHand, RelationAhead, OpKnows
    <3>2. CASE op[t].pc = "outbound"
      <4>1. from \in Current(docs) /\ to \in Current(docs) \cup {op[t].key}
        BY <1>1, <2>1, <2>3, <2>4, <3>1, <3>2 DEF InHand
      <4> QED BY <1>2, <2>2, <2>3, <3>1, <3>2, <4>1 DEF Sound, ToHangs, MayHang, Begins
    <3>3. CASE op[t].pc = "inbound"
      <4>1. from \in Current(docs) /\ to \in Current(docs)
        BY <1>1, <2>1, <2>3, <2>4, <3>1, <3>3 DEF InHand
      <4> QED BY <1>2, <2>3, <4>1 DEF Sound, Begins
    <3> QED BY <2>1, <3>2, <3>3
  <2>7. \A f \in DOMAIN edges : Relation(f)' => Sound(t, f)'
    BY <1>1, <1>2, <2>1, <2>2, <2>3
       DEF Relation, Sound, FromHangs, ToHangs, MayHang, RelationAhead, Begins, EdgesStay
  <2>8. \A f \in DOMAIN edges' : Relation(f)' => Sound(t, f)'
    BY <2>3, <2>6, <2>7 DEF Begins
  <2>9. \A l \in DOMAIN edges' : Kept(t, l)'
    BY <1>3, <2>3, <2>4
  <2> QED BY <2>5, <2>8, <2>9 DEF RelationsHold
<1>5. CASE InsertEdge(t) \/ CreateEdgeVersion(t)
  <2>1. op[t].pc \in {"replace", "edgeCreate"} /\ op'[t].pc = "idle" /\ op'[t].cols = <<>>
    BY <1>1, <1>5 DEF InsertEdge, CreateEdgeVersion, Finish, IdleOp
  <2>2. Quiet(t)
    BY <2>1, QuietPlaces
  <2>3. InHand(t)'
    BY <2>1 DEF InHand, Lists
  <2>4. PICK n, l, from, to :
          /\ Begins(n, l, "relation", from, to)
          /\ from \in Current(docs) /\ to \in Current(docs)
          /\ \/ l = n /\ op[t].pc = "replace"
             \/ (op[t].cur \in DOMAIN edges /\ op[t].pc = "edgeCreate"
                      /\ l = edges[op[t].cur].lineage /\ edges[op[t].cur].col = "relation")
    <3>1. CASE InsertEdge(t)
      <4>1. op[t].pc = "replace"
        BY <3>1 DEF InsertEdge
      <4>2. op[t].key \in Current(docs) /\ op[t].new \in Current(docs)
        BY <1>1, <4>1 DEF VersionKnown
      <4> QED BY <3>1, <4>1, <4>2, WhatBegins
    <3>2. CASE CreateEdgeVersion(t)
      <4>1. op[t].pc = "edgeCreate" /\ ~InsertEdge(t)
        BY <3>2 DEF CreateEdgeVersion, InsertEdge
      <4>2. /\ edges[op[t].cur].col = "relation"
            /\ edges[op[t].cur].from \in Current(docs) /\ edges[op[t].cur].to \in Current(docs)
        BY <1>1, <4>1 DEF InHand
      <4>3. PICK n : /\ op[t].cur \in DOMAIN edges
                     /\ Begins(n, edges[op[t].cur].lineage, "relation",
                               edges[op[t].cur].from, edges[op[t].cur].to)
        BY <3>2, <4>1, <4>2, WhatBegins
      <4> QED BY <4>1, <4>2, <4>3
    <3> QED BY <1>5, <3>1, <3>2
  <2>5. \A f \in DOMAIN edges' : Relation(f)' => Sound(t, f)'
    BY <1>2, <2>2, <2>4 DEF Quiet, Relation, Sound, Begins, EdgesStay
  <2>6. \A k \in DOMAIN edges' : Kept(t, k)'
    <3>1. CASE l = n
      <4>1. \A k \in DOMAIN edges : LiveCopies(k) # {} => LiveCopies(k)' # {}
        BY <2>4 DEF Begins
      <4>2. op[t].pc = "replace"
        BY <1>1, <2>1, <2>4, <3>1 DEF Begins
      <4>3. \A k \in DOMAIN edges : Kept(t, k)'
        BY <1>1, <1>2, <2>4, <4>1, <4>2 DEF Kept, Begins, EdgesStay
      <4>4. Kept(t, n)'
        BY <2>4, <3>1 DEF Kept, Begins
      <4> QED BY <2>4, <4>3, <4>4 DEF Begins
    <3>2. CASE l # n
      BY <1>3, <2>4, <3>2
    <3> QED BY <3>1, <3>2
  <2> QED BY <2>3, <2>5, <2>6 DEF RelationsHold
<1> QED BY <1>4, <1>5

(* Stamps and copies leave an edge in the collection of the first copy.     *)
LEMMA CollectionsKept ==
    ASSUME OneAtATime, VersionInv, SameCollection, NEW t \in Threads, Act(t)
    PROVE  SameCollection'
<1>1. /\ TypeOK /\ OpKnows(t) /\ \A e \in DOMAIN edges : edges[e].lineage \in DOMAIN edges
  BY DEF VersionInv, IndInv, EdgesWellFormed
<1>2. ~WriteFails
  BY DEF WriteFails, OneAtATime, VersionInv
<1>3. CASE UNCHANGED edges
  BY <1>3 DEF SameCollection
<1>4. ASSUME NEW e, Ends(e) PROVE SameCollection'
  BY <1>1, <1>4 DEF SameCollection, Ends, EdgesStay
<1>5. ASSUME NEW n, NEW l, NEW col, NEW from, NEW to, Begins(n, l, col, from, to),
             l = n \/ (l \in DOMAIN edges /\ edges[l].col = col)
      PROVE  SameCollection'
  BY <1>1, <1>5 DEF SameCollection, Begins, EdgesStay
<1>6. CASE ExpireEdge(t)
  <2>1. PICK e \in op[t].todo : edges' = Stamped(edges, e, op[t].now)
    BY <1>6 DEF ExpireEdge
  <2>2. Ends(e)
    BY <1>1, <2>1, ClockFacts, StampEnds DEF OpKnows
  <2> QED BY <1>4, <2>2
<1>7. CASE SweepEdge(t) \/ ReplaceEdge(t) \/ ExpireEdgeVersion(t)
  <2>1. PICK e \in DOMAIN edges : StampEdge(e)
    BY <1>1, <1>7 DEF SweepEdge, ReplaceEdge, ExpireEdgeVersion, OpKnows
  <2>2. Ends(e)
    BY <1>1, <1>2, <2>1, ClockFacts, StampEnds DEF StampEdge
  <2> QED BY <1>4, <2>2
<1>8. CASE InsertCopy(t) \/ InsertEdge(t) \/ CreateEdgeVersion(t)
  <2>1. CASE InsertEdge(t)
    BY <1>5, <2>1, WhatBegins
  <2>2. CASE ~InsertEdge(t)
    <3>1. PICK n, from, to : /\ op[t].cur \in DOMAIN edges
                             /\ Begins(n, edges[op[t].cur].lineage, edges[op[t].cur].col, from, to)
      BY <1>8, <2>2, WhatBegins
    <3> QED BY <1>1, <1>5, <3>1 DEF SameCollection
  <2> QED BY <2>1, <2>2
<1>9. CASE ~(ExpireEdge(t) \/ SweepEdge(t) \/ ReplaceEdge(t) \/ ExpireEdgeVersion(t)
             \/ InsertCopy(t) \/ InsertEdge(t) \/ CreateEdgeVersion(t))
  <2>1. CASE StartOf(t) \/ Abort(t)
    BY <1>3, <2>1 DEF StartOf, BeginCreateClass, BeginUpdate, BeginCascade, BeginRelate,
                      BeginUpdateEdge, Abort, store
  <2>2. CASE StepOf(t)
    BY <1>3, <1>9, <2>2 DEF StepOf, InsertClass, ExpireOld, CreateNew, QueryOutbound, QueryInbound,
                      NextCollection, FinishUpdate, ExpireClass, QueryTouching, ReadTarget,
                      TargetMissing, store
  <2> QED BY <2>1, <2>2 DEF Act
<1> QED BY <1>6, <1>7, <1>8, <1>9

(* An uninterrupted step: aborts only count up.                             *)
LEMMA AbortsCount ==
    ASSUME TypeOK, NEW t \in Threads, Act(t), aborts' = 0
    PROVE  aborts = 0 /\ (StartOf(t) \/ StepOf(t))
<1>1. aborts \in Nat
  BY DEF TypeOK
<1>2. ~Abort(t)
  BY <1>1 DEF Abort
<1>3. CASE StartOf(t)
  BY <1>3 DEF StartOf, BeginCreateClass, BeginUpdate, BeginCascade, BeginRelate, BeginUpdateEdge
<1>4. CASE StepOf(t)
  BY <1>4 DEF StepOf, InsertClass, ExpireOld, CreateNew, QueryOutbound, QueryInbound, ExpireEdge,
              InsertCopy, NextCollection, FinishUpdate, ExpireClass, QueryTouching, SweepEdge,
              ReadTarget, TargetMissing, ReplaceEdge, InsertEdge, ExpireEdgeVersion,
              CreateEdgeVersion, counters
<1> QED BY <1>2, <1>3, <1>4 DEF Act

LEMMA NextKeepsRelationInv ==
    ASSUME OneAtATime, RelationInv, [Next]_vars
    PROVE  RelationInv'
<1>1. VersionInv /\ VersionInv'
  BY NextKeepsVersionInv DEF RelationInv
<1>2. CASE UNCHANGED vars
  <2>1. UNCHANGED <<docs, edges, op, retired, aborts>>
    BY <1>2 DEF vars
  <2>2. SameCollection'
    BY <2>1 DEF RelationInv, SameCollection
  <2>3. ASSUME NEW t \in Threads, RelationsHold(t) PROVE RelationsHold(t)'
    <3>1. InHand(t)'
      BY <2>1, <2>3, Unwritten DEF RelationsHold, InHand, RelationAhead
    <3>2. \A e \in DOMAIN edges' : Relation(e)' => Sound(t, e)'
      BY <2>1, <2>3, Unwritten
         DEF RelationsHold, Relation, Sound, FromHangs, ToHangs, MayHang, RelationAhead
    <3>3. \A l \in DOMAIN edges' : Kept(t, l)'
      BY <2>1, <2>3, Unwritten DEF RelationsHold, Kept
    <3> QED BY <3>1, <3>2, <3>3 DEF RelationsHold
  <2> QED BY <1>1, <2>1, <2>2, <2>3 DEF RelationInv
<1>3. CASE Next
  <2>1. PICK t \in Threads : Act(t)
    BY <1>3 DEF Next, Act
  <2>2. SameCollection'
    BY <1>1, <2>1, CollectionsKept DEF RelationInv
  <2>3. ASSUME aborts' = 0 PROVE RelationsHold(t)'
    <3>1. RelationsHold(t) /\ (StartOf(t) \/ StepOf(t))
      BY <1>1, <2>1, <2>3, AbortsCount DEF RelationInv, VersionInv, IndInv
    <3>2. CASE StartOf(t)
      BY <1>1, <3>1, <3>2, StartKeepsRelations
    <3>3. CASE StepOf(t)
      BY <1>1, <3>1, <3>3, QueryKeepsRelations, VersionStepKeepsRelations, StampKeepsRelations,
         InsertKeepsRelations DEF StepOf
    <3> QED BY <3>1, <3>2, <3>3
  <2>4. \A u \in Threads : u = t
    BY DEF OneAtATime, SingleThread
  <2> QED BY <1>1, <2>2, <2>3, <2>4 DEF RelationInv
<1> QED BY <1>2, <1>3

LEMMA InitEstablishesRelationInv == Init => RelationInv
<1> SUFFICES ASSUME Init PROVE RelationInv
  OBVIOUS
<1>1. VersionInv /\ EdgesWellFormed /\ TypeOK
  BY InitEstablishesVersionInv DEF VersionInv, IndInv
<1>2. DOMAIN docs = Seeded /\ Current(docs) = Seeded
  BY DEF Init, Current
<1>3. \A e \in DOMAIN edges :
          /\ e = 1 /\ edges[e].lineage = 1 /\ edges[e].expired = NeverExpires
          /\ edges[e].col = "relation" => edges[e].from \in Seeded /\ edges[e].to \in Seeded
  BY DEF Init, SeedEdge
<1>4. SameCollection
  BY <1>1, <1>3 DEF SameCollection, EdgesWellFormed
<1>5. ASSUME NEW t \in Threads PROVE RelationsHold(t)
  <2>1. op[t].pc = "idle" /\ op[t].cols = <<>>
    BY DEF Init, IdleOp
  <2>2. InHand(t)
    BY <2>1 DEF InHand, Lists
  <2>3. \A e \in DOMAIN edges : Relation(e) => Sound(t, e)
    BY <1>2, <1>3 DEF Relation, Sound
  <2>4. \A l \in DOMAIN edges : Kept(t, l)
    <3> SUFFICES ASSUME NEW l \in DOMAIN edges PROVE LiveCopies(l) # {}
      BY DEF Kept
    <3>1. l \in LiveCopies(l)
      BY <1>3 DEF LiveCopies, Current
    <3> QED BY <3>1
  <2> QED BY <2>2, <2>3, <2>4 DEF RelationsHold
<1> QED BY <1>1, <1>4, <1>5 DEF RelationInv

LEMMA RelationsInductive ==
    ASSUME OneAtATime
    PROVE  Spec => []RelationInv
<1>1. RelationInv /\ [Next]_vars => RelationInv'
  BY NextKeepsRelationInv
<1> QED BY InitEstablishesRelationInv, <1>1, PTL DEF Spec

(* Once every handler has finished, uninterrupted, no current relation is   *)
(* at an expired version: neither an edit nor the deletion or rejection of  *)
(* a class leaves one hanging (re_create_edges, expire_class_cascade).      *)
THEOREM RelationsStayAttached ==
    ASSUME OneAtATime, Threads # {}
    PROVE  Spec => []ReferentialIntegrity
<1>1. RelationInv => ReferentialIntegrity
  <2> SUFFICES ASSUME RelationInv, AllIdle, aborts = 0,
                      NEW e \in Current(edges), edges[e].col = "relation"
               PROVE  {edges[e].from, edges[e].to} \subseteq Current(docs)
    BY DEF ReferentialIntegrity
  <2>1. PICK t \in Threads : RelationsHold(t) /\ op[t].pc = "idle"
    BY DEF RelationInv, AllIdle
  <2>2. Relation(e) /\ e \in DOMAIN edges
    BY DEF Relation, Current
  <2> QED BY <2>1, <2>2, QuietPlaces DEF Quiet
<1> QED BY <1>1, RelationsInductive, PTL

(* Nor has one been lost: every relation nobody meant to end has a current  *)
(* copy between current versions, after any number of edits of either end,  *)
(* self-loops included (update_entity, re_create_edges).                    *)
THEOREM NoRelationIsLost ==
    ASSUME OneAtATime, Threads # {}
    PROVE  Spec => []NoRelationLost
<1>1. RelationInv => NoRelationLost
  <2> SUFFICES ASSUME RelationInv, AllIdle, aborts = 0, NEW l \in DOMAIN edges,
                      edges[l].col = "relation", l \notin retired, edges[l].lineage = l
               PROVE  \E e \in LiveCopies(l) :
                         {edges[e].from, edges[e].to} \subseteq Current(docs)
    BY DEF NoRelationLost
  <2>1. PICK t \in Threads : RelationsHold(t) /\ op[t].pc = "idle"
    BY DEF RelationInv, AllIdle
  <2>2. PICK e \in LiveCopies(l) : TRUE
    BY <2>1 DEF RelationsHold, Kept
  <2>3. Relation(e) /\ e \in DOMAIN edges
    BY <2>2 DEF Relation, LiveCopies, Current, RelationInv, SameCollection
  <2> QED BY <2>1, <2>3, QuietPlaces DEF Quiet
<1> QED BY <1>1, RelationsInductive, PTL
=============================================================================
