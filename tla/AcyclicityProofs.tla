-------------------------- MODULE AcyclicityProofs --------------------------
(***************************************************************************)
(* Two relations the program keeps free of circles: the subclass hierarchy *)
(* and the imports between ontologies.                                     *)
(*                                                                         *)
(* For any number of classes and any sequence of edits made one at a time, *)
(* completed or interrupted, moves close no cycle.  The walk up that looks *)
(* for one has no end, so a relation is acyclic when each of its edges,    *)
(* child to parent, has a set of classes that is closed under parents and  *)
(* holds the parent and not the child.  Such sets are combined directly;   *)
(* no induction along a path is needed.                                    *)
(*                                                                         *)
(* Then what an undo gives back: a bulk move has recorded, for each class  *)
(* it has moved, the parent that the class had, and has moved no other;    *)
(* what an undo has still to move is all that is not back in its place     *)
(* (UndoInv).                                                              *)
(*                                                                         *)
(* For any library and any number of handlers, imports close no circle     *)
(* that the traversals of the database can see: those stop after MaxDepth  *)
(* hops, so here a circle is a walk of at most MaxDepth + 1 of them, and   *)
(* LibraryInv says what each handler knows of the ontologies that nobody   *)
(* else is about.                                                          *)
(*                                                                         *)
(* The client that looks at what is imported comes last: what it is told   *)
(* of the sources, and that the depth-first search of the merged classes   *)
(* finds a cycle exactly when there is one (WalkInv).                      *)
(***************************************************************************)
EXTENDS ClassHierarchy, OntologyLibrary, EffectiveOntology, FiniteSetTheorems, SequenceTheorems, WellFoundedInduction, TLAPS

StaysIn(S, rel) == \A q \in rel : q[1] \in S => q[2] \in S
NoPath(rel, x, y) == \E S \in SUBSET Keys : x \in S /\ y \notin S /\ StaysIn(S, rel)

\* The relation of the edges that were not set by hand.
Derived == {Pair(e) : e \in {f \in links : ~f.manual}}

LEMMA NoPathIsUnreachable ==
    ASSUME NEW rel, NEW x, NEW y
    PROVE  ~Reaches(rel, x, y) <=> NoPath(rel, x, y)
BY DEF Reaches, NoPath, StaysIn

LEMMA FewerEdges ==
    ASSUME NEW rel, NEW sub, sub \subseteq rel
    PROVE  /\ \A x, y : ~Reaches(rel, x, y) => ~Reaches(sub, x, y)
           /\ AcyclicRelation(rel) => AcyclicRelation(sub)
<1>1. \A x, y : ~Reaches(rel, x, y) => ~Reaches(sub, x, y)
  BY DEF Reaches
<1> QED BY <1>1 DEF AcyclicRelation

(* The heart of the guard: an edge between two classes of which the upper   *)
(* does not reach the lower leaves an acyclic relation acyclic.             *)
LEMMA NewEdgeKeepsAcyclic ==
    ASSUME NEW rel \in SUBSET (Keys \X Keys), AcyclicRelation(rel),
           NEW c \in Keys, NEW p \in Keys, ~Reaches(rel, p, c)
    PROVE  AcyclicRelation(rel \cup {<<c, p>>})
<1> DEFINE new == rel \cup {<<c, p>>}
<1>1. PICK above \in SUBSET Keys : p \in above /\ c \notin above /\ StaysIn(above, rel)
  BY NoPathIsUnreachable DEF NoPath
<1>2. SUFFICES ASSUME NEW q \in new PROVE NoPath(new, q[2], q[1])
  BY NoPathIsUnreachable DEF AcyclicRelation
<1>3. CASE q = <<c, p>>
  <2>1. StaysIn(above, new)
    BY <1>1 DEF StaysIn
  <2> QED BY <1>1, <1>3, <2>1 DEF NoPath
<1>4. CASE q \in rel
  <2>1. PICK S \in SUBSET Keys : q[2] \in S /\ q[1] \notin S /\ StaysIn(S, rel)
    BY <1>4, NoPathIsUnreachable DEF NoPath, AcyclicRelation
  <2>2. CASE c \notin S
    <3>1. StaysIn(S, new)
      BY <2>1, <2>2 DEF StaysIn
    <3> QED BY <2>1, <3>1 DEF NoPath
  <2>3. CASE q[2] \in above
    <3>1. StaysIn(S \cap above, new)
      BY <1>1, <2>1 DEF StaysIn
    <3>2. q[2] \in S \cap above /\ q[1] \notin S \cap above /\ S \cap above \in SUBSET Keys
      BY <2>1, <2>3
    <3> QED BY <3>1, <3>2 DEF NoPath
  <2>4. CASE q[2] \notin above
    <3>1. q[1] \notin above
      BY <1>1, <1>4, <2>4 DEF StaysIn
    <3>2. StaysIn(S \cup above, new)
      BY <1>1, <2>1 DEF StaysIn
    <3>3. q[2] \in S \cup above /\ q[1] \notin S \cup above /\ S \cup above \in SUBSET Keys
      BY <2>1, <3>1
    <3> QED BY <3>2, <3>3 DEF NoPath
  <2> QED BY <2>2, <2>3, <2>4
<1> QED BY <1>3, <1>4

(* What the guard accepts: its traversal also follows expired edges, so a   *)
(* parent it lets through does not reach the class along current ones.      *)
LEMMA GuardIsSafe ==
    ASSUME links \subseteq Link, NEW p \in Keys, NEW c \in Keys, p # c,
           ~GuardRejects(p, c)
    PROVE  ~Reaches(Parents, p, c)
<1> DEFINE all == past \cup Parents
           S == {x \in Keys \ {c} : Reaches(all, p, x)}
<1>1. p \in S
  BY DEF Reaches
<1>2. StaysIn(S, Parents)
  <2>1. SUFFICES ASSUME NEW q \in Parents, q[1] \in S PROVE q[2] \in S
    BY DEF StaysIn
  <2>2. PICK e \in links : q = Pair(e)
    BY DEF Parents
  <2>3. e.child \in Keys /\ e.parent \in Keys /\ q[1] = e.child /\ q[2] = e.parent
    BY <2>2 DEF Link, Pair
  <2>4. Reaches(all, p, q[2])
    BY <2>1 DEF Reaches
  <2>5. q[2] # c
    BY <2>1, <2>3 DEF GuardRejects
  <2> QED BY <2>3, <2>4, <2>5
<1>3. S \in SUBSET Keys /\ c \notin S
  OBVIOUS
<1> HIDE DEF S
<1> QED BY <1>1, <1>2, <1>3, NoPathIsUnreachable DEF NoPath

-----------------------------------------------------------------------------
(* Types, for any number of handlers at a time.                             *)

HasItem(t) == op[t].pc \in {"query", "expire", "attach"} => op[t].batch # <<>>
TInv == TypeOK /\ \A t \in Threads : HasItem(t)

LEMMA LinkType ==
    \A n \in Nat, c \in Keys, p \in Keys, m \in BOOLEAN :
        [id |-> n, child |-> c, parent |-> p, manual |-> m] \in Link
BY DEF Link

LEMMA IdleOpType == IdleOp \in Op /\ IdleOp.pc = "idle"
BY EmptySeq DEF IdleOp, Op

LEMMA ItemType ==
    ASSUME TInv, NEW t \in Threads, op[t].batch # <<>>
    PROVE  /\ Item(t) \in Move /\ Class(t) \in Keys /\ NewParent(t) \in Keys \cup {None}
           /\ Tail(op[t].batch) \in Seq(Move)
<1>1. op[t].batch \in Seq(Move)
  BY DEF TInv, TypeOK, Op
<1>2. Head(op[t].batch) \in Move /\ Tail(op[t].batch) \in Seq(Move)
  BY <1>1, HeadTailProperties
<1> QED BY <1>2 DEF Item, Class, NewParent, Move

(* A function on 1 .. n is a sequence of length n.                          *)
LEMMA FunctionIsSeq ==
    ASSUME NEW S, NEW n \in Nat, NEW f \in [1 .. n -> S]
    PROVE  f \in Seq(S) /\ Len(f) = n
<1>1. f \in Seq(S)
  BY SeqDef
<1>2. DOMAIN f = 1 .. n /\ DOMAIN f = 1 .. Len(f) /\ Len(f) \in Nat
  BY <1>1, LenProperties
<1> QED BY <1>1, <1>2

LEMMA MovesUnderType ==
    ASSUME NEW c \in Keys, NEW d \in Keys, NEW p \in Keys \cup {None}
    PROVE  /\ MovesUnder(<<c>>, p) \in Seq(Move) /\ MovesUnder(<<c>>, p) # <<>>
           /\ Head(MovesUnder(<<c>>, p)) = [child |-> c, parent |-> p]
           /\ MovesUnder(<<c, d>>, p) \in Seq(Move)
<1>1. MovesUnder(<<c>>, p) \in [1 .. 1 -> Move]
  BY DEF MovesUnder, Move
<1>2. MovesUnder(<<c, d>>, p) \in [1 .. 2 -> Move]
  BY DEF MovesUnder, Move
<1>3. MovesUnder(<<c>>, p) \in Seq(Move) /\ Len(MovesUnder(<<c>>, p)) = 1
  BY <1>1, FunctionIsSeq
<1>4. MovesUnder(<<c, d>>, p) \in Seq(Move)
  BY <1>2, FunctionIsSeq
<1>5. MovesUnder(<<c>>, p)[1] = [child |-> c, parent |-> p]
  BY DEF MovesUnder
<1> QED BY <1>3, <1>4, <1>5

LEMMA PairsOfKeys == links \subseteq Link => Parents \subseteq Keys \X Keys
BY DEF Parents, Pair, Link

(* What expire_entity does to the edges, and the failures counted.          *)
LEMMA ExpireTypes ==
    ASSUME links \subseteq Link, past \subseteq Keys \X Keys, stuck \subseteq Link,
           NEW doomed \in SUBSET Link, NEW kept, Expire(doomed, kept)
    PROVE  links' \subseteq links /\ past' \subseteq Keys \X Keys /\ stuck' \subseteq Link
<1>1. \A e \in doomed : Pair(e) \in Keys \X Keys
  BY DEF Pair, Link
<1> QED BY <1>1 DEF Expire

LEMMA FailsType == ASSUME faults \in Nat, NEW failed \in BOOLEAN, Fails(failed) PROVE faults' \in Nat
BY DEF Fails

(* A step that changes op[t] alone to another typed record keeps TInv's     *)
(* part about the operations.                                               *)
LEMMA OpStep ==
    ASSUME TInv, NEW t \in Threads, NEW o \in Op, op' = [op EXCEPT ![t] = o],
           o.pc \in {"query", "expire", "attach"} => o.batch # <<>>
    PROVE  op' \in [Threads -> Op] /\ \A u \in Threads : HasItem(u)'
<1>1. op' \in [Threads -> Op] /\ op'[t] = o /\ \A u \in Threads \ {t} : op'[u] = op[u]
  BY DEF TInv, TypeOK
<1> QED BY <1>1 DEF HasItem, TInv

LEMMA InitTypes == Init => TInv
<1> SUFFICES ASSUME Init PROVE TInv
  OBVIOUS
<1>1. links \subseteq Link
  <2>1. PICK f \in Forests : links = {[id |-> 0, child |-> c, parent |-> f[c],
                                       manual |-> FALSE] : c \in {b \in live : f[b] # None}}
    BY DEF Init
  <2>2. \A c \in live : f[c] # None => c \in Keys /\ f[c] \in Keys
    BY <2>1 DEF Init, Forests
  <2> QED BY <2>1, <2>2, LinkType
<1>2. op = [t \in Threads |-> IdleOp]
  BY DEF Init
<1>3. op \in [Threads -> Op] /\ \A t \in Threads : HasItem(t)
  BY <1>2, IdleOpType DEF HasItem
<1>4. TypeOK
  BY <1>1, <1>3 DEF Init, TypeOK
<1> QED BY <1>3, <1>4 DEF TInv

LEMMA StartTypes ==
    ASSUME TInv, NEW t \in Threads,
           BeginReparent(t) \/ BeginBulk(t) \/ BeginUndo(t) \/ BeginCreateUnder(t)
    PROVE  TInv'
<1>1. ASSUME NEW o \in Op, Begin(t, o), o.pc \in {"check", "attach"},
             o.pc = "attach" => o.batch # <<>>, live' \subseteq Keys,
             UNCHANGED <<links, past, made, stuck, receipts, aborts, faults>>
      PROVE  TInv'
  <2>1. op' = [op EXCEPT ![t] = o] /\ ops' \in Nat
    BY <1>1 DEF Begin, TInv, TypeOK
  <2>2. op' \in [Threads -> Op] /\ \A u \in Threads : HasItem(u)'
    BY <1>1, <2>1, OpStep
  <2> QED BY <1>1, <2>1, <2>2 DEF TInv, TypeOK
<1>2. live \subseteq Keys /\ Parents \subseteq Keys \X Keys
  BY PairsOfKeys DEF TInv, TypeOK
<1>4. CASE BeginReparent(t)
  <2>1. PICK c \in Keys, p \in Keys \cup {None} :
           Begin(t, [IdleOp EXCEPT !.pc = "check", !.kind = "single",
                                   !.batch = MovesUnder(<<c>>, p)])
    BY <1>4 DEF BeginReparent
  <2> DEFINE o == [IdleOp EXCEPT !.pc = "check", !.kind = "single",
                                 !.batch = MovesUnder(<<c>>, p)]
  <2>2. MovesUnder(<<c>>, p) \in Seq(Move)
    BY MovesUnderType
  <2>3. o \in Op /\ o.pc = "check"
    BY <2>2, EmptySeq DEF IdleOp, Op
  <2> QED BY <1>1, <1>2, <1>4, <2>1, <2>3 DEF BeginReparent, hierarchy
<1>5. CASE BeginBulk(t)
  <2>1. PICK p \in Keys, created \in BOOLEAN : \E classes \in Selections(p) :
           /\ created => p \in Unborn \ live
           /\ live' = IF created THEN live \cup {p} ELSE live
           /\ Begin(t, [IdleOp EXCEPT !.pc = "check", !.kind = "bulk",
                                      !.batch = MovesUnder(classes, p),
                                      !.before = Parents])
    BY <1>5 DEF BeginBulk
  <2>2. PICK classes \in Selections(p) :
           Begin(t, [IdleOp EXCEPT !.pc = "check", !.kind = "bulk",
                                   !.batch = MovesUnder(classes, p), !.before = Parents])
    BY <2>1
  <2> DEFINE o == [IdleOp EXCEPT !.pc = "check", !.kind = "bulk",
                                 !.batch = MovesUnder(classes, p), !.before = Parents]
  <2>3. PICK c \in Keys, d \in Keys : classes = <<c, d>>
    BY <2>2 DEF Selections
  <2>4. MovesUnder(classes, p) \in Seq(Move)
    BY <2>3, MovesUnderType
  <2>5. o \in Op /\ o.pc = "check"
    BY <1>2, <2>4, EmptySeq DEF IdleOp, Op
  <2>6. live' \subseteq Keys
    BY <1>2, <2>1
  <2> QED BY <1>1, <1>5, <2>2, <2>5, <2>6 DEF BeginBulk
<1>6. CASE BeginUndo(t)
  <2>1. PICK r \in receipts :
           Begin(t, [IdleOp EXCEPT !.pc = "check", !.kind = "undo", !.batch = r.undo,
                                   !.before = r.before, !.exact = (r.ops = ops), !.lost = r.lost])
    BY <1>6 DEF BeginUndo
  <2> DEFINE o == [IdleOp EXCEPT !.pc = "check", !.kind = "undo", !.batch = r.undo,
                                 !.before = r.before, !.exact = (r.ops = ops), !.lost = r.lost]
  <2>2. r.undo \in Seq(Move) /\ r.before \subseteq Keys \X Keys /\ r.lost \in BOOLEAN
    BY <2>1 DEF TInv, TypeOK
  <2>3. o \in Op /\ o.pc = "check"
    BY <2>2, EmptySeq DEF IdleOp, Op
  <2> QED BY <1>1, <1>2, <1>6, <2>1, <2>3 DEF BeginUndo, hierarchy
<1>7. CASE BeginCreateUnder(t)
  <2>1. PICK c \in Unborn \ live, p \in Keys :
           /\ Begin(t, [IdleOp EXCEPT !.pc = "attach", !.kind = "create",
                                      !.batch = MovesUnder(<<c>>, p)])
           /\ live' = live \cup {c}
    BY <1>7 DEF BeginCreateUnder
  <2> DEFINE o == [IdleOp EXCEPT !.pc = "attach", !.kind = "create",
                                 !.batch = MovesUnder(<<c>>, p)]
  <2>2. c \in Keys
    BY KeysAssumption
  <2>3. MovesUnder(<<c>>, p) \in Seq(Move) /\ MovesUnder(<<c>>, p) # <<>>
    BY <2>2, MovesUnderType
  <2>4. o \in Op /\ o.pc = "attach" /\ o.batch # <<>>
    BY <2>3, EmptySeq DEF IdleOp, Op
  <2> QED BY <1>1, <1>2, <1>7, <2>1, <2>2, <2>4 DEF BeginCreateUnder
<1> QED BY <1>4, <1>5, <1>6, <1>7

(* The record a step leaves in op[t], for the steps that keep the types.    *)
LEMMA StepTypes ==
    ASSUME TInv, NEW t \in Threads,
           \/ AcceptMove(t) \/ RejectMove(t) \/ QueryParents(t) \/ ExpireParent(t)
           \/ AttachParent(t) \/ FinishBatch(t) \/ AttachNew(t) \/ Abort(t)
    PROVE  TInv'
<1>1. /\ op[t] \in Op /\ links \subseteq Link /\ live \subseteq Keys
      /\ past \subseteq Keys \X Keys /\ made \in Nat /\ DOMAIN op = Threads
      /\ HasItem(t) /\ stuck \subseteq Link /\ faults \in Nat /\ op[t].todo \subseteq Link /\ op[t].prev \in Seq(Keys)
  BY DEF TInv, TypeOK, Op
<1>2. ASSUME NEW o \in Op, op' = [op EXCEPT ![t] = o],
             o.pc \in {"query", "expire", "attach"} => o.batch # <<>>,
             links' \subseteq Link, past' \subseteq Keys \X Keys, made' \in Nat,
             stuck' \subseteq Link, aborts' \in Nat, faults' \in Nat,
             \A r \in receipts' : r.undo \in Seq(Move) /\ r.before \subseteq Keys \X Keys /\ r.lost \in BOOLEAN,
             UNCHANGED <<live, ops>>
      PROVE  TInv'
  <2>1. op' \in [Threads -> Op] /\ \A u \in Threads : HasItem(u)'
    BY <1>2, OpStep
  <2> QED BY <1>2, <2>1 DEF TInv, TypeOK
<1>3. ASSUME NEW c \in Keys, NEW p \in Keys, Attach(c, p)
      PROVE  links' \subseteq Link /\ made' \in Nat
  <2>1. made + 1 \in Nat
    BY <1>1
  <2>2. [id |-> made + 1, child |-> c, parent |-> p, manual |-> FALSE] \in Link
    BY <2>1, LinkType
  <2> QED BY <1>1, <1>3, <2>1, <2>2 DEF Attach
<1>4. /\ aborts \in Nat
      /\ \A r \in receipts : r.undo \in Seq(Move) /\ r.before \subseteq Keys \X Keys /\ r.lost \in BOOLEAN
  BY DEF TInv, TypeOK
<1>5. CASE AcceptMove(t)
  <2> DEFINE o == [op[t] EXCEPT !.pc = "query"]
  <2>1. o \in Op /\ o.batch # <<>>
    BY <1>1, <1>5 DEF AcceptMove, Op
  <2> QED BY <1>1, <1>2, <1>4, <1>5, <2>1 DEF AcceptMove, hierarchy
<1>6. CASE RejectMove(t)
  <2> DEFINE o == [op[t] EXCEPT !.batch = Tail(@), !.refused = TRUE]
  <2>1. Tail(op[t].batch) \in Seq(Move) /\ op[t].pc = "check"
    BY <1>6, ItemType DEF RejectMove
  <2>2. o \in Op /\ o.pc = "check"
    BY <1>1, <2>1 DEF Op
  <2>3. op' = [op EXCEPT ![t] = o]
    BY <1>1, <1>6 DEF RejectMove
  <2> QED BY <1>1, <1>2, <1>4, <1>6, <2>2, <2>3 DEF RejectMove, hierarchy
<1>7. CASE QueryParents(t)
  <2> DEFINE o == [op[t] EXCEPT !.pc = "expire",
                                !.todo = {e \in links : e.child = Class(t)}]
  <2>1. o \in Op /\ o.batch # <<>>
    BY <1>1, <1>7 DEF QueryParents, Op, HasItem
  <2>2. op' = [op EXCEPT ![t] = o]
    BY <1>1, <1>7 DEF QueryParents
  <2> QED BY <1>1, <1>2, <1>4, <1>7, <2>1, <2>2 DEF QueryParents, hierarchy
<1>8. CASE ExpireParent(t)
  <2>e. PICK e \in op[t].todo : \E kept \in SUBSET {e} :
           /\ Expire({e}, kept) /\ Fails(kept # {})
           /\ op' = [op EXCEPT ![t].todo = @ \ {e}, ![t].prev = Append(@, e.parent),
                               ![t].lost = @ \/ kept # {}]
    BY <1>8 DEF ExpireParent
  <2>1. PICK kept \in SUBSET {e} :
           /\ Expire({e}, kept) /\ Fails(kept # {})
           /\ op' = [op EXCEPT ![t].todo = @ \ {e}, ![t].prev = Append(@, e.parent),
                               ![t].lost = @ \/ kept # {}]
    BY <2>e
  <2> DEFINE o == [op[t] EXCEPT !.todo = @ \ {e}, !.prev = Append(@, e.parent), !.lost = @ \/ kept # {}]
  <2>2. e \in Link /\ e.parent \in Keys /\ Pair(e) \in Keys \X Keys
    BY <1>1, <2>1 DEF Link, Pair
  <2>3. Append(op[t].prev, e.parent) \in Seq(Keys)
    BY <1>1, <2>2, AppendProperties
  <2>4. o \in Op /\ o.batch # <<>>
    BY <1>1, <1>8, <2>3 DEF ExpireParent, Op, HasItem
  <2>5. op' = [op EXCEPT ![t] = o]
    BY <1>1, <2>1
  <2>6. links' \subseteq Link /\ past' \subseteq Keys \X Keys /\ stuck' \subseteq Link /\ faults' \in Nat
    BY <1>1, <2>1, <2>2, ExpireTypes, FailsType
  <2> QED BY <1>1, <1>2, <1>4, <1>8, <2>4, <2>5, <2>6 DEF ExpireParent
<1>9. CASE AttachParent(t)
  <2> DEFINE o == [op[t] EXCEPT !.pc = "check", !.batch = Tail(@), !.prev = <<>>,
                                !.undo = Append(@, UndoEntry(t))]
  <2>1. /\ op[t].pc = "expire" /\ op[t].batch # <<>>
    BY <1>1, <1>9 DEF AttachParent, HasItem
  <2>2. /\ Class(t) \in Keys /\ NewParent(t) \in Keys \cup {None}
        /\ Tail(op[t].batch) \in Seq(Move)
    BY <2>1, ItemType
  <2>3. UndoEntry(t) \in Move
    BY <1>1, <2>2, HeadTailProperties DEF UndoEntry, Move
  <2>4. Append(op[t].undo, UndoEntry(t)) \in Seq(Move)
    BY <1>1, <2>3, AppendProperties DEF Op
  <2>5. o \in Op /\ o.pc = "check"
    BY <1>1, <2>2, <2>4, EmptySeq DEF Op
  <2>6. op' = [op EXCEPT ![t] = o]
    BY <1>1, <1>9 DEF AttachParent
  <2>7. links' \subseteq Link /\ made' \in Nat
    BY <1>1, <1>3, <1>9, <2>2 DEF AttachParent
  <2> QED BY <1>1, <1>2, <1>4, <1>9, <2>5, <2>6, <2>7 DEF AttachParent
<1>10. CASE FinishBatch(t)
  <2>1. \A r \in receipts' : r.undo \in Seq(Move) /\ r.before \subseteq Keys \X Keys /\ r.lost \in BOOLEAN
    BY <1>1, <1>4, <1>10 DEF FinishBatch, Op
  <2> QED BY <1>1, <1>2, <1>4, <1>10, <2>1, IdleOpType DEF FinishBatch, hierarchy
<1>11. CASE AttachNew(t)
  <2>1. op[t].batch # <<>>
    BY <1>1, <1>11 DEF AttachNew, HasItem
  <2>2. Class(t) \in Keys
    BY <2>1, ItemType
  <2>3. links' \subseteq Link /\ made' \in Nat
    BY <1>1, <1>3, <1>11, <2>2 DEF AttachNew
  <2>4. op' = [op EXCEPT ![t] = IdleOp] /\ UNCHANGED <<live, past, stuck, receipts, ops, aborts, faults>>
    BY <1>11 DEF AttachNew
  <2>5. IdleOp.pc \notin {"query", "expire", "attach"}
    BY IdleOpType
  <2> QED BY <1>1, <1>2, <1>4, <2>3, <2>4, <2>5, IdleOpType
<1>12. CASE Abort(t)
  <2>1. op' = [op EXCEPT ![t] = IdleOp] /\ aborts' \in Nat
        /\ UNCHANGED <<live, links, past, made, stuck, receipts, ops, faults>>
    BY <1>4, <1>12 DEF Abort, hierarchy
  <2>2. IdleOp.pc \notin {"query", "expire", "attach"}
    BY IdleOpType
  <2> QED BY <1>1, <1>2, <1>4, <2>1, <2>2, IdleOpType
<1> QED BY <1>5, <1>6, <1>7, <1>8, <1>9, <1>10, <1>11, <1>12

LEMMA NextTypes == TInv /\ [Next]_vars => TInv'
<1> SUFFICES ASSUME TInv, [Next]_vars PROVE TInv'
  OBVIOUS
<1>1. ASSUME NEW t \in Threads, DeleteClass(t) PROVE TInv'
  <2>1. UNCHANGED op /\ ops' \in Nat /\ live' \subseteq live
    BY <1>1 DEF DeleteClass, TInv, TypeOK
  <2>c. PICK c \in live \ Unborn : \E survivors \in SUBSET {c}, kept \in SUBSET {e \in links : c \in {e.child, e.parent}} :
           Expire({e \in links : c \in {e.child, e.parent}}, kept) /\ Fails(survivors # {} \/ kept # {})
    BY <1>1 DEF DeleteClass
  <2>2. PICK touching \in SUBSET links, kept \in SUBSET links, survivors \in SUBSET {c} :
           Expire(touching, kept) /\ Fails(survivors # {} \/ kept # {})
    BY <2>c
  <2>3. links \subseteq Link /\ past \subseteq Keys \X Keys /\ stuck \subseteq Link /\ faults \in Nat
    BY DEF TInv, TypeOK
  <2>4. links' \subseteq links /\ past' \subseteq Keys \X Keys /\ stuck' \subseteq Link /\ faults' \in Nat
    BY <2>2, <2>3, ExpireTypes, FailsType
  <2> QED BY <1>1, <2>1, <2>4 DEF DeleteClass, TInv, TypeOK, HasItem
<1>2. ASSUME NEW t \in Threads, Relate(t) PROVE TInv'
  <2>1. UNCHANGED op /\ ops' \in Nat /\ made' \in Nat
    BY <1>2 DEF Relate, TInv, TypeOK
  <2>2. links \subseteq Link /\ past \subseteq Keys \X Keys /\ live \subseteq Keys /\ stuck \subseteq Link
        /\ made + 1 \in Nat
    BY DEF TInv, TypeOK
  <2>3. past' \subseteq Keys \X Keys
    BY <1>2, <2>2 DEF Relate, Link, Pair
  <2>4. PICK c \in live, p \in live :
           links' \subseteq links \cup {[id |-> made + 1, child |-> c, parent |-> p,
                                         manual |-> TRUE]}
    BY <1>2 DEF Relate
  <2>5. links' \subseteq Link
    BY <2>2, <2>4, LinkType
  <2>6. stuck' \subseteq Link
    BY <1>2, <2>2 DEF Relate
  <2>7. PICK kept \in SUBSET links : Fails(kept # {})
    BY <1>2 DEF Relate
  <2>8. faults' \in Nat
    BY <2>7, FailsType DEF TInv, TypeOK
  <2> QED BY <1>2, <2>1, <2>3, <2>5, <2>6, <2>8 DEF Relate, TInv, TypeOK, HasItem
<1>3. CASE UNCHANGED vars
  BY <1>3 DEF vars, TInv, TypeOK, HasItem
<1> QED BY <1>1, <1>2, <1>3, StartTypes, StepTypes DEF Next

(* Whatever handlers run at the same time, the hierarchy stays typed: no    *)
(* move inserts an edge to the missing parent of a class made a root.       *)
THEOREM HierarchyTypes == Spec => []TypeOK
<1>1. TInv => TypeOK
  BY DEF TInv
<1> QED BY <1>1, InitTypes, NextTypes, PTL DEF Spec

-----------------------------------------------------------------------------
(* No cycles, when handlers run one at a time.                              *)

Serial == \A t, u \in Threads : t = u

\* A handler past the guard still has what the guard found out.
Guarded(t) ==
    /\ op[t].pc \in {"query", "expire"} =>
          Class(t) \in live /\ NewParent(t) \in live \cup {None}
    /\ op[t].pc = "attach" => Class(t) \in live
    /\ op[t].pc \in {"query", "expire", "attach"} /\ NewParent(t) # None =>
          ~Reaches(Parents, NewParent(t), Class(t))

\* A class that exists or has existed: an edge may outlive the class it is on.
Born == live \cup (Keys \ Unborn)

AInv ==
    /\ TInv
    /\ \A e \in links : e.child \in Born /\ e.parent \in Born
    /\ AcyclicRelation(Derived)
    /\ \A e \in links : e.manual => ManualEdges
    /\ \A t \in Threads : Guarded(t)

\* What the hierarchy itself has to satisfy.
Sound ==
    /\ \A e \in links : e.child \in Born /\ e.parent \in Born
    /\ AcyclicRelation(Derived)
    /\ \A e \in links : e.manual => ManualEdges

LEMMA FewerLinks ==
    ASSUME Sound, links' \subseteq links,
           Born \subseteq Born'
    PROVE  /\ Sound'
           /\ \A x, y : ~Reaches(Parents, x, y) => ~Reaches(Parents', x, y)
<1>1. Derived' \subseteq Derived /\ Parents' \subseteq Parents
  BY DEF Derived, Parents
<1>2. AcyclicRelation(Derived')
  BY <1>1, FewerEdges DEF Sound
<1>3. AcyclicRelation(Derived)'
  BY <1>2 DEF AcyclicRelation, Reaches
<1> QED BY <1>1, <1>3, FewerEdges DEF Sound

LEMMA AttachKeepsSound ==
    ASSUME Sound, links \subseteq Link, made \in Nat, NEW c \in Keys, NEW p \in Keys,
           c \in live, p \in live, live' = live, Attach(c, p), ~Reaches(Parents, p, c)
    PROVE  Sound'
<1> DEFINE l == [id |-> made + 1, child |-> c, parent |-> p, manual |-> FALSE]
<1>1. /\ links' = links \cup {l} /\ l.child = c /\ l.parent = p /\ l.manual = FALSE
  BY DEF Attach
<1> HIDE DEF l
<1>2. Pair(l) = <<c, p>>
  BY <1>1 DEF Pair
<1>3. Derived' = Derived \cup {<<c, p>>}
  BY <1>1, <1>2 DEF Derived, Pair
<1>4. Derived \subseteq Parents /\ Parents \subseteq Keys \X Keys
  BY PairsOfKeys DEF Derived, Parents
<1>5. ~Reaches(Derived, p, c)
  BY <1>4, FewerEdges
<1>6. AcyclicRelation(Derived \cup {<<c, p>>})
  BY <1>4, <1>5, NewEdgeKeepsAcyclic DEF Sound
<1>7. AcyclicRelation(Derived)'
  BY <1>3, <1>6 DEF AcyclicRelation, Reaches
<1> QED BY <1>1, <1>7 DEF Sound, Born

LEMMA NoCycleInitially == Init => AInv
<1> SUFFICES ASSUME Init PROVE AInv
  OBVIOUS
<1>1. TInv
  BY InitTypes
<1>2. PICK f \in Forests : links = {[id |-> 0, child |-> c, parent |-> f[c],
                                     manual |-> FALSE] : c \in {b \in live : f[b] # None}}
  BY DEF Init
<1>3. live = Keys \ Unborn /\ f \in [live -> live \cup {None}]
      /\ AcyclicRelation({<<c, f[c]>> : c \in {b \in live : f[b] # None}})
  BY <1>2 DEF Init, Forests
<1>4. \A e \in links : /\ e.child \in live /\ e.parent \in live /\ ~e.manual
                       /\ e.parent = f[e.child] /\ f[e.child] # None
  BY <1>2, <1>3
<1>5. Derived \subseteq {<<c, f[c]>> : c \in {b \in live : f[b] # None}}
  BY <1>4 DEF Derived, Pair
<1>6. AcyclicRelation(Derived)
  BY <1>3, <1>5, FewerEdges
<1>7. \A t \in Threads : Guarded(t)
  BY IdleOpType DEF Init, Guarded
<1> QED BY <1>1, <1>4, <1>6, <1>7 DEF AInv, Born

(* The steps of an operation that leave the hierarchy alone, or only take   *)
(* edges away, keep what the guard found out.                               *)
LEMMA SerialStep ==
    ASSUME AInv, Serial, NEW t \in Threads,
           \/ AcceptMove(t) \/ RejectMove(t) \/ QueryParents(t) \/ ExpireParent(t)
           \/ AttachParent(t) \/ FinishBatch(t) \/ AttachNew(t) \/ Abort(t)
    PROVE  Sound' /\ Guarded(t)'
<1>1. /\ TInv /\ Sound /\ Guarded(t) /\ HasItem(t) /\ op[t] \in Op /\ DOMAIN op = Threads
      /\ links \subseteq Link /\ live \subseteq Keys /\ made \in Nat
  BY DEF AInv, Sound, TInv, TypeOK
<1>2. UNCHANGED links => Parents' = Parents
  BY DEF Parents
<1>3. UNCHANGED <<live, links>> => Sound'
  BY <1>1 DEF Sound, Born, AcyclicRelation, Derived, Reaches
<1>4. op'[t].pc \in {"idle", "check"} => Guarded(t)'
  BY DEF Guarded
<1>5. CASE AcceptMove(t)
  <2>1. /\ op[t].batch # <<>> /\ Movable(t) /\ UNCHANGED <<live, links>>
        /\ op'[t].batch = op[t].batch /\ op'[t].pc = "query"
    BY <1>1, <1>5 DEF AcceptMove, hierarchy, Op
  <2>2. Class(t)' = Class(t) /\ NewParent(t)' = NewParent(t)
    BY <2>1 DEF Class, NewParent, Item
  <2>3. Class(t) \in Keys /\ NewParent(t) \in Keys \cup {None}
    BY <1>1, <2>1, ItemType
  <2>4. NewParent(t) # None => ~Reaches(Parents, NewParent(t), Class(t))
    BY <1>1, <2>1, <2>3, GuardIsSafe DEF Movable
  <2>5. Class(t) \in live /\ NewParent(t) \in live \cup {None}
    BY <2>1 DEF Movable
  <2> QED BY <1>2, <1>3, <2>1, <2>2, <2>4, <2>5 DEF Guarded, Reaches
<1>6. CASE RejectMove(t) \/ FinishBatch(t) \/ Abort(t)
  <2>1. UNCHANGED <<live, links>>
    BY <1>6 DEF RejectMove, FinishBatch, Abort, hierarchy
  <2>2. op'[t].pc \in {"idle", "check"}
    BY <1>1, <1>6, IdleOpType DEF RejectMove, FinishBatch, Abort, Op
  <2> QED BY <1>3, <1>4, <2>1, <2>2
<1>7. CASE QueryParents(t)
  <2>1. /\ op[t].pc = "query" /\ UNCHANGED <<live, links>>
        /\ op'[t].batch = op[t].batch /\ op'[t].pc = "expire"
    BY <1>1, <1>7 DEF QueryParents, hierarchy, Op
  <2>2. Class(t)' = Class(t) /\ NewParent(t)' = NewParent(t)
    BY <2>1 DEF Class, NewParent, Item
  <2> QED BY <1>1, <1>2, <1>3, <2>1, <2>2 DEF Guarded, Reaches
<1>8. CASE ExpireParent(t)
  <2>1. PICK e \in op[t].todo, kept \in SUBSET op[t].todo :
           op' = [op EXCEPT ![t].todo = @ \ {e}, ![t].prev = Append(@, e.parent), ![t].lost = @ \/ kept # {}]
    BY <1>8 DEF ExpireParent
  <2>2. op[t].pc = "expire" /\ links' \subseteq links /\ live' = live
    BY <1>8 DEF ExpireParent, Expire
  <2>3. op'[t].batch = op[t].batch /\ op'[t].pc = "expire"
    BY <1>1, <2>1, <2>2 DEF Op
  <2>4. Class(t)' = Class(t) /\ NewParent(t)' = NewParent(t)
    BY <2>3 DEF Class, NewParent, Item
  <2>5. Sound' /\ \A x, y : ~Reaches(Parents, x, y) => ~Reaches(Parents', x, y)
    BY <1>1, <2>2, FewerLinks DEF Born
  <2>6. NewParent(t) # None => ~Reaches(Parents', NewParent(t), Class(t))
    BY <1>1, <2>2, <2>5 DEF Guarded
  <2> QED BY <1>1, <2>2, <2>3, <2>4, <2>5, <2>6 DEF Guarded, Reaches
<1>9. CASE AttachParent(t)
  <2>1. op[t].pc = "expire" /\ op[t].batch # <<>> /\ live' = live
    BY <1>1, <1>9 DEF AttachParent, HasItem
  <2>2. Class(t) \in Keys /\ Class(t) \in live /\ NewParent(t) \in live \cup {None}
    BY <1>1, <2>1 DEF Guarded
  <2>3. Sound'
    <3>1. CASE NewParent(t) = None
      BY <1>3, <1>9, <2>1, <3>1 DEF AttachParent
    <3>2. CASE NewParent(t) # None
      <4>1. Attach(Class(t), NewParent(t)) /\ NewParent(t) \in Keys
        BY <1>1, <1>9, <2>2, <3>2 DEF AttachParent
      <4>2. ~Reaches(Parents, NewParent(t), Class(t))
        BY <1>1, <2>1, <3>2 DEF Guarded
      <4> QED BY <1>1, <2>1, <2>2, <3>2, <4>1, <4>2, AttachKeepsSound
    <3> QED BY <3>1, <3>2
  <2>4. op'[t].pc = "check"
    BY <1>1, <1>9 DEF AttachParent, Op
  <2> QED BY <1>4, <2>3, <2>4
<1>10. CASE AttachNew(t)
  <2>1. op[t].pc = "attach" /\ op[t].batch # <<>> /\ live' = live /\ op'[t] = IdleOp
    BY <1>1, <1>10 DEF AttachNew, HasItem
  <2>2. Class(t) \in live /\ Class(t) \in Keys
    BY <1>1, <2>1 DEF Guarded
  <2>3. Sound'
    <3>1. CASE NewParent(t) \notin live
      BY <1>3, <1>10, <2>1, <3>1 DEF AttachNew
    <3>2. CASE NewParent(t) \in live
      <4>1. Attach(Class(t), NewParent(t)) /\ NewParent(t) \in Keys /\ NewParent(t) # None
        BY <1>1, <1>10, <3>2, KeysAssumption DEF AttachNew
      <4>2. ~Reaches(Parents, NewParent(t), Class(t))
        BY <1>1, <2>1, <4>1 DEF Guarded
      <4> QED BY <1>1, <2>1, <2>2, <3>2, <4>1, <4>2, AttachKeepsSound
    <3> QED BY <3>1, <3>2
  <2> QED BY <1>4, <2>1, <2>3, IdleOpType
<1> QED BY <1>5, <1>6, <1>7, <1>8, <1>9, <1>10

LEMMA SerialStart ==
    ASSUME AInv, Serial, NEW t \in Threads,
           \/ BeginReparent(t) \/ BeginBulk(t) \/ BeginUndo(t) \/ BeginCreateUnder(t)
           \/ DeleteClass(t) \/ Relate(t)
    PROVE  Sound' /\ Guarded(t)'
<1>1. /\ TInv /\ Sound /\ op[t] \in Op /\ DOMAIN op = Threads
      /\ links \subseteq Link /\ live \subseteq Keys /\ made \in Nat
  BY DEF AInv, Sound, TInv, TypeOK
<1>2. op'[t].pc \in {"idle", "check"} => Guarded(t)'
  BY DEF Guarded
<1>3. live \subseteq live' /\ UNCHANGED links => Sound' /\ Parents' = Parents
  BY <1>1 DEF Sound, Born, AcyclicRelation, Derived, Reaches, Parents
<1>4. CASE BeginReparent(t) \/ BeginBulk(t) \/ BeginUndo(t)
  <2>1. live \subseteq live' /\ UNCHANGED links
    BY <1>4 DEF BeginReparent, BeginBulk, BeginUndo, hierarchy
  <2>2. CASE BeginReparent(t)
    <3>1. op'[t].pc = "check"
      BY <1>1, <2>2 DEF BeginReparent, Begin, IdleOp
    <3> QED BY <1>2, <1>3, <2>1, <3>1
  <2>3. CASE BeginBulk(t)
    <3>1. op'[t].pc = "check"
      BY <1>1, <2>3 DEF BeginBulk, Begin, IdleOp
    <3> QED BY <1>2, <1>3, <2>1, <3>1
  <2>4. CASE BeginUndo(t)
    <3>1. op'[t].pc = "check"
      BY ZenonT(40), <1>1, <2>4 DEF BeginUndo, Begin, IdleOp
    <3> QED BY <1>2, <1>3, <2>1, <3>1
  <2> QED BY <1>4, <2>2, <2>3, <2>4
<1>5. CASE BeginCreateUnder(t)
  <2>1. PICK c \in Unborn \ live, p \in Keys :
           /\ c # p
           /\ Begin(t, [IdleOp EXCEPT !.pc = "attach", !.kind = "create",
                                      !.batch = MovesUnder(<<c>>, p)])
           /\ live' = live \cup {c} /\ UNCHANGED links
    BY <1>5 DEF BeginCreateUnder
  <2>2. op'[t].batch = MovesUnder(<<c>>, p) /\ op'[t].pc = "attach"
    BY <1>1, <2>1 DEF Begin, IdleOp
  <2>3. c \in Keys
    BY KeysAssumption
  <2>4. Class(t)' = c /\ NewParent(t)' = p
    <3>1. Head(MovesUnder(<<c>>, p)) = [child |-> c, parent |-> p]
      BY <2>1, <2>3, MovesUnderType
    <3>2. Head(op'[t].batch) = [child |-> c, parent |-> p]
      BY <2>2, <3>1
    <3> QED BY <3>2 DEF Class, NewParent, Item
  <2>5. StaysIn(Keys \ {c}, Parents) /\ p \in Keys \ {c} /\ c \notin Keys \ {c}
    <3>1. ASSUME NEW q \in Parents PROVE q[2] \in Keys \ {c}
      <4>1. PICK e \in links : q = Pair(e)
        BY DEF Parents
      <4>2. q[2] = e.parent
        BY <4>1 DEF Pair
      <4>3. e.parent \in Born /\ e.parent \in Keys
        BY <1>1, <4>1 DEF Sound, Link
      <4> QED BY <2>1, <4>2, <4>3 DEF Born
    <3> QED BY <2>1, <3>1 DEF StaysIn
  <2>6. ~Reaches(Parents, p, c)
    BY <2>5, NoPathIsUnreachable DEF NoPath
  <2>7. Sound' /\ Parents' = Parents
    BY <1>3, <2>1
  <2> QED BY <2>1, <2>2, <2>4, <2>6, <2>7 DEF Guarded, Reaches
<1>6. CASE DeleteClass(t)
  <2>1. /\ op[t].pc = "idle" /\ op' = op /\ links' \subseteq links
        /\ Born \subseteq Born'
    BY <1>1, <1>6 DEF DeleteClass, Expire, Born
  <2> QED BY <1>1, <1>2, <2>1, FewerLinks
<1>7. CASE Relate(t)
  <2>1. PICK c \in live, p \in live :
           links' \subseteq links \cup {[id |-> made + 1, child |-> c, parent |-> p, manual |-> TRUE]}
    BY <1>7 DEF Relate
  <2>2. op[t].pc = "idle" /\ op' = op /\ live' = live /\ ManualEdges
    BY <1>7 DEF Relate
  <2>3. \A e \in links' : \/ e \in links
                          \/ e.child \in live /\ e.parent \in live /\ e.manual
    BY <2>1
  <2>4. Derived' \subseteq Derived
    BY <2>3 DEF Derived
  <2>5. AcyclicRelation(Derived')
    BY <1>1, <2>4, FewerEdges DEF Sound
  <2>6. AcyclicRelation(Derived)'
    BY <2>5 DEF AcyclicRelation, Reaches
  <2> QED BY <1>1, <1>2, <2>2, <2>3, <2>6 DEF Sound, Born
<1> QED BY <1>4, <1>5, <1>6, <1>7

LEMMA SerialInductive == AInv /\ Serial /\ [Next]_vars => AInv'
<1> SUFFICES ASSUME AInv, Serial, [Next]_vars PROVE AInv'
  OBVIOUS
<1>1. TInv'
  BY NextTypes DEF AInv
<1>2. ASSUME NEW t \in Threads, Sound', Guarded(t)' PROVE AInv'
  <2>1. \A u \in Threads : u = t
    BY DEF Serial
  <2> QED BY <1>1, <1>2, <2>1 DEF AInv, Sound
<1>3. CASE UNCHANGED vars
  BY <1>1, <1>3 DEF vars, AInv, Born, Guarded, AcyclicRelation, Derived, Parents, Reaches,
     Class, NewParent, Item
<1> QED BY <1>2, <1>3, SerialStart, SerialStep DEF Next

(* Handlers that run one at a time, interrupted or not, close no cycle that *)
(* has no edge set by hand, in a hierarchy of any size and shape.           *)
THEOREM MovesCloseNoCycle == Serial => (Spec => []CyclesAreManual)
<1>1. AInv => CyclesAreManual
  BY DEF AInv, CyclesAreManual, Derived
<1>2. Serial => (AInv /\ [Next]_vars => AInv')
  BY SerialInductive
<1> SUFFICES ASSUME Serial PROVE Spec => []CyclesAreManual
  OBVIOUS
<1>3. AInv /\ [Next]_vars => AInv'
  BY <1>2
<1> QED BY <1>1, <1>3, NoCycleInitially, PTL DEF Spec

(* Without hand-made edges the hierarchy never has a cycle.                 *)
THEOREM HierarchyIsAcyclic == Serial /\ ManualEdges = FALSE => (Spec => []Acyclic)
<1> SUFFICES ASSUME Serial, ManualEdges = FALSE PROVE Spec => []Acyclic
  OBVIOUS
<1>1. AInv => Acyclic
  <2> SUFFICES ASSUME AInv PROVE Acyclic
    OBVIOUS
  <2>1. Derived = Parents
    BY DEF AInv, Derived, Parents
  <2> QED BY <2>1 DEF AInv, Acyclic
<1>2. AInv /\ [Next]_vars => AInv'
  BY SerialInductive
<1> QED BY <1>1, <1>2, NoCycleInitially, PTL DEF Spec

-----------------------------------------------------------------------------
(* What an undo puts back, when handlers run one at a time.                 *)

Entries(s) == {s[i] : i \in 1 .. Len(s)}
Children(s) == {m.child : m \in Entries(s)}
Distinct(s) == \A i, j \in 1 .. Len(s) : i # j => s[i].child # s[j].child

\* The parents of a class, and whether a move leads back to the only one.
Of(rel, c) == {q \in rel : q[1] = c}
LeadsBack(m, rel) == OneParent(rel) => Of(rel, m.child) = IF m.parent = None THEN {} ELSE {<<m.child, m.parent>>}
Unmoved(rel, moved) == \A c \in Keys \ moved : Of(Parents, c) = Of(rel, c)

\* Where an operation stands, of itself.
Working(t) ==
    /\ op[t].pc = "idle" => op[t] = IdleOp
    /\ op[t].pc \in {"check", "query"} => op[t].prev = <<>>
    /\ op[t].pc = "expire" =>
          /\ \A e \in op[t].todo : e \in links /\ e.child = Class(t)
          /\ \A e \in links : e.child = Class(t) => e \in op[t].todo \/ (e \in stuck /\ op[t].lost)
    /\ op[t].pc = "attach" => \A e \in links : e.child # Class(t)
    /\ op[t].pc # "idle" => \A r \in receipts : r.ops < ops

\* A bulk move knows the parents of what it has moved, and nothing else moved.
Moving(t) ==
    SelectTwice = FALSE /\ op[t].kind = "bulk" /\ ~op[t].lost =>
        /\ Distinct(op[t].batch) /\ Distinct(op[t].undo)
        /\ Children(op[t].batch) \cap Children(op[t].undo) = {}
        /\ \A m \in Entries(op[t].undo) : LeadsBack(m, op[t].before)
        /\ op[t].pc # "expire" => Unmoved(op[t].before, Children(op[t].undo))
        /\ op[t].pc = "expire" =>
              /\ Unmoved(op[t].before, Children(op[t].undo) \cup {Class(t)})
              /\ Of(op[t].before, Class(t)) =
                    {<<Class(t), p>> : p \in Entries(op[t].prev)} \cup {Pair(e) : e \in op[t].todo}

\* What an undo has still to move is all that is not back in its place.
Reverting(t) ==
    SelectTwice = FALSE /\ op[t].kind = "undo" /\ op[t].exact /\ ~op[t].refused /\ ~op[t].lost =>
        /\ Distinct(op[t].batch) /\ \A m \in Entries(op[t].batch) : LeadsBack(m, op[t].before)
        /\ OneParent(op[t].before) => Unmoved(op[t].before, Children(op[t].batch))

Receipted ==
    \A r \in receipts :
        /\ r.ops \in Nat /\ r.ops <= ops
        /\ SelectTwice = FALSE /\ ~r.lost =>
              /\ Distinct(r.undo) /\ \A m \in Entries(r.undo) : LeadsBack(m, r.before)
              /\ r.ops = ops => Unmoved(r.before, Children(r.undo))

UndoInv ==
    /\ AInv /\ SingleParent /\ Receipted
    /\ \A t \in Threads : Working(t) /\ Moving(t) /\ Reverting(t)

-----------------------------------------------------------------------------
(* Sequences of moves.                                                      *)

LEMMA EntriesTail ==
    ASSUME NEW S, NEW s \in Seq(S), s # <<>>
    PROVE  /\ Entries(s) = {Head(s)} \cup Entries(Tail(s)) /\ Children(s) = {Head(s).child} \cup Children(Tail(s))
           /\ Distinct(s) => Distinct(Tail(s)) /\ Head(s).child \notin Children(Tail(s))
<1>1. /\ Head(s) = s[1] /\ Len(s) \in Nat /\ Len(s) >= 1 /\ Len(Tail(s)) = Len(s) - 1
      /\ \A i \in 1 .. Len(Tail(s)) : Tail(s)[i] = s[i + 1]
  BY EmptySeq, LenProperties, HeadTailProperties
<1>2. Entries(s) \subseteq {Head(s)} \cup Entries(Tail(s))
  <2> SUFFICES ASSUME NEW i \in 1 .. Len(s), i # 1 PROVE s[i] \in Entries(Tail(s))
    BY <1>1 DEF Entries
  <2>1. i - 1 \in 1 .. Len(Tail(s)) /\ i - 1 + 1 = i
    BY <1>1
  <2> QED BY <1>1, <2>1 DEF Entries
<1>3. {Head(s)} \cup Entries(Tail(s)) \subseteq Entries(s)
  <2>1. \A i \in 1 .. Len(Tail(s)) : i + 1 \in 1 .. Len(s)
    BY <1>1
  <2> QED BY <1>1, <2>1 DEF Entries
<1>4. Children(s) = {Head(s).child} \cup Children(Tail(s))
  BY <1>2, <1>3 DEF Children
<1>5. ASSUME Distinct(s) PROVE Distinct(Tail(s)) /\ Head(s).child \notin Children(Tail(s))
  <2>1. \A i \in 1 .. Len(Tail(s)) : i + 1 \in 1 .. Len(s) /\ i + 1 # 1 /\ 1 \in 1 .. Len(s)
    BY <1>1
  <2>2. \A i, j \in 1 .. Len(Tail(s)) : i # j => i + 1 # j + 1
    OBVIOUS
  <2>3. Distinct(Tail(s))
    BY <1>1, <1>5, <2>1, <2>2 DEF Distinct
  <2>4. \A i \in 1 .. Len(Tail(s)) : Tail(s)[i].child # Head(s).child
    BY <1>1, <1>5, <2>1 DEF Distinct
  <2> QED BY <2>3, <2>4 DEF Children, Entries
<1> QED BY <1>2, <1>3, <1>4, <1>5

LEMMA EntriesAppend ==
    ASSUME NEW S, NEW s \in Seq(S), NEW m \in S
    PROVE  /\ Entries(Append(s, m)) = Entries(s) \cup {m} /\ Children(Append(s, m)) = Children(s) \cup {m.child}
           /\ Distinct(s) /\ m.child \notin Children(s) => Distinct(Append(s, m))
<1>1. /\ Len(Append(s, m)) = Len(s) + 1 /\ Len(s) \in Nat /\ Append(s, m)[Len(s) + 1] = m
      /\ \A i \in 1 .. Len(s) : Append(s, m)[i] = s[i]
  BY AppendProperties, LenProperties
<1>2. Entries(Append(s, m)) = Entries(s) \cup {m}
  <2>1. 1 .. Len(s) + 1 = (1 .. Len(s)) \cup {Len(s) + 1}
    BY <1>1
  <2> QED BY <1>1, <2>1 DEF Entries
<1>3. Children(Append(s, m)) = Children(s) \cup {m.child}
  BY <1>2 DEF Children
<1>4. ASSUME Distinct(s), m.child \notin Children(s) PROVE Distinct(Append(s, m))
  <2>1. \A i \in 1 .. Len(s) : s[i].child # m.child
    BY <1>4 DEF Children, Entries
  <2>2. \A i \in 1 .. Len(s) + 1 : i \in 1 .. Len(s) \/ i = Len(s) + 1
    BY <1>1
  <2> QED BY <1>1, <1>4, <2>1, <2>2 DEF Distinct
<1> QED BY <1>2, <1>3, <1>4

LEMMA NoEntries == Entries(<<>>) = {} /\ Children(<<>>) = {} /\ Distinct(<<>>)
<1>1. Entries(<<>>) = {} /\ Distinct(<<>>)
  BY DEF Entries, Distinct
<1> QED BY <1>1 DEF Children

\* Edges that come or go with one child change no other child's parents.
LEMMA OthersStay ==
    ASSUME NEW c, \A e \in links \cup links' : e.child # c => (e \in links <=> e \in links')
    PROVE  /\ \A x : x # c => Of(Parents', x) = Of(Parents, x)
           /\ \A rel, moved : c \in moved /\ Unmoved(rel, moved) => Unmoved(rel, moved)'
<1>1. ASSUME NEW x, x # c PROVE Of(Parents', x) = Of(Parents, x)
  <2>1. \A q : q \in Of(Parents, x) <=> \E e \in links : e.child = x /\ q = Pair(e)
    BY DEF Of, Parents, Pair
  <2>2. \A q : q \in Of(Parents', x) <=> \E e \in links' : e.child = x /\ q = Pair(e)
    BY DEF Of, Parents, Pair
  <2>3. \A q : q \in Of(Parents', x) <=> q \in Of(Parents, x)
    BY <1>1, <2>1, <2>2
  <2>4. Of(Parents', x) \subseteq Of(Parents, x) /\ Of(Parents, x) \subseteq Of(Parents', x)
    BY <2>3
  <2> QED BY <2>4
<1> QED BY <1>1 DEF Unmoved, Of

-----------------------------------------------------------------------------
(* Operations that begin.                                                   *)

LEMMA OpTyped ==
    ASSUME AInv, NEW t \in Threads
    PROVE  /\ op[t] \in Op /\ DOMAIN op = Threads /\ op[t].batch \in Seq(Move) /\ op[t].undo \in Seq(Move)
           /\ op[t].prev \in Seq(Keys) /\ op[t].before \in SUBSET (Keys \X Keys) /\ links \subseteq Link /\ ops \in Nat
BY DEF AInv, TInv, TypeOK, Op

LEMMA Began ==
    ASSUME UndoInv, NEW t \in Threads, NEW o \in Op, Begin(t, o), UNCHANGED <<links, receipts, stuck>>,
           o.pc \in {"check", "attach"}, o.prev = <<>>,
           o.pc = "attach" => \A e \in links : e.child # Head(o.batch).child
    PROVE  /\ SingleParent' /\ Receipted' /\ Working(t)' /\ op'[t] = o
           /\ \A rel, moved : Unmoved(rel, moved)' <=> Unmoved(rel, moved)
<1>1. op'[t] = o /\ ops' = ops + 1 /\ ops \in Nat
  BY OpTyped DEF UndoInv, Begin
<1>2. \A r \in receipts : r.ops \in Nat /\ r.ops < ops'
  BY <1>1 DEF UndoInv, Receipted
<1>3. \A rel, moved : Unmoved(rel, moved)' <=> Unmoved(rel, moved)
  BY DEF Unmoved, Of, Parents
<1>4. Receipted'
  <2>1. \A r \in receipts : r.ops <= ops' /\ r.ops # ops'
    BY <1>1, <1>2
  <2> QED BY <1>2, <2>1 DEF UndoInv, Receipted
<1>5. SingleParent'
  BY DEF UndoInv, SingleParent
<1>6. Working(t)'
  BY <1>1, <1>2 DEF Working, Class, Item
<1> QED BY <1>1, <1>3, <1>4, <1>5, <1>6

LEMMA BeginReparentUndo ==
    ASSUME UndoInv, NEW t \in Threads, BeginReparent(t)
    PROVE  SingleParent' /\ Receipted' /\ Working(t)' /\ Moving(t)' /\ Reverting(t)'
<1>1. PICK c \in Keys, p \in Keys \cup {None} :
          Begin(t, [IdleOp EXCEPT !.pc = "check", !.kind = "single", !.batch = MovesUnder(<<c>>, p)])
  BY DEF BeginReparent
<1> DEFINE o == [IdleOp EXCEPT !.pc = "check", !.kind = "single", !.batch = MovesUnder(<<c>>, p)]
<1>2. o \in Op /\ o.pc = "check" /\ o.prev = <<>> /\ o.kind = "single"
  BY MovesUnderType, EmptySeq DEF IdleOp, Op
<1>3. Begin(t, o) /\ UNCHANGED <<links, receipts, stuck>>
  BY <1>1 DEF BeginReparent, hierarchy
<1> HIDE DEF o
<1>4. SingleParent' /\ Receipted' /\ Working(t)' /\ op'[t] = o
  BY <1>2, <1>3, Began
<1> QED BY <1>2, <1>4 DEF Moving, Reverting

LEMMA BeginBulkUndo ==
    ASSUME UndoInv, NEW t \in Threads, BeginBulk(t)
    PROVE  SingleParent' /\ Receipted' /\ Working(t)' /\ Moving(t)' /\ Reverting(t)'
<1>1. PICK p \in Keys : \E classes \in Selections(p) :
          Begin(t, [IdleOp EXCEPT !.pc = "check", !.kind = "bulk", !.batch = MovesUnder(classes, p), !.before = Parents])
  BY DEF BeginBulk
<1>2. PICK classes \in Selections(p) :
          Begin(t, [IdleOp EXCEPT !.pc = "check", !.kind = "bulk", !.batch = MovesUnder(classes, p), !.before = Parents])
  BY <1>1
<1>3. PICK c \in Keys, d \in Keys : classes = <<c, d>> /\ (SelectTwice = FALSE => c # d)
  BY DEF Selections
<1>4. Parents \subseteq Keys \X Keys
  BY PairsOfKeys, OpTyped DEF UndoInv
<1>5. PICK o \in Op, before \in SUBSET (Keys \X Keys) :
          /\ Begin(t, o) /\ o.pc = "check" /\ o.prev = <<>> /\ o.kind = "bulk" /\ o.undo = <<>>
          /\ o.before = before /\ before = Parents /\ o.batch = MovesUnder(classes, p)
  <2> DEFINE o == [IdleOp EXCEPT !.pc = "check", !.kind = "bulk", !.batch = MovesUnder(classes, p), !.before = Parents]
  <2>1. /\ o \in Op /\ o.pc = "check" /\ o.prev = <<>> /\ o.kind = "bulk" /\ o.undo = <<>>
        /\ o.before = Parents /\ o.batch = MovesUnder(classes, p)
    BY <1>3, <1>4, MovesUnderType, EmptySeq DEF IdleOp, Op
  <2> QED BY <1>2, <1>4, <2>1
<1>6. UNCHANGED <<links, receipts, stuck>>
  BY DEF BeginBulk
<1>7. SingleParent' /\ Receipted' /\ Working(t)' /\ op'[t] = o /\ (\A rel, moved : Unmoved(rel, moved)' <=> Unmoved(rel, moved))
  BY <1>5, <1>6, Began
<1>8. SelectTwice = FALSE => Distinct(o.batch)
  <2>1. MovesUnder(<<c, d>>, p) \in [1 .. 2 -> Move]
    BY DEF MovesUnder, Move
  <2>2. Len(MovesUnder(<<c, d>>, p)) = 2
    BY <2>1, FunctionIsSeq
  <2>3. MovesUnder(<<c, d>>, p)[1].child = c /\ MovesUnder(<<c, d>>, p)[2].child = d
    BY DEF MovesUnder
  <2>4. \A i \in 1 .. 2 : i = 1 \/ i = 2
    OBVIOUS
  <2> QED BY <1>3, <1>5, <2>2, <2>3, <2>4 DEF Distinct
<1>9. Unmoved(before, {})
  BY <1>5 DEF Unmoved
<1>10. Unmoved(before, {})'
  BY <1>7, <1>9
<1>11. Moving(t)'
  BY <1>5, <1>7, <1>8, <1>10, NoEntries DEF Moving
<1> QED BY <1>5, <1>7, <1>11 DEF Reverting

LEMMA BeginUndoUndo ==
    ASSUME UndoInv, NEW t \in Threads, BeginUndo(t)
    PROVE  SingleParent' /\ Receipted' /\ Working(t)' /\ Moving(t)' /\ Reverting(t)'
<1>1. PICK r \in receipts :
          Begin(t, [IdleOp EXCEPT !.pc = "check", !.kind = "undo", !.batch = r.undo,
                                  !.before = r.before, !.exact = (r.ops = ops), !.lost = r.lost])
  BY DEF BeginUndo
<1> DEFINE o == [IdleOp EXCEPT !.pc = "check", !.kind = "undo", !.batch = r.undo,
                               !.before = r.before, !.exact = (r.ops = ops), !.lost = r.lost]
<1>2. r.undo \in Seq(Move) /\ r.before \subseteq Keys \X Keys /\ r.lost \in BOOLEAN
  BY DEF UndoInv, AInv, TInv, TypeOK
<1>3. /\ o \in Op /\ o.pc = "check" /\ o.prev = <<>> /\ o.kind = "undo"
      /\ o.before = r.before /\ o.batch = r.undo /\ (o.exact <=> r.ops = ops) /\ o.lost = r.lost
  BY <1>2, EmptySeq DEF IdleOp, Op
<1>4. Begin(t, o) /\ UNCHANGED <<links, receipts, stuck>>
  BY <1>1 DEF BeginUndo, hierarchy
<1> HIDE DEF o
<1>5. SingleParent' /\ Receipted' /\ Working(t)' /\ op'[t] = o /\ (\A rel, moved : Unmoved(rel, moved)' <=> Unmoved(rel, moved))
  BY <1>3, <1>4, Began
<1>6. ASSUME SelectTwice = FALSE, ~r.lost
      PROVE  /\ Distinct(r.undo) /\ \A m \in Entries(r.undo) : LeadsBack(m, r.before)
             /\ r.ops = ops => Unmoved(r.before, Children(r.undo))
  BY <1>6 DEF UndoInv, Receipted
<1>7. Reverting(t)'
  BY <1>3, <1>5, <1>6 DEF Reverting
<1> QED BY <1>3, <1>5, <1>7 DEF Moving

LEMMA BeginCreateUndo ==
    ASSUME UndoInv, NEW t \in Threads, BeginCreateUnder(t)
    PROVE  SingleParent' /\ Receipted' /\ Working(t)' /\ Moving(t)' /\ Reverting(t)'
<1>1. PICK c \in Unborn \ live, p \in Keys :
          Begin(t, [IdleOp EXCEPT !.pc = "attach", !.kind = "create", !.batch = MovesUnder(<<c>>, p)])
  BY DEF BeginCreateUnder
<1> DEFINE o == [IdleOp EXCEPT !.pc = "attach", !.kind = "create", !.batch = MovesUnder(<<c>>, p)]
<1>2. c \in Keys
  BY KeysAssumption
<1>3. o \in Op /\ o.pc = "attach" /\ o.prev = <<>> /\ o.kind = "create" /\ o.batch = MovesUnder(<<c>>, p)
  BY <1>2, MovesUnderType, EmptySeq DEF IdleOp, Op
<1>4. Begin(t, o) /\ UNCHANGED <<links, receipts, stuck>>
  BY <1>1 DEF BeginCreateUnder
<1> HIDE DEF o
<1>5. Head(o.batch).child = c
  <2>1. Head(MovesUnder(<<c>>, p)) = [child |-> c, parent |-> p]
    BY <1>2, MovesUnderType
  <2> QED BY <1>3, <2>1
<1>6. \A e \in links : e.child # c
  BY DEF UndoInv, AInv, Born
<1>7. SingleParent' /\ Receipted' /\ Working(t)' /\ op'[t] = o
  BY <1>3, <1>4, <1>5, <1>6, Began
<1> QED BY <1>3, <1>7 DEF Moving, Reverting

-----------------------------------------------------------------------------
(* Operations that end, and steps that need none.                           *)

LEMMA Ended ==
    ASSUME UndoInv, NEW t \in Threads, op'[t] = IdleOp
    PROVE  Working(t)' /\ Moving(t)' /\ Reverting(t)'
BY DEF IdleOp, Working, Moving, Reverting

LEMMA OneStepUndo ==
    ASSUME UndoInv, NEW t \in Threads, DeleteClass(t) \/ Relate(t)
    PROVE  SingleParent' /\ Receipted' /\ Working(t)' /\ Moving(t)' /\ Reverting(t)'
<1>1. op[t].pc = "idle" /\ op' = op /\ ops' = ops + 1 /\ receipts' = receipts /\ ops \in Nat
  BY OpTyped DEF UndoInv, DeleteClass, Relate
<1>2. Working(t)' /\ Moving(t)' /\ Reverting(t)'
  BY <1>1, Ended DEF UndoInv, Working
<1>3. Receipted'
  <2>1. \A r \in receipts : r.ops \in Nat /\ r.ops <= ops' /\ r.ops # ops'
    BY <1>1 DEF UndoInv, Receipted
  <2> QED BY <1>1, <2>1 DEF UndoInv, Receipted
<1>4. (\A e \in links' : e \in links \/ e.manual) /\ stuck \subseteq stuck'
  BY DEF DeleteClass, Relate, Expire
<1>5. SingleParent'
  BY <1>4 DEF UndoInv, SingleParent
<1> QED BY <1>2, <1>3, <1>5

LEMMA QuietReceipts ==
    ASSUME UndoInv, NEW t \in Threads, op[t].pc # "idle", UNCHANGED <<receipts, ops>>
    PROVE  Receipted' /\ \A r \in receipts' : r.ops < ops'
<1>1. \A r \in receipts : r.ops \in Nat /\ ops \in Nat /\ r.ops < ops
  BY OpTyped DEF UndoInv, Working, Receipted
<1>2. \A r \in receipts : r.ops # ops
  BY <1>1
<1>3. Receipted'
  BY <1>2 DEF UndoInv, Receipted
<1> QED BY <1>1, <1>3

LEMMA AbortUndo ==
    ASSUME UndoInv, NEW t \in Threads, Abort(t)
    PROVE  SingleParent' /\ Receipted' /\ Working(t)' /\ Moving(t)' /\ Reverting(t)'
<1>1. op'[t] = IdleOp
  BY OpTyped DEF UndoInv, Abort
<1>2. Receipted'
  BY QuietReceipts DEF Abort
<1>3. SingleParent'
  BY DEF UndoInv, Abort, hierarchy, SingleParent
<1> QED BY <1>1, <1>2, <1>3, Ended

LEMMA FinishBatchUndo ==
    ASSUME UndoInv, NEW t \in Threads, FinishBatch(t)
    PROVE  SingleParent' /\ Receipted' /\ Working(t)' /\ Moving(t)' /\ Reverting(t)'
<1>1. op'[t] = IdleOp /\ op[t].pc = "check" /\ UNCHANGED <<links, stuck, ops>> /\ ops \in Nat
  BY OpTyped DEF UndoInv, FinishBatch, hierarchy
<1>2. SingleParent' /\ \A rel, moved : Unmoved(rel, moved)' <=> Unmoved(rel, moved)
  BY <1>1 DEF UndoInv, SingleParent, Unmoved, Of, Parents
<1>3. ASSUME NEW r \in receipts'
      PROVE  /\ r.ops \in Nat /\ r.ops <= ops
             /\ SelectTwice = FALSE /\ ~r.lost =>
                   /\ Distinct(r.undo) /\ \A m \in Entries(r.undo) : LeadsBack(m, r.before)
                   /\ r.ops = ops => Unmoved(r.before, Children(r.undo))
  <2>1. CASE r \in receipts
    BY <2>1 DEF UndoInv, Receipted
  <2>2. CASE r \notin receipts
    <3>1. op[t].kind = "bulk" /\ r = [undo |-> op[t].undo, before |-> op[t].before, lost |-> op[t].lost, ops |-> ops]
      BY <2>2 DEF FinishBatch
    <3>2. r.undo = op[t].undo /\ r.before = op[t].before /\ r.ops = ops /\ r.lost = op[t].lost
      BY <3>1
    <3>3. Moving(t)
      BY DEF UndoInv
    <3>4. ASSUME SelectTwice = FALSE, ~op[t].lost
          PROVE  /\ Distinct(op[t].undo) /\ \A m \in Entries(op[t].undo) : LeadsBack(m, op[t].before)
                 /\ Unmoved(op[t].before, Children(op[t].undo))
      BY <1>1, <3>1, <3>3, <3>4 DEF Moving
    <3>5. SelectTwice = FALSE /\ ~r.lost =>
             /\ Distinct(r.undo) /\ \A m \in Entries(r.undo) : LeadsBack(m, r.before)
             /\ Unmoved(r.before, Children(r.undo))
      BY <3>2, <3>4
    <3> QED BY <1>1, <3>2, <3>5
  <2> QED BY <2>1, <2>2
<1>4. Receipted'
  BY <1>1, <1>2, <1>3 DEF Receipted
<1> QED BY <1>1, <1>2, <1>4, Ended

LEMMA AttachNewUndo ==
    ASSUME UndoInv, NEW t \in Threads, AttachNew(t)
    PROVE  SingleParent' /\ Receipted' /\ Working(t)' /\ Moving(t)' /\ Reverting(t)'
<1>1. op'[t] = IdleOp /\ op[t].pc = "attach"
  BY OpTyped DEF UndoInv, AttachNew
<1>2. Receipted'
  BY <1>1, QuietReceipts DEF AttachNew
<1>3. \A e \in links : e.child # Class(t)
  BY <1>1 DEF UndoInv, Working
<1>4. \A e \in links' : e \in links \/ e = [id |-> made + 1, child |-> Class(t), parent |-> NewParent(t), manual |-> FALSE]
  BY DEF AttachNew, Attach
<1>5. SingleParent'
  <2> DEFINE l == [id |-> made + 1, child |-> Class(t), parent |-> NewParent(t), manual |-> FALSE]
  <2>1. l.child = Class(t) /\ \A e \in links' : e \in links \/ e = l
    BY <1>4
  <2> HIDE DEF l
  <2> SUFFICES ASSUME NEW e \in links' \ stuck', NEW f \in links' \ stuck', e.child = f.child, ~e.manual, ~f.manual PROVE e = f
    BY DEF SingleParent
  <2>2. e \in links /\ f \in links => e = f
    BY DEF UndoInv, SingleParent, AttachNew
  <2> QED BY <1>3, <2>1, <2>2
<1> QED BY <1>1, <1>2, <1>5, Ended

-----------------------------------------------------------------------------
(* The steps of a move.                                                     *)

LEMMA SameLinks ==
    ASSUME UndoInv, NEW t \in Threads, op[t].pc # "idle", UNCHANGED <<links, stuck, receipts, ops>>
    PROVE  /\ SingleParent' /\ Receipted' /\ \A r \in receipts' : r.ops < ops'
           /\ \A rel, moved : Unmoved(rel, moved) => Unmoved(rel, moved)'
<1>1. SingleParent' /\ \A rel, moved : Unmoved(rel, moved) => Unmoved(rel, moved)'
  BY DEF UndoInv, SingleParent, Unmoved, Of, Parents
<1> QED BY <1>1, QuietReceipts

LEMMA ItemOf ==
    ASSUME AInv, NEW t \in Threads, op[t].batch # <<>>
    PROVE  /\ Class(t) \in Keys /\ NewParent(t) \in Keys \cup {None} /\ Item(t) = Head(op[t].batch)
           /\ Class(t) = Head(op[t].batch).child /\ NewParent(t) = Head(op[t].batch).parent
           /\ Entries(op[t].batch) = {Item(t)} \cup Entries(Tail(op[t].batch))
           /\ Children(op[t].batch) = {Class(t)} \cup Children(Tail(op[t].batch))
           /\ Distinct(op[t].batch) => Distinct(Tail(op[t].batch)) /\ Class(t) \notin Children(Tail(op[t].batch))
<1>1. op[t].batch \in Seq(Move)
  BY OpTyped
<1>2. Class(t) \in Keys /\ NewParent(t) \in Keys \cup {None}
  BY ItemType DEF AInv
<1>3. Item(t) = Head(op[t].batch) /\ Class(t) = Head(op[t].batch).child /\ NewParent(t) = Head(op[t].batch).parent
  BY DEF Class, NewParent, Item
<1> QED BY <1>1, <1>2, <1>3, EntriesTail

LEMMA AcceptMoveUndo ==
    ASSUME UndoInv, NEW t \in Threads, AcceptMove(t)
    PROVE  SingleParent' /\ Receipted' /\ Working(t)' /\ Moving(t)' /\ Reverting(t)'
<1>1. op[t].pc = "check" /\ op'[t] = [op[t] EXCEPT !.pc = "query"] /\ UNCHANGED <<links, stuck, receipts, ops>>
  BY OpTyped DEF UndoInv, AcceptMove, hierarchy
<1>2. /\ op'[t].pc = "query" /\ op'[t].kind = op[t].kind /\ op'[t].batch = op[t].batch /\ op'[t].prev = op[t].prev
      /\ op'[t].undo = op[t].undo /\ op'[t].before = op[t].before /\ op'[t].exact = op[t].exact
      /\ op'[t].refused = op[t].refused /\ op'[t].lost = op[t].lost
  BY <1>1, OpTyped DEF UndoInv, Op
<1>3. /\ SingleParent' /\ Receipted' /\ (\A r \in receipts' : r.ops < ops')
      /\ \A rel, moved : Unmoved(rel, moved) => Unmoved(rel, moved)'
  BY <1>1, SameLinks
<1>4. Working(t)'
  BY <1>1, <1>2, <1>3 DEF UndoInv, Working
<1>5. Moving(t)'
  BY <1>1, <1>2, <1>3 DEF UndoInv, Moving
<1>6. Reverting(t)'
  BY <1>1, <1>2, <1>3 DEF UndoInv, Reverting
<1> QED BY <1>3, <1>4, <1>5, <1>6

LEMMA RejectMoveUndo ==
    ASSUME UndoInv, NEW t \in Threads, RejectMove(t)
    PROVE  SingleParent' /\ Receipted' /\ Working(t)' /\ Moving(t)' /\ Reverting(t)'
<1>1. /\ op[t].pc = "check" /\ op[t].batch # <<>> /\ UNCHANGED <<links, stuck, receipts, ops>>
      /\ op'[t] = [op[t] EXCEPT !.batch = Tail(op[t].batch), !.refused = TRUE]
  BY OpTyped DEF UndoInv, RejectMove, hierarchy
<1>2. /\ op'[t].pc = "check" /\ op'[t].kind = op[t].kind /\ op'[t].batch = Tail(op[t].batch)
      /\ op'[t].prev = op[t].prev /\ op'[t].undo = op[t].undo /\ op'[t].before = op[t].before /\ op'[t].refused = TRUE /\ op'[t].lost = op[t].lost
  BY <1>1, OpTyped DEF UndoInv, Op
<1>3. /\ SingleParent' /\ Receipted' /\ (\A r \in receipts' : r.ops < ops')
      /\ \A rel, moved : Unmoved(rel, moved) => Unmoved(rel, moved)'
  BY <1>1, SameLinks
<1>4. Working(t)'
  BY <1>1, <1>2, <1>3 DEF UndoInv, Working
<1>5. Moving(t)'
  <2>1. /\ Children(op[t].batch) = {Class(t)} \cup Children(Tail(op[t].batch))
        /\ Distinct(op[t].batch) => Distinct(Tail(op[t].batch))
    BY <1>1, ItemOf DEF UndoInv
  <2> QED BY <1>1, <1>2, <1>3, <2>1 DEF UndoInv, Moving
<1>6. Reverting(t)'
  BY <1>2 DEF Reverting
<1> QED BY <1>3, <1>4, <1>5, <1>6

LEMMA QueryParentsUndo ==
    ASSUME UndoInv, NEW t \in Threads, QueryParents(t)
    PROVE  SingleParent' /\ Receipted' /\ Working(t)' /\ Moving(t)' /\ Reverting(t)'
<1>1. /\ op[t].pc = "query" /\ op[t].batch # <<>> /\ UNCHANGED <<links, stuck, receipts, ops>>
      /\ op'[t] = [op[t] EXCEPT !.pc = "expire", !.todo = {e \in links : e.child = Class(t)}]
  BY OpTyped DEF UndoInv, AInv, TInv, HasItem, QueryParents, hierarchy
<1>2. /\ op'[t].pc = "expire" /\ op'[t].kind = op[t].kind /\ op'[t].batch = op[t].batch /\ op'[t].prev = op[t].prev
      /\ op'[t].undo = op[t].undo /\ op'[t].before = op[t].before /\ op'[t].exact = op[t].exact
      /\ op'[t].refused = op[t].refused /\ op'[t].lost = op[t].lost /\ op'[t].todo = {e \in links : e.child = Class(t)}
  BY <1>1, OpTyped DEF UndoInv, Op
<1>3. /\ SingleParent' /\ Receipted' /\ (\A r \in receipts' : r.ops < ops')
      /\ \A rel, moved : Unmoved(rel, moved) => Unmoved(rel, moved)'
  BY <1>1, SameLinks
<1>4. PICK c \in Keys : c = Class(t) /\ c = Class(t)' /\ c \in Children(op[t].batch)
  <2>1. Class(t)' = Class(t)
    BY <1>2 DEF Class, Item
  <2> QED BY <1>1, <2>1, ItemOf DEF UndoInv
<1>5. Working(t)'
  BY <1>1, <1>2, <1>3, <1>4 DEF Working
<1>6. Moving(t)'
  <2> SUFFICES ASSUME SelectTwice = FALSE, op[t].kind = "bulk", ~op[t].lost PROVE Moving(t)'
    BY <1>2 DEF Moving
  <2>1. /\ Distinct(op[t].batch) /\ Distinct(op[t].undo) /\ Children(op[t].batch) \cap Children(op[t].undo) = {}
        /\ \A m \in Entries(op[t].undo) : LeadsBack(m, op[t].before)
        /\ Unmoved(op[t].before, Children(op[t].undo)) /\ op[t].prev = <<>>
    BY <1>1 DEF UndoInv, Moving, Working
  <2>2. PICK before, undo : before = op[t].before /\ undo = op[t].undo
    OBVIOUS
  <2>3. Unmoved(before, Children(undo) \cup {c})
    BY <2>1, <2>2 DEF Unmoved
  <2>4. Unmoved(before, Children(undo) \cup {c})'
    BY <1>3, <2>3
  <2>5. Of(before, c) = Of(Parents, c)
    BY <1>4, <2>1, <2>2 DEF Unmoved
  <2>6. Of(Parents, c) = {Pair(e) : e \in op'[t].todo}
    BY <1>2, <1>4 DEF Of, Parents, Pair
  <2>7. {<<c, p>> : p \in Entries(op'[t].prev)} = {}
    BY <1>2, <2>1, NoEntries
  <2>8. Of(before, c) = {<<c, p>> : p \in Entries(op'[t].prev)} \cup {Pair(e) : e \in op'[t].todo}
    BY <2>5, <2>6, <2>7
  <2> QED BY <1>2, <1>4, <2>1, <2>2, <2>4, <2>8 DEF Moving, Pair
<1>7. Reverting(t)'
  BY <1>1, <1>2, <1>3 DEF UndoInv, Reverting
<1> QED BY <1>3, <1>5, <1>6, <1>7

LEMMA ExpireParentUndo ==
    ASSUME UndoInv, NEW t \in Threads, ExpireParent(t)
    PROVE  SingleParent' /\ Receipted' /\ Working(t)' /\ Moving(t)' /\ Reverting(t)'
<1>1. op[t].pc = "expire" /\ op[t].batch # <<>> /\ UNCHANGED <<receipts, ops>> /\ op[t] \in Op
  BY OpTyped DEF UndoInv, AInv, TInv, HasItem, ExpireParent
<1>e. PICK e \in op[t].todo : \E kept \in SUBSET {e} :
          /\ Expire({e}, kept)
          /\ op' = [op EXCEPT ![t].todo = @ \ {e}, ![t].prev = Append(@, e.parent), ![t].lost = @ \/ kept # {}]
  BY DEF ExpireParent
<1>k. PICK kept \in SUBSET {e} :
          /\ Expire({e}, kept)
          /\ op' = [op EXCEPT ![t].todo = @ \ {e}, ![t].prev = Append(@, e.parent), ![t].lost = @ \/ kept # {}]
  BY <1>e
<1>2. /\ e \in op[t].todo /\ kept \subseteq {e} /\ links' = links \ ({e} \ kept) /\ stuck' = stuck \cup kept
      /\ op' = [op EXCEPT ![t] = [op[t] EXCEPT !.todo = op[t].todo \ {e}, !.prev = Append(op[t].prev, e.parent),
                                               !.lost = op[t].lost \/ kept # {}]]
  BY <1>k, OpTyped DEF UndoInv, Expire
<1>3. op'[t] = [op[t] EXCEPT !.todo = op[t].todo \ {e}, !.prev = Append(op[t].prev, e.parent),
                             !.lost = op[t].lost \/ kept # {}]
  BY <1>2, OpTyped DEF UndoInv
<1>4. /\ op'[t].pc = "expire" /\ op'[t].kind = op[t].kind /\ op'[t].batch = op[t].batch
      /\ op'[t].prev = Append(op[t].prev, e.parent) /\ op'[t].todo = op[t].todo \ {e}
      /\ op'[t].undo = op[t].undo /\ op'[t].before = op[t].before /\ op'[t].exact = op[t].exact
      /\ op'[t].refused = op[t].refused /\ (op'[t].lost <=> op[t].lost \/ kept # {})
  BY <1>1, <1>3 DEF Op
<1>5. PICK c \in Keys : c = Class(t) /\ c = Class(t)' /\ c \in Children(op[t].batch)
  <2>1. Class(t)' = Class(t)
    BY <1>4 DEF Class, Item
  <2> QED BY <1>1, <2>1, ItemOf DEF UndoInv
<1>6. /\ \A l \in op[t].todo : l \in links /\ l.child = c
      /\ \A l \in links : l.child = c => l \in op[t].todo \/ (l \in stuck /\ op[t].lost)
  BY <1>1, <1>5 DEF UndoInv, Working
<1>7. e \in links /\ e.child = c /\ e.parent \in Keys /\ Pair(e) = <<c, e.parent>>
  BY <1>2, <1>6, OpTyped DEF UndoInv, Link, Pair
<1>8. \A rel, moved : c \in moved /\ Unmoved(rel, moved) => Unmoved(rel, moved)'
  BY <1>2, <1>7, OthersStay
<1>9. Receipted' /\ \A r \in receipts' : r.ops < ops'
  BY <1>1, QuietReceipts
<1>10. SingleParent'
  BY <1>2 DEF UndoInv, SingleParent
<1>11. Working(t)'
  <2>1. /\ \A l \in op'[t].todo : l \in links' /\ l.child = c
        /\ \A l \in links' : l.child = c => l \in op'[t].todo \/ (l \in stuck' /\ op'[t].lost)
    BY <1>2, <1>4, <1>6
  <2> QED BY <1>4, <1>5, <1>9, <2>1 DEF Working
<1>12. Moving(t)'
  <2> SUFFICES ASSUME SelectTwice = FALSE, op[t].kind = "bulk", ~op[t].lost PROVE Moving(t)'
    BY <1>4 DEF Moving
  <2>1. /\ Distinct(op[t].batch) /\ Distinct(op[t].undo) /\ Children(op[t].batch) \cap Children(op[t].undo) = {}
        /\ \A m \in Entries(op[t].undo) : LeadsBack(m, op[t].before)
        /\ Unmoved(op[t].before, Children(op[t].undo) \cup {c})
        /\ Of(op[t].before, c) = {<<c, p>> : p \in Entries(op[t].prev)} \cup {Pair(l) : l \in op[t].todo}
    BY <1>1, <1>5 DEF UndoInv, Moving
  <2>2. PICK before, undo : before = op[t].before /\ undo = op[t].undo
    OBVIOUS
  <2>3. Unmoved(before, Children(undo) \cup {c})'
    BY <1>8, <2>1, <2>2
  <2>4. Entries(op'[t].prev) = Entries(op[t].prev) \cup {e.parent}
    BY <1>4, <1>7, OpTyped, EntriesAppend DEF UndoInv
  <2>5. {Pair(l) : l \in op[t].todo} = {Pair(l) : l \in op'[t].todo} \cup {<<c, e.parent>>}
    BY <1>2, <1>4, <1>7
  <2>6. Of(before, c) = {<<c, p>> : p \in Entries(op'[t].prev)} \cup {Pair(l) : l \in op'[t].todo}
    <3>1. {<<c, p>> : p \in Entries(op'[t].prev)} = {<<c, p>> : p \in Entries(op[t].prev)} \cup {<<c, e.parent>>}
      BY <2>4
    <3> HIDE DEF Entries
    <3> QED BY <2>1, <2>2, <2>5, <3>1
  <2> QED BY <1>4, <1>5, <2>1, <2>2, <2>3, <2>6 DEF Moving, Pair
<1>13. Reverting(t)'
  <2> SUFFICES ASSUME SelectTwice = FALSE, op[t].kind = "undo", op[t].exact, ~op[t].refused, ~op[t].lost PROVE Reverting(t)'
    BY <1>4 DEF Reverting
  <2>1. /\ Distinct(op[t].batch) /\ \A m \in Entries(op[t].batch) : LeadsBack(m, op[t].before)
        /\ OneParent(op[t].before) => Unmoved(op[t].before, Children(op[t].batch))
    BY DEF UndoInv, Reverting
  <2>2. PICK before, batch : before = op[t].before /\ batch = op[t].batch
    OBVIOUS
  <2>3. OneParent(before) => Unmoved(before, Children(batch))'
    BY <1>5, <1>8, <2>1, <2>2
  <2> QED BY <1>4, <2>1, <2>2, <2>3 DEF Reverting
<1> QED BY <1>9, <1>10, <1>11, <1>12, <1>13

\* Once its edges are expired, the class gets the parent that was asked for.
LEMMA AttachParentUndo ==
    ASSUME UndoInv, NEW t \in Threads, AttachParent(t)
    PROVE  SingleParent' /\ Receipted' /\ Working(t)' /\ Moving(t)' /\ Reverting(t)'
<1>1. /\ op[t].pc = "expire" /\ op[t].todo = {} /\ op[t].batch # <<>> /\ UNCHANGED <<receipts, ops>> /\ op[t] \in Op
      /\ op'[t] = [op[t] EXCEPT !.pc = "check", !.batch = Tail(op[t].batch), !.prev = <<>>,
                                !.undo = Append(op[t].undo, UndoEntry(t))]
  BY OpTyped DEF UndoInv, AInv, TInv, HasItem, AttachParent
<1>2. /\ op'[t].pc = "check" /\ op'[t].kind = op[t].kind /\ op'[t].batch = Tail(op[t].batch)
      /\ op'[t].prev = <<>> /\ op'[t].undo = Append(op[t].undo, UndoEntry(t))
      /\ op'[t].before = op[t].before /\ op'[t].exact = op[t].exact /\ op'[t].refused = op[t].refused
      /\ op'[t].lost = op[t].lost /\ stuck' = stuck
  <2>1. stuck' = stuck
    BY DEF AttachParent
  <2> QED BY <1>1, <2>1 DEF Op
<1>3. PICK c \in Keys, p \in Keys \cup {None} : c = Class(t) /\ p = NewParent(t)
  BY <1>1, ItemOf DEF UndoInv
<1>4. \A e \in links : e.child = c => e \in stuck /\ op[t].lost
  BY <1>1, <1>3 DEF UndoInv, Working
<1>5. PICK more : /\ links' = links \cup more /\ \A l \in more : l.child = c /\ l.parent = p
                  /\ \A l, m \in more : l = m
                  /\ (p = None => more = {}) /\ (p # None => more # {})
  <2>1. CASE p = None
    <3> DEFINE none == {}
    <3>1. /\ links' = links \cup none /\ none = {} /\ \A l \in none : l.child = c /\ l.parent = p
          /\ \A l, m \in none : l = m
      BY <1>3, <2>1 DEF AttachParent
    <3> HIDE DEF none
    <3> QED BY <2>1, <3>1
  <2>2. CASE p # None
    <3> DEFINE l == [id |-> made + 1, child |-> c, parent |-> p, manual |-> FALSE]
    <3>1. links' = links \cup {l} /\ l.child = c /\ l.parent = p
      BY <1>3, <2>2 DEF AttachParent, Attach
    <3> HIDE DEF l
    <3> QED BY <2>2, <3>1
  <2> QED BY <2>1, <2>2
<1>6. ~op[t].lost => Of(Parents', c) = IF p = None THEN {} ELSE {<<c, p>>}
  <2> SUFFICES ASSUME ~op[t].lost PROVE Of(Parents', c) = IF p = None THEN {} ELSE {<<c, p>>}
    OBVIOUS
  <2>1. \A q : q \in Of(Parents', c) <=> \E l \in more : q = <<c, p>>
    BY <1>4, <1>5 DEF Of, Parents, Pair
  <2>2. CASE p = None
    BY <1>5, <2>1, <2>2
  <2>3. CASE p # None
    <3>1. \A q : q \in Of(Parents', c) <=> q = <<c, p>>
      BY <1>5, <2>1, <2>3
    <3> QED BY <2>3, <3>1
  <2> QED BY <2>2, <2>3
<1>7. /\ \A x : x # c => Of(Parents', x) = Of(Parents, x)
      /\ \A rel, moved : c \in moved /\ Unmoved(rel, moved) => Unmoved(rel, moved)'
  BY <1>5, OthersStay
<1>8. Receipted' /\ \A r \in receipts' : r.ops < ops'
  BY <1>1, QuietReceipts
<1>9. SingleParent'
  <2> SUFFICES ASSUME NEW e \in links' \ stuck, NEW f \in links' \ stuck, e.child = f.child, ~e.manual, ~f.manual PROVE e = f
    BY <1>2 DEF SingleParent
  <2>1. e \in links /\ f \in links => e = f
    BY DEF UndoInv, SingleParent
  <2> QED BY <1>4, <1>5, <2>1
<1>10. Working(t)'
  BY <1>2, <1>8 DEF Working
<1>11. /\ Children(op[t].batch) = {c} \cup Children(Tail(op[t].batch))
       /\ Entries(op[t].batch) = {Item(t)} \cup Entries(Tail(op[t].batch)) /\ Item(t).child = c /\ Item(t).parent = p
       /\ Distinct(op[t].batch) => Distinct(Tail(op[t].batch)) /\ c \notin Children(Tail(op[t].batch))
  BY <1>1, <1>3, ItemOf DEF UndoInv, Class, NewParent
<1>12. Moving(t)'
  <2> SUFFICES ASSUME SelectTwice = FALSE, op[t].kind = "bulk", ~op[t].lost PROVE Moving(t)'
    BY <1>2 DEF Moving
  <2>1. /\ Distinct(op[t].batch) /\ Distinct(op[t].undo) /\ Children(op[t].batch) \cap Children(op[t].undo) = {}
        /\ \A m \in Entries(op[t].undo) : LeadsBack(m, op[t].before)
        /\ Unmoved(op[t].before, Children(op[t].undo) \cup {c})
        /\ Of(op[t].before, c) = {<<c, x>> : x \in Entries(op[t].prev)} \cup {Pair(l) : l \in op[t].todo}
    <3>1. Moving(t)
      BY DEF UndoInv
    <3> QED BY <1>1, <1>3, <3>1 DEF Moving
  <2>2. PICK before \in SUBSET (Keys \X Keys), undo \in Seq(Move), prev \in Seq(Keys) :
            before = op[t].before /\ undo = op[t].undo /\ prev = op[t].prev
    BY OpTyped DEF UndoInv
  <2>m. PICK m : m = UndoEntry(t)
    OBVIOUS
  <2>3. m \in Move /\ m.child = c /\ m.parent = IF prev = <<>> THEN None ELSE Head(prev)
    BY <1>3, <2>2, <2>m, HeadTailProperties DEF UndoEntry, Move
  <2>4. Of(before, c) = {<<c, x>> : x \in Entries(prev)}
    BY <1>1, <2>1, <2>2
  <2>5. LeadsBack(m, before)
    <3> SUFFICES ASSUME OneParent(before)
                 PROVE  Of(before, c) = IF m.parent = None THEN {} ELSE {<<c, m.parent>>}
      BY <2>3 DEF LeadsBack
    <3>1. CASE prev = <<>>
      BY <2>3, <2>4, <3>1, NoEntries
    <3>2. CASE prev # <<>>
      <4>1. Head(prev) \in Entries(prev) /\ Head(prev) \in Keys
        BY <3>2, EntriesTail, HeadTailProperties
      <4>2. \A x \in Entries(prev) : x = Head(prev)
        <5> SUFFICES ASSUME NEW x \in Entries(prev) PROVE x = Head(prev)
          OBVIOUS
        <5>1. <<c, x>> \in Of(before, c) /\ <<c, Head(prev)>> \in Of(before, c)
          BY <2>4, <4>1
        <5> QED BY <5>1 DEF OneParent, Of
      <4>3. m.parent = Head(prev) /\ m.parent # None
        BY <2>3, <3>2, <4>1, KeysAssumption
      <4>4. Entries(prev) = {Head(prev)}
        BY <4>1, <4>2
      <4> QED BY <2>4, <4>3, <4>4
    <3> QED BY <3>1, <3>2
  <2>6. /\ Entries(Append(undo, m)) = Entries(undo) \cup {m} /\ Children(Append(undo, m)) = Children(undo) \cup {c}
        /\ Distinct(Append(undo, m))
    <3>1. c \notin Children(undo)
      BY <1>11, <2>1, <2>2
    <3> QED BY <2>1, <2>2, <2>3, <3>1, EntriesAppend
  <2>7. Unmoved(before, Children(Append(undo, m)))'
    BY <1>7, <2>1, <2>2, <2>6
  <2>8. Distinct(Tail(op[t].batch)) /\ Children(Tail(op[t].batch)) \cap Children(Append(undo, m)) = {}
    BY <1>11, <2>1, <2>2, <2>6
  <2>9. \A x \in Entries(Append(undo, m)) : LeadsBack(x, before)
    BY <2>1, <2>2, <2>5, <2>6
  <2>10. op'[t].undo = Append(undo, m) /\ op'[t].before = before
    BY <1>2, <2>2, <2>m
  <2> QED BY <1>2, <2>6, <2>7, <2>8, <2>9, <2>10 DEF Moving
<1>13. Reverting(t)'
  <2> SUFFICES ASSUME SelectTwice = FALSE, op[t].kind = "undo", op[t].exact, ~op[t].refused, ~op[t].lost PROVE Reverting(t)'
    BY <1>2 DEF Reverting
  <2>1. /\ Distinct(op[t].batch) /\ \A m \in Entries(op[t].batch) : LeadsBack(m, op[t].before)
        /\ OneParent(op[t].before) => Unmoved(op[t].before, Children(op[t].batch))
    BY DEF UndoInv, Reverting
  <2>2. PICK before, rest : before = op[t].before /\ rest = Tail(op[t].batch)
    OBVIOUS
  <2>3. ASSUME OneParent(before) PROVE Unmoved(before, Children(rest))'
    <3>1. Of(before, c) = IF p = None THEN {} ELSE {<<c, p>>}
      BY <1>11, <2>1, <2>2, <2>3 DEF LeadsBack
    <3>2. \A x \in Keys \ ({c} \cup Children(rest)) : Of(Parents, x) = Of(before, x)
      BY <1>11, <2>1, <2>2, <2>3 DEF Unmoved
    <3>3. \A x \in Keys \ Children(rest) : Of(Parents', x) = Of(before, x)
      BY <1>6, <1>7, <3>1, <3>2
    <3> QED BY <3>3 DEF Unmoved, Of
  <2> QED BY <1>2, <1>11, <2>1, <2>2, <2>3 DEF Reverting
<1> QED BY <1>8, <1>9, <1>10, <1>12, <1>13

LEMMA UndoInitially == Init => UndoInv
<1> SUFFICES ASSUME Init PROVE UndoInv
  OBVIOUS
<1>1. PICK f \in Forests : links = {[id |-> 0, child |-> c, parent |-> f[c],
                                     manual |-> FALSE] : c \in {b \in live : f[b] # None}}
  BY DEF Init
<1>2. \A e \in links : e = [id |-> 0, child |-> e.child, parent |-> f[e.child], manual |-> FALSE]
  BY <1>1
<1>3. SingleParent
  BY <1>2 DEF SingleParent
<1>4. \A t \in Threads : op[t] = IdleOp /\ receipts = {}
  BY DEF Init
<1>5. \A t \in Threads : Working(t) /\ Moving(t) /\ Reverting(t)
  BY <1>4 DEF IdleOp, Working, Moving, Reverting
<1>6. Receipted
  BY DEF Init, Receipted
<1> QED BY <1>3, <1>5, <1>6, NoCycleInitially DEF UndoInv

LEMMA UndoStays == UndoInv /\ Serial /\ [Next]_vars => UndoInv'
<1> SUFFICES ASSUME UndoInv, Serial, [Next]_vars PROVE UndoInv'
  OBVIOUS
<1>1. AInv'
  BY SerialInductive DEF UndoInv
<1>2. ASSUME NEW t \in Threads, SingleParent' /\ Receipted' /\ Working(t)' /\ Moving(t)' /\ Reverting(t)'
      PROVE  UndoInv'
  <2>1. \A u \in Threads : u = t
    BY DEF Serial
  <2> QED BY <1>1, <1>2, <2>1 DEF UndoInv
<1>3. CASE UNCHANGED vars
  <2>1. SingleParent' /\ \A rel, moved : Unmoved(rel, moved)' <=> Unmoved(rel, moved)
    BY <1>3 DEF vars, UndoInv, SingleParent, Unmoved, Of, Parents
  <2>2. Receipted'
    BY <1>3, <2>1 DEF vars, UndoInv, Receipted
  <2>3. \A t \in Threads : Working(t)'
    BY <1>3 DEF vars, UndoInv, Working, Class, Item
  <2>4. \A t \in Threads : Moving(t)'
    BY <1>3, <2>1 DEF vars, UndoInv, Moving, Class, Item
  <2>5. \A t \in Threads : Reverting(t)'
    BY <1>3, <2>1 DEF vars, UndoInv, Reverting
  <2> QED BY <1>1, <2>1, <2>2, <2>3, <2>4, <2>5 DEF UndoInv
<1>4. ASSUME NEW t \in Threads,
             BeginReparent(t) \/ BeginBulk(t) \/ BeginUndo(t) \/ BeginCreateUnder(t) \/ DeleteClass(t) \/ Relate(t)
      PROVE  UndoInv'
  BY <1>2, <1>4, BeginReparentUndo, BeginBulkUndo, BeginUndoUndo, BeginCreateUndo, OneStepUndo
<1>5. ASSUME NEW t \in Threads,
             \/ AcceptMove(t) \/ RejectMove(t) \/ QueryParents(t) \/ ExpireParent(t)
             \/ AttachParent(t) \/ FinishBatch(t) \/ AttachNew(t) \/ Abort(t)
      PROVE  UndoInv'
  BY <1>2, <1>5, AcceptMoveUndo, RejectMoveUndo, QueryParentsUndo, ExpireParentUndo, AttachParentUndo,
     FinishBatchUndo, AttachNewUndo, AbortUndo
<1> QED BY <1>3, <1>4, <1>5 DEF Next

(* With one handler at a time, a class has at most one parent edge that was *)
(* not set by hand and whose expiry has not failed unnoticed, wherever a    *)
(* move is interrupted: the new edge comes after the last old one has been  *)
(* expired, or has failed to be (_reparent_impl).                           *)
THEOREM MovesLeaveOneParent == Serial => (Spec => []SingleParent)
<1> SUFFICES ASSUME Serial PROVE Spec => []SingleParent
  OBVIOUS
<1>1. UndoInv => SingleParent
  BY DEF UndoInv
<1>2. UndoInv /\ [Next]_vars => UndoInv'
  BY UndoStays
<1> QED BY <1>1, <1>2, UndoInitially, PTL DEF Spec

(* An undo that directly follows its bulk move, of which no move is refused *)
(* and in neither of which an expiry fails unnoticed, puts a hierarchy of   *)
(* single parents back, for selections, moves and hierarchies of any kind,  *)
(* if no class is selected twice (undo_bulk_reparent).                      *)
THEOREM UndoPutsBack == Serial /\ SelectTwice = FALSE => (Spec => UndoRestores)
<1> SUFFICES ASSUME Serial, SelectTwice = FALSE PROVE Spec => UndoRestores
  OBVIOUS
<1>1. UndoInv /\ [Next]_vars => UndoInv'
  BY UndoStays
<1>2. UndoInv /\ [Next]_vars =>
          [\A t \in Threads :
              /\ op[t].kind = "undo" /\ op[t].exact /\ ~op[t].refused /\ ~op[t].lost
              /\ OneParent(op[t].before)
              /\ FinishBatch(t)
              => Parents = op[t].before]_vars
  <2> SUFFICES ASSUME UndoInv, NEW t \in Threads, op[t].kind = "undo", op[t].exact, ~op[t].refused, ~op[t].lost,
                      OneParent(op[t].before), FinishBatch(t)
               PROVE  Parents = op[t].before
    OBVIOUS
  <2>1. Unmoved(op[t].before, {})
    BY NoEntries DEF UndoInv, Reverting, FinishBatch
  <2>2. \A c \in Keys : Of(Parents, c) = Of(op[t].before, c)
    BY <2>1 DEF Unmoved
  <2>3. Parents \subseteq Keys \X Keys /\ op[t].before \subseteq Keys \X Keys
    BY PairsOfKeys, OpTyped DEF UndoInv
  <2>4. ASSUME NEW q \in Keys \X Keys PROVE q \in Parents <=> q \in op[t].before
    <3>1. q[1] \in Keys
      OBVIOUS
    <3> QED BY <2>2, <3>1 DEF Of
  <2> QED BY <2>3, <2>4
<1> QED BY <1>1, <1>2, UndoInitially, PTL DEF Spec, UndoRestores

-----------------------------------------------------------------------------
(* The ontology library: the invariant.                                     *)

Hop(e) == <<e.from, e.to>>
Hops(E) == {Hop(e) : e \in E}
Clean == Hops({e \in edges : e.live /\ {e.from, e.to} \cap contended = {}})

\* w goes along k hops of rel.
Walk(rel, w, k) == w \in [0 .. k -> Ontologies] /\ \A i \in 0 .. k - 1 : <<w[i], w[i + 1]>> \in rel
Linked(rel, x, y) == \E k \in 1 .. MaxDepth : \E w \in [0 .. k -> Ontologies] : Walk(rel, w, k) /\ w[0] = x /\ w[k] = y
Circle(rel) == \E k \in 1 .. MaxDepth + 1 : \E w \in [0 .. k -> Ontologies] : Walk(rel, w, k) /\ w[0] = w[k]
Untouched(x) == \A h \in Clean : x \notin {h[1], h[2]}

\* What the frame of a handler holds at each place.
Framed(c) ==
    /\ c.at = "free" => c = Free
    /\ c.at # "free" => c.o \in Ontologies
    /\ c.at = "link" => c.to \in Ontologies /\ c.to # c.o
    /\ c.at = "update" => c.arg \in {"active", "deprecated"} \cup Names
    /\ c.at \in {"release", "announce"} => c.arg \in Versions

\* What it knows of the ontologies nobody else is about.
Informed(c) ==
    /\ c.at \in {"create", "read", "write", "register", "sync", "graph", "entry"} /\ c.o \notin contended
          => Untouched(c.o)
    /\ c.at \in {"link", "sync"} /\ c.o \notin contended => Known(c.o)
    /\ c.at = "link" /\ c.to \notin contended => Known(c.to)
    /\ c.at = "link" /\ {c.o, c.to} \cap contended = {} /\ ~raced
          => Untouched(c.o) \/ ~Linked(Hops(edges), c.to, c.o)

Alone ==
    \A p, q \in Slots : p # q =>
        /\ About(p) \cap About(q) \subseteq contended
        /\ ~raced => ~(AddsImports(call[p]) /\ AddsImports(call[q]))

Resolved == \A h \in Clean : Known(h[1]) /\ Known(h[2])

LibraryInv ==
    /\ LibraryTypeOK
    /\ \A q \in Slots : Framed(call[q]) /\ Informed(call[q])
    /\ Alone /\ Resolved
    /\ ~raced => ~Circle(Clean)
-----------------------------------------------------------------------------
(* Walks, and what the traversals of the database find of them.             *)

LEMMA Smallest == ASSUME NEW S \in SUBSET Nat, S # {} PROVE \E n \in S : \A m \in S : n <= m
<1>1. PICK n \in S : \A m \in S : ~(<<m, n>> \in OpToRel(<, Nat))
  BY NatLessThanWellFounded, WFMin
<1>2. ASSUME NEW m \in S, m < n PROVE FALSE
  BY <1>1, <1>2 DEF OpToRel
<1>3. \A m \in S : m \in Nat /\ n \in Nat /\ ~(m < n)
  BY <1>2
<1>4. \A m \in S : n <= m
  BY <1>3
<1> QED BY <1>4

\* One hop at a time up to a depth: every layer looks at the one before it, so
\* the function the traversal computes exists.
Fills(seen, o, E, depth) ==
    seen = [n \in 0 .. depth |-> IF n = 0 THEN {o}
                                 ELSE LET last == seen[n - 1] IN last \cup {e.to : e \in {d \in E : d.from \in last}}]

LEMMA SeenDefined == ASSUME NEW o, NEW E, NEW depth \in Nat PROVE \E seen : Fills(seen, o, E, depth)
<1> DEFINE more(last) == last \cup {e.to : e \in {d \in E : d.from \in last}}
           Computes(f, m) == f = [n \in 0 .. m |-> IF n = 0 THEN {o} ELSE more(f[n - 1])]
           Undefined == {m \in Nat : \A f : ~Computes(f, m)}
<1>1. \E f : Computes(f, 0)
  <2>1. Computes([n \in 0 .. 0 |-> {o}], 0)
    OBVIOUS
  <2> QED BY <2>1
<1> HIDE DEF more
<1>2. ASSUME NEW m \in Nat, NEW f, Computes(f, m)
      PROVE  \E g : Computes(g, m + 1)
  <2> DEFINE g == [n \in 0 .. m + 1 |-> IF n = 0 THEN {o} ELSE more(f[n - 1])]
  <2>1. ASSUME NEW n \in 0 .. m PROVE g[n] = f[n]
    <3>1. f[n] = IF n = 0 THEN {o} ELSE more(f[n - 1])
      BY <1>2
    <3>2. g[n] = IF n = 0 THEN {o} ELSE more(f[n - 1])
      OBVIOUS
    <3> QED BY <3>1, <3>2
  <2>2. ASSUME NEW n \in 0 .. m + 1, n # 0 PROVE g[n - 1] = f[n - 1]
    <3>1. n - 1 \in 0 .. m
      BY <2>2
    <3> QED BY <2>1, <3>1
  <2>3. \A n \in 0 .. m + 1 : (IF n = 0 THEN {o} ELSE more(f[n - 1])) = IF n = 0 THEN {o} ELSE more(g[n - 1])
    BY <2>2
  <2>4. g = [n \in 0 .. m + 1 |-> IF n = 0 THEN {o} ELSE more(g[n - 1])]
    BY <2>3
  <2> QED BY <2>4
<1> HIDE DEF Computes
<1>3. Undefined = {}
  <2> SUFFICES ASSUME Undefined # {} PROVE FALSE
    OBVIOUS
  <2>1. PICK n \in Undefined : \A m \in Undefined : n <= m
    BY Smallest, Undefined \in SUBSET Nat
  <2>2. n # 0
    BY <1>1
  <2>3. n - 1 \in Nat /\ n - 1 \notin Undefined
    BY <2>1, <2>2
  <2>4. PICK f : Computes(f, n - 1)
    BY <2>3
  <2> QED BY <1>2, <2>3, <2>4
<1>4. PICK f : Computes(f, depth)
  BY <1>3
<1> QED BY <1>4 DEF Computes, more, Fills

Spreads(seen, o, E, depth) ==
    /\ seen[0] = {o}
    /\ \A n \in 1 .. depth : seen[n] = seen[n - 1] \cup {e.to : e \in {d \in E : d.from \in seen[n - 1]}}

LEMMA LayersOfSeen ==
    ASSUME NEW o, NEW E, NEW depth \in Nat
    PROVE  \E seen : /\ Spreads(seen, o, E, depth) /\ Layers(o, E, depth)[0] = {o}
                     /\ \A n \in 1 .. depth : Layers(o, E, depth)[n] = seen[n] \ seen[n - 1]
<1> DEFINE seen == CHOOSE f : Fills(f, o, E, depth)
<1>1. Fills(seen, o, E, depth)
  BY SeenDefined
<1>2. Layers(o, E, depth) = [n \in 0 .. depth |-> IF n = 0 THEN {o} ELSE seen[n] \ seen[n - 1]]
  BY DEF Layers, Fills
<1> HIDE DEF seen
<1>3. seen[0] = {o}
  BY <1>1 DEF Fills
<1>4. ASSUME NEW n \in 1 .. depth
      PROVE  seen[n] = seen[n - 1] \cup {e.to : e \in {d \in E : d.from \in seen[n - 1]}}
  <2>1. n \in 0 .. depth /\ n # 0
    OBVIOUS
  <2> QED BY <1>1, <2>1 DEF Fills
<1>5. Layers(o, E, depth)[0] = {o} /\ \A n \in 1 .. depth : Layers(o, E, depth)[n] = seen[n] \ seen[n - 1]
  BY <1>2
<1> QED BY <1>3, <1>4, <1>5 DEF Spreads

LEMMA HopsType == ASSUME NEW E \in SUBSET Edge PROVE Hops(E) \subseteq Ontologies \X Ontologies
BY DEF Hops, Hop, Edge

\* What lies n hops away is at the end of a walk of n hops.
LEMMA LayersWalk ==
    ASSUME NEW o \in Ontologies, NEW E \in SUBSET Edge, NEW depth \in Nat, NEW k \in 0 .. depth, NEW y \in Layers(o, E, depth)[k]
    PROVE  \E w \in [0 .. k -> Ontologies] : Walk(Hops(E), w, k) /\ w[0] = o /\ w[k] = y
<1> DEFINE Ending(n, x) == \E w \in [0 .. n -> Ontologies] : Walk(Hops(E), w, n) /\ w[0] = o /\ w[n] = x
           Bad == {n \in 0 .. depth : \E x \in Layers(o, E, depth)[n] : ~Ending(n, x)}
<1>1. PICK seen : /\ Spreads(seen, o, E, depth) /\ Layers(o, E, depth)[0] = {o}
                  /\ \A n \in 1 .. depth : Layers(o, E, depth)[n] = seen[n] \ seen[n - 1]
  BY LayersOfSeen
<1>2. Ending(0, o)
  <2>1. Walk(Hops(E), [i \in 0 .. 0 |-> o], 0)
    BY DEF Walk
  <2> QED BY <2>1
<1>3. ASSUME NEW n \in Nat, NEW x, Ending(n, x), NEW e \in E, e.from = x PROVE Ending(n + 1, e.to)
  <2>1. PICK w \in [0 .. n -> Ontologies] : Walk(Hops(E), w, n) /\ w[0] = o /\ w[n] = x
    BY <1>3
  <2>2. e.to \in Ontologies /\ <<x, e.to>> \in Hops(E)
    BY <1>3 DEF Edge, Hops, Hop
  <2> DEFINE v == [i \in 0 .. n + 1 |-> IF i <= n THEN w[i] ELSE e.to]
  <2>3. v \in [0 .. n + 1 -> Ontologies] /\ v[0] = o /\ v[n + 1] = e.to /\ n + 1 - 1 = n
    BY <2>1, <2>2
  <2>4. ASSUME NEW i \in 0 .. n + 1 - 1 PROVE <<v[i], v[i + 1]>> \in Hops(E)
    <3>1. CASE i = n
      BY <2>1, <2>2, <3>1
    <3>2. CASE i < n
      <4>1. i \in 0 .. n - 1 /\ v[i] = w[i] /\ v[i + 1] = w[i + 1]
        BY <3>2
      <4> QED BY <2>1, <4>1 DEF Walk
    <3>3. i = n \/ i < n
      <4> HIDE DEF v
      <4> QED OBVIOUS
    <3> HIDE DEF v
    <3> QED BY <3>1, <3>2, <3>3
  <2> HIDE DEF v
  <2>5. Walk(Hops(E), v, n + 1)
    BY <2>3, <2>4 DEF Walk
  <2> QED BY <2>3, <2>5
<1> HIDE DEF Ending
<1>4. Bad = {}
  <2> SUFFICES ASSUME Bad # {} PROVE FALSE
    OBVIOUS
  <2>1. Bad \in SUBSET Nat
    OBVIOUS
  <2>2. PICK n \in Bad : \A m \in Bad : n <= m
    BY <2>1, Smallest
  <2>3. PICK x \in Layers(o, E, depth)[n] : ~Ending(n, x)
    BY <2>2
  <2>4. n # 0
    BY <1>1, <1>2, <2>3
  <2>5. n \in 1 .. depth /\ n - 1 \in 0 .. depth /\ n - 1 \notin Bad
    BY <2>2, <2>4
  <2>6. x \in seen[n] /\ x \notin seen[n - 1]
    BY <1>1, <2>3, <2>5
  <2>7. PICK e \in E : e.from \in seen[n - 1] /\ e.to = x
    BY <1>1, <2>5, <2>6 DEF Spreads
  <2>8. e.from \in Layers(o, E, depth)[n - 1]
    <3>1. CASE n = 1
      BY <1>1, <2>7, <3>1 DEF Spreads
    <3>2. CASE n # 1
      <4>1. n - 1 \in 1 .. depth
        BY <2>5, <3>2
      <4>2. e.from \notin seen[n - 1 - 1]
        BY <1>1, <2>6, <2>7, <4>1 DEF Spreads
      <4> QED BY <1>1, <2>7, <4>1, <4>2
    <3> QED BY <3>1, <3>2
  <2>9. Ending(n - 1, e.from)
    BY <2>5, <2>8
  <2> QED BY <1>3, <2>3, <2>5, <2>7, <2>9
<1>5. Ending(k, y)
  BY <1>4
<1> QED BY <1>5 DEF Ending

\* And where a walk leads is found, in as many hops or fewer.
LEMMA WalkLayers ==
    ASSUME NEW E, NEW depth \in Nat, NEW k \in 1 .. depth, NEW w, Walk(Hops(E), w, k), w[k] # w[0]
    PROVE  \E n \in 1 .. depth : w[k] \in Layers(w[0], E, depth)[n]
<1>1. PICK seen : /\ Spreads(seen, w[0], E, depth)
                  /\ \A n \in 1 .. depth : Layers(w[0], E, depth)[n] = seen[n] \ seen[n - 1]
  BY LayersOfSeen
<1> DEFINE Unseen == {i \in 0 .. k : w[i] \notin seen[i]}
           Found == {i \in 0 .. k : w[k] \in seen[i]}
<1>2. Unseen = {}
  <2> SUFFICES ASSUME Unseen # {} PROVE FALSE
    OBVIOUS
  <2>1. PICK n \in Unseen : \A m \in Unseen : n <= m
    BY Smallest, Unseen \in SUBSET Nat
  <2>2. n # 0
    BY <1>1, <2>1 DEF Spreads
  <2>3. n \in 1 .. depth /\ n - 1 \in 0 .. k - 1 /\ n - 1 \in 0 .. k /\ n - 1 \notin Unseen
    BY <2>1, <2>2
  <2>4. <<w[n - 1], w[n - 1 + 1]>> \in Hops(E)
    BY <2>3 DEF Walk
  <2>5. PICK e \in E : e.from = w[n - 1] /\ e.to = w[n]
    BY <2>3, <2>4 DEF Hops, Hop
  <2> QED BY <1>1, <2>1, <2>3, <2>5 DEF Spreads
<1>3. k \in Found
  BY <1>2
<1>4. PICK n \in Found : \A m \in Found : n <= m
  BY <1>3, Smallest, Found \in SUBSET Nat
<1>5. n # 0
  BY <1>1, <1>4 DEF Spreads
<1>6. n \in 1 .. depth /\ w[k] \in seen[n] /\ w[k] \notin seen[n - 1]
  <2>1. n - 1 \in 0 .. k /\ n - 1 \notin Found
    BY <1>4, <1>5
  <2> QED BY <1>4, <1>5, <2>1
<1> QED BY <1>1, <1>6

LEMMA DepthIsNat == MaxDepth \in Nat
BY LibraryAssumption, Zenon DEF LibraryAssumption

\* An edge the cycle check lets through goes to where nothing leads back.
LEMMA CheckedIsUnlinked ==
    ASSUME edges \subseteq Edge, NEW x \in Ontologies, NEW y \in Ontologies, x # y, ~GoesTo(x, y)
    PROVE  ~Linked(Hops(edges), x, y)
<1> SUFFICES ASSUME Linked(Hops(edges), x, y) PROVE FALSE
  OBVIOUS
<1>a. PICK k \in 1 .. MaxDepth : \E w \in [0 .. k -> Ontologies] : Walk(Hops(edges), w, k) /\ w[0] = x /\ w[k] = y
  BY DEF Linked
<1>1. PICK w \in [0 .. k -> Ontologies] : Walk(Hops(edges), w, k) /\ w[0] = x /\ w[k] = y
  BY <1>a
<1>2. \E n \in 1 .. MaxDepth : w[k] \in Layers(w[0], edges, MaxDepth)[n]
  BY <1>1, WalkLayers, DepthIsNat
<1> QED BY <1>1, <1>2 DEF GoesTo

\* What an ontology imports and leads back to it is a circle.
LEMMA LedBackIsCircle ==
    ASSUME NEW E \in SUBSET Edge, NEW x \in Ontologies, x \in LeadsTo(x, E)
    PROVE  Circle(Hops(E))
<1>1. PICK e \in E, n \in 0 .. MaxDepth : e.from = x /\ x \in Layers(e.to, E, MaxDepth)[n]
  BY DEF LeadsTo
<1>2. e.to \in Ontologies /\ <<x, e.to>> \in Hops(E)
  BY <1>1 DEF Edge, Hops, Hop
<1>3. PICK w \in [0 .. n -> Ontologies] : Walk(Hops(E), w, n) /\ w[0] = e.to /\ w[n] = x
  BY <1>1, <1>2, LayersWalk, DepthIsNat
<1> DEFINE v == [i \in 0 .. n + 1 |-> IF i = 0 THEN x ELSE w[i - 1]]
<1>4. v \in [0 .. n + 1 -> Ontologies] /\ v[0] = x /\ v[n + 1] = x
  <2>1. \A i \in 0 .. n + 1 : i # 0 => i - 1 \in 0 .. n
    OBVIOUS
  <2>2. n + 1 - 1 = n /\ n + 1 # 0 /\ n + 1 \in 0 .. n + 1
    OBVIOUS
  <2> QED BY <1>3, <2>1, <2>2
<1>5. ASSUME NEW i \in 0 .. n + 1 - 1 PROVE <<v[i], v[i + 1]>> \in Hops(E)
  <2>1. v[i + 1] = w[i]
    OBVIOUS
  <2>2. CASE i = 0
    BY <1>2, <1>3, <2>1, <2>2
  <2>3. CASE i # 0
    <3>1. i - 1 \in 0 .. n - 1 /\ v[i] = w[i - 1]
      BY <2>3
    <3>2. <<w[i - 1], w[i - 1 + 1]>> \in Hops(E)
      BY <1>3, <3>1 DEF Walk
    <3> QED BY <2>1, <3>1, <3>2
  <2> QED BY <2>2, <2>3
<1> HIDE DEF v
<1>6. Walk(Hops(E), v, n + 1)
  BY <1>4, <1>5 DEF Walk
<1>7. n + 1 \in 1 .. MaxDepth + 1
  BY DepthIsNat
<1> QED BY <1>4, <1>6, <1>7 DEF Circle

LEMMA FewerHops == ASSUME NEW rel, NEW sub, sub \subseteq rel, Circle(sub) PROVE Circle(rel)
BY DEF Circle, Walk

(* The heart of the check: a hop whose end does not lead back to its start  *)
(* closes no circle.  A shortest circle takes it once, and the rest of it   *)
(* is a walk from its end to its start.                                     *)
LEMMA NewHopNoCircle ==
    ASSUME NEW rel, ~Circle(rel), NEW all, rel \subseteq all, NEW a \in Ontologies, NEW b \in Ontologies, a # b,
           ~Linked(all, b, a)
    PROVE  ~Circle(rel \cup {<<a, b>>})
<1> DEFINE new == rel \cup {<<a, b>>}
           Rounds(w, k) == w \in [0 .. k -> Ontologies] /\ Walk(new, w, k) /\ w[0] = w[k]
           Lengths == {k \in 1 .. MaxDepth + 1 : \E w : Rounds(w, k)}
<1> SUFFICES ASSUME Circle(new) PROVE FALSE
  OBVIOUS
<1>1. Lengths # {} /\ Lengths \in SUBSET Nat
  BY DEF Circle
<1>2. PICK k \in Lengths : \A m \in Lengths : k <= m
  BY <1>1, Smallest
<1>3. PICK w : Rounds(w, k)
  BY <1>2
<1>4. k \in 1 .. MaxDepth + 1 /\ k \in Nat /\ MaxDepth \in Nat
  BY <1>2, DepthIsNat
<1>5. PICK i \in 0 .. k - 1 : w[i] = a /\ w[i + 1] = b
  <2> SUFFICES ASSUME \A i \in 0 .. k - 1 : ~(w[i] = a /\ w[i + 1] = b) PROVE FALSE
    OBVIOUS
  <2>1. \A i \in 0 .. k - 1 : <<w[i], w[i + 1]>> \in rel
    BY <1>3 DEF Walk
  <2>2. Walk(rel, w, k)
    BY <1>3, <2>1 DEF Walk
  <2> QED BY <1>3, <1>4, <2>2 DEF Circle
\* A second time would make a shorter circle.
<1>6. ASSUME NEW j \in 0 .. k - 1, w[j] = a, j # i PROVE FALSE
  <2>1. PICK lo \in 0 .. k - 1, hi \in 0 .. k - 1 : lo < hi /\ w[lo] = a /\ w[hi] = a
    <3>1. j < i \/ i < j
      BY <1>6
    <3> QED BY <1>5, <1>6, <3>1
  <2> DEFINE v == [n \in 0 .. hi - lo |-> w[lo + n]]
  <2>2. v \in [0 .. hi - lo -> Ontologies] /\ v[0] = a /\ v[hi - lo] = a
    <3>1. \A n \in 0 .. hi - lo : lo + n \in 0 .. k
      BY <1>4, <2>1
    <3>2. hi - lo \in 0 .. hi - lo /\ 0 \in 0 .. hi - lo /\ lo + 0 = lo /\ lo + (hi - lo) = hi
      BY <2>1
    <3> QED BY <1>3, <2>1, <3>1, <3>2
  <2>3. ASSUME NEW n \in 0 .. hi - lo - 1 PROVE <<v[n], v[n + 1]>> \in new
    <3>1. lo + n \in 0 .. k - 1 /\ v[n] = w[lo + n] /\ v[n + 1] = w[lo + n + 1]
      BY <1>4, <2>1
    <3> QED BY <1>3, <3>1 DEF Walk
  <2> HIDE DEF v, new
  <2>4. Walk(new, v, hi - lo)
    BY <2>2, <2>3 DEF Walk
  <2>5. hi - lo \in 1 .. MaxDepth + 1 /\ hi - lo < k
    BY <1>4, <2>1
  <2>6. hi - lo \in Lengths
    BY <2>2, <2>4, <2>5
  <2> QED BY <1>2, <1>4, <2>5, <2>6
<1>7. \A j \in 0 .. k - 1 : j # i => <<w[j], w[j + 1]>> \in all
  BY <1>3, <1>6 DEF Walk
\* From the end of the hop on, and round to its start.
<1> DEFINE rest == k - 1 - i
           v == [n \in 0 .. k - 1 |-> IF n <= rest THEN w[i + 1 + n] ELSE w[n - rest]]
<1>8. rest \in 0 .. k - 1 /\ k - 1 \in Nat
  BY <1>4
<1>9. v \in [0 .. k - 1 -> Ontologies]
  <2>1. \A n \in 0 .. k - 1 : IF n <= rest THEN i + 1 + n \in 0 .. k ELSE n - rest \in 0 .. k
    BY <1>4
  <2> QED BY <1>3, <2>1
<1>10. v[0] = b /\ v[k - 1] = a
  <2>1. v[0] = w[i + 1]
    BY <1>4
  <2>2. v[k - 1] = w[i]
    <3>1. CASE i = 0
      <4>1. rest = k - 1 /\ i + 1 + (k - 1) = k
        BY <1>4, <3>1
      <4>2. v[k - 1] = w[k]
        BY <1>8, <4>1
      <4> QED BY <1>3, <3>1, <4>2
    <3>2. CASE i # 0
      <4>1. ~(k - 1 <= rest) /\ k - 1 - rest = i /\ k - 1 \in 0 .. k - 1
        BY <1>4, <3>2
      <4> QED BY <4>1
    <3> QED BY <3>1, <3>2
  <2> QED BY <1>5, <2>1, <2>2
<1>11. ASSUME NEW n \in 0 .. k - 1 - 1 PROVE <<v[n], v[n + 1]>> \in all
  <2>1. CASE n + 1 <= rest
    <3>1. v[n] = w[i + 1 + n] /\ v[n + 1] = w[i + 1 + n + 1] /\ i + 1 + n \in 0 .. k - 1 /\ i + 1 + n # i
      BY <1>4, <2>1
    <3> QED BY <1>7, <3>1
  <2>2. CASE n = rest
    <3>1. n + 1 \in 0 .. k - 1 /\ ~(n + 1 <= rest) /\ n + 1 - rest = 1 /\ i + 1 + n = k /\ n \in 0 .. k - 1
      BY <1>4, <2>2
    <3>2. v[n] = w[k] /\ v[n + 1] = w[1]
      BY <2>2, <3>1
    <3>3. 0 # i /\ 0 \in 0 .. k - 1
      BY <1>4, <2>2
    <3>4. <<w[0], w[0 + 1]>> \in all
      BY <1>7, <3>3
    <3>5. 0 + 1 = 1
      OBVIOUS
    <3> QED BY <1>3, <3>2, <3>4, <3>5
  <2>3. CASE n > rest
    <3>1. v[n] = w[n - rest] /\ v[n + 1] = w[n - rest + 1] /\ n - rest \in 0 .. k - 1 /\ n - rest # i
      BY <1>4, <2>3
    <3> QED BY <1>7, <3>1
  <2> QED BY <1>8, <2>1, <2>2, <2>3
<1> HIDE DEF v
<1>12. Walk(all, v, k - 1)
  BY <1>9, <1>11 DEF Walk
<1>13. k - 1 \in 1 .. MaxDepth
  <2>1. k # 1
    BY <1>10
  <2> QED BY <1>4, <2>1
<1> QED BY <1>9, <1>10, <1>12, <1>13 DEF Linked

\* Nor do hops from where no hop comes in.
LEMMA NewHopsNoCircle ==
    ASSUME NEW rel, ~Circle(rel), NEW a, \A h \in rel : h[2] # a, NEW more, \A h \in more : h[1] = a /\ h[2] # a
    PROVE  ~Circle(rel \cup more)
<1> SUFFICES ASSUME Circle(rel \cup more) PROVE FALSE
  OBVIOUS
<1>a. PICK k \in 1 .. MaxDepth + 1 : \E w \in [0 .. k -> Ontologies] : Walk(rel \cup more, w, k) /\ w[0] = w[k]
  BY DEF Circle
<1>1. PICK w \in [0 .. k -> Ontologies] : Walk(rel \cup more, w, k) /\ w[0] = w[k]
  BY <1>a
<1>2. k \in Nat /\ k >= 1
  BY DepthIsNat
<1>3. ASSUME NEW i \in 0 .. k - 1 PROVE w[i] # a
  <2>1. PICK j \in 0 .. k - 1 : w[j + 1] = w[i]
    <3>1. CASE i = 0
      <4>1. k - 1 \in 0 .. k - 1 /\ k - 1 + 1 = k
        BY <1>2
      <4> QED BY <1>1, <3>1, <4>1
    <3>2. CASE i # 0
      <4>1. i - 1 \in 0 .. k - 1 /\ i - 1 + 1 = i
        BY <1>2, <3>2
      <4> QED BY <4>1
    <3> QED BY <3>1, <3>2
  <2>2. <<w[j], w[j + 1]>> \in rel \cup more
    BY <1>1 DEF Walk
  <2> QED BY <2>1, <2>2
<1>4. \A i \in 0 .. k - 1 : <<w[i], w[i + 1]>> \in rel
  BY <1>1, <1>3 DEF Walk
<1>5. Walk(rel, w, k)
  BY <1>4 DEF Walk
<1> QED BY <1>1, <1>5 DEF Circle

-----------------------------------------------------------------------------
(* What every step leaves as it was, and what follows from that.            *)

Stands(q) == call' \in [Slots -> Frame] /\ \A p \in Slots \ {q} : call'[p] = call[p]

\* The hops a handler adds are its own business, and an entry goes when nothing
\* leads to or from it.
AddsHops(q, more) ==
    /\ Hops(edges)' \subseteq Hops(edges) \cup more /\ Clean' \subseteq Clean \cup more
    /\ more # {} => AddsImports(call[q])
    /\ \A h \in more : h[1] \in About(q) /\ h[2] \in About(q)
    /\ contended \subseteq contended' /\ (raced => raced')
    /\ \A x \in Ontologies : Known(x) => Known(x)' \/ (x \in About(q) /\ (x \in contended \/ Untouched(x)))

LEMMA CleanType == LibraryTypeOK => Clean \subseteq Hops(edges) /\ Hops(edges) \subseteq Ontologies \X Ontologies
<1> SUFFICES ASSUME LibraryTypeOK PROVE Clean \subseteq Hops(edges) /\ Hops(edges) \subseteq Ontologies \X Ontologies
  OBVIOUS
<1>1. edges \in SUBSET Edge
  BY DEF LibraryTypeOK
<1>2. Clean \subseteq Hops(edges)
  BY DEF Clean, Hops
<1> QED BY <1>1, <1>2, HopsType

LEMMA CleanEnds == LibraryTypeOK => \A h \in Clean : h[1] \notin contended /\ h[2] \notin contended
BY DEF Clean, Hops, Hop

LEMMA NotBlank == ASSUME NEW c \in Frame, Framed(c) PROVE
    /\ c.at # "free" => c.o \in Ontologies /\ c.o \in Concerns(c)
    /\ c.at = "link" => c.to \in Ontologies /\ c.to \in Concerns(c)
<1>1. "" \notin Ontologies
  BY LibraryAssumption, Zenon DEF LibraryAssumption
<1> QED BY <1>1 DEF Framed, Concerns

LEMMA OthersStep ==
    ASSUME LibraryInv, NEW q \in Slots, Stands(q), NEW more, AddsHops(q, more), NEW p \in Slots, p # q
    PROVE  Framed(call[p])' /\ Informed(call[p])'
<1>1. PICK c \in Frame : c = call[p] /\ c = call'[p] /\ Framed(c) /\ Informed(c)
  BY DEF LibraryInv, LibraryTypeOK, Stands
<1>2. \A x \in Concerns(c) : x \in About(q) => x \in contended
  BY <1>1 DEF LibraryInv, Alone, About
<1>3. contended \subseteq contended' /\ (raced => raced') /\ \A h \in more : h[1] \in About(q) /\ h[2] \in About(q)
  BY DEF AddsHops
<1>4. ASSUME NEW x \in Concerns(c), x \notin contended', Untouched(x) PROVE Untouched(x)'
  BY <1>2, <1>3, <1>4 DEF AddsHops, Untouched
<1>5. ASSUME NEW x \in Concerns(c), x \in Ontologies, x \notin contended', Known(x) PROVE Known(x)'
  BY <1>2, <1>3, <1>5 DEF AddsHops
<1>6. /\ c.at # "free" => c.o \in Ontologies /\ c.o \in Concerns(c)
      /\ c.at = "link" => c.to \in Ontologies /\ c.to \in Concerns(c)
  BY <1>1, NotBlank
<1>7. c.at \in {"create", "read", "write", "register", "sync", "graph", "entry"} /\ c.o \notin contended' => Untouched(c.o)'
  BY <1>1, <1>3, <1>4, <1>6 DEF Informed
<1>8. c.at \in {"link", "sync"} /\ c.o \notin contended' => Known(c.o)'
  BY <1>1, <1>3, <1>5, <1>6 DEF Informed
<1>9. c.at = "link" /\ c.to \notin contended' => Known(c.to)'
  BY <1>1, <1>3, <1>5, <1>6 DEF Informed
<1>10. ASSUME c.at = "link", {c.o, c.to} \cap contended' = {}, ~raced'
       PROVE  Untouched(c.o)' \/ ~Linked(Hops(edges)', c.to, c.o)
  <2>1. c.o \notin contended' /\ {c.o, c.to} \cap contended = {} /\ ~raced
    BY <1>3, <1>10
  <2>2. CASE Untouched(c.o)
    BY <1>4, <1>6, <1>10, <2>1, <2>2
  <2>3. CASE ~Linked(Hops(edges), c.to, c.o)
    <3>1. c.to \in Ontologies /\ "" \notin Ontologies
      BY <1>6, <1>10, LibraryAssumption, Zenon DEF LibraryAssumption
    <3>2. AddsImports(call[p])
      BY <1>1, <1>10, <3>1 DEF AddsImports
    <3>3. more = {}
      BY <2>1, <3>2 DEF AddsHops, LibraryInv, Alone
    <3>4. Hops(edges)' \subseteq Hops(edges)
      BY <3>3 DEF AddsHops
    <3> QED BY <2>3, <3>4 DEF Linked, Walk
  <2> QED BY <1>1, <1>10, <2>1, <2>2, <2>3 DEF Informed
<1>11. Informed(c)'
  BY <1>7, <1>8, <1>9, <1>10 DEF Informed
<1>12. Framed(c)'
  BY <1>1 DEF Framed
<1> QED BY <1>1, <1>11, <1>12

\* What is left to show of a step.
LEMMA LibraryStep ==
    ASSUME LibraryInv, NEW q \in Slots, Stands(q), NEW more, AddsHops(q, more), LibraryTypeOK', Alone',
           Framed(call[q])', Informed(call[q])', \A h \in more : h \in Clean' => Known(h[1])' /\ Known(h[2])',
           ~raced' => ~Circle(Clean')
    PROVE  LibraryInv'
<1>1. \A p \in Slots : Framed(call[p])' /\ Informed(call[p])'
  BY OthersStep
<1>2. ASSUME NEW h \in Clean' PROVE Known(h[1])' /\ Known(h[2])'
  <2>1. CASE h \in more
    BY <2>1
  <2>2. CASE h \in Clean
    <3>1. h[1] \in Ontologies /\ h[2] \in Ontologies /\ h[1] \notin contended /\ h[2] \notin contended
      BY <2>2, CleanType, CleanEnds DEF LibraryInv
    <3>2. Known(h[1]) /\ Known(h[2]) /\ ~Untouched(h[1]) /\ ~Untouched(h[2])
      BY <2>2 DEF LibraryInv, Resolved, Untouched
    <3> QED BY <3>1, <3>2 DEF AddsHops
  <2> QED BY <2>1, <2>2 DEF AddsHops
<1>3. Resolved'
  BY <1>2 DEF Resolved
<1> QED BY <1>1, <1>3 DEF LibraryInv

\* And of one that adds no hops.
LEMMA NoHopsStep ==
    ASSUME LibraryInv, NEW q \in Slots, Stands(q), AddsHops(q, {}), LibraryTypeOK', Alone',
           Framed(call[q])', Informed(call[q])'
    PROVE  LibraryInv'
<1>1. Clean' \subseteq Clean /\ (~raced' => ~raced)
  BY DEF AddsHops
<1>2. ~raced' => ~Circle(Clean')
  BY <1>1, FewerHops DEF LibraryInv
<1> QED BY <1>2, LibraryStep

\* A handler that goes on, or ends, is about no more than it was.
LEMMA AloneGoes ==
    ASSUME Alone, NEW q \in Slots, Stands(q), contended \subseteq contended', raced' = raced,
           About(q)' \subseteq About(q), AddsImports(call[q])' => AddsImports(call[q])
    PROVE  Alone'
<1>1. \A p \in Slots \ {q} : About(p)' = About(p) /\ AddsImports(call[p])' = AddsImports(call[p])
  BY DEF Stands, About, Concerns, AddsImports
<1>2. \A p \in Slots : About(p)' \subseteq About(p) /\ (AddsImports(call[p])' => AddsImports(call[p]))
  BY <1>1
<1> QED BY <1>2 DEF Alone

LEMMA AloneBegins ==
    ASSUME LibraryTypeOK, Alone, NEW q \in Slots, NEW frame \in Frame, Begins(q, frame)
    PROVE  Alone' /\ Stands(q) /\ call'[q] = frame /\ contended \subseteq contended' /\ (raced => raced')
<1>1. Stands(q) /\ call'[q] = frame
  BY DEF LibraryTypeOK, Begins, Stands
<1>2. contended' = contended \cup {x \in Concerns(frame) : \E p \in Slots \ {q} : x \in About(p)}
  BY DEF Begins
<1>3. raced' = (raced \/ (AddsImports(frame) /\ \E p \in Slots \ {q} : AddsImports(call[p])))
  BY DEF Begins
<1>4. \A p \in Slots \ {q} : About(p)' = About(p) /\ AddsImports(call[p])' = AddsImports(call[p])
  BY <1>1 DEF Stands, About, Concerns, AddsImports
<1>5. About(q)' = Concerns(frame) /\ AddsImports(call[q])' = AddsImports(frame)
  BY <1>1 DEF About, Concerns, AddsImports
<1>6. ASSUME NEW p \in Slots, NEW s \in Slots, p # s
      PROVE  /\ About(p)' \cap About(s)' \subseteq contended'
             /\ ~raced' => ~(AddsImports(call[p])' /\ AddsImports(call[s])')
  <2>1. CASE p = q
    BY <1>2, <1>3, <1>4, <1>5, <1>6, <2>1
  <2>2. CASE s = q
    BY <1>2, <1>3, <1>4, <1>5, <1>6, <2>2
  <2>3. CASE p # q /\ s # q
    BY <1>2, <1>3, <1>4, <1>6, <2>3 DEF Alone
  <2> QED BY <2>1, <2>2, <2>3
<1>7. Alone'
  BY <1>6 DEF Alone
<1> QED BY <1>1, <1>2, <1>3, <1>7

-----------------------------------------------------------------------------
(* Requests that begin.                                                     *)

LEMMA SameEdges ==
    ASSUME edges' = edges, contended \subseteq contended'
    PROVE  /\ Hops(edges)' = Hops(edges) /\ Clean' \subseteq Clean
           /\ \A x : Untouched(x) => Untouched(x)'
<1>1. Hops(edges)' = Hops(edges)
  BY DEF Hops, Hop
<1>2. Clean' \subseteq Clean
  BY DEF Clean, Hops, Hop
<1> QED BY <1>1, <1>2 DEF Untouched

LEMMA Begun ==
    ASSUME LibraryInv, NEW q \in Slots, NEW frame \in Frame, Begins(q, frame),
           UNCHANGED <<entry, content, graphs, edges, releases, uploads>>, Framed(frame), Informed(frame)
    PROVE  LibraryInv'
<1>1. Alone' /\ Stands(q) /\ call'[q] = frame /\ contended \subseteq contended' /\ (raced => raced')
  BY AloneBegins DEF LibraryInv
<1>2. Hops(edges)' = Hops(edges) /\ Clean' \subseteq Clean /\ (\A x : Untouched(x) => Untouched(x)')
  BY <1>1, SameEdges
<1>3. \A x : Known(x)' <=> Known(x)
  BY DEF Known
<1>4. AddsHops(q, {})
  BY <1>1, <1>2, <1>3 DEF AddsHops
<1>5. LibraryTypeOK'
  <2>1. contended' \subseteq Ontologies
    <3>1. Concerns(frame) \subseteq Ontologies
      <4>1. frame.at \in {"read", "write", "register", "sync"} => Declares[frame.o] \subseteq Ontologies
        BY LibraryAssumption, Zenon DEF LibraryAssumption, Framed
      <4> QED BY <4>1 DEF Concerns, Frame
    <3> QED BY <3>1 DEF Begins, LibraryInv, LibraryTypeOK
  <2>2. raced' \in BOOLEAN
    BY Zenon DEF Begins
  <2>3. calls' \in Nat
    <3>1. calls' = calls + 1
      BY DEF Begins
    <3>2. calls \in Nat
      BY DEF LibraryInv, LibraryTypeOK
    <3> QED BY <3>1, <3>2
  <2>4. /\ entry' \in [Ontologies -> EntryRow] /\ content' \in [Ontologies -> {"none", "live", "expired"}]
        /\ graphs' \subseteq Names \cup {""} /\ edges' \subseteq Edge /\ releases' \in [Ontologies -> [Versions -> Nat]]
        /\ uploads' \in [Ontologies -> {"none", "running", "failed", "completed"}]
    BY DEF LibraryInv, LibraryTypeOK
  <2> QED BY <1>1, <2>1, <2>2, <2>3, <2>4 DEF Stands, LibraryTypeOK
<1>6. Framed(frame)'
  BY DEF Framed
<1>7. Informed(frame)'
  BY <1>1, <1>2, <1>3 DEF Informed
<1> QED BY <1>1, <1>4, <1>5, <1>6, <1>7, NoHopsStep

\* Nothing that nobody else is about leads to or from an ontology that is not there.
LEMMA UnknownIsUntouched == ASSUME LibraryInv, NEW x, ~Known(x) PROVE Untouched(x)
BY DEF LibraryInv, Resolved, Untouched

LEMMA CheckImportStep ==
    ASSUME LibraryInv, NEW q \in Slots, NEW o \in Ontologies, NEW t \in Ontologies, CheckImport(q, o, t)
    PROVE  LibraryInv'
<1> DEFINE frame == [at |-> "link", o |-> o, to |-> t, arg |-> ""]
<1>1. frame \in Frame
  BY DEF Frame, Stages, Arguments
<1>2. Framed(frame)
  BY DEF CheckImport, Framed
<1>3. ~Linked(Hops(edges), t, o)
  BY CheckedIsUnlinked DEF CheckImport, LibraryInv, LibraryTypeOK
<1>4. Informed(frame)
  BY <1>3 DEF CheckImport, Informed
<1> QED BY <1>1, <1>2, <1>4, Begun DEF CheckImport

LEMMA CheckUpdateStep ==
    ASSUME LibraryInv, NEW q \in Slots, NEW o \in Ontologies, NEW new \in {"active", "deprecated"} \cup Names,
           CheckUpdate(q, o, new)
    PROVE  LibraryInv'
<1> DEFINE frame == [at |-> "update", o |-> o, to |-> "", arg |-> new]
<1>1. frame \in Frame
  BY DEF Frame, Stages, Arguments
<1>2. Framed(frame) /\ Informed(frame)
  BY DEF Framed, Informed
<1> QED BY <1>1, <1>2, Begun DEF CheckUpdate

LEMMA CheckReleaseStep ==
    ASSUME LibraryInv, NEW q \in Slots, NEW o \in Ontologies, NEW v \in Versions, CheckRelease(q, o, v)
    PROVE  LibraryInv'
<1> DEFINE frame == [at |-> "release", o |-> o, to |-> "", arg |-> v]
<1>1. frame \in Frame
  BY DEF Frame, Stages, Arguments
<1>2. Framed(frame) /\ Informed(frame)
  BY DEF Framed, Informed
<1> QED BY <1>1, <1>2, Begun DEF CheckRelease

LEMMA CheckCreateStep ==
    ASSUME LibraryInv, NEW q \in Slots, NEW o \in Ontologies, NEW base \in Ontologies \cup {""}, CheckCreate(q, o, base)
    PROVE  LibraryInv'
<1> DEFINE frame == [at |-> "create", o |-> o, to |-> base, arg |-> ""]
<1>1. frame \in Frame
  BY DEF Frame, Stages, Arguments
<1>2. Untouched(o)
  BY UnknownIsUntouched DEF CheckCreate
<1>3. Framed(frame) /\ Informed(frame)
  BY <1>2 DEF Framed, Informed
<1> QED BY <1>1, <1>3, Begun DEF CheckCreate

LEMMA CheckUploadStep ==
    ASSUME LibraryInv, NEW q \in Slots, NEW o \in Ontologies, CheckUpload(q, o)
    PROVE  LibraryInv'
<1> DEFINE frame == [at |-> "read", o |-> o, to |-> "", arg |-> ""]
<1>1. frame \in Frame
  BY DEF Frame, Stages, Arguments
<1>2. Untouched(o)
  BY UnknownIsUntouched DEF CheckUpload
<1>3. Framed(frame) /\ Informed(frame)
  BY <1>2 DEF Framed, Informed
<1> QED BY <1>1, <1>3, Begun DEF CheckUpload

LEMMA BeginDeleteStep ==
    ASSUME LibraryInv, NEW q \in Slots, NEW o \in Ontologies, NEW arg \in {"soft", "hard", "purge", "both"},
           BeginDelete(q, o, arg)
    PROVE  LibraryInv'
<1> DEFINE frame == [at |-> "expire", o |-> o, to |-> "", arg |-> arg]
<1>1. frame \in Frame
  BY DEF Frame, Stages, Arguments
<1>2. Framed(frame) /\ Informed(frame)
  BY DEF Framed, Informed
<1> QED BY <1>1, <1>2, Begun DEF BeginDelete

-----------------------------------------------------------------------------
(* Handlers that go on.                                                     *)

RowsTyped ==
    /\ entry \in [Ontologies -> EntryRow] /\ content \in [Ontologies -> {"none", "live", "expired"}]
    /\ graphs \subseteq Names \cup {""} /\ edges \subseteq Edge /\ releases \in [Ontologies -> [Versions -> Nat]]
    /\ uploads \in [Ontologies -> {"none", "running", "failed", "completed"}]

LEMMA FreeIsFrame == Free \in Frame /\ Free.at = "free" /\ Framed(Free) /\ Concerns(Free) = {} /\ ~AddsImports(Free)
BY DEF Free, Frame, Stages, Arguments, Framed, Concerns, AddsImports

\* A handler that goes on to another place, about no more than it was.
LEMMA Became ==
    ASSUME LibraryInv, NEW q \in Slots, NEW c \in Frame, call' = [call EXCEPT ![q] = c],
           RowsTyped', UNCHANGED <<calls, contended, raced>>, Framed(c), Informed(c)',
           Concerns(c) \subseteq About(q), AddsImports(c) => AddsImports(call[q])
    PROVE  Stands(q) /\ LibraryTypeOK' /\ Alone' /\ Framed(call[q])' /\ Informed(call[q])'
<1>1. Stands(q) /\ call'[q] = c
  BY DEF Stands, LibraryInv, LibraryTypeOK
<1>2. LibraryTypeOK'
  BY <1>1 DEF RowsTyped, Stands, LibraryInv, LibraryTypeOK
<1>3. About(q)' = Concerns(c) /\ AddsImports(call[q])' = AddsImports(c)
  BY <1>1 DEF About, Concerns, AddsImports
<1>4. Alone'
  BY <1>1, <1>3, AloneGoes DEF LibraryInv
<1>5. Framed(call[q])' /\ Informed(call[q])'
  BY <1>1 DEF Framed, Informed
<1> QED BY <1>1, <1>2, <1>4, <1>5

LEMMA EndStep ==
    ASSUME LibraryInv, NEW q \in Slots, Ends(q), AddsHops(q, {}), RowsTyped', UNCHANGED <<calls, contended, raced>>
    PROVE  LibraryInv'
<1>1. Informed(Free)'
  BY DEF Informed, Free
<1>2. Stands(q) /\ LibraryTypeOK' /\ Alone' /\ Framed(call[q])' /\ Informed(call[q])'
  BY <1>1, FreeIsFrame, Became DEF Ends
<1> QED BY <1>2, NoHopsStep

LEMMA GoStep ==
    ASSUME LibraryInv, NEW q \in Slots, NEW at \in Stages \ {"free", "create", "update"}, Goes(q, at),
           AddsHops(q, {}), RowsTyped', UNCHANGED <<calls, contended, raced>>, call[q].at # "free",
           at \in {"read", "write", "register", "sync"} => call[q].at \in {"read", "write", "register", "sync"},
           at = "link" => call[q].at = "create" /\ call[q].to \in Ontologies /\ call[q].to # call[q].o,
           at \in {"release", "announce"} => call[q].at \in {"release", "announce"},
           \A c \in Frame : c.at = at /\ c.o = call[q].o /\ c.to = call[q].to => Informed(c)'
    PROVE  LibraryInv'
<1>1. PICK c \in Frame : call' = [call EXCEPT ![q] = c] /\ c.at = at /\ c.o = call[q].o /\ c.to = call[q].to /\ c.arg = call[q].arg
  <2>1. call[q] \in Frame
    BY DEF LibraryInv, LibraryTypeOK
  <2>2. [call[q] EXCEPT !.at = at] \in Frame
    BY <2>1 DEF Frame
  <2> QED BY <2>1, <2>2 DEF Goes, Frame
<1>2. Framed(call[q])
  BY DEF LibraryInv
<1>3. Framed(c)
  BY <1>1, <1>2 DEF Framed
<1>4. Concerns(c) \subseteq About(q)
  BY <1>1 DEF About, Concerns
<1>5. AddsImports(c) => AddsImports(call[q])
  BY <1>1 DEF AddsImports
<1>6. Stands(q) /\ LibraryTypeOK' /\ Alone' /\ Framed(call[q])' /\ Informed(call[q])'
  BY <1>1, <1>3, <1>4, <1>5, Became
<1> QED BY <1>6, NoHopsStep

LEMMA QuietHops ==
    ASSUME edges' = edges, UNCHANGED <<contended, raced>>, NEW q \in Slots, \A x \in Ontologies : Known(x) => Known(x)'
    PROVE  AddsHops(q, {}) /\ \A x : Untouched(x) => Untouched(x)'
BY SameEdges DEF AddsHops

LEMMA RowsSound == LibraryInv => RowsTyped
BY DEF LibraryInv, LibraryTypeOK, RowsTyped

LEMMA Bound == ASSUME LibraryInv, NEW q \in Slots, call[q].at # "free"
               PROVE  call[q] \in Frame /\ Framed(call[q]) /\ Informed(call[q]) /\ call[q].o \in Ontologies /\ call[q].o \in About(q)
<1>1. call[q] \in Frame /\ Framed(call[q]) /\ Informed(call[q])
  BY DEF LibraryInv, LibraryTypeOK
<1> QED BY <1>1, NotBlank DEF About

LEMMA UpdateStep == ASSUME LibraryInv, NEW q \in Slots, Update(q) PROVE LibraryInv'
<1>1. call[q].at = "update"
  BY DEF Update, At
<1>2. call[q].o \in Ontologies /\ call[q].arg \in {"active", "deprecated"} \cup Names /\ RowsTyped
  BY <1>1, Bound, RowsSound DEF Framed
<1>3. entry' \in [Ontologies -> EntryRow]
  <2>1. PICK o \in Ontologies : o = call[q].o
    BY <1>2
  <2>2. entry \in [Ontologies -> EntryRow] /\ entry[o] \in EntryRow
    BY <1>2 DEF RowsTyped
  <2>3. call[q].arg \in Names => [entry[o] EXCEPT !.name = call[q].arg] \in EntryRow
    BY <2>2 DEF EntryRow
  <2>4. call[q].arg \notin Names => [entry[o] EXCEPT !.status = call[q].arg] \in EntryRow
    BY <1>2, <2>2 DEF EntryRow
  <2> QED BY <2>1, <2>2, <2>3, <2>4 DEF Update
<1>4. RowsTyped'
  BY <1>2, <1>3 DEF Update, RowsTyped
<1>5. \A x \in Ontologies : Known(x) => Known(x)'
  BY ZenonT(40), <1>2 DEF Update, RowsTyped, EntryRow, Known
<1>6. AddsHops(q, {})
  BY <1>5, QuietHops DEF Update
<1> QED BY <1>4, <1>6, EndStep DEF Update

LEMMA InsertReleaseStep == ASSUME LibraryInv, NEW q \in Slots, InsertRelease(q) PROVE LibraryInv'
<1>1. call[q].at = "release"
  BY DEF InsertRelease, At
<1>2. call[q].o \in Ontologies /\ call[q].arg \in Versions /\ RowsTyped
  BY <1>1, Bound, RowsSound DEF Framed
<1>3. releases' \in [Ontologies -> [Versions -> Nat]]
  <2>1. PICK o \in Ontologies, v \in Versions : o = call[q].o /\ v = call[q].arg
    BY <1>2
  <2>2. releases \in [Ontologies -> [Versions -> Nat]] /\ releases[o] \in [Versions -> Nat] /\ releases[o][v] \in Nat
    BY <1>2 DEF RowsTyped
  <2>3. [releases[o] EXCEPT ![v] = releases[o][v] + 1] \in [Versions -> Nat]
    BY <2>2
  <2>4. releases' = [releases EXCEPT ![o] = [releases[o] EXCEPT ![v] = releases[o][v] + 1]]
    BY <2>1, <2>2 DEF InsertRelease
  <2> QED BY <2>2, <2>3, <2>4
<1>4. RowsTyped'
  BY <1>2, <1>3 DEF InsertRelease, RowsTyped
<1>5. AddsHops(q, {})
  BY QuietHops DEF InsertRelease, Known
<1>6. \A c \in Frame : c.at = "announce" => Informed(c)'
  BY DEF Informed
<1> QED BY <1>1, <1>4, <1>5, <1>6, GoStep DEF InsertRelease, Stages

LEMMA AnnounceReleaseStep == ASSUME LibraryInv, NEW q \in Slots, AnnounceRelease(q) PROVE LibraryInv'
<1>1. call[q].at = "announce"
  BY DEF AnnounceRelease, At
<1>2. call[q].o \in Ontologies /\ call[q].arg \in Versions /\ RowsTyped
  BY <1>1, Bound, RowsSound DEF Framed
<1>3. entry' \in [Ontologies -> EntryRow]
  <2>1. PICK o \in Ontologies : o = call[q].o
    BY <1>2
  <2>2. entry \in [Ontologies -> EntryRow] /\ entry[o] \in EntryRow
    BY <1>2 DEF RowsTyped
  <2>3. [entry[o] EXCEPT !.release = call[q].arg] \in EntryRow
    BY <1>2, <2>2 DEF EntryRow
  <2> QED BY <2>1, <2>2, <2>3 DEF AnnounceRelease
<1>4. RowsTyped'
  BY <1>2, <1>3 DEF AnnounceRelease, RowsTyped
<1>5. \A x \in Ontologies : Known(x) => Known(x)'
  BY ZenonT(40), <1>2 DEF AnnounceRelease, RowsTyped, EntryRow, Known
<1>6. AddsHops(q, {})
  BY <1>5, QuietHops DEF AnnounceRelease
<1> QED BY <1>4, <1>6, EndStep DEF AnnounceRelease

LEMMA RegisteredRow == ASSUME NEW o \in Ontologies
                       PROVE  [status |-> "active", name |-> NameOf[o], release |-> ""] \in EntryRow
<1>1. NameOf[o] \in Names
  BY LibraryAssumption, Zenon DEF LibraryAssumption
<1> QED BY <1>1 DEF EntryRow

\* The registration of an ontology.
LEMMA RegistersIt ==
    ASSUME LibraryInv, NEW o \in Ontologies, NEW row \in EntryRow, row.status = "active", entry' = [entry EXCEPT ![o] = row]
    PROVE  entry' \in [Ontologies -> EntryRow] /\ Known(o)' /\ \A x \in Ontologies : Known(x) => Known(x)'
BY DEF LibraryInv, LibraryTypeOK, Known

LEMMA CreateStep == ASSUME LibraryInv, NEW q \in Slots, Create(q) PROVE LibraryInv'
<1>1. call[q].at = "create"
  BY DEF Create, At
<1>2. PICK o \in Ontologies : o = call[q].o
  BY <1>1, Bound
<1>3. RowsTyped /\ Informed(call[q]) /\ call[q] \in Frame
  BY <1>1, RowsSound, Bound
<1>4. CASE Known(o)
  <2>1. Ends(q) /\ entry' = entry
    BY <1>2, <1>4 DEF Create
  <2>2. RowsTyped'
    BY <1>3, <2>1 DEF Create, RowsTyped
  <2>3. AddsHops(q, {})
    BY <2>1, QuietHops DEF Create, Known
  <2> QED BY <2>1, <2>2, <2>3, EndStep DEF Create
<1>5. CASE ~Known(o)
  <2> DEFINE row == [status |-> "active", name |-> NameOf[o], release |-> ""]
  <2>1. entry' = [entry EXCEPT ![o] = row] /\ row \in EntryRow /\ row.status = "active"
    BY <1>2, <1>5, RegisteredRow DEF Create
  <2> HIDE DEF row
  <2>2. entry' \in [Ontologies -> EntryRow] /\ Known(o)' /\ \A x \in Ontologies : Known(x) => Known(x)'
    BY <2>1, RegistersIt
  <2>3. RowsTyped'
    BY <1>3, <2>2 DEF Create, RowsTyped
  <2>4. AddsHops(q, {}) /\ \A x : Untouched(x) => Untouched(x)'
    BY <2>2, QuietHops DEF Create
  <2>5. CASE call[q].to # "" /\ Known(call[q].to) /\ call[q].to # o
    <3>1. Goes(q, "link")
      BY <1>2, <1>5, <2>5 DEF Create
    <3>2. call[q].to \in Ontologies
      BY <1>3, <2>5 DEF Frame
    <3>3. o \in contended \/ Untouched(o)
      BY <1>1, <1>2, <1>3 DEF Informed
    <3>4. o \in contended' \/ Untouched(o)'
      BY <2>4, <3>3 DEF Create
    <3>5. \A c \in Frame : c.at = "link" /\ c.o = call[q].o /\ c.to = call[q].to => Informed(c)'
      BY <1>2, <2>2, <2>5, <3>2, <3>4 DEF Informed
    <3> QED BY <1>1, <1>2, <2>3, <2>4, <2>5, <3>1, <3>2, <3>5, GoStep DEF Create, Stages
  <2>6. CASE ~(call[q].to # "" /\ Known(call[q].to) /\ call[q].to # o)
    <3>1. Ends(q)
      BY <1>2, <1>5, <2>6 DEF Create
    <3> QED BY <2>3, <2>4, <3>1, EndStep DEF Create
  <2> QED BY <2>5, <2>6
<1> QED BY <1>4, <1>5

LEMMA StartUploadStep == ASSUME LibraryInv, NEW q \in Slots, StartUpload(q) PROVE LibraryInv'
<1>1. call[q].at = "read"
  BY DEF StartUpload, At
<1>2. RowsTyped /\ Informed(call[q]) /\ call[q].o \in Ontologies
  BY <1>1, RowsSound, Bound
<1>3. RowsTyped'
  BY <1>2 DEF StartUpload, RowsTyped
<1>4. AddsHops(q, {}) /\ \A x : Untouched(x) => Untouched(x)'
  BY QuietHops DEF StartUpload, Known
<1>5. call[q].o \in contended' \/ Untouched(call[q].o)
  BY <1>1, <1>2 DEF Informed, StartUpload
<1>6. \A c \in Frame : c.at = "write" /\ c.o = call[q].o => Informed(c)'
  BY <1>4, <1>5 DEF Informed
<1> QED BY <1>1, <1>3, <1>4, <1>6, GoStep DEF StartUpload, Stages

LEMMA WriteContentStep == ASSUME LibraryInv, NEW q \in Slots, WriteContent(q) PROVE LibraryInv'
<1>1. call[q].at = "write"
  BY DEF WriteContent, At
<1>2. RowsTyped /\ Informed(call[q]) /\ call[q].o \in Ontologies
  BY <1>1, RowsSound, Bound
<1>3. RowsTyped'
  BY <1>2 DEF WriteContent, RowsTyped
<1>4. AddsHops(q, {}) /\ \A x : Untouched(x) => Untouched(x)'
  BY QuietHops DEF WriteContent, Known
<1>5. call[q].o \in contended' \/ Untouched(call[q].o)
  BY <1>1, <1>2 DEF Informed, WriteContent
<1>6. \A c \in Frame : c.at = "register" /\ c.o = call[q].o => Informed(c)'
  BY <1>4, <1>5 DEF Informed
<1>7. CASE Ends(q)
  BY <1>3, <1>4, <1>7, EndStep DEF WriteContent
<1>8. CASE Goes(q, "register")
  BY <1>1, <1>3, <1>4, <1>6, <1>8, GoStep DEF WriteContent, Stages
<1> QED BY <1>7, <1>8 DEF WriteContent

LEMMA RegisterUploadStep == ASSUME LibraryInv, NEW q \in Slots, RegisterUpload(q) PROVE LibraryInv'
<1>1. call[q].at = "register"
  BY DEF RegisterUpload, At
<1>2. PICK o \in Ontologies : o = call[q].o
  BY <1>1, Bound
<1>3. RowsTyped /\ Informed(call[q])
  BY <1>1, RowsSound, Bound
<1>4. CASE Known(o)
  <2>1. Ends(q) /\ entry' = entry
    BY <1>2, <1>4 DEF RegisterUpload
  <2>2. RowsTyped'
    BY <1>2, <1>3, <1>4 DEF RegisterUpload, RowsTyped
  <2>3. AddsHops(q, {})
    BY <2>1, QuietHops DEF RegisterUpload, Known
  <2> QED BY <2>1, <2>2, <2>3, EndStep DEF RegisterUpload
<1>5. CASE ~Known(o)
  <2> DEFINE row == [status |-> "active", name |-> NameOf[o], release |-> ""]
  <2>1. entry' = [entry EXCEPT ![o] = row] /\ row \in EntryRow /\ row.status = "active" /\ Goes(q, "sync") /\ uploads' = uploads
    BY <1>2, <1>5, RegisteredRow DEF RegisterUpload
  <2> HIDE DEF row
  <2>2. entry' \in [Ontologies -> EntryRow] /\ Known(o)' /\ \A x \in Ontologies : Known(x) => Known(x)'
    BY <2>1, RegistersIt
  <2>3. RowsTyped'
    BY <1>3, <2>1, <2>2 DEF RegisterUpload, RowsTyped
  <2>4. AddsHops(q, {}) /\ \A x : Untouched(x) => Untouched(x)'
    BY <2>2, QuietHops DEF RegisterUpload
  <2>5. o \in contended' \/ Untouched(o)
    BY <1>1, <1>2, <1>3 DEF Informed, RegisterUpload
  <2>6. \A c \in Frame : c.at = "sync" /\ c.o = call[q].o => Informed(c)'
    BY <1>2, <2>2, <2>4, <2>5 DEF Informed
  <2> QED BY <1>1, <2>1, <2>3, <2>4, <2>6, GoStep DEF RegisterUpload, Stages
<1> QED BY <1>4, <1>5

-----------------------------------------------------------------------------
(* Imports that expire, and the deletion of an ontology.                    *)

LEMMA Expiring ==
    ASSUME edges \subseteq Edge, NEW S, contended' = contended,
           edges' = {IF e \in S THEN [e EXCEPT !.live = FALSE] ELSE e : e \in edges}
    PROVE  /\ edges' \subseteq Edge /\ Hops(edges)' \subseteq Hops(edges) /\ Clean' \subseteq Clean
           /\ \A h \in Clean' : \E e \in edges \ S : h = Hop(e)
<1>1. ASSUME NEW d \in edges'
      PROVE  d \in Edge /\ \E e \in edges : e.from = d.from /\ e.to = d.to /\ (d.live => e = d /\ e \notin S)
  <2>1. PICK e \in edges : d = IF e \in S THEN [e EXCEPT !.live = FALSE] ELSE e
    OBVIOUS
  <2>2. e \in Edge
    OBVIOUS
  <2> QED BY <2>1, <2>2 DEF Edge
<1>2. edges' \subseteq Edge
  BY <1>1
<1>3. Hops(edges)' \subseteq Hops(edges)
  BY <1>1 DEF Hops, Hop
<1>4. ASSUME NEW h \in Clean'
      PROVE  h \in Clean /\ \E e \in edges \ S : h = Hop(e)
  <2>1. PICK d \in edges' : d.live /\ {d.from, d.to} \cap contended = {} /\ h = Hop(d)
    BY DEF Clean, Hops, Hop
  <2>2. d \in edges \ S
    BY <1>1, <2>1
  <2> QED BY <2>1, <2>2 DEF Clean, Hops
<1> QED BY <1>2, <1>3, <1>4

\* A step that no handler takes and that adds nothing.
LEMMA QuietCalls ==
    ASSUME LibraryInv, LibraryTypeOK', UNCHANGED <<call, contended, raced>>, Hops(edges)' \subseteq Hops(edges),
           Clean' \subseteq Clean, \A x \in Ontologies : Known(x) => Known(x)'
    PROVE  LibraryInv'
<1>1. ASSUME NEW q \in Slots PROVE Framed(call[q])' /\ Informed(call[q])'
  <2>1. PICK c \in Frame : c = call[q] /\ c = call'[q] /\ Framed(c) /\ Informed(c)
    BY DEF LibraryInv, LibraryTypeOK
  <2>2. c.at # "free" => c.o \in Ontologies
    BY <2>1 DEF Framed
  <2>3. c.at = "link" => c.to \in Ontologies
    BY <2>1 DEF Framed
  <2>4. \A x : Untouched(x) => Untouched(x)'
    BY DEF Untouched
  <2>5. ~Linked(Hops(edges), c.to, c.o) => ~Linked(Hops(edges)', c.to, c.o)
    BY DEF Linked, Walk
  <2>6. Informed(c)'
    BY <2>1, <2>2, <2>3, <2>4, <2>5 DEF Informed
  <2>7. Framed(c)'
    BY <2>1 DEF Framed
  <2> QED BY <2>1, <2>6, <2>7
<1>2. Alone'
  <2>1. \A q \in Slots : About(q)' = About(q) /\ AddsImports(call[q])' = AddsImports(call[q])
    BY DEF About, Concerns, AddsImports
  <2> QED BY <2>1 DEF LibraryInv, Alone
<1>3. Resolved'
  <2>1. \A h \in Clean : h[1] \in Ontologies /\ h[2] \in Ontologies
    BY CleanType DEF LibraryInv
  <2> QED BY <2>1 DEF LibraryInv, Resolved
<1>4. ~raced' => ~Circle(Clean')
  BY FewerHops DEF LibraryInv
<1> QED BY <1>1, <1>2, <1>3, <1>4 DEF LibraryInv

LEMMA RemoveImportStep ==
    ASSUME LibraryInv, NEW q \in Slots, NEW o \in Ontologies, NEW t \in Ontologies, RemoveImport(q, o, t)
    PROVE  LibraryInv'
<1> DEFINE S == {e \in edges : e.from = o /\ e.to = t}
<1>1. edges' = {IF e \in S THEN [e EXCEPT !.live = FALSE] ELSE e : e \in edges}
  BY DEF RemoveImport
<1> HIDE DEF S
<1>2. edges' \subseteq Edge /\ Hops(edges)' \subseteq Hops(edges) /\ Clean' \subseteq Clean
  BY <1>1, Expiring DEF RemoveImport, LibraryInv, LibraryTypeOK
<1>3. LibraryTypeOK'
  <2>1. calls' = calls + 1 /\ calls \in Nat
    BY DEF RemoveImport, LibraryInv, LibraryTypeOK
  <2>2. calls' \in Nat
    BY <2>1
  <2> QED BY <1>2, <2>2 DEF RemoveImport, LibraryInv, LibraryTypeOK
<1> QED BY <1>2, <1>3, QuietCalls DEF RemoveImport, Known

LEMMA ExtractStep == ASSUME LibraryInv, NEW o \in Ontologies, Extract(o) PROVE LibraryInv'
<1>1. entry[o].name \in Names \cup {""}
  BY DEF LibraryInv, LibraryTypeOK, EntryRow
<1>2. LibraryTypeOK'
  <2>1. calls' = calls + 1 /\ calls \in Nat
    BY DEF Extract, LibraryInv, LibraryTypeOK
  <2>2. calls' \in Nat
    BY <2>1
  <2>3. content' \in [Ontologies -> {"none", "live", "expired"}]
    BY DEF Extract, LibraryInv, LibraryTypeOK
  <2>4. graphs' \subseteq Names \cup {""}
    BY <1>1 DEF Extract, LibraryInv, LibraryTypeOK
  <2> QED BY <2>2, <2>3, <2>4 DEF Extract, LibraryInv, LibraryTypeOK
<1>3. Hops(edges)' \subseteq Hops(edges) /\ Clean' \subseteq Clean
  BY DEF Extract, Hops, Hop, Clean
<1> QED BY <1>2, <1>3, QuietCalls DEF Extract, Known

LEMMA ExpireContentStep == ASSUME LibraryInv, NEW q \in Slots, ExpireContent(q) PROVE LibraryInv'
<1>1. call[q].at = "expire"
  BY DEF ExpireContent, At
<1>2. PICK o \in Ontologies : o = call[q].o
  BY <1>1, Bound
<1>3. RowsTyped'
  <2>1. content' = [content EXCEPT ![o] = IF content[o] = "live" THEN "expired" ELSE content[o]]
    BY <1>2 DEF ExpireContent
  <2>2. content \in [Ontologies -> {"none", "live", "expired"}]
    BY RowsSound DEF RowsTyped
  <2>3. content' \in [Ontologies -> {"none", "live", "expired"}]
    BY <2>1, <2>2
  <2> QED BY <2>3, RowsSound DEF ExpireContent, RowsTyped
<1>4. AddsHops(q, {})
  BY QuietHops DEF ExpireContent, Known
<1>5. \A c \in Frame : c.at = "unlink" => Informed(c)'
  BY DEF Informed
<1> QED BY <1>1, <1>3, <1>4, <1>5, GoStep DEF ExpireContent, Stages

LEMMA ExpireImportsStep == ASSUME LibraryInv, NEW q \in Slots, ExpireImports(q) PROVE LibraryInv'
<1>1. call[q].at = "unlink"
  BY DEF ExpireImports, At
<1>2. PICK o \in Ontologies : o = call[q].o
  BY <1>1, Bound
<1> DEFINE S == {e \in edges : o \in {e.from, e.to}}
<1>3. edges' = {IF e \in S THEN [e EXCEPT !.live = FALSE] ELSE e : e \in edges}
  BY <1>2 DEF ExpireImports
<1>4. \A e \in edges \ S : o \notin {e.from, e.to}
  OBVIOUS
<1> HIDE DEF S
<1>5. /\ edges' \subseteq Edge /\ Hops(edges)' \subseteq Hops(edges) /\ Clean' \subseteq Clean
      /\ \A h \in Clean' : \E e \in edges \ S : h = Hop(e)
  BY <1>3, Expiring DEF ExpireImports, LibraryInv, LibraryTypeOK
<1>6. Untouched(o)'
  BY <1>4, <1>5 DEF Untouched, Hop
<1>7. RowsTyped'
  BY <1>5, RowsSound DEF ExpireImports, RowsTyped
<1>8. AddsHops(q, {})
  BY <1>5 DEF AddsHops, ExpireImports, Known
<1>9. \A c \in Frame : c.at = "graph" /\ c.o = call[q].o => Informed(c)'
  BY <1>2, <1>6 DEF Informed
<1> QED BY <1>1, <1>7, <1>8, <1>9, GoStep DEF ExpireImports, Stages

LEMMA DropGraphStep == ASSUME LibraryInv, NEW q \in Slots, DropGraph(q) PROVE LibraryInv'
<1>1. call[q].at = "graph"
  BY DEF DropGraph, At
<1>2. PICK o \in Ontologies : o = call[q].o
  BY <1>1, Bound
<1>3. RowsTyped /\ Informed(call[q])
  BY <1>1, RowsSound, Bound
<1>4. RowsTyped'
  BY <1>2, <1>3 DEF DropGraph, RowsTyped
<1>5. AddsHops(q, {}) /\ \A x : Untouched(x) => Untouched(x)'
  BY QuietHops DEF DropGraph, Known
<1>6. o \in contended' \/ Untouched(o)
  BY <1>1, <1>2, <1>3 DEF Informed, DropGraph
<1>7. \A c \in Frame : c.at = "entry" /\ c.o = call[q].o => Informed(c)'
  BY <1>2, <1>5, <1>6 DEF Informed
<1> QED BY <1>1, <1>4, <1>5, <1>7, GoStep DEF DropGraph, Stages

LEMMA DropEntryStep == ASSUME LibraryInv, NEW q \in Slots, DropEntry(q) PROVE LibraryInv'
<1>1. call[q].at = "entry"
  BY DEF DropEntry, At
<1>2. PICK o \in Ontologies : o = call[q].o /\ o \in About(q)
  BY <1>1, Bound
<1>3. RowsTyped /\ Informed(call[q])
  BY <1>1, RowsSound, Bound
<1>4. entry \in [Ontologies -> EntryRow] /\ entry[o] \in EntryRow
  BY <1>3 DEF RowsTyped
<1>5. NoEntry \in EntryRow /\ [entry[o] EXCEPT !.status = "deprecated"] \in EntryRow
  BY <1>4 DEF NoEntry, EntryRow
<1>6. PICK row \in EntryRow : entry' = [entry EXCEPT ![o] = row]
  <2>1. CASE call[q].arg \in Hard
    BY <1>2, <1>5, <2>1 DEF DropEntry
  <2>2. CASE call[q].arg \notin Hard /\ Known(o)
    <3>1. entry' = [entry EXCEPT ![o] = [entry[o] EXCEPT !.status = "deprecated"]]
      BY <1>2, <1>4, <2>2 DEF DropEntry
    <3> QED BY <1>5, <3>1
  <2>3. CASE call[q].arg \notin Hard /\ ~Known(o)
    <3>1. entry' = entry
      BY <1>2, <2>3 DEF DropEntry
    <3>2. entry' = [entry EXCEPT ![o] = entry[o]]
      BY <1>4, <3>1
    <3> QED BY <1>4, <3>2
  <2> QED BY <2>1, <2>2, <2>3
<1>7. entry' \in [Ontologies -> EntryRow] /\ \A x \in Ontologies : x # o => entry'[x] = entry[x]
  BY <1>4, <1>6
<1>8. RowsTyped'
  BY <1>3, <1>7 DEF DropEntry, RowsTyped
<1>9. o \in contended \/ Untouched(o)
  BY <1>1, <1>2, <1>3 DEF Informed
<1>10. \A x \in Ontologies : Known(x) => Known(x)' \/ (x \in About(q) /\ (x \in contended \/ Untouched(x)))
  BY <1>2, <1>7, <1>9 DEF Known
<1>11. Hops(edges)' \subseteq Hops(edges) /\ Clean' \subseteq Clean
  BY DEF DropEntry, Hops, Hop, Clean
<1>12. AddsHops(q, {})
  BY <1>10, <1>11 DEF AddsHops, DropEntry
<1> QED BY <1>8, <1>12, EndStep DEF DropEntry

-----------------------------------------------------------------------------
(* Imports that are added.                                                  *)

LEMMA Adding ==
    ASSUME NEW more, edges' = edges \cup more, contended' = contended
    PROVE  /\ Hops(edges)' \subseteq Hops(edges) \cup Hops(more) /\ Clean' \subseteq Clean \cup Hops(more)
           /\ \A h \in Clean' : h[1] \notin contended /\ h[2] \notin contended
BY DEF Hops, Hop, Clean

LEMMA InsertImportStep == ASSUME LibraryInv, NEW q \in Slots, InsertImport(q) PROVE LibraryInv'
<1>1. call[q].at = "link"
  BY DEF InsertImport, At
<1>2. PICK o \in Ontologies, to \in Ontologies :
          o = call[q].o /\ to = call[q].to /\ to # o /\ {o, to} \subseteq Concerns(call[q])
  BY <1>1, Bound, NotBlank DEF Framed
<1>3. PICK e \in Edge : e = [from |-> o, to |-> to, live |-> TRUE, by |-> calls]
  BY DEF Edge, LibraryInv, LibraryTypeOK
<1>4. edges' = edges \cup {e} /\ Hops({e}) = {<<o, to>>}
  BY <1>2, <1>3 DEF InsertImport, Hops, Hop
<1>5. /\ Hops(edges)' \subseteq Hops(edges) \cup {<<o, to>>} /\ Clean' \subseteq Clean \cup {<<o, to>>}
      /\ \A h \in Clean' : h[1] \notin contended /\ h[2] \notin contended
  BY <1>4, Adding DEF InsertImport
<1>6. AddsImports(call[q]) /\ {o, to} \subseteq About(q)
  <2>1. to # ""
    BY LibraryAssumption, Zenon DEF LibraryAssumption
  <2> QED BY <1>1, <1>2, <2>1 DEF AddsImports, About
<1>7. AddsHops(q, {<<o, to>>})
  BY <1>5, <1>6 DEF AddsHops, InsertImport, Known
<1>8. RowsTyped'
  BY <1>3, <1>4, RowsSound DEF InsertImport, RowsTyped
<1>9. Informed(Free)'
  BY DEF Informed, Free
<1>10. Stands(q) /\ LibraryTypeOK' /\ Alone' /\ Framed(call[q])' /\ Informed(call[q])'
  BY <1>8, <1>9, FreeIsFrame, Became DEF InsertImport, Ends
<1>11. Informed(call[q])
  BY <1>1, Bound
<1>12. ASSUME <<o, to>> \in Clean' PROVE Known(o)' /\ Known(to)'
  <2>1. o \notin contended /\ to \notin contended
    BY <1>5, <1>12
  <2> QED BY <1>1, <1>2, <1>11, <2>1 DEF Informed, InsertImport, Known
<1>13. ASSUME ~raced' PROVE ~Circle(Clean')
  <2>1. ~raced /\ ~Circle(Clean)
    BY <1>13 DEF InsertImport, LibraryInv
  <2>2. CASE {o, to} \cap contended # {}
    <3>1. Clean' \subseteq Clean
      BY <1>5, <2>2
    <3> QED BY <2>1, <3>1, FewerHops
  <2>3. CASE {o, to} \cap contended = {} /\ Untouched(o)
    <3>1. \A h \in Clean : h[2] # o
      BY <2>3 DEF Untouched
    <3>2. \A h \in {<<o, to>>} : h[1] = o /\ h[2] # o
      BY <1>2
    <3>3. ~Circle(Clean \cup {<<o, to>>})
      BY <2>1, <3>1, <3>2, NewHopsNoCircle
    <3> QED BY <1>5, <3>3, FewerHops
  <2>4. CASE {o, to} \cap contended = {} /\ ~Linked(Hops(edges), to, o)
    <3>1. Clean \subseteq Hops(edges)
      BY CleanType DEF LibraryInv
    <3>2. ~Circle(Clean \cup {<<o, to>>})
      BY <1>2, <2>1, <2>4, <3>1, NewHopNoCircle
    <3> QED BY <1>5, <3>2, FewerHops
  <2> QED BY <1>1, <1>2, <1>11, <2>1, <2>2, <2>3, <2>4 DEF Informed
<1> QED BY <1>7, <1>10, <1>12, <1>13, LibraryStep

\* An upload adds all its imports at once, from an ontology that is new.
LEMMA SyncImportsStep == ASSUME LibraryInv, NEW q \in Slots, SyncImports(q) PROVE LibraryInv'
<1>1. call[q].at = "sync"
  BY DEF SyncImports, At
<1>2. PICK o \in Ontologies : o = call[q].o
  BY <1>1, Bound
<1>3. RowsTyped /\ Informed(call[q]) /\ o \in About(q)
  BY <1>1, <1>2, RowsSound, Bound
<1> DEFINE found == {t \in Declares[o] : Known(t) /\ entry[t].status # "deprecated" /\ Live(o, t) = {}}
           new == {[from |-> o, to |-> t, live |-> TRUE, by |-> calls] : t \in found \ {o}}
           more == {<<o, t>> : t \in found \ {o}}
<1>4. Declares[o] \subseteq Ontologies
  BY LibraryAssumption, Zenon DEF LibraryAssumption
<1>5. edges' = edges \cup new
  BY <1>2 DEF SyncImports
<1>6. found \subseteq Declares[o] /\ \A t \in found : Known(t)
  OBVIOUS
<1> HIDE DEF found
<1>7. new \subseteq Edge /\ Hops(new) = more
  <2>1. calls \in Nat
    BY DEF LibraryInv, LibraryTypeOK
  <2>2. ASSUME NEW t \in found \ {o} PROVE [from |-> o, to |-> t, live |-> TRUE, by |-> calls] \in Edge
    <3>1. t \in Ontologies
      BY <1>4, <1>6
    <3> QED BY <2>1, <3>1 DEF Edge
  <2>3. new \subseteq Edge
    BY <2>2
  <2>4. ASSUME NEW e \in new PROVE Hop(e) \in more
    BY DEF Hop
  <2>5. ASSUME NEW t \in found \ {o} PROVE \E e \in new : <<o, t>> = Hop(e)
    <3>1. [from |-> o, to |-> t, live |-> TRUE, by |-> calls] \in new
      OBVIOUS
    <3> QED BY <3>1 DEF Hop
  <2>6. more \subseteq Hops(new)
    BY <2>5 DEF Hops
  <2>7. Hops(new) \subseteq more
    BY <2>4 DEF Hops
  <2> QED BY <2>3, <2>6, <2>7
<1>8. \A h \in more : h[1] = o /\ h[2] \in found /\ h[2] # o
  OBVIOUS
<1> HIDE DEF new, more
<1>9. /\ Hops(edges)' \subseteq Hops(edges) \cup more /\ Clean' \subseteq Clean \cup more
      /\ \A h \in Clean' : h[1] \notin contended /\ h[2] \notin contended
  BY <1>5, <1>7, Adding DEF SyncImports
<1>10. AddsImports(call[q]) /\ \A h \in more : h[1] \in About(q) /\ h[2] \in About(q)
  BY <1>1, <1>2, <1>3, <1>6, <1>8 DEF AddsImports, About, Concerns
<1>11. AddsHops(q, more)
  BY <1>9, <1>10 DEF AddsHops, SyncImports, Known
<1>12. RowsTyped'
  <2>1. uploads' \in [Ontologies -> {"none", "running", "failed", "completed"}]
    BY <1>2, <1>3 DEF SyncImports, RowsTyped
  <2>2. edges' \subseteq Edge
    BY <1>3, <1>5, <1>7 DEF RowsTyped
  <2> QED BY <1>3, <2>1, <2>2 DEF SyncImports, RowsTyped
<1>13. Informed(Free)'
  BY DEF Informed, Free
<1>14. Stands(q) /\ LibraryTypeOK' /\ Alone' /\ Framed(call[q])' /\ Informed(call[q])'
  BY <1>12, <1>13, FreeIsFrame, Became DEF SyncImports, Ends
<1>15. o \notin contended => Untouched(o) /\ Known(o)
  BY <1>1, <1>2, <1>3 DEF Informed
<1>16. ASSUME NEW h \in more, h \in Clean' PROVE Known(h[1])' /\ Known(h[2])'
  <2>1. Known(h[1]) /\ Known(h[2])
    BY <1>6, <1>8, <1>9, <1>15, <1>16
  <2> QED BY <2>1 DEF SyncImports, Known
<1>17. ASSUME ~raced' PROVE ~Circle(Clean')
  <2>1. ~Circle(Clean)
    BY <1>17 DEF SyncImports, LibraryInv
  <2>2. CASE o \in contended
    <3>1. Clean' \subseteq Clean
      BY <1>8, <1>9, <2>2
    <3> QED BY <2>1, <3>1, FewerHops
  <2>3. CASE o \notin contended
    <3>1. \A h \in Clean : h[2] # o
      BY <1>15, <2>3 DEF Untouched
    <3>2. ~Circle(Clean \cup more)
      BY <1>8, <2>1, <3>1, NewHopsNoCircle
    <3> QED BY <1>9, <3>2, FewerHops
  <2> QED BY <2>2, <2>3
<1> QED BY <1>11, <1>14, <1>16, <1>17, LibraryStep

-----------------------------------------------------------------------------
(* The theorems.                                                            *)

LEMMA LibraryStarts == LibraryInit => LibraryInv
<1> SUFFICES ASSUME LibraryInit PROVE LibraryInv
  OBVIOUS
<1>1. edges = {} /\ Clean = {}
  BY DEF LibraryInit, Clean, Hops
<1>2. \A q \in Slots : call[q] = Free
  BY DEF LibraryInit
<1>3. LibraryTypeOK
  <2>1. Registered \subseteq Ontologies /\ NameOf \in [Ontologies -> Names]
    BY LibraryAssumption, Zenon DEF LibraryAssumption
  <2>2. entry \in [Ontologies -> EntryRow]
    BY <2>1, RegisteredRow DEF LibraryInit, NoEntry, EntryRow
  <2>3. graphs \subseteq Names \cup {""}
    BY <2>1 DEF LibraryInit
  <2>4. call \in [Slots -> Frame]
    BY FreeIsFrame DEF LibraryInit
  <2>5. content \in [Ontologies -> {"none", "live", "expired"}] /\ releases \in [Ontologies -> [Versions -> Nat]]
    BY DEF LibraryInit
  <2> QED BY <2>2, <2>3, <2>4, <2>5 DEF LibraryInit, LibraryTypeOK
<1>4. \A q \in Slots : Framed(call[q]) /\ Informed(call[q])
  BY <1>2, FreeIsFrame DEF Informed, Free
<1>5. Alone
  BY <1>2, FreeIsFrame DEF Alone, About
<1>6. Resolved
  BY <1>1 DEF Resolved
<1>7. ~Circle(Clean)
  <2> SUFFICES ASSUME Circle({}) PROVE FALSE
    BY <1>1
  <2>1. PICK k \in 1 .. MaxDepth + 1 : \E w \in [0 .. k -> Ontologies] : Walk({}, w, k)
    BY DEF Circle
  <2>2. 0 \in 0 .. k - 1
    BY DepthIsNat
  <2> QED BY <2>1, <2>2 DEF Walk
<1> QED BY <1>3, <1>4, <1>5, <1>6, <1>7 DEF LibraryInv

LEMMA LibraryStays == LibraryInv /\ [LibraryNext]_library => LibraryInv'
<1> SUFFICES ASSUME LibraryInv, [LibraryNext]_library PROVE LibraryInv'
  OBVIOUS
<1>1. ASSUME NEW q \in Slots, Handler(q) PROVE LibraryInv'
  BY <1>1, InsertImportStep, UpdateStep, InsertReleaseStep, AnnounceReleaseStep, CreateStep, StartUploadStep,
     WriteContentStep, RegisterUploadStep, SyncImportsStep, ExpireContentStep, ExpireImportsStep, DropGraphStep,
     DropEntryStep DEF Handler
<1>2. ASSUME NEW q \in Slots, NEW o \in Ontologies, LibraryRequest(q, o) PROVE LibraryInv'
  BY <1>2, CheckImportStep, RemoveImportStep, CheckUpdateStep, CheckReleaseStep, CheckCreateStep, CheckUploadStep,
     BeginDeleteStep DEF LibraryRequest
<1>3. ASSUME UNCHANGED library PROVE LibraryInv'
  <2>1. LibraryTypeOK'
    BY <1>3 DEF library, LibraryInv, LibraryTypeOK
  <2>2. Hops(edges)' \subseteq Hops(edges) /\ Clean' \subseteq Clean
    BY <1>3 DEF library, Hops, Hop, Clean
  <2> QED BY <1>3, <2>1, <2>2, QuietCalls DEF library, Known
<1> QED BY <1>1, <1>2, <1>3, ExtractStep DEF LibraryNext

LEMMA LibraryAlways == LibrarySpec => []LibraryInv
BY LibraryStarts, LibraryStays, PTL DEF LibrarySpec

(* Every row, edge and frame of the library is of its type, whatever the   *)
(* handlers read and write in between (library.py, imports.py).             *)
THEOREM LibraryTypesHold == LibrarySpec => []LibraryTypeOK
<1>1. LibraryInv => LibraryTypeOK
  BY DEF LibraryInv
<1> QED BY <1>1, LibraryAlways, PTL

(* Imports do not go in a circle as long as no two requests that add some  *)
(* overlapped and nothing else was about the ontologies of the circle: for  *)
(* any library, any files and any depth of the traversal the check stops   *)
(* at (imports.py:293, imports_io.py).                                      *)
THEOREM ImportsStayAcyclic == LibrarySpec => []ImportsAcyclic
<1>1. LibraryInv => ImportsAcyclic
  <2> SUFFICES ASSUME LibraryInv, ~raced, NEW o \in Ontologies,
                      o \in LeadsTo(o, {e \in edges : e.live /\ {e.from, e.to} \cap contended = {}})
               PROVE  FALSE
    BY DEF ImportsAcyclic
  <2>1. {e \in edges : e.live /\ {e.from, e.to} \cap contended = {}} \subseteq Edge
    BY DEF LibraryInv, LibraryTypeOK
  <2>2. Circle(Clean)
    BY <2>1, LedBackIsCircle DEF Clean
  <2> QED BY <2>2 DEF LibraryInv
<1> QED BY <1>1, LibraryAlways, PTL

(* A live import that nobody else is about leads from one registered       *)
(* ontology to another, through every deletion and creation under the same *)
(* key (library.py:541).                                                    *)
THEOREM ImportsAlwaysResolve == LibrarySpec => []ImportsResolve
<1>1. LibraryInv => ImportsResolve
  <2> SUFFICES ASSUME LibraryInv, NEW e \in edges, e.live, {e.from, e.to} \cap contended = {}
               PROVE  Known(e.from) /\ Known(e.to)
    BY DEF ImportsResolve
  <2>1. Hop(e) \in Clean
    BY DEF Clean, Hops
  <2> QED BY <2>1 DEF LibraryInv, Resolved, Hop
<1> QED BY <1>1, LibraryAlways, PTL

-----------------------------------------------------------------------------
(* What a client holds of the effective ontology.                           *)

EffectiveSpec == EffectiveInit /\ [][EffectiveNext]_effective

\* The validator names the sources of the answer it came with.
SourcesTagged == {p[1] : p \in client.tag} = SourceKeys(client.sources)

LEMMA AnswersTagged ==
    ASSUME NEW o, NEW order, NEW lucky
    PROVE  LET answer == Effective(o, order, lucky)
           IN {p[1] : p \in answer.tag} = SourceKeys(answer.sources)
<1> DEFINE sources == SourceClosure(o, lucky)
           answer == Effective(o, order, lucky)
<1>1. answer.sources = sources /\ answer.tag = {<<s, touched[s]>> : s \in SourceKeys(sources)}
  BY DEF Effective
<1> HIDE DEF answer, sources
<1>2. {p[1] : p \in answer.tag} = SourceKeys(sources)
  <2>1. ASSUME NEW p \in answer.tag PROVE p[1] \in SourceKeys(sources)
    BY <1>1, <2>1
  <2>2. ASSUME NEW s \in SourceKeys(sources) PROVE \E p \in answer.tag : s = p[1]
    <3>1. <<s, touched[s]>> \in answer.tag
      BY <1>1, <2>2
    <3> QED BY <3>1
  <2> QED BY <2>1, <2>2
<1> QED BY <1>1, <1>2 DEF answer

LEMMA TagsNameSources == EffectiveSpec => []SourcesTagged
<1>1. EffectiveInit => SourcesTagged
  BY DEF EffectiveInit, NoView, SourcesTagged, SourceKeys
<1>2. SourcesTagged /\ [EffectiveNext]_effective => SourcesTagged'
  <2> SUFFICES ASSUME SourcesTagged, [EffectiveNext]_effective PROVE SourcesTagged'
    OBVIOUS
  <2>1. CASE UNCHANGED client
    BY <2>1 DEF SourcesTagged, SourceKeys
  <2>2. CASE GetEffective
    <3>1. PICK order \in EdgeOrders, lucky \in BOOLEAN :
              client' = client \/ client' = Effective(Viewed, order, lucky)
      BY <2>2 DEF GetEffective
    <3>2. CASE client' = Effective(Viewed, order, lucky)
      BY <3>2, AnswersTagged DEF SourcesTagged, SourceKeys
    <3> QED BY <2>1, <3>1, <3>2
  <2>3. UNCHANGED client \/ GetEffective
    BY DEF EffectiveNext, effective, EditClasses, DecideLabel, TouchEntry, Import, Unimport, BuildImportsDag
  <2> QED BY <2>1, <2>2, <2>3
<1> QED BY <1>1, <1>2, PTL DEF EffectiveSpec

(* A client that is told "not modified" holds what would be sent now as far *)
(* as the sources go: no change of the imports is ever missed, whatever is  *)
(* written to how many ontologies between two requests (imports.py:115).    *)
THEOREM ValidatorsTellSources == EffectiveSpec => []SourcesFresh
<1>1. SourcesTagged => SourcesFresh
  <2> SUFFICES ASSUME SourcesTagged, NEW lucky \in BOOLEAN,
                      EtagMatches(client.tag, Effective(Viewed, <<>>, lucky).tag)
               PROVE  SourceKeys(client.sources) = SourceKeys(Effective(Viewed, <<>>, lucky).sources)
    BY DEF SourcesFresh
  <2> QED BY AnswersTagged DEF SourcesTagged, EtagMatches
<1> QED BY <1>1, TagsNameSources, PTL
-----------------------------------------------------------------------------
(* The cycles of the merged classes.                                        *)

ClassCount == Cardinality(ClassIds)
SubclassEdge == [from : ClassIds, to : ClassIds, by : Members]

LEMMA ClassesAreFinite == ClassIds = 1..Len(ClassOntology) /\ IsFiniteSet(ClassIds) /\ ClassCount \in Nat
<1>1. ClassIds = 1..Len(ClassOntology) /\ Len(ClassOntology) \in Nat
  BY EffectiveAssumption DEF ClassIds
<1>2. IsFiniteSet(ClassIds)
  BY <1>1, FS_Interval
<1> QED BY <1>1, <1>2, FS_CardinalityType DEF ClassCount

\* Closed(v, E) computes what v reaches, in as many steps as there are classes.
Gathers(f, v, E) == f = [n \in 0..ClassCount |-> IF n = 0 THEN {v} ELSE Follow(f[n - 1], E)]

LEMMA GathersDefined == ASSUME NEW v, NEW E PROVE \E f : Gathers(f, v, E)
<1> DEFINE UpTo(f, m) == f = [n \in 0..m |-> IF n = 0 THEN {v} ELSE Follow(f[n - 1], E)]
           Undefined == {m \in Nat : \A f : ~UpTo(f, m)}
<1>1. \E f : UpTo(f, 0)
  <2>1. UpTo([n \in 0..0 |-> {v}], 0)
    OBVIOUS
  <2> QED BY <2>1
<1>2. ASSUME NEW m \in Nat, NEW f, UpTo(f, m) PROVE \E g : UpTo(g, m + 1)
  <2> DEFINE g == [n \in 0..m + 1 |-> IF n = 0 THEN {v} ELSE Follow(f[n - 1], E)]
  <2>1. ASSUME NEW n \in 0..m PROVE g[n] = f[n]
    <3>1. f[n] = IF n = 0 THEN {v} ELSE Follow(f[n - 1], E)
      BY <1>2
    <3>2. g[n] = IF n = 0 THEN {v} ELSE Follow(f[n - 1], E)
      OBVIOUS
    <3> QED BY <3>1, <3>2
  <2>2. ASSUME NEW n \in 0..m + 1, n # 0 PROVE g[n - 1] = f[n - 1]
    <3>1. n - 1 \in 0..m
      BY <2>2
    <3> QED BY <2>1, <3>1
  <2>3. \A n \in 0..m + 1 : (IF n = 0 THEN {v} ELSE Follow(f[n - 1], E)) = IF n = 0 THEN {v} ELSE Follow(g[n - 1], E)
    BY <2>2
  <2>4. g = [n \in 0..m + 1 |-> IF n = 0 THEN {v} ELSE Follow(g[n - 1], E)]
    BY <2>3
  <2> QED BY <2>4
<1> HIDE DEF UpTo
<1>3. Undefined = {}
  <2> SUFFICES ASSUME Undefined # {} PROVE FALSE
    OBVIOUS
  <2>1. PICK n \in Undefined : \A m \in Undefined : n <= m
    BY Smallest, Undefined \in SUBSET Nat
  <2>2. n # 0
    BY <1>1
  <2>3. n - 1 \in Nat /\ n - 1 \notin Undefined
    BY <2>1, <2>2
  <2>4. PICK f : UpTo(f, n - 1)
    BY <2>3
  <2> QED BY <1>2, <2>3, <2>4
<1>4. PICK f : UpTo(f, ClassCount)
  BY <1>3, ClassesAreFinite
<1> QED BY <1>4 DEF UpTo, Gathers

LEMMA ClosedInTurn ==
    ASSUME NEW v, NEW E
    PROVE  Closed(v, E)[0] = {v} /\ \A n \in 1..ClassCount : Closed(v, E)[n] = Follow(Closed(v, E)[n - 1], E)
<1> DEFINE f == CHOOSE g : Gathers(g, v, E)
<1>1. Closed(v, E) = f
  BY DEF Closed, Gathers, ClassCount
<1>2. Gathers(f, v, E)
  BY GathersDefined
<1> HIDE DEF f
<1>3. f[0] = {v}
  BY <1>2, ClassesAreFinite DEF Gathers
<1>4. ASSUME NEW n \in 1..ClassCount PROVE f[n] = Follow(f[n - 1], E)
  <2>1. n \in 0..ClassCount /\ n # 0
    BY ClassesAreFinite
  <2> QED BY <1>2, <2>1 DEF Gathers
<1> QED BY <1>1, <1>3, <1>4

StaysInside(T, E) == \A e \in E : e.from \in T => e.to \in T

LEMMA FollowIs == ASSUME NEW T, NEW E
                  PROVE  /\ T \subseteq Follow(T, E) /\ (Follow(T, E) = T <=> StaysInside(T, E))
                         /\ \A e \in E : e.from \in T => e.to \in Follow(T, E)
                         /\ \A u \in Follow(T, E) : u \in T \/ \E e \in E : e.from \in T /\ e.to = u
BY DEF Follow, StaysInside

\* After that many steps there is nothing left to reach.
LEMMA ClosedStays ==
    ASSUME NEW v \in ClassIds, NEW E \in SUBSET SubclassEdge
    PROVE  v \in Closed(v, E)[ClassCount] /\ StaysInside(Closed(v, E)[ClassCount], E)
<1> DEFINE f == Closed(v, E)
<1>1. f[0] = {v} /\ \A n \in 1..ClassCount : f[n] = Follow(f[n - 1], E)
  BY ClosedInTurn
<1>2. ClassCount \in Nat /\ IsFiniteSet(ClassIds)
  BY ClassesAreFinite
<1> HIDE DEF f
<1>3. ASSUME NEW n \in 0..ClassCount PROVE f[n] \subseteq ClassIds /\ v \in f[n]
  <2> DEFINE Bad == {m \in 0..ClassCount : ~(f[m] \subseteq ClassIds /\ v \in f[m])}
  <2>1. Bad = {}
    <3> SUFFICES ASSUME Bad # {} PROVE FALSE
      OBVIOUS
    <3>1. PICK m \in Bad : \A k \in Bad : m <= k
      BY Smallest, Bad \in SUBSET Nat, <1>2
    <3>2. m # 0
      BY <1>1
    <3>3. m \in 1..ClassCount /\ m - 1 \in 0..ClassCount /\ m - 1 \notin Bad
      BY <1>2, <3>1, <3>2
    <3>4. f[m] = Follow(f[m - 1], E) /\ f[m - 1] \subseteq ClassIds /\ v \in f[m - 1]
      BY <1>1, <3>3
    <3>5. f[m] \subseteq ClassIds
      BY <3>4, FollowIs DEF SubclassEdge
    <3> QED BY <3>1, <3>4, <3>5, FollowIs
  <2> QED BY <2>1
<1>4. ASSUME NEW n \in 0..ClassCount, StaysInside(f[n], E) PROVE f[ClassCount] = f[n]
  <2> DEFINE Bad == {m \in n..ClassCount : f[m] # f[n]}
  <2>1. Bad = {}
    <3> SUFFICES ASSUME Bad # {} PROVE FALSE
      OBVIOUS
    <3>1. PICK m \in Bad : \A k \in Bad : m <= k
      BY Smallest, Bad \in SUBSET Nat, <1>2
    <3>2. m # n
      OBVIOUS
    <3>3. m \in 1..ClassCount /\ m - 1 \in n..ClassCount /\ m - 1 \notin Bad
      BY <1>2, <3>1, <3>2
    <3>4. f[m] = Follow(f[n], E)
      BY <1>1, <3>3
    <3> QED BY <1>4, <3>1, <3>4, FollowIs
  <2>2. ClassCount \in n..ClassCount
    BY <1>2
  <2> QED BY <2>1, <2>2
<1>5. SUFFICES ASSUME \A n \in 0..ClassCount : ~StaysInside(f[n], E) PROVE FALSE
  <2>1. ASSUME NEW n \in 0..ClassCount, StaysInside(f[n], E) PROVE v \in f[ClassCount] /\ StaysInside(f[ClassCount], E)
    BY <1>3, <1>4, <2>1
  <2> QED BY <2>1 DEF f
<1>6. ASSUME NEW n \in 0..ClassCount PROVE IsFiniteSet(f[n]) /\ Cardinality(f[n]) \in Nat /\ Cardinality(f[n]) <= ClassCount
  BY <1>2, <1>3, FS_Subset, FS_CardinalityType DEF ClassCount
<1>7. ASSUME NEW n \in 1..ClassCount PROVE Cardinality(f[n - 1]) < Cardinality(f[n])
  <2>1. n - 1 \in 0..ClassCount /\ n \in 0..ClassCount /\ f[n] = Follow(f[n - 1], E)
    BY <1>1, <1>2
  <2>2. f[n - 1] \subseteq f[n] /\ f[n - 1] # f[n]
    BY <1>5, <2>1, FollowIs
  <2>3. Cardinality(f[n - 1]) <= Cardinality(f[n]) /\ Cardinality(f[n - 1]) # Cardinality(f[n])
    BY <1>6, <2>1, <2>2, FS_Subset
  <2> QED BY <1>6, <2>1, <2>3
<1> DEFINE Small == {m \in 0..ClassCount : Cardinality(f[m]) < m + 1}
<1>8. Small = {}
  <2> SUFFICES ASSUME Small # {} PROVE FALSE
    OBVIOUS
  <2>1. PICK m \in Small : \A k \in Small : m <= k
    BY Smallest, Small \in SUBSET Nat, <1>2
  <2>2. m # 0
    <3>1. Cardinality({v}) = 1
      BY FS_Singleton
    <3> QED BY <1>1, <2>1, <3>1
  <2>3. m \in 1..ClassCount /\ m - 1 \in 0..ClassCount /\ m - 1 \notin Small
    BY <1>2, <2>1, <2>2
  <2>4. Cardinality(f[m - 1]) >= m /\ Cardinality(f[m - 1]) < Cardinality(f[m])
    BY <1>6, <1>7, <2>3
  <2> QED BY <1>6, <2>1, <2>3, <2>4
<1>9. ClassCount \in 0..ClassCount /\ Cardinality(f[ClassCount]) <= ClassCount /\ ~(Cardinality(f[ClassCount]) < ClassCount + 1)
  BY <1>2, <1>6, <1>8
<1> QED BY <1>2, <1>6, <1>9
\* What an edge leads back to lies on a cycle; a set of classes each of which
\* has an edge into the set has a cycle in it.
Circular(S, E) == S # {} /\ \A v \in S : \E e \in E : e.from = v /\ e.to \in S

LEMMA OnCycleIs ==
    ASSUME NEW E PROVE OnCycle(E) = {e.from : e \in {d \in E : d.from \in Closed(d.to, E)[ClassCount]}}
BY DEF OnCycle, ClassCount

LEMMA CycleIsCircular ==
    ASSUME NEW E \in SUBSET SubclassEdge, OnCycle(E) # {}
    PROVE  \E S \in SUBSET ClassIds : Circular(S, E)
<1>1. PICK d \in E : d.from \in Closed(d.to, E)[ClassCount]
  BY OnCycleIs
<1> DEFINE f == Closed(d.to, E)
           Leads(W, u) == /\ W \in SUBSET ClassIds /\ d.to \in W /\ u \in W
                          /\ \A x \in W : x = u \/ \E e \in E : e.from = x /\ e.to \in W
           Bad == {n \in 0..ClassCount : \E u \in f[n] : \A W : ~Leads(W, u)}
<1>2. f[0] = {d.to} /\ \A n \in 1..ClassCount : f[n] = Follow(f[n - 1], E)
  BY ClosedInTurn
<1> HIDE DEF f
<1>3. ClassCount \in Nat /\ \A e \in E : e.from \in ClassIds /\ e.to \in ClassIds
  BY ClassesAreFinite DEF SubclassEdge
<1>4. Bad = {}
  <2> SUFFICES ASSUME Bad # {} PROVE FALSE
    OBVIOUS
  <2>1. PICK n \in Bad : \A k \in Bad : n <= k
    BY Smallest, Bad \in SUBSET Nat, <1>3
  <2> HIDE DEF Leads
  <2>2. PICK u \in f[n] : \A W : ~Leads(W, u)
    BY <2>1
  <2>3. Leads({d.to}, d.to)
    BY <1>1, <1>3 DEF Leads
  <2>4. n # 0
    BY <1>2, <2>2, <2>3
  <2>5. n \in 1..ClassCount /\ n - 1 \in 0..ClassCount /\ n - 1 \notin Bad
    BY <1>3, <2>1, <2>4
  <2>6. f[n] = Follow(f[n - 1], E) /\ u \notin f[n - 1]
    BY <1>2, <2>2, <2>5
  <2>7. PICK e \in E : e.from \in f[n - 1] /\ e.to = u
    BY <2>2, <2>6, FollowIs
  <2>8. PICK W : Leads(W, e.from)
    BY <2>5, <2>7
  <2>9. Leads(W \cup {u}, u)
    BY <1>3, <2>7, <2>8 DEF Leads
  <2> QED BY <2>2, <2>9
<1>5. PICK W : Leads(W, d.from)
  <2>1. d.from \in f[ClassCount] /\ ClassCount \in 0..ClassCount
    BY <1>1, <1>3 DEF f
  <2> HIDE DEF Leads
  <2> QED BY <1>4, <2>1
<1>6. Circular(W, E)
  BY <1>5 DEF Circular
<1> QED BY <1>5, <1>6

\* A walk along E that comes back to where it began is a cycle.
LEMMA RoundIsCycle ==
    ASSUME NEW E \in SUBSET SubclassEdge, NEW k \in Nat \ {0}, NEW c,
           \A m \in 1..k : \E e \in E : e.from = c[m] /\ e.to = IF m = k THEN c[1] ELSE c[m + 1]
    PROVE  \A m \in 1..k : c[m] \in OnCycle(E)
<1> TAKE m \in 1..k
<1> DEFINE next(j) == IF j = k THEN c[1] ELSE c[j + 1]
<1>1. PICK d \in E : d.from = c[m] /\ d.to = next(m)
  OBVIOUS
<1> DEFINE T == Closed(d.to, E)[ClassCount]
<1>2. d.to \in T /\ StaysInside(T, E)
  BY ClosedStays DEF SubclassEdge
<1> HIDE DEF T
<1>3. ASSUME NEW j \in 1..k, c[j] \in T PROVE next(j) \in T
  BY <1>2, <1>3 DEF StaysInside
<1>4. ASSUME NEW j \in 1..k, c[j] \in T PROVE c[1] \in T
  <2> DEFINE Out == {i \in j..k : c[i] \notin T}
  <2>1. Out = {}
    <3> SUFFICES ASSUME Out # {} PROVE FALSE
      OBVIOUS
    <3>1. PICK i \in Out : \A h \in Out : i <= h
      BY Smallest, Out \in SUBSET Nat
    <3>2. i # j
      BY <1>4
    <3>3. i - 1 \in 1..k /\ i - 1 # k /\ c[i - 1] \in T /\ i - 1 + 1 = i
      BY <3>1, <3>2
    <3> QED BY <1>3, <3>1, <3>3
  <2>2. k \in 1..k /\ c[k] \in T
    BY <2>1
  <2> QED BY <1>3, <2>2
<1>5. c[1] \in T
  <2>1. CASE m = k
    BY <1>1, <1>2, <2>1
  <2>2. CASE m # k
    <3>1. m + 1 \in 1..k /\ c[m + 1] \in T
      BY <1>1, <1>2, <2>2
    <3> QED BY <1>4, <3>1
  <2> QED BY <2>1, <2>2
<1> DEFINE Out == {i \in 1..k : c[i] \notin T}
<1>6. Out = {}
  <2> SUFFICES ASSUME Out # {} PROVE FALSE
    OBVIOUS
  <2>1. PICK i \in Out : \A h \in Out : i <= h
    BY Smallest, Out \in SUBSET Nat
  <2>2. i # 1
    BY <1>5
  <2>3. i - 1 \in 1..k /\ i - 1 # k /\ c[i - 1] \in T /\ i - 1 + 1 = i
    BY <2>1, <2>2
  <2> QED BY <1>3, <2>1, <2>3
<1>7. d.from \in T
  BY <1>1, <1>6
<1> QED BY <1>1, <1>7, OnCycleIs DEF T

LEMMA CanonicalIs ==
    ASSUME NEW cycle \in Seq(ClassIds), cycle # <<>>
    PROVE  /\ Canonical(cycle) \in Seq(ClassIds) /\ Canonical(cycle) # <<>>
           /\ ToSet(Canonical(cycle)) \subseteq {cycle[n] : n \in 1..Len(cycle)}
<1> DEFINE n == Len(cycle)
           k == CHOOSE i \in 1..n : \A j \in 1..n : cycle[i] <= cycle[j]
           values == {cycle[i] : i \in 1..n}
<1>1. n \in Nat \ {0} /\ \A i \in 1..n : cycle[i] \in ClassIds /\ cycle[i] \in Nat
  BY ClassesAreFinite
<1>2. Canonical(cycle) = SubSeq(cycle, k, n) \o SubSeq(cycle, 1, k - 1)
  BY DEF Canonical
<1>3. cycle = [i \in 1..n |-> cycle[i]]
  OBVIOUS
<1> HIDE DEF n
<1>4. k \in 1..n
  <2>1. 1 \in 1..n /\ values # {} /\ values \in SUBSET Nat
    BY <1>1
  <2>2. PICK v \in values : \A u \in values : v <= u
    BY <2>1, Smallest
  <2>3. \E i \in 1..n : \A j \in 1..n : cycle[i] <= cycle[j]
    BY <2>2
  <2> QED BY <2>3
<1> HIDE DEF k
<1> DEFINE first == SubSeq(cycle, k, n)  rest == SubSeq(cycle, 1, k - 1)
<1>5. /\ first \in Seq(values \cap ClassIds) /\ rest \in Seq(values \cap ClassIds) /\ Len(first) # 0
  <2>1. first = [i \in 1..(n - k + 1) |-> cycle[i + k - 1]]
    BY <1>1, <1>4 DEF n
  <2>2. rest = [i \in 1..(k - 1) |-> cycle[i]]
    BY <1>1, <1>4 DEF n
  <2>3. \A i \in 1..(n - k + 1) : i + k - 1 \in 1..n
    BY <1>1, <1>4
  <2>4. \A i \in 1..(k - 1) : i \in 1..n
    BY <1>1, <1>4
  <2>5. n - k + 1 \in Nat \ {0} /\ k - 1 \in Nat
    BY <1>1, <1>4
  <2> HIDE DEF first, rest
  <2>6. \A i \in 1..n : cycle[i] \in values \cap ClassIds
    BY <1>1
  <2> HIDE DEF values
  <2>7. first \in Seq(values \cap ClassIds) /\ Len(first) = n - k + 1
    BY <2>1, <2>3, <2>5, <2>6
  <2>8. rest \in Seq(values \cap ClassIds)
    BY <2>2, <2>4, <2>5, <2>6
  <2> QED BY <2>5, <2>7, <2>8
<1> HIDE DEF first, rest, values
<1>6. first \o rest \in Seq(values \cap ClassIds) /\ Len(first \o rest) # 0
  BY <1>5, ConcatProperties
<1> DEFINE whole == first \o rest
<1> HIDE DEF whole
<1>7. whole \in Seq(values \cap ClassIds) /\ Len(whole) # 0
  BY <1>6 DEF whole
<1>8. ToSet(whole) \subseteq values /\ whole \in Seq(ClassIds) /\ whole # <<>>
  <2>1. \A i \in DOMAIN whole : whole[i] \in values
    BY <1>7
  <2> QED BY <1>7, <2>1 DEF ToSet
<1> QED BY <1>2, <1>8 DEF first, rest, whole, values, n
\* One step of the walk.
Trail(order) == [class : ClassIds, by : Members, at : 0..Len(order)]
Advanced(w) == [w EXCEPT !.path[Len(w.path)].at = @ + 1]

LEMMA WalksIs ==
    ASSUME NEW order, NEW w \in Walks(order)
    PROVE  /\ w.seen \in SUBSET ClassIds /\ w.met \in SUBSET Seq(ClassIds) /\ w.cycles \in SUBSET Seq(ClassIds)
           /\ w.path \in Seq(Trail(order)) /\ w.root \in 0..Len(order) /\ Len(w.path) \in Nat
           /\ \A m \in 1..Len(w.path) : w.path[m] \in Trail(order)
<1>1. /\ w.seen \in SUBSET ClassIds /\ w.met \in SUBSET Seq(ClassIds) /\ w.cycles \in SUBSET Seq(ClassIds)
      /\ w.path \in Seq(Trail(order)) /\ w.root \in 0..Len(order)
  BY DEF Walks, Trail
<1> QED BY <1>1, ElementOfSeq

IsAdvanced(v, w, order) ==
    LET n == Len(w.path) IN
    /\ n \in Nat /\ n \in 1..n /\ v \in Walks(order) /\ Len(v.path) = n
    /\ v.seen = w.seen /\ v.met = w.met /\ v.cycles = w.cycles /\ v.root = w.root
    /\ \A m \in 1..n : /\ v.path[m].class = w.path[m].class /\ v.path[m].by = w.path[m].by
                       /\ v.path[m].at = IF m = n THEN w.path[m].at + 1 ELSE w.path[m].at

LEMMA AdvancedIs ==
    ASSUME NEW order, Len(order) \in Nat, NEW w \in Walks(order), w.path # <<>>, Last(w.path).at < Len(order)
    PROVE  IsAdvanced(Advanced(w), w, order)
<1> DEFINE n == Len(w.path)  v == Advanced(w)  p == w.path  top == [p[n] EXCEPT !.at = p[n].at + 1]  q == [p EXCEPT ![n] = top]
<1>1. /\ n \in Nat \ {0} /\ n \in 1..n /\ p \in Seq(Trail(order))
      /\ \A m \in 1..n : p[m] \in Trail(order)
  BY WalksIs
<1>2. v = [w EXCEPT !.path = q]
  BY DEF Advanced
<1>3. p[n].at < Len(order)
  BY DEF Last
<1>4. top \in Trail(order) /\ top.class = p[n].class /\ top.by = p[n].by /\ top.at = p[n].at + 1
  <2> DEFINE e == p[n]
  <2>1. e \in Trail(order) /\ e.at < Len(order) /\ top = [e EXCEPT !.at = e.at + 1]
    BY <1>1, <1>3
  <2> HIDE DEF e, top
  <2>2. top \in Trail(order) /\ top.class = e.class /\ top.by = e.by /\ top.at = e.at + 1
    BY <2>1 DEF Trail
  <2> QED BY <2>2 DEF e
<1>5. q = [m \in 1..n |-> IF m = n THEN top ELSE p[m]]
  BY SMTT(40), <1>1
<1> HIDE DEF p, v, top
<1> HIDE DEF q, n
<1>6. q \in Seq(Trail(order)) /\ Len(q) = n
  BY <1>1, <1>4, <1>5
<1>7. \A m \in 1..n : /\ q[m].class = p[m].class /\ q[m].by = p[m].by
                      /\ q[m].at = IF m = n THEN p[m].at + 1 ELSE p[m].at
  BY <1>1, <1>4, <1>5
<1>8. /\ v \in Walks(order) /\ v.path = q
      /\ v.seen = w.seen /\ v.met = w.met /\ v.cycles = w.cycles /\ v.root = w.root
  BY <1>2, <1>6 DEF Walks, Trail
<1> QED BY <1>1, <1>6, <1>7, <1>8 DEF n, p, v, IsAdvanced

LEMMA BackIs == ASSUME NEW path, NEW v, OnPath(path, v)
                PROVE  Back(path, v) \in 1..Len(path) /\ path[Back(path, v)].class = v
BY DEF OnPath, Back

Loop(w, from) == [n \in 1..Len(w.path) - from + 1 |-> w.path[from + n - 1].class]

IsClosing(v, w, i, self, order) ==
    \E from \in 1..Len(w.path), cycle \in Seq(ClassIds) :
        /\ v \in Walks(order) /\ v.seen = w.seen /\ v.path = w.path /\ v.root = w.root
        /\ v.met = w.met \cup {cycle}
        /\ v.cycles = IF cycle \notin w.met /\ RequiresImport(w.path, from, i.by, self) THEN w.cycles \cup {cycle} ELSE w.cycles
        /\ w.path[from].class = i.to
        /\ cycle # <<>> /\ ToSet(cycle) \subseteq {Loop(w, from)[n] : n \in 1..Len(w.path) - from + 1}

LEMMA ClosingIs ==
    ASSUME NEW order, NEW w \in Walks(order), NEW i, NEW self, OnPath(w.path, i.to)
    PROVE  IsClosing(Closing(w, i, self), w, i, self, order)
<1> DEFINE from == Back(w.path, i.to)
           tail == Loop(w, from)
           cycle == Canonical(tail)
           v == Closing(w, i, self)
<1>1. from \in 1..Len(w.path) /\ w.path[from].class = i.to
  BY BackIs
<1>2. Len(w.path) \in Nat /\ \A m \in 1..Len(w.path) : w.path[m].class \in ClassIds
  BY WalksIs DEF Trail
<1>3. v = [w EXCEPT !.met = @ \cup {cycle},
                    !.cycles = IF cycle \notin w.met /\ RequiresImport(w.path, from, i.by, self) THEN @ \cup {cycle} ELSE @]
  BY DEF Closing, Loop
<1> HIDE DEF from, v
<1>4. tail \in Seq(ClassIds) /\ Len(tail) = Len(w.path) - from + 1 /\ tail # <<>>
  <2>1. Len(w.path) - from + 1 \in Nat \ {0} /\ \A n \in 1..Len(w.path) - from + 1 : from + n - 1 \in 1..Len(w.path)
    BY <1>1, <1>2
  <2>2. tail = [n \in 1..Len(w.path) - from + 1 |-> w.path[from + n - 1].class]
    BY DEF Loop
  <2>3. \A n \in 1..Len(w.path) - from + 1 : w.path[from + n - 1].class \in ClassIds
    BY <1>2, <2>1
  <2> DEFINE k == Len(w.path) - from + 1
  <2> HIDE DEF tail, k
  <2>4. k \in Nat \ {0} /\ tail \in [1..k -> ClassIds]
    BY <2>1, <2>2, <2>3 DEF k
  <2>5. tail \in Seq(ClassIds) /\ Len(tail) = k
    BY <2>4
  <2> QED BY <2>4, <2>5 DEF k
<1> HIDE DEF tail
<1>5. cycle \in Seq(ClassIds) /\ cycle # <<>> /\ ToSet(cycle) \subseteq {tail[n] : n \in 1..Len(tail)}
  BY <1>4, CanonicalIs
<1> HIDE DEF cycle
<1>6. /\ v \in Walks(order) /\ v.seen = w.seen /\ v.path = w.path /\ v.root = w.root
      /\ v.met = w.met \cup {cycle}
      /\ v.cycles = IF cycle \notin w.met /\ RequiresImport(w.path, from, i.by, self) THEN w.cycles \cup {cycle} ELSE w.cycles
  BY <1>3, <1>5 DEF Walks
<1>7. {tail[n] : n \in 1..Len(tail)} = {Loop(w, from)[n] : n \in 1..Len(w.path) - from + 1}
  BY <1>4 DEF tail
<1> QED BY <1>1, <1>5, <1>6, <1>7 DEF v, IsClosing

Pushed(w, r, by) == [w EXCEPT !.seen = @ \cup {r}, !.path = Append(@, [class |-> r, by |-> by, at |-> 0])]

IsPushed(v, w, r, by, order) ==
    LET n == Len(w.path) IN
    /\ n \in Nat /\ v \in Walks(order) /\ Len(v.path) = n + 1
    /\ v.seen = w.seen \cup {r} /\ v.met = w.met /\ v.cycles = w.cycles /\ v.root = w.root
    /\ v.path[n + 1] = [class |-> r, by |-> by, at |-> 0] /\ \A m \in 1..n : v.path[m] = w.path[m]

LEMMA PushedIs ==
    ASSUME NEW order, Len(order) \in Nat, NEW w \in Walks(order), NEW r \in ClassIds, NEW by \in Members
    PROVE  IsPushed(Pushed(w, r, by), w, r, by, order)
<1> DEFINE n == Len(w.path)  v == Pushed(w, r, by)  top == [class |-> r, by |-> by, at |-> 0]
<1>1. w.path \in Seq(Trail(order)) /\ n \in Nat /\ top \in Trail(order)
  <2>1. top \in Trail(order)
    BY DEF Trail
  <2> HIDE DEF top
  <2> QED BY <2>1, WalksIs
<1>2. v = [w EXCEPT !.seen = @ \cup {r}, !.path = Append(w.path, top)]
  BY DEF Pushed
<1> HIDE DEF top, v
<1>3. /\ Append(w.path, top) \in Seq(Trail(order)) /\ Len(Append(w.path, top)) = n + 1
      /\ Append(w.path, top)[n + 1] = top /\ \A m \in 1..n : Append(w.path, top)[m] = w.path[m]
  BY <1>1, AppendProperties
<1>4. /\ v \in Walks(order) /\ v.path = Append(w.path, top)
      /\ v.seen = w.seen \cup {r} /\ v.met = w.met /\ v.cycles = w.cycles /\ v.root = w.root
  BY <1>2, <1>3 DEF Walks, Trail
<1> QED BY <1>1, <1>3, <1>4 DEF top, v, IsPushed

IsPopped(v, w, order) ==
    LET n == Len(w.path) IN
    /\ n \in Nat \ {0} /\ v \in Walks(order) /\ Len(v.path) = n - 1
    /\ v.seen = w.seen /\ v.met = w.met /\ v.cycles = w.cycles /\ v.root = w.root
    /\ \A m \in 1..n - 1 : v.path[m] = w.path[m]

LEMMA PoppedIs ==
    ASSUME NEW order, NEW w \in Walks(order), w.path # <<>>
    PROVE  IsPopped([w EXCEPT !.path = Front(@)], w, order)
<1> DEFINE n == Len(w.path)  v == [w EXCEPT !.path = Front(w.path)]
<1>1. w.path \in Seq(Trail(order)) /\ n \in Nat \ {0}
  BY WalksIs
<1>2. Front(w.path) = SubSeq(w.path, 1, n - 1)
  BY DEF Front
<1>3. /\ Front(w.path) \in Seq(Trail(order)) /\ Len(Front(w.path)) = n - 1
      /\ \A m \in 1..n - 1 : Front(w.path)[m] = w.path[m]
  BY <1>1, <1>2
<1>4. v \in Walks(order)
  BY <1>3 DEF Walks, Trail
<1>5. v.path = Front(w.path) /\ v.seen = w.seen /\ v.met = w.met /\ v.cycles = w.cycles /\ v.root = w.root
  BY DEF Walks
<1> QED BY <1>1, <1>3, <1>4, <1>5 DEF IsPopped
\* The six things a step can do.
Tried(w, order) == order[Last(w.path).at + 1]
PassesRoot(w, v, order, E) ==
    /\ w.path = <<>> /\ w.root < Len(order) /\ v = [w EXCEPT !.root = @ + 1]
    /\ order[w.root + 1] \notin E \/ order[w.root + 1].from \in w.seen
TakesRoot(w, v, order, E, self) ==
    /\ w.path = <<>> /\ w.root < Len(order) /\ order[w.root + 1].from \notin w.seen
    /\ v = Pushed([w EXCEPT !.root = @ + 1], order[w.root + 1].from, self)
Descends(w, v, order, E) ==
    /\ w.path # <<>> /\ Last(w.path).at < Len(order)
    /\ Tried(w, order) \in E /\ Tried(w, order).from = Last(w.path).class /\ Tried(w, order).to \notin w.seen
    /\ v = Pushed(Advanced(w), Tried(w, order).to, Tried(w, order).by)
Closes(w, v, order, E, self) ==
    /\ w.path # <<>> /\ Last(w.path).at < Len(order)
    /\ Tried(w, order) \in E /\ Tried(w, order).from = Last(w.path).class /\ OnPath(w.path, Tried(w, order).to)
    /\ v = Closing(Advanced(w), Tried(w, order), self)
PassesEdge(w, v, order, E) ==
    /\ w.path # <<>> /\ Last(w.path).at < Len(order) /\ v = Advanced(w)
    /\ Tried(w, order) \in E /\ Tried(w, order).from = Last(w.path).class =>
           Tried(w, order).to \in w.seen /\ ~OnPath(w.path, Tried(w, order).to)
TurnsBack(w, v, order) ==
    w.path # <<>> /\ Last(w.path).at = Len(order) /\ v = [w EXCEPT !.path = Front(@)]

LEMMA OnwardIs ==
    ASSUME NEW order, Len(order) \in Nat, NEW E, NEW self, NEW w \in Walks(order), ~Explored(w, order)
    PROVE  LET v == Onward(w, order, E, self) IN
           \/ PassesRoot(w, v, order, E) \/ TakesRoot(w, v, order, E, self)
           \/ Descends(w, v, order, E) \/ Closes(w, v, order, E, self) \/ PassesEdge(w, v, order, E)
           \/ TurnsBack(w, v, order)
<1> DEFINE v == Onward(w, order, E, self)
<1>1. CASE w.path = <<>>
  <2>1. w.root < Len(order)
    BY <1>1, WalksIs DEF Explored
  <2>2. v = NextRoot(w, order, E, self)
    BY <1>1 DEF Onward
  <2> DEFINE r == order[w.root + 1]  on == [w EXCEPT !.root = @ + 1]
  <2>3. CASE r \notin E \/ r.from \in w.seen
    <3>1. v = on
      BY <2>2, <2>3 DEF NextRoot
    <3> QED BY <1>1, <2>1, <2>3, <3>1 DEF PassesRoot
  <2>4. CASE ~(r \notin E \/ r.from \in w.seen)
    <3>1. v = [on EXCEPT !.seen = @ \cup {r.from}, !.path = <<[class |-> r.from, by |-> self, at |-> 0]>>]
      BY <2>2, <2>4 DEF NextRoot
    <3>2. on.path = <<>>
      BY <1>1 DEF Walks
    <3>3. Append(<<>>, [class |-> r.from, by |-> self, at |-> 0]) = <<[class |-> r.from, by |-> self, at |-> 0]>>
      OBVIOUS
    <3>4. v = Pushed(on, r.from, self)
      <4> HIDE DEF on, v
      <4> QED BY <3>1, <3>2, <3>3 DEF Pushed
    <3> QED BY <1>1, <2>1, <2>4, <3>4 DEF TakesRoot
  <2> QED BY <2>3, <2>4
<1>2. CASE w.path # <<>> /\ Last(w.path).at < Len(order)
  <2> DEFINE i == Tried(w, order)  follows == i \in E /\ i.from = Last(w.path).class
  <2>1. v = CASE follows /\ i.to \notin w.seen -> Pushed(Advanced(w), i.to, i.by)
              [] follows /\ i.to \in w.seen /\ OnPath(w.path, i.to) -> Closing(Advanced(w), i, self)
              [] OTHER -> Advanced(w)
    BY <1>2 DEF Onward, NextEdge, Tried, Pushed, Advanced
  <2>2. CASE follows /\ i.to \notin w.seen
    <3>1. v = Pushed(Advanced(w), i.to, i.by)
      <4> HIDE DEF v, i
      <4> QED BY <2>1, <2>2
    <3> QED BY <1>2, <2>2, <3>1 DEF Descends
  <2>3. CASE follows /\ i.to \in w.seen /\ OnPath(w.path, i.to)
    <3>1. v = Closing(Advanced(w), i, self)
      <4> HIDE DEF v, i
      <4> QED BY <2>1, <2>3
    <3> QED BY <1>2, <2>3, <3>1 DEF Closes
  <2>4. CASE ~(follows /\ i.to \notin w.seen) /\ ~(follows /\ i.to \in w.seen /\ OnPath(w.path, i.to))
    <3>1. v = Advanced(w)
      <4> HIDE DEF v, i
      <4> QED BY <2>1, <2>4
    <3> QED BY <1>2, <2>4, <3>1 DEF PassesEdge
  <2> QED BY <2>2, <2>3, <2>4
<1>3. CASE w.path # <<>> /\ ~(Last(w.path).at < Len(order))
  <2>1. Last(w.path).at = Len(order)
    <3>1. Len(w.path) \in 1..Len(w.path) /\ w.path[Len(w.path)] \in Trail(order)
      BY <1>3, WalksIs
    <3> QED BY <1>3, <3>1 DEF Last, Trail
  <2>2. v = [w EXCEPT !.path = Front(@)]
    BY <1>3 DEF Onward
  <2> QED BY <1>3, <2>1, <2>2 DEF TurnsBack
<1> QED BY <1>1, <1>2, <1>3

\* Every step sees more, or gets on with the roots, the path or its last class.
Unseen(w) == Cardinality(ClassIds \ w.seen)
Smaller(v, w, order) ==
    \/ Unseen(v) < Unseen(w)
    \/ Unseen(v) = Unseen(w) /\ v.root > w.root
    \/ Unseen(v) = Unseen(w) /\ v.root = w.root /\ Len(v.path) < Len(w.path)
    \/ /\ Unseen(v) = Unseen(w) /\ v.root = w.root /\ Len(v.path) = Len(w.path)
       /\ w.path # <<>> /\ Last(v.path).at > Last(w.path).at

LEMMA UnseenIs ==
    /\ \A S \in SUBSET ClassIds : Cardinality(ClassIds \ S) \in Nat
    /\ \A S \in SUBSET ClassIds, r \in ClassIds : r \notin S => Cardinality(ClassIds \ (S \cup {r})) < Cardinality(ClassIds \ S)
<1>1. ASSUME NEW S \in SUBSET ClassIds PROVE IsFiniteSet(ClassIds \ S) /\ Cardinality(ClassIds \ S) \in Nat
  BY ClassesAreFinite, FS_Difference, FS_CardinalityType
<1>2. ASSUME NEW S \in SUBSET ClassIds, NEW r \in ClassIds, r \notin S
      PROVE  Cardinality(ClassIds \ (S \cup {r})) < Cardinality(ClassIds \ S)
  <2>1. ClassIds \ (S \cup {r}) = (ClassIds \ S) \ {r} /\ r \in ClassIds \ S
    BY <1>2
  <2> DEFINE T == ClassIds \ S
  <2>2. IsFiniteSet(T) /\ Cardinality(T) \in Nat /\ r \in T
    BY <1>1, <2>1
  <2> HIDE DEF T
  <2>3. Cardinality(T \ {r}) = Cardinality(T) - 1
    BY <2>2, FS_RemoveElement
  <2>4. Cardinality(T \ {r}) < Cardinality(T)
    BY <2>2, <2>3
  <2> QED BY <2>1, <2>4 DEF T
<1> QED BY <1>1, <1>2

LEMMA OnwardGoesOn ==
    ASSUME NEW order \in Seq(SubclassEdge), NEW E, NEW self \in Members, NEW w \in Walks(order), ~Explored(w, order)
    PROVE  Onward(w, order, E, self) \in Walks(order) /\ Smaller(Onward(w, order, E, self), w, order)
<1> DEFINE v == Onward(w, order, E, self)
<1>1. Len(order) \in Nat /\ \A n \in 1..Len(order) : order[n] \in SubclassEdge
  BY ElementOfSeq
<1>2. w.seen \in SUBSET ClassIds /\ Unseen(w) \in Nat
  BY WalksIs, UnseenIs DEF Unseen
<1>3. w.root \in 0..Len(order) /\ Len(w.path) \in Nat
  BY WalksIs
<1> HIDE DEF v
<1> DEFINE up == [w EXCEPT !.root = @ + 1]
<1>4. ASSUME w.root < Len(order)
      PROVE  /\ up \in Walks(order) /\ up.seen = w.seen /\ up.root = w.root + 1 /\ order[w.root + 1] \in SubclassEdge
  <2>1. w.root + 1 \in 0..Len(order) /\ w.root + 1 \in 1..Len(order)
    BY <1>1, <1>3, <1>4
  <2>2. up \in Walks(order) /\ up.seen = w.seen /\ up.root = w.root + 1
    BY <2>1 DEF Walks
  <2> QED BY <1>1, <2>1, <2>2
<1>5. ASSUME w.path # <<>>, Last(w.path).at < Len(order)
      PROVE  /\ Tried(w, order) \in SubclassEdge /\ Advanced(w) \in Walks(order) /\ Advanced(w).seen = w.seen
             /\ Advanced(w).root = w.root /\ Len(Advanced(w).path) = Len(w.path)
             /\ Last(Advanced(w).path).at > Last(w.path).at
             /\ \A u : OnPath(w.path, u) <=> OnPath(Advanced(w).path, u)
  <2>0. IsAdvanced(Advanced(w), w, order)
    BY <1>1, <1>5, AdvancedIs
  <2>1. /\ Len(w.path) \in 1..Len(w.path) /\ Advanced(w) \in Walks(order) /\ Len(Advanced(w).path) = Len(w.path)
        /\ Advanced(w).seen = w.seen /\ Advanced(w).root = w.root
        /\ \A m \in 1..Len(w.path) : /\ Advanced(w).path[m].class = w.path[m].class
                                     /\ Advanced(w).path[m].at = IF m = Len(w.path) THEN w.path[m].at + 1 ELSE w.path[m].at
    BY <2>0 DEF IsAdvanced
  <2>2. Last(w.path).at \in 0..Len(order) /\ Last(w.path) = w.path[Len(w.path)] /\ Last(Advanced(w).path) = Advanced(w).path[Len(w.path)]
    BY <2>1, WalksIs DEF Trail, Last
  <2>3. Tried(w, order) \in SubclassEdge
    BY <1>1, <1>5, <2>2 DEF Tried
  <2>4. \A u : OnPath(w.path, u) <=> OnPath(Advanced(w).path, u)
    BY <2>1 DEF OnPath
  <2>5. Last(Advanced(w).path).at > Last(w.path).at
    BY <2>1, <2>2
  <2> QED BY <2>1, <2>3, <2>4, <2>5
<1>6. CASE PassesRoot(w, v, order, E)
  <2>1. v \in Walks(order) /\ v.seen = w.seen /\ v.root = w.root + 1
    BY <1>4, <1>6 DEF PassesRoot
  <2> QED BY <1>2, <1>3, <2>1 DEF Smaller, Unseen, v
<1>7. CASE TakesRoot(w, v, order, E, self)
  <2>1. w.root < Len(order) /\ v = Pushed(up, order[w.root + 1].from, self) /\ order[w.root + 1].from \notin w.seen
    BY <1>7 DEF TakesRoot
  <2>2. order[w.root + 1].from \in ClassIds
    BY <1>4, <2>1 DEF SubclassEdge
  <2>3. v \in Walks(order) /\ v.seen = w.seen \cup {order[w.root + 1].from}
    <3> DEFINE r == order[w.root + 1].from
    <3>1. up \in Walks(order) /\ up.seen = w.seen /\ r \in ClassIds /\ v = Pushed(up, r, self)
      BY <1>4, <2>1, <2>2
    <3> HIDE DEF up, r
    <3>2. IsPushed(v, up, r, self, order)
      BY <1>1, <3>1, PushedIs
    <3> QED BY <3>1, <3>2 DEF r, IsPushed
  <2>4. Unseen(v) < Unseen(w)
    BY <1>2, <2>1, <2>2, <2>3, UnseenIs DEF Unseen
  <2> QED BY <2>3, <2>4 DEF Smaller, v
<1>8. CASE Descends(w, v, order, E)
  <2> DEFINE i == Tried(w, order)
  <2>1. i.to \in ClassIds /\ i.by \in Members /\ i.to \notin w.seen /\ v = Pushed(Advanced(w), i.to, i.by)
    BY <1>5, <1>8 DEF Descends, SubclassEdge
  <2>2. Advanced(w) \in Walks(order) /\ Advanced(w).seen = w.seen
    BY <1>5, <1>8 DEF Descends
  <2>3. v \in Walks(order) /\ v.seen = w.seen \cup {i.to}
    <3> DEFINE r == i.to  by == i.by  u == Advanced(w)
    <3>1. u \in Walks(order) /\ u.seen = w.seen /\ r \in ClassIds /\ by \in Members /\ v = Pushed(u, r, by)
      BY <2>1, <2>2
    <3> HIDE DEF r, by, u
    <3>2. IsPushed(v, u, r, by, order)
      BY <1>1, <3>1, PushedIs
    <3> QED BY <3>1, <3>2 DEF r, IsPushed
  <2>4. Unseen(v) < Unseen(w)
    BY <1>2, <2>1, <2>3, UnseenIs DEF Unseen
  <2> QED BY <2>3, <2>4 DEF Smaller, v
<1>9. CASE Closes(w, v, order, E, self)
  <2>1. /\ v \in Walks(order) /\ v.seen = Advanced(w).seen /\ v.path = Advanced(w).path /\ v.root = Advanced(w).root
    <3> DEFINE u == Advanced(w)  i == Tried(w, order)
    <3>1. u \in Walks(order) /\ OnPath(u.path, i.to) /\ v = Closing(u, i, self)
      BY <1>5, <1>9 DEF Closes
    <3> HIDE DEF u, i
    <3>2. IsClosing(v, u, i, self, order)
      BY <3>1, ClosingIs
    <3> QED BY <3>2 DEF u, IsClosing
  <2> QED BY <1>5, <1>9, <2>1 DEF Closes, Smaller, Unseen, v
<1>10. CASE PassesEdge(w, v, order, E)
  BY <1>5, <1>10 DEF PassesEdge, Smaller, Unseen, v
<1>11. CASE TurnsBack(w, v, order)
  <2>1. IsPopped(v, w, order)
    BY <1>11, PoppedIs DEF TurnsBack
  <2> QED BY <1>3, <2>1 DEF Smaller, Unseen, v, IsPopped
<1> QED BY <1>1, <1>6, <1>7, <1>8, <1>9, <1>10, <1>11, OnwardIs DEF v
\* So no set of walks is without one that nothing in it comes after, and the
\* recursive function exists.
LEMMA LeastWalk ==
    ASSUME NEW order, Len(order) \in Nat, NEW S \in SUBSET Walks(order), S # {}
    PROVE  \E w \in S : \A v \in S : ~Smaller(v, w, order)
<1> DEFINE at(w) == IF w.path = <<>> THEN 0 ELSE Len(order) - Last(w.path).at
<1>1. ASSUME NEW w \in S PROVE Unseen(w) \in Nat /\ Len(order) - w.root \in Nat /\ Len(w.path) \in Nat /\ w.root \in Nat
  <2>1. w \in Walks(order)
    OBVIOUS
  <2>2. w.seen \in SUBSET ClassIds /\ w.root \in 0..Len(order) /\ Len(w.path) \in Nat
    BY <2>1, WalksIs
  <2>3. Unseen(w) \in Nat
    BY <2>2, UnseenIs DEF Unseen
  <2> QED BY <2>2, <2>3
<1>2. ASSUME NEW w \in S, w.path # <<>> PROVE Last(w.path).at \in 0..Len(order)
  <2>1. Len(w.path) \in 1..Len(w.path) /\ w.path[Len(w.path)] \in Trail(order)
    BY <1>2, WalksIs
  <2> QED BY <2>1 DEF Last, Trail
<1>3. PICK a \in S : \A v \in S : Unseen(a) <= Unseen(v)
  <2> DEFINE values == {Unseen(w) : w \in S}
  <2>1. values \in SUBSET Nat /\ values # {}
    BY <1>1
  <2>2. PICK n \in values : \A m \in values : n <= m
    <3> HIDE DEF values
    <3> QED BY <2>1, Smallest
  <2> QED BY <2>2
<1> DEFINE A == {w \in S : Unseen(w) = Unseen(a)}
<1>4. PICK b \in A : \A v \in A : Len(order) - b.root <= Len(order) - v.root
  <2> DEFINE values == {Len(order) - w.root : w \in A}
  <2>1. values \in SUBSET Nat /\ values # {}
    BY <1>1
  <2> HIDE DEF A
  <2>2. PICK n \in values : \A m \in values : n <= m
    <3> HIDE DEF values
    <3> QED BY <2>1, Smallest
  <2> QED BY <2>2
<1> DEFINE B == {w \in A : w.root = b.root}
<1>5. PICK c \in B : \A v \in B : Len(c.path) <= Len(v.path)
  <2> DEFINE values == {Len(w.path) : w \in B}
  <2>1. values \in SUBSET Nat /\ values # {}
    BY <1>1
  <2> HIDE DEF B
  <2>2. PICK n \in values : \A m \in values : n <= m
    <3> HIDE DEF values
    <3> QED BY <2>1, Smallest
  <2> QED BY <2>2
<1> DEFINE C == {w \in B : Len(w.path) = Len(c.path)}
<1>6. PICK d \in C : \A v \in C : at(d) <= at(v)
  <2> DEFINE values == {at(w) : w \in C}
  <2>1. \A w \in C : at(w) \in Nat
    BY <1>2
  <2>2. values \in SUBSET Nat /\ values # {}
    BY <2>1
  <2> HIDE DEF C, at
  <2>3. PICK n \in values : \A m \in values : n <= m
    <3> HIDE DEF values
    <3> QED BY <2>2, Smallest
  <2> QED BY <2>3
<1>7. ASSUME NEW v \in S, Smaller(v, d, order) PROVE FALSE
  <2>1. Unseen(d) = Unseen(a) /\ d.root = b.root /\ Len(d.path) = Len(c.path) /\ d \in S
    OBVIOUS
  <2>2. Unseen(v) = Unseen(a)
    BY <1>1, <1>3, <1>7, <2>1 DEF Smaller
  <2>3. v.root = b.root
    BY <1>1, <1>4, <1>7, <2>1, <2>2 DEF Smaller
  <2>4. Len(v.path) = Len(c.path)
    BY <1>1, <1>5, <1>7, <2>1, <2>2, <2>3 DEF Smaller
  <2>5. Last(v.path).at > Last(d.path).at
    BY <1>1, <1>7, <2>1, <2>2, <2>3, <2>4 DEF Smaller
  <2>6. v \in C /\ at(d) <= at(v)
    BY <1>6, <2>2, <2>3, <2>4
  <2>7. (v.path = <<>>) <=> (d.path = <<>>)
    <3>1. v.path \in Seq(Trail(order)) /\ d.path \in Seq(Trail(order))
      BY <2>1, WalksIs
    <3> QED BY <2>1, <2>4, <3>1
  <2>8. CASE v.path # <<>>
    <3>1. at(v) = Len(order) - Last(v.path).at /\ at(d) = Len(order) - Last(d.path).at
      BY <2>7, <2>8
    <3>2. Last(v.path).at \in 0..Len(order) /\ Last(d.path).at \in 0..Len(order)
      BY <1>2, <2>1, <2>7, <2>8
    <3> QED BY <2>5, <2>6, <3>1, <3>2
  <2>9. CASE v.path = <<>>
    BY <1>1, <1>7, <2>1, <2>2, <2>3, <2>4, <2>7, <2>9 DEF Smaller
  <2> QED BY <2>8, <2>9
<1> QED BY <1>7
\* Where a walk ends: the last of a run of steps that are all there is.
Run(r, k, w, order, E, self) ==
    /\ k \in Nat /\ r \in [0..k -> Walks(order)] /\ r[0] = w /\ Explored(r[k], order)
    /\ \A n \in 0..k - 1 : ~Explored(r[n], order) /\ r[n + 1] = Onward(r[n], order, E, self)

LEMMA RunExists ==
    ASSUME NEW order \in Seq(SubclassEdge), NEW E, NEW self \in Members, NEW w \in Walks(order)
    PROVE  \E k, r : Run(r, k, w, order, E, self)
<1> DEFINE Bad == {v \in Walks(order) : \A k, r : ~Run(r, k, v, order, E, self)}
<1>1. SUFFICES ASSUME Bad # {} PROVE FALSE
  OBVIOUS
<1>2. PICK v \in Bad : \A u \in Bad : ~Smaller(u, v, order)
  <2>1. Bad \in SUBSET Walks(order) /\ Len(order) \in Nat
    OBVIOUS
  <2> HIDE DEF Bad
  <2> QED BY <1>1, <2>1, LeastWalk
<1>3. v \in Walks(order) /\ \A k, r : ~Run(r, k, v, order, E, self)
  BY <1>2
<1>4. CASE Explored(v, order)
  <2>1. Run([n \in 0..0 |-> v], 0, v, order, E, self)
    BY <1>3, <1>4 DEF Run
  <2> QED BY <1>3, <2>1
<1>5. CASE ~Explored(v, order)
  <2> DEFINE next == Onward(v, order, E, self)
  <2>1. next \in Walks(order) /\ Smaller(next, v, order)
    BY <1>3, <1>5, OnwardGoesOn
  <2>2. next \notin Bad
    BY <1>2, <2>1
  <2> HIDE DEF next
  <2>3. PICK k, r : Run(r, k, next, order, E, self)
    BY <2>1, <2>2
  <2> DEFINE q == [n \in 0..k + 1 |-> IF n = 0 THEN v ELSE r[n - 1]]
  <2>4. k \in Nat /\ r \in [0..k -> Walks(order)] /\ r[0] = next /\ Explored(r[k], order)
    BY <2>3 DEF Run
  <2>5. q \in [0..k + 1 -> Walks(order)] /\ q[0] = v /\ q[k + 1] = r[k]
    <3>1. \A n \in 0..k + 1 : n # 0 => n - 1 \in 0..k
      BY <2>4
    <3> QED BY <1>3, <2>4, <3>1
  <2>6. ASSUME NEW n \in 0..k PROVE ~Explored(q[n], order) /\ q[n + 1] = Onward(q[n], order, E, self)
    <3>1. CASE n = 0
      <4>1. q[0] = v /\ q[1] = r[0]
        BY <2>4
      <4> QED BY <1>5, <2>4, <3>1, <4>1 DEF next
    <3>2. CASE n # 0
      <4>1. n - 1 \in 0..k - 1 /\ q[n] = r[n - 1] /\ q[n + 1] = r[n] /\ n - 1 + 1 = n
        BY <2>4, <3>2
      <4>2. ~Explored(r[n - 1], order) /\ r[n - 1 + 1] = Onward(r[n - 1], order, E, self)
        BY <2>3, <4>1 DEF Run
      <4> QED BY <4>1, <4>2
    <3> QED BY <3>1, <3>2
  <2> HIDE DEF q
  <2>7. Run(q, k + 1, v, order, E, self)
    <3>1. k + 1 \in Nat /\ k + 1 - 1 = k
      BY <2>4
    <3> QED BY <2>4, <2>5, <2>6, <3>1 DEF Run
  <2> QED BY <1>3, <2>7
<1> QED BY <1>4, <1>5

LEMMA RunsEndAlike ==
    ASSUME NEW order, NEW E, NEW self, NEW w,
           NEW k, NEW r, Run(r, k, w, order, E, self), NEW l, NEW q, Run(q, l, w, order, E, self)
    PROVE  r[k] = q[l]
<1> DEFINE Apart == {n \in 0..k : ~(n <= l /\ r[n] = q[n])}
<1>1. k \in Nat /\ l \in Nat /\ r[0] = w /\ q[0] = w
  BY DEF Run
<1>2. Apart = {}
  <2> SUFFICES ASSUME Apart # {} PROVE FALSE
    OBVIOUS
  <2>1. PICK n \in Apart : \A m \in Apart : n <= m
    BY <1>1, Smallest, Apart \in SUBSET Nat
  <2>2. n # 0
    BY <1>1
  <2>3. n - 1 \in 0..k - 1 /\ n - 1 <= l /\ r[n - 1] = q[n - 1] /\ n - 1 + 1 = n
    BY <1>1, <2>1, <2>2
  <2>4. ~Explored(r[n - 1], order) /\ r[n] = Onward(r[n - 1], order, E, self)
    BY <2>3 DEF Run
  <2>5. n - 1 # l
    BY <2>3, <2>4 DEF Run
  <2>6. n - 1 \in 0..l - 1
    BY <1>1, <2>3, <2>5
  <2>7. q[n - 1 + 1] = Onward(q[n - 1], order, E, self)
    BY <2>6 DEF Run
  <2>8. n <= l
    BY <1>1, <2>6
  <2> QED BY <2>1, <2>3, <2>4, <2>7, <2>8
<1>3. k <= l /\ r[k] = q[k]
  BY <1>1, <1>2
<1>4. Explored(q[k], order)
  BY <1>3 DEF Run
<1>5. ~(k < l)
  <2> SUFFICES ASSUME k < l PROVE FALSE
    OBVIOUS
  <2>1. k \in 0..l - 1
    BY <1>1
  <2> QED BY <1>4, <2>1 DEF Run
<1> QED BY <1>1, <1>3, <1>5

Wanders(f, order, E, self) ==
    f = [w \in Walks(order) |-> IF Explored(w, order) THEN w ELSE f[Onward(w, order, E, self)]]

LEMMA WalkDefined ==
    ASSUME NEW order \in Seq(SubclassEdge), NEW E, NEW self \in Members
    PROVE  \E f : Wanders(f, order, E, self)
<1> DEFINE Halts(w, x) == \E k, r : Run(r, k, w, order, E, self) /\ r[k] = x
           f == [w \in Walks(order) |-> CHOOSE x : Halts(w, x)]
<1>1. ASSUME NEW w \in Walks(order) PROVE Halts(w, f[w])
  <2>1. \E x : Halts(w, x)
    BY RunExists
  <2>2. f[w] = CHOOSE x : Halts(w, x)
    OBVIOUS
  <2> HIDE DEF Halts, f
  <2> QED BY <2>1, <2>2
<1> HIDE DEF f
<1>2. ASSUME NEW w, NEW x, NEW y, Halts(w, x), Halts(w, y) PROVE x = y
  BY <1>2, RunsEndAlike
<1>3. ASSUME NEW w \in Walks(order), Explored(w, order) PROVE f[w] = w
  <2>1. Run([n \in 0..0 |-> w], 0, w, order, E, self)
    BY <1>3 DEF Run
  <2>2. Halts(w, w)
    BY <2>1
  <2> HIDE DEF Halts
  <2> QED BY <1>1, <1>2, <2>2
<1>4. ASSUME NEW w \in Walks(order), ~Explored(w, order) PROVE f[w] = f[Onward(w, order, E, self)]
  <2> DEFINE next == Onward(w, order, E, self)
  <2>1. next \in Walks(order)
    BY <1>4, OnwardGoesOn
  <2>2. PICK k, r : Run(r, k, w, order, E, self) /\ r[k] = f[w]
    BY <1>1
  <2>3. k \in Nat /\ r \in [0..k -> Walks(order)] /\ r[0] = w /\ Explored(r[k], order)
    BY <2>2 DEF Run
  <2>4. k # 0
    BY <1>4, <2>3
  <2> DEFINE q == [n \in 0..k - 1 |-> r[n + 1]]
  <2>5. k - 1 \in Nat /\ q \in [0..k - 1 -> Walks(order)] /\ q[k - 1] = r[k]
    <3>1. \A n \in 0..k - 1 : n + 1 \in 0..k
      BY <2>3
    <3> QED BY <2>3, <2>4, <3>1
  <2>6. q[0] = next
    <3>1. 0 \in 0..k - 1
      BY <2>3, <2>4
    <3> QED BY <2>2, <2>3, <3>1 DEF Run
  <2>7. ASSUME NEW n \in 0..k - 1 - 1 PROVE ~Explored(q[n], order) /\ q[n + 1] = Onward(q[n], order, E, self)
    <3>1. n + 1 \in 0..k - 1 /\ n \in 0..k - 1 /\ q[n] = r[n + 1] /\ q[n + 1] = r[n + 1 + 1]
      BY <2>3
    <3> QED BY <2>2, <3>1 DEF Run
  <2> HIDE DEF q, next
  <2>8. Run(q, k - 1, next, order, E, self)
    BY <2>3, <2>5, <2>6, <2>7 DEF Run
  <2>9. Halts(next, f[w])
    BY <2>2, <2>5, <2>8
  <2> HIDE DEF Halts
  <2> QED BY <1>1, <1>2, <2>1, <2>9 DEF next
<1>5. f = [w \in Walks(order) |-> f[w]]
  BY DEF f
<1>6. f = [w \in Walks(order) |-> IF Explored(w, order) THEN w ELSE f[Onward(w, order, E, self)]]
  BY <1>3, <1>4, <1>5
<1> QED BY <1>6 DEF Wanders
\* What is true at every step of a walk.
Grey(w) == {w.path[m].class : m \in 1..Len(w.path)}
Black(w) == w.seen \ Grey(w)
OwnEdges(E, o) == {e \in E : e.by = o}
PathEdge(path, m) == [from |-> path[m].class, to |-> path[m + 1].class, by |-> path[m + 1].by]

PathSound(w, E) ==
    /\ Grey(w) \subseteq w.seen
    /\ \A m, n \in 1..Len(w.path) : w.path[m].class = w.path[n].class => m = n
    /\ \A m \in 1..Len(w.path) - 1 : PathEdge(w.path, m) \in E
CyclesSound(w, E) ==
    w.met = w.cycles /\ \A c \in w.cycles : c # <<>> /\ ToSet(c) \subseteq OnCycle(E)
RootsSeen(w, order, E) == \A j \in 1..w.root : order[j] \in E => order[j].from \in w.seen

\* What is done with leads only to what is done with, and not round in a circle;
\* and so it will be with the classes on the path.
LeadsOn(w, m, u) == u \in Black(w) \/ (m < Len(w.path) /\ u = w.path[m + 1].class)
Settled(w, order, E) ==
    /\ \A e \in E : e.from \in Black(w) => e.to \in Black(w)
    /\ \A S \in SUBSET Black(w) : ~Circular(S, E)
    /\ \A m \in 1..Len(w.path) : \A j \in 1..w.path[m].at :
           order[j] \in E /\ order[j].from = w.path[m].class => LeadsOn(w, m, order[j].to)

WalkInv(w, order, E) ==
    /\ w \in Walks(order) /\ PathSound(w, E) /\ CyclesSound(w, E) /\ RootsSeen(w, order, E)
    /\ w.cycles = {} => Settled(w, order, E)

\* order has every one of the E, and o alone makes no cycle.
Listed(order, E) == \A e \in E : \E j \in 1..Len(order) : order[j] = e

StaysOn(v, w, E) == PathSound(v, E) /\ Grey(v) = Grey(w) /\ Black(v) = Black(w)
GoesOnTo(v, w, r, E) == PathSound(v, E) /\ Grey(v) = Grey(w) \cup {r} /\ Black(v) = Black(w)

LEMMA AdvancedSound ==
    ASSUME NEW order, NEW E, NEW w, NEW v, PathSound(w, E), IsAdvanced(v, w, order)
    PROVE  StaysOn(v, w, E)
<1>1. Grey(v) = Grey(w) /\ v.seen = w.seen
  BY DEF IsAdvanced, Grey
<1>2. \A m \in 1..Len(w.path) - 1 : PathEdge(v.path, m) = PathEdge(w.path, m)
  BY DEF IsAdvanced, PathEdge
<1>3. Len(v.path) = Len(w.path) /\ \A m \in 1..Len(w.path) : v.path[m].class = w.path[m].class
  BY DEF IsAdvanced
<1> QED BY <1>1, <1>2, <1>3 DEF PathSound, Black, StaysOn

LEMMA PushedSound ==
    ASSUME NEW order, NEW E, NEW w, NEW v, NEW r, NEW by, PathSound(w, E), IsPushed(v, w, r, by, order), r \notin w.seen,
           w.path # <<>> => [from |-> w.path[Len(w.path)].class, to |-> r, by |-> by] \in E
    PROVE  GoesOnTo(v, w, r, E)
<1> DEFINE n == Len(w.path)
<1>1. /\ n \in Nat /\ Len(v.path) = n + 1 /\ v.seen = w.seen \cup {r}
      /\ v.path[n + 1] = [class |-> r, by |-> by, at |-> 0] /\ \A m \in 1..n : v.path[m] = w.path[m]
  BY DEF IsPushed
<1>2. v.path[n + 1].class = r /\ v.path[n + 1].by = by
  BY <1>1
<1> HIDE DEF n
<1>3. \A m \in 1..n + 1 : v.path[m].class = IF m = n + 1 THEN r ELSE w.path[m].class
  BY <1>1, <1>2
<1>4. Grey(v) = Grey(w) \cup {r}
  <2>1. \A u \in Grey(v) : u \in Grey(w) \cup {r}
    BY SMTT(40), <1>1, <1>3 DEF Grey, n
  <2>2. \A u \in Grey(w) : u \in Grey(v)
    <3>1. \A m \in 1..n : m \in 1..n + 1 /\ m # n + 1
      BY <1>1
    <3> QED BY <1>1, <1>3, <3>1 DEF Grey, n
  <2>3. r \in Grey(v)
    BY <1>1, <1>3 DEF Grey
  <2> QED BY <2>1, <2>2, <2>3
<1>5. Grey(w) \subseteq w.seen
  BY DEF PathSound
<1>6. Grey(v) \subseteq v.seen /\ Black(v) = Black(w)
  BY <1>1, <1>4, <1>5 DEF Black
<1>7. ASSUME NEW m \in 1..n + 1, NEW k \in 1..n + 1, v.path[m].class = v.path[k].class PROVE m = k
  <2>1. \A j \in 1..n : w.path[j].class # r
    BY <1>5 DEF Grey, n
  <2>2. \A j \in 1..n + 1 : j # n + 1 => j \in 1..n
    BY <1>1
  <2>3. \A i, j \in 1..n : w.path[i].class = w.path[j].class => i = j
    BY DEF PathSound, n
  <2> QED BY <1>3, <1>7, <2>1, <2>2, <2>3
<1>8. ASSUME NEW m \in 1..n PROVE PathEdge(v.path, m) \in E
  <2>1. CASE m = n
    <3>1. PathEdge(v.path, m) = [from |-> w.path[n].class, to |-> r, by |-> by] /\ n # 0
      BY <1>1, <1>2, <2>1 DEF PathEdge
    <3>2. w.path # <<>>
      BY <3>1 DEF n
    <3> QED BY <3>1, <3>2 DEF n
  <2>2. CASE m # n
    <3>1. m \in 1..n - 1 /\ m + 1 \in 1..n
      BY <1>1, <2>2
    <3>2. PathEdge(v.path, m) = PathEdge(w.path, m)
      BY <1>1, <3>1 DEF PathEdge
    <3> QED BY <3>1, <3>2 DEF PathSound, n
  <2> QED BY <2>1, <2>2
<1>9. n + 1 - 1 = n
  BY <1>1
<1> QED BY <1>1, <1>4, <1>6, <1>7, <1>8, <1>9 DEF PathSound, GoesOnTo

\* The edge tried from the last class of the path.
LEMMA TriedIs ==
    ASSUME NEW order \in Seq(SubclassEdge), NEW w \in Walks(order), w.path # <<>>, Last(w.path).at < Len(order)
    PROVE  LET n == Len(w.path) IN
           /\ n \in Nat /\ n \in 1..n /\ w.path[n].at \in Nat /\ Last(w.path) = w.path[n]
           /\ Tried(w, order) = order[w.path[n].at + 1] /\ Tried(w, order) \in SubclassEdge
<1>1. Len(w.path) \in Nat /\ Len(w.path) \in 1..Len(w.path) /\ w.path[Len(w.path)] \in Trail(order)
  BY WalksIs
<1>2. Last(w.path) = w.path[Len(w.path)]
  BY DEF Last
<1>3. w.path[Len(w.path)].at \in 0..Len(order)
  BY <1>1 DEF Trail
<1>4. w.path[Len(w.path)].at + 1 \in 1..Len(order)
  BY <1>2, <1>3
<1>5. order[w.path[Len(w.path)].at + 1] \in SubclassEdge
  BY <1>4, ElementOfSeq
<1> QED BY <1>1, <1>2, <1>3, <1>5 DEF Tried
LEMMA PassesRootSound ==
    ASSUME NEW order, NEW E, NEW w, NEW v, WalkInv(w, order, E),
           PassesRoot(w, v, order, E), v \in Walks(order)
    PROVE  WalkInv(v, order, E)
<1>1. /\ v.seen = w.seen /\ v.path = w.path /\ v.met = w.met /\ v.cycles = w.cycles /\ v.root = w.root + 1
      /\ w.root \in Nat /\ (order[w.root + 1] \in E => order[w.root + 1].from \in w.seen)
  <2>1. w \in Walks(order)
    BY DEF WalkInv
  <2>2. w.root \in Nat
    BY <2>1, WalksIs
  <2>3. v = [w EXCEPT !.root = w.root + 1] /\ (order[w.root + 1] \in E => order[w.root + 1].from \in w.seen)
    BY DEF PassesRoot
  <2> QED BY <2>1, <2>2, <2>3 DEF Walks
<1>2. Grey(v) = Grey(w) /\ Black(v) = Black(w)
  BY <1>1 DEF Grey, Black
<1>3. PathSound(v, E) /\ CyclesSound(v, E)
  BY <1>1, <1>2 DEF WalkInv, PathSound, CyclesSound
<1>4. RootsSeen(v, order, E)
  BY <1>1 DEF WalkInv, RootsSeen
<1>5. Settled(w, order, E) => Settled(v, order, E)
  BY <1>1, <1>2 DEF Settled, LeadsOn
<1> QED BY <1>1, <1>3, <1>4, <1>5 DEF WalkInv

LEMMA PushedSettled ==
    ASSUME NEW order, NEW E, NEW w, NEW v, NEW r, NEW by, IsPushed(v, w, r, by, order), Black(v) = Black(w),
           \A e \in E : e.from \in Black(w) => e.to \in Black(w),
           \A S \in SUBSET Black(w) : ~Circular(S, E),
           \A m \in 1..Len(w.path) : \A j \in 1..w.path[m].at :
               order[j] \in E /\ order[j].from = w.path[m].class =>
                   LeadsOn(w, m, order[j].to) \/ (m = Len(w.path) /\ order[j].to = r)
    PROVE  Settled(v, order, E)
<1> DEFINE n == Len(w.path)
<1>1. /\ n \in Nat /\ Len(v.path) = n + 1
      /\ v.path[n + 1] = [class |-> r, by |-> by, at |-> 0] /\ \A m \in 1..n : v.path[m] = w.path[m]
  BY DEF IsPushed
<1>2. v.path[n + 1].class = r /\ v.path[n + 1].at = 0
  BY <1>1
<1>0. \A u : u \in Black(v) <=> u \in Black(w)
  OBVIOUS
<1>3. ASSUME NEW m \in 1..n + 1, NEW j \in 1..v.path[m].at, order[j] \in E, order[j].from = v.path[m].class
      PROVE  LeadsOn(v, m, order[j].to)
  <2>1. m # n + 1
    BY <1>2, <1>3
  <2>2. m \in 1..n /\ v.path[m] = w.path[m]
    BY <1>1, <2>1
  <2>3. LeadsOn(w, m, order[j].to) \/ (m = n /\ order[j].to = r)
    BY <1>3, <2>2
  <2>4. CASE order[j].to \in Black(w)
    <3>1. order[j].to \in Black(v)
      BY <1>0, <2>4
    <3> QED BY <3>1, Zenon DEF LeadsOn
  <2>5. CASE m < n /\ order[j].to = w.path[m + 1].class
    <3>1. m + 1 \in 1..n /\ v.path[m + 1] = w.path[m + 1] /\ m < n + 1
      BY <1>1, <2>2, <2>5
    <3> QED BY <1>1, <2>5, <3>1 DEF LeadsOn
  <2>6. CASE m = n /\ order[j].to = r
    <3>1. m < Len(v.path) /\ v.path[m + 1].class = r
      BY <1>1, <1>2, <2>6
    <3> QED BY <2>6, <3>1 DEF LeadsOn
  <2> QED BY <2>3, <2>4, <2>5, <2>6 DEF LeadsOn
<1> QED BY <1>1, <1>3 DEF Settled

LEMMA TakesRootSound ==
    ASSUME NEW order \in Seq(SubclassEdge), NEW E, NEW self \in Members, NEW w, NEW v, WalkInv(w, order, E),
           TakesRoot(w, v, order, E, self), v \in Walks(order)
    PROVE  WalkInv(v, order, E)
<1> DEFINE up == [w EXCEPT !.root = w.root + 1]  r == order[w.root + 1].from
<1>1. w \in Walks(order) /\ w.path = <<>> /\ w.root < Len(order) /\ r \notin w.seen /\ v = Pushed(up, r, self)
  BY DEF WalkInv, TakesRoot
<1>2. w.root \in 0..Len(order) /\ Len(order) \in Nat
  BY <1>1, WalksIs
<1>3. w.root + 1 \in 1..Len(order) /\ w.root + 1 \in 0..Len(order)
  BY <1>1, <1>2
<1>4. r \in ClassIds
  <2>1. order[w.root + 1] \in SubclassEdge
    BY <1>3, ElementOfSeq
  <2> QED BY <2>1 DEF SubclassEdge
<1>5. /\ up \in Walks(order) /\ up.seen = w.seen /\ up.met = w.met /\ up.cycles = w.cycles
      /\ up.path = <<>> /\ up.root = w.root + 1
  BY <1>1, <1>3 DEF Walks
<1> HIDE DEF up
<1>6. IsPushed(v, up, r, self, order)
  BY <1>1, <1>2, <1>4, <1>5, PushedIs
<1> HIDE DEF r
<1>7. PathSound(up, E) /\ Grey(up) = {} /\ Black(up) = w.seen /\ Black(w) = w.seen
  BY <1>1, <1>5 DEF PathSound, Grey, Black
<1>8. PathSound(v, E) /\ Black(v) = w.seen /\ Grey(v) = {r}
  <2>1. r \notin up.seen /\ ~(up.path # <<>>)
    BY <1>1, <1>5
  <2>2. GoesOnTo(v, up, r, E)
    BY <1>6, <1>7, <2>1, PushedSound
  <2> QED BY <1>7, <2>2 DEF GoesOnTo
<1>9. v.seen = w.seen \cup {r} /\ v.met = w.met /\ v.cycles = w.cycles /\ v.root = w.root + 1
  BY <1>5, <1>6 DEF IsPushed
<1>10. CyclesSound(v, E)
  BY <1>9 DEF WalkInv, CyclesSound
<1>11. RootsSeen(v, order, E)
  <2>1. ASSUME NEW j \in 1..w.root + 1, order[j] \in E PROVE order[j].from \in w.seen \cup {r}
    <3>1. CASE j = w.root + 1
      BY <3>1 DEF r
    <3>2. CASE j # w.root + 1
      <4>1. j \in 1..w.root
        BY <1>2, <3>2
      <4> QED BY <2>1, <4>1 DEF WalkInv, RootsSeen
    <3> QED BY <3>1, <3>2
  <2> QED BY <1>9, <2>1 DEF RootsSeen
<1>12. ASSUME w.cycles = {} PROVE Settled(v, order, E)
  <2>1. /\ \A e \in E : e.from \in Black(w) => e.to \in Black(w)
        /\ \A S \in SUBSET Black(w) : ~Circular(S, E)
    BY <1>12 DEF WalkInv, Settled
  <2>2. Len(up.path) = 0
    BY <1>5
  <2> QED BY <1>6, <1>7, <1>8, <2>1, <2>2, PushedSettled
<1> QED BY <1>8, <1>9, <1>10, <1>11, <1>12 DEF WalkInv
LEMMA DescendsSound ==
    ASSUME NEW order \in Seq(SubclassEdge), NEW E, NEW w, NEW v, WalkInv(w, order, E),
           Descends(w, v, order, E)
    PROVE  WalkInv(v, order, E)
<1> DEFINE u == Advanced(w)  e == Tried(w, order)  n == Len(w.path)
<1>1. /\ w \in Walks(order) /\ w.path # <<>> /\ Last(w.path).at < Len(order) /\ Len(order) \in Nat
      /\ e \in E /\ e.from = Last(w.path).class /\ e.to \notin w.seen /\ v = Pushed(u, e.to, e.by)
  BY DEF WalkInv, Descends
<1>2. /\ n \in Nat /\ n \in 1..n /\ w.path[n].at \in Nat /\ Last(w.path) = w.path[n]
      /\ e = order[w.path[n].at + 1] /\ e \in SubclassEdge
  BY <1>1, TriedIs
<1>3. IsAdvanced(u, w, order)
  BY <1>1, AdvancedIs
<1> HIDE DEF u, e
<1>4. StaysOn(u, w, E)
  BY <1>3, AdvancedSound DEF WalkInv
<1>5. /\ u \in Walks(order) /\ Len(u.path) = n /\ u.seen = w.seen /\ u.met = w.met /\ u.cycles = w.cycles /\ u.root = w.root
      /\ \A m \in 1..n : /\ u.path[m].class = w.path[m].class
                         /\ u.path[m].at = IF m = n THEN w.path[m].at + 1 ELSE w.path[m].at
  BY <1>3 DEF IsAdvanced
<1>6. e.to \in ClassIds /\ e.by \in Members /\ [from |-> u.path[n].class, to |-> e.to, by |-> e.by] = e
  BY <1>1, <1>2, <1>5 DEF SubclassEdge
<1>7. IsPushed(v, u, e.to, e.by, order)
  BY <1>1, <1>5, <1>6, PushedIs
<1>8. GoesOnTo(v, u, e.to, E)
  <2>1. PathSound(u, E) /\ e.to \notin u.seen
    BY <1>1, <1>4, <1>5 DEF StaysOn
  <2>2. [from |-> u.path[Len(u.path)].class, to |-> e.to, by |-> e.by] \in E
    BY <1>1, <1>5, <1>6
  <2> QED BY <1>7, <2>1, <2>2, PushedSound
<1>9. PathSound(v, E) /\ Black(v) = Black(u) /\ Black(u) = Black(w)
  BY <1>4, <1>8 DEF GoesOnTo, StaysOn
<1>10. /\ v \in Walks(order) /\ v.seen = w.seen \cup {e.to} /\ v.met = w.met /\ v.cycles = w.cycles /\ v.root = w.root
  BY <1>5, <1>7 DEF IsPushed
<1>11. CyclesSound(v, E) /\ RootsSeen(v, order, E)
  BY <1>10 DEF WalkInv, CyclesSound, RootsSeen
<1>12. ASSUME w.cycles = {} PROVE Settled(v, order, E)
  <2>1. Settled(w, order, E)
    BY <1>12 DEF WalkInv
  <2>2. \A d \in E : d.from \in Black(u) => d.to \in Black(u)
    BY <1>9, <2>1 DEF Settled
  <2>3. \A S \in SUBSET Black(u) : ~Circular(S, E)
    BY <1>9, <2>1 DEF Settled
  <2>4. ASSUME NEW m \in 1..n, NEW j \in 1..u.path[m].at, order[j] \in E, order[j].from = u.path[m].class
        PROVE  LeadsOn(u, m, order[j].to) \/ (m = n /\ order[j].to = e.to)
    <3>1. CASE m = n /\ j = w.path[n].at + 1
      BY <1>2, <3>1
    <3>2. CASE ~(m = n /\ j = w.path[n].at + 1)
      <4>1. j \in 1..w.path[m].at /\ order[j].from = w.path[m].class
        <5>1. order[j].from = w.path[m].class
          BY <1>5, <2>4
        <5>2. CASE m = n
          <6>1. u.path[m].at = w.path[n].at + 1 /\ j # w.path[n].at + 1
            BY <1>5, <3>2, <5>2
          <6>2. j \in 1..w.path[n].at + 1
            BY <6>1
          <6> QED BY <1>2, <5>1, <5>2, <6>1, <6>2
        <5>3. CASE m # n
          <6>1. u.path[m].at = w.path[m].at
            BY <1>5, <5>3
          <6> QED BY <5>1, <6>1
        <5> QED BY <5>2, <5>3
      <4>2. LeadsOn(w, m, order[j].to)
        BY <2>1, <2>4, <4>1 DEF Settled
      <4>3. CASE order[j].to \in Black(w)
        <5>1. order[j].to \in Black(u)
          BY <1>9, <4>3
        <5> QED BY <5>1, Zenon DEF LeadsOn
      <4>4. CASE m < n /\ order[j].to = w.path[m + 1].class
        <5>1. m + 1 \in 1..n
          BY <1>2, <4>4
        <5> QED BY <1>5, <4>4, <5>1 DEF LeadsOn
      <4> QED BY <4>2, <4>3, <4>4 DEF LeadsOn
    <3> QED BY <3>1, <3>2
  <2> QED BY <1>5, <1>7, <1>9, <2>2, <2>3, <2>4, PushedSettled
<1> QED BY <1>9, <1>10, <1>11, <1>12 DEF WalkInv

LEMMA PassesEdgeSound ==
    ASSUME NEW order \in Seq(SubclassEdge), NEW E, NEW w, NEW v, WalkInv(w, order, E),
           PassesEdge(w, v, order, E)
    PROVE  WalkInv(v, order, E)
<1> DEFINE e == Tried(w, order)  n == Len(w.path)
<1>1. /\ w \in Walks(order) /\ w.path # <<>> /\ Last(w.path).at < Len(order) /\ Len(order) \in Nat /\ v = Advanced(w)
      /\ (e \in E /\ e.from = Last(w.path).class) => (e.to \in w.seen /\ ~OnPath(w.path, e.to))
  BY DEF WalkInv, PassesEdge
<1>2. /\ n \in Nat /\ n \in 1..n /\ w.path[n].at \in Nat /\ Last(w.path) = w.path[n]
      /\ e = order[w.path[n].at + 1] /\ e \in SubclassEdge
  BY <1>1, TriedIs
<1>3. IsAdvanced(v, w, order)
  BY <1>1, AdvancedIs
<1> HIDE DEF e
<1>4. StaysOn(v, w, E)
  BY <1>3, AdvancedSound DEF WalkInv
<1>5. /\ v \in Walks(order) /\ Len(v.path) = n /\ v.seen = w.seen /\ v.met = w.met /\ v.cycles = w.cycles /\ v.root = w.root
      /\ \A m \in 1..n : /\ v.path[m].class = w.path[m].class
                         /\ v.path[m].at = IF m = n THEN w.path[m].at + 1 ELSE w.path[m].at
  BY <1>3 DEF IsAdvanced
<1>6. PathSound(v, E) /\ Black(v) = Black(w)
  BY <1>4 DEF StaysOn
<1>7. CyclesSound(v, E) /\ RootsSeen(v, order, E)
  BY <1>5 DEF WalkInv, CyclesSound, RootsSeen
<1>8. ASSUME w.cycles = {} PROVE Settled(v, order, E)
  <2>1. Settled(w, order, E)
    BY <1>8 DEF WalkInv
  <2>2. ASSUME NEW m \in 1..n, NEW j \in 1..v.path[m].at, order[j] \in E, order[j].from = v.path[m].class
        PROVE  LeadsOn(v, m, order[j].to)
    <3>1. CASE m = n /\ j = w.path[n].at + 1
      <4>1. e \in E /\ e.from = Last(w.path).class /\ order[j] = e
        BY <1>2, <1>5, <2>2, <3>1
      <4>2. e.to \in w.seen /\ ~OnPath(w.path, e.to)
        BY <1>1, <4>1
      <4>3. e.to \in Black(w)
        BY <4>2 DEF Black, Grey, OnPath
      <4>4. order[j].to \in Black(v)
        BY <1>6, <4>1, <4>3
      <4> QED BY <4>4, Zenon DEF LeadsOn
    <3>2. CASE ~(m = n /\ j = w.path[n].at + 1)
      <4>1. j \in 1..w.path[m].at /\ order[j].from = w.path[m].class
        <5>1. order[j].from = w.path[m].class
          BY <1>5, <2>2
        <5>2. CASE m = n
          <6>1. v.path[m].at = w.path[n].at + 1 /\ j # w.path[n].at + 1
            BY <1>5, <3>2, <5>2
          <6>2. j \in 1..w.path[n].at + 1
            BY <6>1
          <6> QED BY <1>2, <5>1, <5>2, <6>1, <6>2
        <5>3. CASE m # n
          <6>1. v.path[m].at = w.path[m].at
            BY <1>5, <5>3
          <6> QED BY <5>1, <6>1
        <5> QED BY <5>2, <5>3
      <4>2. LeadsOn(w, m, order[j].to)
        BY <2>1, <2>2, <4>1 DEF Settled
      <4>3. CASE order[j].to \in Black(w)
        <5>1. order[j].to \in Black(v)
          BY <1>6, <4>3
        <5> QED BY <5>1, Zenon DEF LeadsOn
      <4>4. CASE m < n /\ order[j].to = w.path[m + 1].class
        <5>1. m + 1 \in 1..n
          BY <1>2, <4>4
        <5> QED BY <1>5, <4>4, <5>1 DEF LeadsOn
      <4> QED BY <4>2, <4>3, <4>4 DEF LeadsOn
    <3> QED BY <3>1, <3>2
  <2>3. /\ \A d \in E : d.from \in Black(v) => d.to \in Black(v)
        /\ \A S \in SUBSET Black(v) : ~Circular(S, E)
    BY <1>6, <2>1 DEF Settled
  <2> QED BY <1>5, <2>2, <2>3 DEF Settled
<1> QED BY <1>5, <1>6, <1>7, <1>8 DEF WalkInv
LEMMA ClosesSound ==
    ASSUME NEW order \in Seq(SubclassEdge), NEW E \in SUBSET SubclassEdge, NEW self, NEW w, NEW v,
           OnCycle(OwnEdges(E, self)) = {}, WalkInv(w, order, E), Closes(w, v, order, E, self)
    PROVE  WalkInv(v, order, E)
<1> DEFINE u == Advanced(w)  e == Tried(w, order)  n == Len(w.path)
<1>1. /\ w \in Walks(order) /\ w.path # <<>> /\ Last(w.path).at < Len(order) /\ Len(order) \in Nat
      /\ e \in E /\ e.from = Last(w.path).class /\ OnPath(w.path, e.to) /\ v = Closing(u, e, self)
  BY DEF WalkInv, Closes
<1>2. n \in Nat /\ n \in 1..n /\ Last(w.path) = w.path[n] /\ e \in SubclassEdge
  BY <1>1, TriedIs
<1>3. IsAdvanced(u, w, order)
  BY <1>1, AdvancedIs
<1> HIDE DEF u, e
<1>4. StaysOn(u, w, E)
  BY <1>3, AdvancedSound DEF WalkInv
<1>5. /\ u \in Walks(order) /\ Len(u.path) = n /\ u.seen = w.seen /\ u.met = w.met /\ u.cycles = w.cycles /\ u.root = w.root
      /\ \A m \in 1..n : u.path[m].class = w.path[m].class
  BY <1>3 DEF IsAdvanced
<1>6. OnPath(u.path, e.to)
  BY <1>1, <1>5 DEF OnPath
<1>7. IsClosing(v, u, e, self, order)
  BY <1>1, <1>5, <1>6, ClosingIs
<1>8. PICK from \in 1..Len(u.path), cycle \in Seq(ClassIds) :
        /\ v \in Walks(order) /\ v.seen = u.seen /\ v.path = u.path /\ v.root = u.root
        /\ v.met = u.met \cup {cycle}
        /\ v.cycles = IF cycle \notin u.met /\ RequiresImport(u.path, from, e.by, self) THEN u.cycles \cup {cycle} ELSE u.cycles
        /\ u.path[from].class = e.to
        /\ cycle # <<>> /\ ToSet(cycle) \subseteq {Loop(u, from)[m] : m \in 1..Len(u.path) - from + 1}
  BY <1>7 DEF IsClosing
<1> DEFINE k == n - from + 1
           c == Loop(u, from)
           along(m) == IF m = k THEN e ELSE PathEdge(u.path, from + m - 1)
<1>9. from \in 1..n /\ k \in Nat \ {0} /\ from + k - 1 = n
  <2>1. Len(u.path) = n /\ n \in Nat
    BY <1>2, <1>5
  <2>2. from \in 1..n
    BY <2>1
  <2> QED BY <2>1, <2>2
<1>10. \A m \in 1..k : c[m] = u.path[from + m - 1].class
  BY <1>5 DEF Loop
<1>11. ASSUME NEW m \in 1..k
       PROVE  along(m) \in E /\ along(m).from = c[m] /\ along(m).to = IF m = k THEN c[1] ELSE c[m + 1]
  <2>1. CASE m = k
    <3>0. 1 \in 1..k /\ from + m - 1 = n /\ from + 1 - 1 = from
      BY <1>9, <2>1
    <3> HIDE DEF c, k
    <3>1. c[m] = u.path[n].class /\ c[1] = u.path[from].class
      BY <1>10, <3>0
    <3> QED BY <1>1, <1>2, <1>5, <1>8, <2>1, <3>1
  <2>2. CASE m # k
    <3>1. from + m - 1 \in 1..n - 1 /\ m + 1 \in 1..k /\ from + m - 1 + 1 = from + (m + 1) - 1
      BY <1>9, <2>2
    <3>2. PathEdge(u.path, from + m - 1) \in E
      BY <1>4, <1>5, <3>1 DEF StaysOn, PathSound
    <3>3. /\ PathEdge(u.path, from + m - 1).from = u.path[from + m - 1].class
          /\ PathEdge(u.path, from + m - 1).to = u.path[from + m - 1 + 1].class
      BY DEF PathEdge
    <3>4. c[m] = u.path[from + m - 1].class /\ c[m + 1] = u.path[from + m - 1 + 1].class
      BY <1>10, <3>1
    <3> QED BY <2>2, <3>2, <3>3, <3>4
  <2> QED BY <2>1, <2>2
<1>12. \A m \in 1..k : c[m] \in OnCycle(E)
  <2>1. \A m \in 1..k : \E d \in E : d.from = c[m] /\ d.to = IF m = k THEN c[1] ELSE c[m + 1]
    BY <1>11
  <2> HIDE DEF c, k
  <2> QED BY <1>9, <2>1, RoundIsCycle
<1>13. RequiresImport(u.path, from, e.by, self)
  <2> SUFFICES ASSUME ~RequiresImport(u.path, from, e.by, self) PROVE FALSE
    OBVIOUS
  <2>1. e.by = self /\ \A m \in from + 1..n : u.path[m].by = self
    BY <1>5 DEF RequiresImport
  <2>2. ASSUME NEW m \in 1..k PROVE along(m).by = self
    <3>1. CASE m = k
      BY <2>1, <3>1
    <3>2. CASE m # k
      <4>1. from + m - 1 + 1 \in from + 1..n
        BY <1>9, <3>2
      <4>2. PathEdge(u.path, from + m - 1).by = u.path[from + m - 1 + 1].by
        BY DEF PathEdge
      <4> QED BY <2>1, <3>2, <4>1, <4>2
    <3> QED BY <3>1, <3>2
  <2> DEFINE own == OwnEdges(E, self)
  <2>3. own \in SUBSET SubclassEdge /\ \A m \in 1..k : along(m) \in own
    BY <1>11, <2>2 DEF OwnEdges
  <2>4. \A m \in 1..k : \E d \in own : d.from = c[m] /\ d.to = IF m = k THEN c[1] ELSE c[m + 1]
    BY <1>11, <2>3
  <2> HIDE DEF c, k, own
  <2>5. \A m \in 1..k : c[m] \in OnCycle(own)
    BY <1>9, <2>3, <2>4, RoundIsCycle
  <2>6. 1 \in 1..k
    BY <1>9
  <2> QED BY <2>5, <2>6 DEF own
<1>14. w.met = w.cycles /\ \A s \in w.cycles : s # <<>> /\ ToSet(s) \subseteq OnCycle(E)
  BY DEF WalkInv, CyclesSound
<1>15. v.met = v.cycles /\ v.cycles = w.cycles \cup {cycle}
  BY <1>5, <1>8, <1>13, <1>14
<1>16. ToSet(cycle) \subseteq OnCycle(E)
  <2>1. Len(u.path) - from + 1 = k
    BY <1>5
  <2> QED BY <1>8, <1>12, <2>1
<1>17. CyclesSound(v, E)
  BY <1>8, <1>14, <1>15, <1>16 DEF CyclesSound
<1>18. RootsSeen(v, order, E)
  BY <1>5, <1>8 DEF WalkInv, RootsSeen
<1>19. PathSound(v, E)
  BY <1>4, <1>8 DEF StaysOn, PathSound, Grey
<1> QED BY <1>8, <1>15, <1>17, <1>18, <1>19 DEF WalkInv

LEMMA TurnsBackSound ==
    ASSUME NEW order \in Seq(SubclassEdge), NEW E, Listed(order, E), NEW w, NEW v, WalkInv(w, order, E),
           TurnsBack(w, v, order)
    PROVE  WalkInv(v, order, E)
<1> DEFINE n == Len(w.path)  x == w.path[n].class
<1>1. w \in Walks(order) /\ w.path # <<>> /\ Last(w.path) = w.path[n] /\ w.path[n].at = Len(order) /\ Len(order) \in Nat
  BY DEF WalkInv, TurnsBack, Last
<1>2. IsPopped(v, w, order)
  BY <1>1, PoppedIs DEF TurnsBack
<1>3. /\ n \in Nat \ {0} /\ n \in 1..n /\ v \in Walks(order) /\ Len(v.path) = n - 1
      /\ v.seen = w.seen /\ v.met = w.met /\ v.cycles = w.cycles /\ v.root = w.root
      /\ \A m \in 1..n - 1 : v.path[m] = w.path[m] /\ m \in 1..n /\ m # n
  BY <1>2 DEF IsPopped
<1>4. /\ Grey(w) \subseteq w.seen /\ \A m \in 1..n - 1 : PathEdge(w.path, m) \in E
      /\ \A m, l \in 1..n : w.path[m].class = w.path[l].class => m = l
  BY DEF WalkInv, PathSound
<1>5. x \in Grey(w) /\ x \in w.seen
  BY <1>3, <1>4 DEF Grey
<1>6. \A g : g \in Grey(w) <=> (g \in Grey(v) \/ g = x)
  <2>1. ASSUME NEW g \in Grey(w) PROVE g \in Grey(v) \/ g = x
    <3>1. PICK m \in 1..n : g = w.path[m].class
      BY DEF Grey
    <3>2. m = n \/ m \in 1..n - 1
      BY <1>3
    <3> QED BY <1>3, <3>1, <3>2 DEF Grey
  <2>2. ASSUME NEW g \in Grey(v) PROVE g \in Grey(w)
    <3>1. PICK m \in 1..n - 1 : g = v.path[m].class
      BY <1>3, <2>2 DEF Grey
    <3>2. m \in 1..n /\ g = w.path[m].class
      BY <1>3, <3>1
    <3> QED BY <3>2 DEF Grey
  <2> QED BY <1>5, <2>1, <2>2
<1>7. x \notin Grey(v)
  <2> SUFFICES ASSUME NEW m \in 1..n - 1, x = v.path[m].class PROVE FALSE
    BY <1>3 DEF Grey
  <2>1. m \in 1..n /\ m # n /\ x = w.path[m].class
    BY <1>3
  <2> QED BY <1>3, <1>4, <2>1
<1>8. \A b : b \in Black(v) <=> (b \in Black(w) \/ b = x)
  BY <1>3, <1>5, <1>6, <1>7 DEF Black
<1>9. x \notin Black(w)
  BY <1>5 DEF Black
<1> HIDE DEF x
<1>10. PathSound(v, E)
  <2>1. Grey(v) \subseteq v.seen
    BY <1>3, <1>4, <1>6
  <2>2. ASSUME NEW m \in 1..Len(v.path) - 1 PROVE PathEdge(v.path, m) \in E
    <3>1. m \in 1..n - 1 /\ m + 1 \in 1..n - 1
      BY <1>3
    <3> QED BY <1>3, <1>4, <3>1 DEF PathEdge
  <2>3. \A m, l \in 1..Len(v.path) : v.path[m].class = v.path[l].class => m = l
    <3> TAKE m, l \in 1..Len(v.path)
    <3>1. m \in 1..n /\ l \in 1..n /\ v.path[m] = w.path[m] /\ v.path[l] = w.path[l]
      BY <1>3
    <3> QED BY <1>4, <3>1
  <2> QED BY <2>1, <2>2, <2>3 DEF PathSound
<1>11. CyclesSound(v, E) /\ RootsSeen(v, order, E)
  BY <1>3 DEF WalkInv, CyclesSound, RootsSeen
<1>12. ASSUME w.cycles = {} PROVE Settled(v, order, E)
  <2>1. Settled(w, order, E)
    BY <1>12 DEF WalkInv
  <2>2. ASSUME NEW e \in E, e.from = x PROVE e.to \in Black(w)
    <3>1. PICK j \in 1..Len(order) : order[j] = e
      BY DEF Listed
    <3>2. LeadsOn(w, n, e.to)
      BY <1>1, <1>3, <2>1, <2>2, <3>1 DEF Settled, x
    <3> QED BY <1>3, <3>2 DEF LeadsOn
  <2>3. \A e \in E : e.from \in Black(w) => e.to \in Black(w)
    BY <2>1 DEF Settled
  <2>4. ASSUME NEW e \in E, e.from \in Black(v) PROVE e.to \in Black(v)
    BY <1>8, <2>2, <2>3, <2>4
  <2>5. ASSUME NEW S \in SUBSET Black(v), Circular(S, E) PROVE FALSE
    <3> DEFINE T == S \ {x}
    <3>1. S # {} /\ \A s \in S : \E e \in E : e.from = s /\ e.to \in S
      BY <2>5 DEF Circular
    <3>2. ASSUME NEW s \in S PROVE \E e \in E : e.from = s /\ e.to \in T
      <4>1. PICK e \in E : e.from = s /\ e.to \in S
        BY <3>1
      <4>2. e.to \in Black(w)
        BY <1>8, <2>2, <2>3, <4>1
      <4> QED BY <1>9, <4>1, <4>2
    <3>3. T \in SUBSET Black(w)
      BY <1>8
    <3> HIDE DEF T
    <3>4. T # {}
      BY <3>1, <3>2
    <3>5. Circular(T, E)
      BY <3>2, <3>4 DEF Circular, T
    <3> QED BY <2>1, <3>3, <3>5 DEF Settled
  <2>6. ASSUME NEW m \in 1..n - 1, NEW j \in 1..v.path[m].at, order[j] \in E, order[j].from = v.path[m].class
        PROVE  LeadsOn(v, m, order[j].to)
    <3>1. LeadsOn(w, m, order[j].to)
      BY <1>3, <2>1, <2>6 DEF Settled
    <3>2. CASE order[j].to \in Black(w)
      <4>1. order[j].to \in Black(v)
        BY <1>8, <3>2
      <4> QED BY <4>1, Zenon DEF LeadsOn
    <3>3. CASE m < n /\ order[j].to = w.path[m + 1].class
      <4>1. CASE m + 1 = n
        <5>1. order[j].to \in Black(v)
          BY <1>8, <3>3, <4>1 DEF x
        <5> QED BY <5>1, Zenon DEF LeadsOn
      <4>2. CASE m + 1 # n
        <5>0. n \in Nat \ {0}
          BY <1>3
        <5> HIDE DEF n
        <5>1. m + 1 \in 1..n - 1 /\ m < n - 1
          BY <4>2, <5>0
        <5> QED BY <1>3, <3>3, <5>1 DEF LeadsOn
      <4> QED BY <4>1, <4>2
    <3> QED BY <3>1, <3>2, <3>3 DEF LeadsOn
  <2> QED BY <1>3, <2>4, <2>5, <2>6 DEF Settled
<1> QED BY <1>3, <1>10, <1>11, <1>12 DEF WalkInv
\* So it is true all along the walk.
OwnSound(E, self) == OnCycle(OwnEdges(E, self)) = {}

LEMMA OnwardSound ==
    ASSUME NEW order \in Seq(SubclassEdge), NEW E \in SUBSET SubclassEdge, Listed(order, E), NEW self \in Members,
           OwnSound(E, self), NEW w, WalkInv(w, order, E), ~Explored(w, order)
    PROVE  WalkInv(Onward(w, order, E, self), order, E)
<1> DEFINE v == Onward(w, order, E, self)
<1>1. w \in Walks(order) /\ Len(order) \in Nat
  BY DEF WalkInv
<1>2. v \in Walks(order)
  BY <1>1, OnwardGoesOn
<1>3. \/ PassesRoot(w, v, order, E) \/ TakesRoot(w, v, order, E, self)
      \/ Descends(w, v, order, E) \/ Closes(w, v, order, E, self) \/ PassesEdge(w, v, order, E)
      \/ TurnsBack(w, v, order)
  BY <1>1, OnwardIs
<1> HIDE DEF v
<1>4. WalkInv(v, order, E)
  <2>1. CASE PassesRoot(w, v, order, E)
    BY <1>2, <2>1, PassesRootSound
  <2>2. CASE TakesRoot(w, v, order, E, self)
    BY <1>2, <2>2, TakesRootSound
  <2>3. CASE Descends(w, v, order, E)
    BY <2>3, DescendsSound
  <2>4. CASE Closes(w, v, order, E, self)
    BY <2>4, ClosesSound DEF OwnSound
  <2>5. CASE PassesEdge(w, v, order, E)
    BY <2>5, PassesEdgeSound
  <2>6. CASE TurnsBack(w, v, order)
    BY <2>6, TurnsBackSound
  <2> QED BY <1>3, <2>1, <2>2, <2>3, <2>4, <2>5, <2>6
<1> QED BY <1>4 DEF v

LEMMA NoWalkSound ==
    ASSUME NEW order \in Seq(SubclassEdge), NEW E
    PROVE  WalkInv(NoWalk, order, E)
<1>1. /\ NoWalk.seen = {} /\ NoWalk.met = {} /\ NoWalk.cycles = {} /\ NoWalk.path = <<>> /\ NoWalk.root = 0
  BY DEF NoWalk
<1>2. NoWalk \in Walks(order)
  <2>1. Len(order) \in Nat
    OBVIOUS
  <2> QED BY <2>1 DEF NoWalk, Walks
<1>3. Grey(NoWalk) = {} /\ Black(NoWalk) = {}
  BY <1>1 DEF Grey, Black
<1>4. PathSound(NoWalk, E) /\ CyclesSound(NoWalk, E) /\ RootsSeen(NoWalk, order, E)
  BY <1>1, <1>3 DEF PathSound, CyclesSound, RootsSeen
<1>5. Settled(NoWalk, order, E)
  BY <1>1, <1>3 DEF Settled, Circular
<1> QED BY <1>2, <1>4, <1>5 DEF WalkInv

\* The cycles reported are those of the last step of a run.
LEMMA ReportedAtTheEnd ==
    ASSUME NEW order \in Seq(SubclassEdge), NEW E \in SUBSET SubclassEdge, Listed(order, E), NEW self \in Members,
           OwnSound(E, self)
    PROVE  \E w : WalkInv(w, order, E) /\ Explored(w, order) /\ CycleConflicts(order, E, self) = w.cycles
<1> DEFINE f == CHOOSE g : Wanders(g, order, E, self)
<1>1. Wanders(f, order, E, self)
  BY WalkDefined
<1>2. CycleConflicts(order, E, self) = f[NoWalk].cycles
  BY DEF CycleConflicts, Wanders
<1> HIDE DEF f
<1>3. NoWalk \in Walks(order)
  BY NoWalkSound DEF WalkInv
<1>4. PICK k, r : Run(r, k, NoWalk, order, E, self)
  BY <1>3, RunExists
<1>5. k \in Nat /\ r \in [0..k -> Walks(order)] /\ r[0] = NoWalk /\ Explored(r[k], order)
  BY <1>4 DEF Run
<1> DEFINE Bad == {n \in 0..k : ~(WalkInv(r[n], order, E) /\ f[r[n]] = f[NoWalk])}
<1>6. Bad = {}
  <2> SUFFICES ASSUME Bad # {} PROVE FALSE
    OBVIOUS
  <2>1. PICK n \in Bad : \A m \in Bad : n <= m
    BY <1>5, Smallest, Bad \in SUBSET Nat
  <2>2. n # 0
    BY <1>5, NoWalkSound
  <2>3. n - 1 \in 0..k - 1 /\ n - 1 \in 0..k /\ n - 1 \notin Bad /\ n - 1 + 1 = n
    BY <1>5, <2>1, <2>2
  <2>4. ~Explored(r[n - 1], order) /\ r[n - 1 + 1] = Onward(r[n - 1], order, E, self)
    BY <1>4, <2>3 DEF Run
  <2>5. WalkInv(r[n - 1], order, E) /\ f[r[n - 1]] = f[NoWalk] /\ r[n - 1] \in Walks(order)
    BY <1>5, <2>3
  <2>6. WalkInv(r[n], order, E)
    BY <2>3, <2>4, <2>5, OnwardSound
  <2>7. f[r[n - 1]] = f[r[n]]
    <3>1. f[r[n - 1]] = IF Explored(r[n - 1], order) THEN r[n - 1] ELSE f[Onward(r[n - 1], order, E, self)]
      BY <1>1, <2>5 DEF Wanders
    <3> QED BY <2>3, <2>4, <3>1
  <2> QED BY <2>1, <2>5, <2>6, <2>7
<1>7. WalkInv(r[k], order, E) /\ f[r[k]] = f[NoWalk] /\ r[k] \in Walks(order)
  BY <1>5, <1>6
<1>8. f[r[k]] = r[k]
  BY <1>1, <1>5, <1>7 DEF Wanders
<1> QED BY <1>2, <1>5, <1>7, <1>8

\* A cycle is reported exactly when there is one, and what is reported are
\* classes on a cycle.
LEMMA ConflictsAreCycles ==
    ASSUME NEW order \in Seq(SubclassEdge), NEW E \in SUBSET SubclassEdge, Listed(order, E), NEW self \in Members,
           OwnSound(E, self)
    PROVE  /\ CycleConflicts(order, E, self) = {} <=> OnCycle(E) = {}
           /\ \A c \in CycleConflicts(order, E, self) : ToSet(c) \subseteq OnCycle(E)
<1>1. PICK w : WalkInv(w, order, E) /\ Explored(w, order) /\ CycleConflicts(order, E, self) = w.cycles
  BY ReportedAtTheEnd
<1>2. w \in Walks(order) /\ w.path = <<>> /\ w.root = Len(order) /\ w.cycles \in SUBSET Seq(ClassIds)
  BY <1>1, WalksIs DEF WalkInv, Explored
<1>3. \A c \in w.cycles : c # <<>> /\ ToSet(c) \subseteq OnCycle(E)
  BY <1>1 DEF WalkInv, CyclesSound
<1>4. ASSUME NEW c \in w.cycles PROVE OnCycle(E) # {}
  <2>1. c \in Seq(ClassIds) /\ c # <<>> /\ ToSet(c) \subseteq OnCycle(E)
    BY <1>2, <1>3
  <2>2. 1 \in DOMAIN c
    BY <2>1
  <2> QED BY <2>1, <2>2 DEF ToSet
<1>5. ASSUME w.cycles = {}, OnCycle(E) # {} PROVE FALSE
  <2>1. Settled(w, order, E)
    BY <1>1, <1>5 DEF WalkInv
  <2>2. Grey(w) = {} /\ Black(w) = w.seen
    BY <1>2 DEF Grey, Black
  <2>3. \A e \in E : e.from \in w.seen
    <3> TAKE e \in E
    <3>1. PICK j \in 1..Len(order) : order[j] = e
      BY DEF Listed
    <3> QED BY <1>1, <1>2, <3>1 DEF WalkInv, RootsSeen
  <2>4. PICK S \in SUBSET ClassIds : Circular(S, E)
    BY <1>5, CycleIsCircular
  <2>5. S \subseteq Black(w)
    BY <2>2, <2>3, <2>4 DEF Circular
  <2> QED BY <2>1, <2>4, <2>5 DEF Settled
<1> QED BY <1>1, <1>3, <1>4, <1>5
\* What a client holds is typed, and its cycles are those of its E.
SourcesTyped ==
    /\ subclass \in [Members -> SUBSET (ClassIds \X ClassIds)]
    /\ \A e \in imports : e.to \in Members
CyclesHeld ==
    client # NoView =>
        /\ client.edges \in SUBSET SubclassEdge
        /\ \E order \in EdgeOrders : client.conflicts.cycle = CycleConflicts(order, client.edges, Viewed)
EffectiveInv == SourcesTyped /\ CyclesHeld

LEMMA SourcesAreMembers ==
    ASSUME SourcesTyped, NEW lucky
    PROVE  SourceKeys(SourceClosure(Viewed, lucky)) \subseteq Members
<1>0. MaxHops \in Nat /\ Viewed \in Members
  BY EffectiveAssumption
<1>1. PICK seen : /\ Spreads(seen, Viewed, imports, MaxHops) /\ Layers(Viewed, imports, MaxHops)[0] = {Viewed}
                  /\ \A n \in 1 .. MaxHops : Layers(Viewed, imports, MaxHops)[n] = seen[n] \ seen[n - 1]
  BY <1>0, LayersOfSeen
<1>2. ASSUME NEW n \in 1 .. MaxHops, NEW v \in Layers(Viewed, imports, MaxHops)[n] PROVE v \in Members
  <2>1. v \in seen[n] /\ v \notin seen[n - 1]
    BY <1>1, <1>2
  <2>2. \E e \in imports : e.to = v
    BY <1>1, <2>1 DEF Spreads
  <2> QED BY <2>2 DEF SourcesTyped
<1>3. ASSUME NEW s \in SourceClosure(Viewed, lucky) PROVE s[1] \in Members
  <2>1. CASE s = <<Viewed, 0>>
    BY <1>0, <2>1
  <2>2. CASE s \in ReportedAt(Viewed, imports, MaxHops, lucky)
    <3>1. PICK n \in 1 .. MaxHops : \E v \in Layers(Viewed, imports, MaxHops)[n] : s = <<v, n>>
      BY <2>2 DEF ReportedAt
    <3> QED BY <1>2, <3>1
  <2> QED BY <1>3, <2>1, <2>2 DEF SourceClosure
<1> QED BY <1>3 DEF SourceKeys

LEMMA AnswerHeld ==
    ASSUME SourcesTyped, NEW order \in EdgeOrders, NEW lucky
    PROVE  LET answer == Effective(Viewed, order, lucky) IN
           /\ answer.edges \in SUBSET SubclassEdge
           /\ answer.conflicts.cycle = CycleConflicts(order, answer.edges, Viewed)
<1> DEFINE sources == SourceClosure(Viewed, lucky)  answer == Effective(Viewed, order, lucky)
<1>1. SourceKeys(sources) \subseteq Members
  BY SourcesAreMembers
<1>2. answer.edges = Merged(sources) /\ answer.conflicts.cycle = CycleConflicts(order, Merged(sources), Viewed)
  BY DEF Effective
<1> HIDE DEF sources
<1>3. ASSUME NEW o \in SourceKeys(sources), NEW p \in subclass[o]
      PROVE  [from |-> p[1], to |-> p[2], by |-> o] \in SubclassEdge
  <2>1. o \in Members /\ p \in ClassIds \X ClassIds
    BY <1>1 DEF SourcesTyped
  <2> QED BY <2>1 DEF SubclassEdge
<1>4. Merged(sources) \in SUBSET SubclassEdge
  BY <1>3 DEF Merged
<1> QED BY <1>2, <1>4

LEMMA EffectiveStarts == EffectiveInit => EffectiveInv
<1> SUFFICES ASSUME EffectiveInit PROVE EffectiveInv
  OBVIOUS
<1>1. SourcesTyped
  BY DEF EffectiveInit, SourcesTyped
<1>2. client = NoView
  BY DEF EffectiveInit
<1> QED BY <1>1, <1>2 DEF EffectiveInv, CyclesHeld

LEMMA EffectiveStays == EffectiveInv /\ [EffectiveNext]_effective => EffectiveInv'
<1> SUFFICES ASSUME EffectiveInv, [EffectiveNext]_effective PROVE EffectiveInv'
  OBVIOUS
<1>0. SourcesTyped /\ CyclesHeld
  BY DEF EffectiveInv
<1>1. ASSUME UNCHANGED client, SourcesTyped' PROVE EffectiveInv'
  BY <1>0, <1>1 DEF EffectiveInv, CyclesHeld
<1>2. ASSUME UNCHANGED <<subclass, imports>> PROVE SourcesTyped'
  BY <1>0, <1>2 DEF SourcesTyped
<1>3. ASSUME NEW o \in Members, NEW e \in ClassIds \X ClassIds, EditClasses(o, e) PROVE EffectiveInv'
  <2>1. /\ subclass' = [subclass EXCEPT ![o] = IF e \in @ THEN @ \ {e} ELSE @ \cup {e}]
        /\ imports' = imports /\ client' = client
    BY <1>3 DEF EditClasses
  <2>2. SourcesTyped'
    BY <1>0, <2>1 DEF SourcesTyped
  <2> QED BY <1>1, <2>1, <2>2
<1>4. ASSUME NEW o \in Members, NEW t \in Members, Import(o, t) PROVE EffectiveInv'
  <2>1. /\ imports' = imports \cup {[from |-> o, to |-> t, live |-> TRUE, by |-> writes]}
        /\ subclass' = subclass /\ client' = client
    BY <1>4 DEF Import
  <2>2. SourcesTyped'
    BY <1>0, <2>1 DEF SourcesTyped
  <2> QED BY <1>1, <2>1, <2>2
<1>5. ASSUME NEW o \in Members, NEW t \in Members, Unimport(o, t) PROVE EffectiveInv'
  <2>1. /\ imports' = {IF e.from = o /\ e.to = t THEN [e EXCEPT !.live = FALSE] ELSE e : e \in imports}
        /\ subclass' = subclass /\ client' = client
    BY <1>5 DEF Unimport
  <2>2. \A d \in imports' : \E e \in imports : d.to = e.to
    <3> TAKE d \in imports'
    <3>1. PICK e \in imports : d = IF e.from = o /\ e.to = t THEN [e EXCEPT !.live = FALSE] ELSE e
      BY <2>1
    <3>2. [e EXCEPT !.live = FALSE].to = e.to
      OBVIOUS
    <3> QED BY <3>1, <3>2
  <2>3. SourcesTyped'
    BY <1>0, <2>1, <2>2 DEF SourcesTyped
  <2> QED BY <1>1, <2>1, <2>3
<1>6. CASE GetEffective
  <2>1. PICK order \in EdgeOrders, lucky \in BOOLEAN :
            client' = client \/ client' = Effective(Viewed, order, lucky)
    BY <1>6 DEF GetEffective
  <2>2. SourcesTyped'
    BY <1>2, <1>6 DEF GetEffective
  <2>3. CASE client' = client
    BY <1>1, <2>2, <2>3
  <2>4. CASE client' = Effective(Viewed, order, lucky)
    <3>1. client'.edges \in SUBSET SubclassEdge /\ client'.conflicts.cycle = CycleConflicts(order, client'.edges, Viewed)
      BY <1>0, <2>4, AnswerHeld
    <3> QED BY <2>2, <3>1 DEF EffectiveInv, CyclesHeld
  <2> QED BY <2>1, <2>3, <2>4
<1>7. ASSUME UNCHANGED <<subclass, imports, client>> PROVE EffectiveInv'
  BY <1>1, <1>2, <1>7
<1>8. CASE UNCHANGED effective
  BY <1>7, <1>8 DEF effective
<1>9. ASSUME NEW c \in ClassIds, NEW d \in ClassIds, DecideLabel(ClassUri[c], ClassLabel[d]) PROVE EffectiveInv'
  BY <1>7, <1>9 DEF DecideLabel
<1>10. ASSUME NEW o \in Members, TouchEntry(o) PROVE EffectiveInv'
  BY <1>7, <1>10 DEF TouchEntry
<1>11. CASE BuildImportsDag
  BY <1>7, <1>11 DEF BuildImportsDag
<1> QED BY <1>3, <1>4, <1>5, <1>6, <1>8, <1>9, <1>10, <1>11 DEF EffectiveNext

(* Whatever the classes, the ontologies and the order the E come in, a  *)
(* client whose sources are sound by themselves is told of a cycle exactly  *)
(* when the merge makes one, and every class it is told of is on a cycle    *)
(* (ontology_effective.py:850).                                             *)
THEOREM MergeTellsCycles == EffectiveSpec => []MergeCyclesReported
<1>1. EffectiveInv => MergeCyclesReported
  <2> SUFFICES ASSUME CyclesHeld, client # NoView,
                      \A o \in Members : OnCycle({e \in client.edges : e.by = o}) = {}
               PROVE  /\ (client.conflicts.cycle = {}) = (OnCycle(client.edges) = {})
                      /\ \A c \in client.conflicts.cycle : ToSet(c) \subseteq OnCycle(client.edges)
    BY DEF EffectiveInv, MergeCyclesReported
  <2> DEFINE E == client.edges
  <2>1. E \in SUBSET SubclassEdge
    BY DEF CyclesHeld
  <2>2. PICK order \in EdgeOrders : client.conflicts.cycle = CycleConflicts(order, E, Viewed)
    BY DEF CyclesHeld
  <2>3. order \in Seq(SubclassEdge) /\ \A e \in SubclassEdge : \E n \in 1 .. Len(order) : order[n] = e
    BY EffectiveAssumption DEF SubclassEdge, ClassIds
  <2>4. Listed(order, E)
    BY <2>1, <2>3 DEF Listed
  <2>5. Viewed \in Members
    BY EffectiveAssumption
  <2>6. OwnSound(E, Viewed)
    BY <2>5 DEF OwnSound, OwnEdges
  <2> HIDE DEF E
  <2>7. /\ CycleConflicts(order, E, Viewed) = {} <=> OnCycle(E) = {}
        /\ \A c \in CycleConflicts(order, E, Viewed) : ToSet(c) \subseteq OnCycle(E)
    BY <2>1, <2>3, <2>4, <2>5, <2>6, ConflictsAreCycles
  <2>8. (client.conflicts.cycle = {}) = (OnCycle(E) = {})
    BY <2>2, <2>7
  <2> QED BY <2>2, <2>7, <2>8 DEF E
<1> QED BY <1>1, EffectiveStarts, EffectiveStays, PTL DEF EffectiveSpec
=============================================================================
