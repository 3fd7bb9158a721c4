---------------------------- MODULE ClassHierarchy ----------------------------
(***************************************************************************)
(* The edits of the subclass_of hierarchy: moving a class under another    *)
(* parent, moving a selection, undoing that, creating a class under a      *)
(* parent, deleting one.  Source: backend/app/api/ontology/mutations.py.   *)
(*                                                                         *)
(* A move reads, checks for a cycle, expires the old parent edges one by   *)
(* one and inserts the new edge, each in a database call of its own.  An   *)
(* expiry that fails is logged and the move goes on.                       *)
(***************************************************************************)
EXTENDS Naturals, Sequences, FiniteSets

CONSTANTS
    Threads,       \* request handlers that may run at the same time
    Keys,          \* keys of class documents
    Unborn,        \* the keys of Keys that no class has initially
    None,          \* no parent
    SelectTwice,   \* a client may list a class twice in one bulk move
    ManualEdges,   \* POST /edges may add subclass_of edges
    MaxOps,        \* bound: operations begun
    MaxMishaps     \* bound: operations cut short by an exception or a crash, and
                   \* steps in which expire_entity swallows the failure of a write

ASSUME KeysAssumption == None \notin Keys /\ Unborn \subseteq Keys
ASSUME ChoiceAssumption == SelectTwice \in BOOLEAN /\ ManualEdges \in BOOLEAN
ASSUME BoundsAssumption == MaxOps \in Nat /\ MaxMishaps \in Nat

VARIABLES
    live,      \* classes with a current document
    links,     \* current subclass_of edges
    past,      \* <<child, parent>> of the expired ones
    made,      \* edges inserted so far
    stuck,     \* history: edges whose expiry has failed unnoticed
    receipts,  \* undo payloads the clients hold
    op,        \* op[t]: the operation thread t is in the middle of
    ops, aborts, faults

hierarchy == <<live, links, past, made, stuck, faults>>
vars == <<live, links, past, made, stuck, receipts, op, ops, aborts, faults>>

\* manual: inserted by POST /edges.
Link == [id : Nat, child : Keys, parent : Keys, manual : BOOLEAN]
Move == [child : Keys, parent : Keys \cup {None}]
Pair(e) == <<e.child, e.parent>>
Parents == {Pair(e) : e \in links}

Op == [pc : {"idle", "check", "query", "expire", "attach"},
       kind : {"none", "single", "bulk", "undo", "create"},
       batch : Seq(Move),             \* moves still to make, the first under way
       todo : SUBSET Link,            \* edges out of the class, to be expired
       prev : Seq(Keys),              \* parents expired so far
       undo : Seq(Move),              \* what to put back for the moves made
       before : SUBSET (Keys \X Keys),\* history: the hierarchy a bulk move began with
       exact : BOOLEAN,               \* history: an undo straight after its bulk move
       refused : BOOLEAN,             \* history: some move of the batch was refused
       lost : BOOLEAN]                \* history: an expiry failed unnoticed, here or in
                                      \* the bulk move that is undone

IdleOp == [pc |-> "idle", kind |-> "none", batch |-> <<>>, todo |-> {}, prev |-> <<>>,
           undo |-> <<>>, before |-> {}, exact |-> FALSE, refused |-> FALSE,
           lost |-> FALSE]

Begin(t, o) ==
    /\ op[t].pc = "idle"
    /\ ops < MaxOps
    /\ ops' = ops + 1
    /\ op' = [op EXCEPT ![t] = o]

Item(t) == Head(op[t].batch)
Class(t) == Item(t).child
NewParent(t) == Item(t).parent

\* expire_entity, for all of doomed: a write that fails is logged and swallowed,
\* and what it should have expired is kept.  No caller looks at the result.
Expire(doomed, kept) ==
    /\ kept \subseteq doomed
    /\ links' = links \ (doomed \ kept)
    /\ past' = past \cup {Pair(e) : e \in doomed \ kept}
    /\ stuck' = stuck \cup kept

\* The bound on failures counts the steps that have one.
Fails(failed) ==
    /\ failed => aborts + faults < MaxMishaps
    /\ faults' = IF failed THEN faults + 1 ELSE faults

\* x reaches y along the edges of rel: y is in every set closed under rel with x.
Reaches(rel, x, y) ==
    \A S \in SUBSET Keys :
        x \in S /\ (\A q \in rel : q[1] \in S => q[2] \in S) => y \in S

\* The hierarchy has an order in which every parent comes above its children.
AcyclicRelation(rel) == \A q \in rel : ~Reaches(rel, q[2], q[1])

\* Mutant: the guard looks at the parents of the new parent only.
GuardRejectsDirect(parent, child) == \E e \in links : e.parent = child /\ e.child = parent

\* The cycle guard.  Its traversal follows subclass_of edges of any age and
\* filters on the last edge of the path only.
GuardRejects(parent, child) ==
    \E e \in links : e.parent = child /\ Reaches(past \cup Parents, parent, e.child)

-----------------------------------------------------------------------------
Forests ==
    LET Born == Keys \ Unborn IN
    {f \in [Born -> Born \cup {None}] :
        AcyclicRelation({<<c, f[c]>> : c \in {b \in Born : f[b] # None}})}

Init ==
    /\ live = Keys \ Unborn
    /\ \E f \in Forests :
          links = {[id |-> 0, child |-> c, parent |-> f[c], manual |-> FALSE] :
                      c \in {b \in live : f[b] # None}}
    /\ past = {}
    /\ made = 0
    /\ receipts = {}
    /\ op = [t \in Threads |-> IdleOp]
    /\ stuck = {}
    /\ ops = 0 /\ aborts = 0 /\ faults = 0

-----------------------------------------------------------------------------
(* The three ways into _reparent_impl.  A bulk move drops the parent itself *)
(* from the selection; it may create the parent first.                      *)

MovesUnder(classes, parent) ==
    LET Under(c) == [child |-> c, parent |-> parent] IN
    [i \in 1 .. Len(classes) |-> Under(classes[i])]

BeginReparent(t) ==
    \E c \in Keys, p \in Keys \cup {None} :
        /\ Begin(t, [IdleOp EXCEPT !.pc = "check", !.kind = "single",
                                   !.batch = MovesUnder(<<c>>, p)])
        /\ UNCHANGED <<hierarchy, receipts, aborts>>

Selections(p) ==
    {<<c, d>> : c \in Keys \ {p}, d \in Keys \ {p}} \ (IF SelectTwice THEN {}
                                                       ELSE {<<c, c>> : c \in Keys})

BeginBulk(t) ==
    \E p \in Keys, created \in BOOLEAN :
        /\ created => p \in Unborn \ live
        /\ live' = IF created THEN live \cup {p} ELSE live
        /\ \E classes \in Selections(p) :
              Begin(t, [IdleOp EXCEPT !.pc = "check", !.kind = "bulk",
                                      !.batch = MovesUnder(classes, p),
                                      !.before = Parents])
        /\ UNCHANGED <<links, past, made, stuck, receipts, aborts, faults>>

BeginUndo(t) ==
    \E r \in receipts :
        /\ Begin(t, [IdleOp EXCEPT !.pc = "check", !.kind = "undo",
                                   !.batch = r.undo, !.before = r.before,
                                   !.exact = (r.ops = ops), !.lost = r.lost])
        /\ UNCHANGED <<hierarchy, receipts, aborts>>

-----------------------------------------------------------------------------
(* _reparent_impl, for the first move of the batch.                         *)

\* Classes, once deleted, do not come back, so the two reads are one step.
Movable(t) ==
    /\ Class(t) \in live
    /\ NewParent(t) # None => /\ NewParent(t) # Class(t)
                              /\ NewParent(t) \in live
                              /\ ~GuardRejects(NewParent(t), Class(t))

AcceptMove(t) ==
    /\ op[t].pc = "check" /\ op[t].batch # <<>>
    /\ Movable(t)
    /\ op' = [op EXCEPT ![t].pc = "query"]
    /\ UNCHANGED <<hierarchy, receipts, ops, aborts>>

\* A single move answers 404 or 400; a batch reports the class and goes on.
RejectMove(t) ==
    /\ op[t].pc = "check" /\ op[t].batch # <<>>
    /\ ~Movable(t)
    /\ op' = [op EXCEPT ![t].batch = Tail(@), ![t].refused = TRUE]
    /\ UNCHANGED <<hierarchy, receipts, ops, aborts>>

\* Mutant: only the edge to the parent that is asked for is looked up, as
\* posting a bare subclass_of edge did.
QueryParentsExact(t) ==
    /\ op[t].pc = "query"
    /\ op' = [op EXCEPT ![t].pc = "expire",
                        ![t].todo = {e \in links : Pair(e) = <<Class(t), NewParent(t)>>}]
    /\ UNCHANGED <<hierarchy, receipts, ops, aborts>>

QueryParents(t) ==
    /\ op[t].pc = "query"
    /\ op' = [op EXCEPT ![t].pc = "expire", ![t].todo = {e \in links : e.child = Class(t)}]
    /\ UNCHANGED <<hierarchy, receipts, ops, aborts>>

\* The parent is recorded whether or not the edge is still current, and whether
\* or not it has been expired.
ExpireParent(t) ==
    /\ op[t].pc = "expire"
    /\ \E e \in op[t].todo :
       \E kept \in SUBSET {e} :
          /\ Expire({e}, kept) /\ Fails(kept # {})
          /\ op' = [op EXCEPT ![t].todo = @ \ {e}, ![t].prev = Append(@, e.parent),
                              ![t].lost = @ \/ kept # {}]
    /\ UNCHANGED <<live, made, receipts, ops, aborts>>

Attach(child, parent) ==
    /\ links' = links \cup {[id |-> made + 1, child |-> child, parent |-> parent,
                              manual |-> FALSE]}
    /\ made' = made + 1

\* Mutant: the batch remembers the new parent instead of the previous one.
UndoEntryNew(t) == [child |-> Class(t), parent |-> NewParent(t)]

\* Only the first of the expired parents goes into the undo payload.
UndoEntry(t) ==
    [child |-> Class(t), parent |-> IF op[t].prev = <<>> THEN None ELSE Head(op[t].prev)]

\* Mutant: an edge is inserted even when the class is to become a root.
AttachParentAlways(t) ==
    /\ op[t].pc = "expire" /\ op[t].todo = {}
    /\ Attach(Class(t), NewParent(t))
    /\ op' = [op EXCEPT ![t].pc = "check", ![t].batch = Tail(@), ![t].prev = <<>>,
                        ![t].undo = Append(@, UndoEntry(t))]
    /\ UNCHANGED <<live, past, stuck, receipts, ops, aborts, faults>>

AttachParent(t) ==
    /\ op[t].pc = "expire" /\ op[t].todo = {}
    /\ IF NewParent(t) = None THEN UNCHANGED <<links, made>>
       ELSE Attach(Class(t), NewParent(t))
    /\ op' = [op EXCEPT ![t].pc = "check", ![t].batch = Tail(@), ![t].prev = <<>>,
                        ![t].undo = Append(@, UndoEntry(t))]
    /\ UNCHANGED <<live, past, stuck, receipts, ops, aborts, faults>>

FinishBatch(t) ==
    /\ op[t].pc = "check" /\ op[t].batch = <<>>
    /\ receipts' = IF op[t].kind = "bulk" /\ op[t].undo # <<>>
                   THEN receipts \cup {[undo |-> op[t].undo, before |-> op[t].before,
                                        lost |-> op[t].lost, ops |-> ops]}
                   ELSE receipts
    /\ op' = [op EXCEPT ![t] = IdleOp]
    /\ UNCHANGED <<hierarchy, ops, aborts>>

-----------------------------------------------------------------------------
(* create_class with a parent: the class exists from the first write on; a  *)
(* parent that is missing is noticed only then.                             *)

BeginCreateUnder(t) ==
    \E c \in Unborn \ live, p \in Keys :
        /\ c # p
        /\ Begin(t, [IdleOp EXCEPT !.pc = "attach", !.kind = "create",
                                   !.batch = MovesUnder(<<c>>, p)])
        /\ live' = live \cup {c}
        /\ UNCHANGED <<links, past, made, stuck, receipts, aborts, faults>>

AttachNew(t) ==
    /\ op[t].pc = "attach"
    /\ IF NewParent(t) \in live THEN Attach(Class(t), NewParent(t))
       ELSE UNCHANGED <<links, made>>
    /\ op' = [op EXCEPT ![t] = IdleOp]
    /\ UNCHANGED <<live, past, stuck, receipts, ops, aborts, faults>>

\* delete_class_endpoint, in one step here: TemporalStore has its steps.  The
\* expiry of the class may fail and those of its edges succeed, or the reverse.
\* A class created in the run is not deleted, for its key would be free again.
DeleteClass(t) ==
    /\ op[t].pc = "idle" /\ ops < MaxOps /\ ops' = ops + 1
    /\ \E c \in live \ Unborn :
          LET touching == {e \in links : c \in {e.child, e.parent}} IN
          \E survivors \in SUBSET {c}, kept \in SUBSET touching :
             /\ live' = live \ ({c} \ survivors)
             /\ Expire(touching, kept) /\ Fails(survivors # {} \/ kept # {})
    /\ UNCHANGED <<made, receipts, op, aborts>>

\* create_or_update_edge with edge_type subclass_of, in one step here: it
\* replaces the edges between the two classes and looks for no cycle.
Relate(t) ==
    /\ ManualEdges
    /\ op[t].pc = "idle" /\ ops < MaxOps /\ ops' = ops + 1
    /\ \E c, p \in live :
          LET same == {e \in links : Pair(e) = <<c, p>>} IN
          \E kept \in SUBSET same :
             /\ links' = (links \ (same \ kept))
                           \cup {[id |-> made + 1, child |-> c, parent |-> p, manual |-> TRUE]}
             /\ past' = past \cup {Pair(e) : e \in same \ kept}
             /\ stuck' = stuck \cup kept
             /\ Fails(kept # {})
    /\ made' = made + 1
    /\ UNCHANGED <<live, receipts, op, aborts>>

Abort(t) ==
    /\ op[t].pc # "idle"
    /\ aborts + faults < MaxMishaps
    /\ aborts' = aborts + 1
    /\ op' = [op EXCEPT ![t] = IdleOp]
    /\ UNCHANGED <<hierarchy, receipts, ops>>

Next ==
    \E t \in Threads :
        \/ BeginReparent(t) \/ BeginBulk(t) \/ BeginUndo(t)
        \/ AcceptMove(t) \/ RejectMove(t) \/ QueryParents(t) \/ ExpireParent(t)
        \/ AttachParent(t) \/ FinishBatch(t)
        \/ BeginCreateUnder(t) \/ AttachNew(t)
        \/ DeleteClass(t) \/ Relate(t) \/ Abort(t)

Spec == Init /\ [][Next]_vars

-----------------------------------------------------------------------------
(* Properties.                                                              *)

TypeOK ==
    /\ live \subseteq Keys
    /\ links \subseteq Link
    /\ past \subseteq Keys \X Keys
    /\ made \in Nat
    /\ op \in [Threads -> Op]
    /\ stuck \subseteq Link
    /\ \A r \in receipts : /\ r.undo \in Seq(Move) /\ r.before \subseteq Keys \X Keys
                          /\ r.lost \in BOOLEAN
    /\ ops \in Nat /\ aborts \in Nat /\ faults \in Nat

(* With one handler at a time, no sequence of moves, bulk moves, undos,     *)
(* creations and deletions, completed, interrupted or with expiries that    *)
(* fail unnoticed, closes a cycle                                           *)
(* (_reparent_impl: its guard looks at the hierarchy before the old parents *)
(* are expired, and the edge is inserted after).                            *)
Acyclic == AcyclicRelation(Parents)

(* With edges set by hand as well, every cycle has such an edge in it: the  *)
(* moves, whatever hierarchy they find, never close one themselves.         *)
CyclesAreManual == AcyclicRelation({Pair(e) : e \in {f \in links : ~f.manual}})

(* A move, interrupted or not, leaves a class with at most one parent edge  *)
(* that was not set by hand and whose own expiry has not failed unnoticed   *)
(* (_reparent_impl; ReparentClassRequest's "never leaves the old parent     *)
(* edge behind" holds but for a failed expiry).                             *)
OneParent(rel) == \A p, q \in rel : p[1] = q[1] => p = q
SingleParent ==
    \A e, f \in links \ stuck : e.child = f.child /\ ~e.manual /\ ~f.manual => e = f

(* An undo that directly follows its bulk move, of which no move is refused *)
(* and in neither of which an expiry fails unnoticed, puts a hierarchy of   *)
(* single parents back, though it replays the moves in the order they were  *)
(* made in and not in reverse (undo_bulk_reparent).                         *)
UndoRestores ==
    [][\A t \in Threads :
          /\ op[t].kind = "undo" /\ op[t].exact /\ ~op[t].refused /\ ~op[t].lost
          /\ OneParent(op[t].before)
          /\ FinishBatch(t)
          => Parents = op[t].before]_vars
=============================================================================
