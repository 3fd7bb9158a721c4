--------------------------- MODULE RevisionProofs ---------------------------
(***************************************************************************)
(* Invariance proofs for belief revision: for any number of threads,       *)
(* documents, entities, touchpoints, operations and deaths, and, of the    *)
(* circuit breaker, for any limit and length of its window.                *)
(*                                                                         *)
(* The invariant of the revisions has three parts: what holds whatever     *)
(* overlaps and dies (Sound), what holds while nothing has overlapped      *)
(* (AskedInv) and what holds while nothing has died either (ReplayInv).    *)
(* That of the agent (AgentInv) adds to the first what is known of each    *)
(* touchpoint from its discovery to its place on a run's list: that an     *)
(* accepted answer, or a rule that only revises, stands behind it.         *)
(***************************************************************************)
EXTENDS RevisionAgent, FiniteSetTheorems, SequenceTheorems, WellFoundedInduction, TLAPS

-----------------------------------------------------------------------------
(* Revisions, their rows and the decisions on them.                         *)

InTheMiddle == {"guard", "find", "read", "write", "record"}
Flagged(r) == r.action = "FLAG_FOR_CURATION"
Made(r) == \E j \in DOMAIN effects : effects[j] = r
\* Made, or a retraction that failed unnoticed.
Done(r) == Made(r) \/ (r.action = "RETRACT" /\ r.key \in kept)
Recorded(r) == \E i \in DOMAIN rows : rows[i].revision = r /\ rows[i].status = "applied"
Protected(r) == docs[r.key].status = "approved" /\ r.action \in StructuralActions

\* Whatever overlaps and dies: what a thread has in hand, what it knows of it
\* and what it has done with it.
Sane(o) ==
    /\ o.pc \in InTheMiddle => o.todo # <<>>
    /\ \A i \in DOMAIN o.todo : o.todo[i].key \in DOMAIN docs
    /\ o.row \in 0 .. Len(rows)
    /\ o.pc = "idle" => o.row = 0
    /\ o.pc \in {"mark", "stamp"} => o.row # 0
    /\ o.pc \in {"read", "write"} => ~Flagged(Head(o.todo))
    /\ o.pc = "record" /\ ~Flagged(Head(o.todo)) => Done(Head(o.todo))
    /\ aborts = 0 /\ o.row = 0 /\ o.pc \in {"find", "read", "write"} => ~Protected(Head(o.todo))

RowsKnown == \A i \in DOMAIN rows : rows[i].revision.key \in DOMAIN docs
EffectsUnflagged == \A j \in DOMAIN effects : ~Flagged(effects[j])

Sound ==
    /\ TypeOK
    /\ \A t \in Threads : Sane(op[t])
    /\ RowsKnown /\ AppliedRowsAreTrue /\ EffectsUnflagged

-----------------------------------------------------------------------------
(* What each step does to its thread and what it leaves alone.              *)

Moves(t) == op' \in [Threads -> Op] /\ \A s \in Threads \ {t} : op'[s] = op[s]

Grows ==
    /\ DOMAIN docs \subseteq DOMAIN docs' /\ \A k \in DOMAIN docs : docs'[k].status = docs[k].status
    /\ Len(rows) <= Len(rows')
    /\ \A j \in DOMAIN effects : j \in DOMAIN effects' /\ effects'[j] = effects[j]
    /\ kept \subseteq kept' /\ kept' \subseteq Nat
    /\ aborts' = 0 => aborts = 0

\* The revision in hand is dealt with: the row is next, another touchpoint or
\* nothing.
Settled(t) ==
    \/ op[t].row # 0 /\ op'[t] = [op[t] EXCEPT !.pc = "mark"]
    \/ op[t].row = 0 /\ Len(op[t].todo) > 1 /\ op'[t] = [op[t] EXCEPT !.pc = "guard", !.todo = Tail(@)]
    \/ op'[t] = IdleOp

\* What comes after the first of several.
LEMMA TailIsRest == ASSUME NEW S, NEW q \in Seq(S), Len(q) > 1
                    PROVE  Tail(q) # <<>> /\ \A i \in DOMAIN Tail(q) : i + 1 \in DOMAIN q /\ Tail(q)[i] = q[i + 1]
<1>1. q # <<>> /\ Len(q) \in Nat
  OBVIOUS
<1>2. /\ Tail(q) \in Seq(S) /\ Len(Tail(q)) = Len(q) - 1
      /\ \A i \in 1 .. Len(Tail(q)) : Tail(q)[i] = q[i + 1]
  BY <1>1, HeadTailProperties
<1>3. PICK r \in Seq(S) : r = Tail(q)
  BY <1>2
<1>4. Len(r) > 0 /\ \A i \in 1 .. Len(r) : r[i] = q[i + 1] /\ i + 1 \in DOMAIN q
  BY <1>1, <1>2, <1>3
<1>5. r # <<>>
  BY <1>4
<1> QED BY <1>3, <1>4, <1>5

\* A thread that is done with its operation keeps nothing of it.
LEMMA IdleIsOp == IdleOp \in Op /\ IdleOp.pc = "idle" /\ IdleOp.row = 0 /\ IdleOp.todo = <<>>
BY DEF IdleOp, Op, NoEvidence, Decisions

\* What a step that only goes on changes.
LEMMA Gone == ASSUME TypeOK, NEW t \in Threads, NEW pc \in {"find", "read", "write", "record", "mark", "stamp"}, Goto(t, pc)
              PROVE  /\ Moves(t)
                     /\ op'[t].pc = pc /\ op'[t].todo = op[t].todo /\ op'[t].row = op[t].row
                     /\ op'[t].payload = op[t].payload
<1>1. op[t] \in Op /\ op \in [Threads -> Op]
  BY DEF TypeOK
<1>2. op' = [op EXCEPT ![t] = [op[t] EXCEPT !.pc = pc]]
  BY <1>1 DEF Goto
<1>3. [op[t] EXCEPT !.pc = pc] \in Op
  BY <1>1 DEF Op
<1> QED BY <1>1, <1>2, <1>3 DEF Moves, Op

\* What becomes of an operation whose revision is dealt with, or has failed.
LEMMA Proceeded == ASSUME TypeOK, NEW t \in Threads, op[t].todo # <<>>, Proceed(t) \/ Fail(t)
                   PROVE  Moves(t) /\ Settled(t)
<1>1. op[t] \in Op /\ op \in [Threads -> Op]
  BY DEF TypeOK
<1> DEFINE marked == [op[t] EXCEPT !.pc = "mark"]
           next == [op[t] EXCEPT !.pc = "guard", !.todo = Tail(@)]
<1>2. op[t].todo \in Seq(Revision) /\ op[t].row \in Nat
  BY <1>1 DEF Op
<1>3. Tail(op[t].todo) \in Seq(Revision)
  BY <1>2
<1>4. marked \in Op /\ next \in Op /\ IdleOp \in Op
  BY <1>1, <1>3, IdleIsOp DEF Op
<1>5. CASE Proceed(t)
  <2>1. op' = [op EXCEPT ![t] = IF op[t].row # 0 THEN marked ELSE IF Len(op[t].todo) > 1 THEN next ELSE IdleOp]
    BY <1>5 DEF Proceed
  <2> HIDE DEF marked, next
  <2>2. Moves(t)
    BY <1>1, <1>4, <2>1 DEF Moves
  <2>3. op'[t] = IF op[t].row # 0 THEN marked ELSE IF Len(op[t].todo) > 1 THEN next ELSE IdleOp
    BY <1>1, <2>1
  <2> QED BY <2>2, <2>3 DEF Settled, marked, next
<1>6. CASE ~Proceed(t)
  <2>1. op' = [op EXCEPT ![t] = IdleOp]
    BY <1>6 DEF Fail
  <2> QED BY <1>1, <1>4, <2>1 DEF Moves, Settled
<1> QED BY <1>5, <1>6

\* The other threads know what they knew.
LEMMA OthersSane == ASSUME Sound, Grows, NEW t \in Threads, Moves(t), NEW s \in Threads, s # t
                    PROVE  Sane(op[s])'
<1>1. op'[s] = op[s] /\ op[s] \in Op /\ Sane(op[s])
  BY DEF Moves, Sound, TypeOK
<1>2. op[s].todo \in Seq(Revision)
  BY <1>1 DEF Op
<1>3. op[s].todo # <<>> => 1 \in DOMAIN op[s].todo /\ Head(op[s].todo) = op[s].todo[1]
  BY <1>2
<1>4. op[s].row \in 0 .. Len(rows')
  BY <1>1 DEF Sane, Grows, Sound, TypeOK
<1>5. Done(Head(op[s].todo)) => Done(Head(op[s].todo))'
  BY <1>1 DEF Done, Made, Grows
<1>6. op[s].todo # <<>> => Protected(Head(op[s].todo))' = Protected(Head(op[s].todo))
  BY <1>1, <1>3 DEF Protected, Grows, Sane
<1>7. \A i \in DOMAIN op[s].todo : op[s].todo[i].key \in DOMAIN docs'
  BY <1>1 DEF Grows, Sane
<1>8. op[s].pc \in {"find", "read", "write"} => op[s].todo # <<>>
  BY <1>1 DEF Sane, InTheMiddle
<1>9. aborts' = 0 => aborts = 0
  BY DEF Grows
<1> QED BY <1>1, <1>4, <1>5, <1>6, <1>7, <1>8, <1>9 DEF Sane, Flagged

\* What is left to show of a step.
LEMMA SoundStep ==
    ASSUME Sound, TypeOK', Grows, NEW t \in Threads, Moves(t), Sane(op[t])',
           RowsKnown', AppliedRowsAreTrue', EffectsUnflagged'
    PROVE  Sound'
<1>1. \A s \in Threads : Sane(op[s])'
  BY OthersSane
<1> QED BY <1>1 DEF Sound

\* And of one that leaves the rows and the effects alone.
LEMMA QuietStep ==
    ASSUME Sound, Grows, NEW t \in Threads, Moves(t), Sane(op[t])',
           rows' = rows, effects' = effects, docs' \in Seq(Version),
           overlapped' \in BOOLEAN, ops' \in Nat, aborts' \in Nat
    PROVE  Sound'
<1>1. TypeOK'
  BY DEF TypeOK, Moves, Sound, Grows
<1>2. RowsKnown'
  BY DEF RowsKnown, Sound, Grows
<1>3. AppliedRowsAreTrue' /\ EffectsUnflagged'
  BY DEF AppliedRowsAreTrue, EffectsUnflagged, Sound, Grows
<1> QED BY <1>1, <1>2, <1>3, SoundStep

\* What is settled is understood.
LEMMA SettledSane == ASSUME Sound, Grows, NEW t \in Threads, Moves(t), Settled(t), op[t].todo # <<>>
                     PROVE  Sane(op[t])'
<1>1. op[t] \in Op /\ Sane(op[t])
  BY DEF Sound, TypeOK
<1>2. op[t].todo \in Seq(Revision) /\ op[t].row \in Nat
  BY <1>1 DEF Op
<1>3. Len(rows) \in Nat /\ Len(rows') \in Int /\ op[t].row \in 0 .. Len(rows')
  <2>1. rows \in Seq(Row)
    BY DEF Sound, TypeOK
  <2>2. op[t].row \in 0 .. Len(rows) /\ Len(rows) <= Len(rows')
    BY <1>1 DEF Sane, Grows
  <2> QED BY <2>1, <2>2
<1>4. CASE op[t].row # 0 /\ op'[t] = [op[t] EXCEPT !.pc = "mark"]
  <2>1. op'[t].pc = "mark" /\ op'[t].todo = op[t].todo /\ op'[t].row = op[t].row
    BY <1>1, <1>4 DEF Op
  <2> QED BY <1>1, <1>3, <1>4, <2>1 DEF Sane, Grows, InTheMiddle
<1>5. CASE op[t].row = 0 /\ Len(op[t].todo) > 1 /\ op'[t] = [op[t] EXCEPT !.pc = "guard", !.todo = Tail(@)]
  <2>1. op'[t].pc = "guard" /\ op'[t].todo = Tail(op[t].todo) /\ op'[t].row = 0
    BY <1>1, <1>5 DEF Op
  <2>2. Len(op[t].todo) > 1
    BY <1>5
  <2>3. /\ Tail(op[t].todo) # <<>>
        /\ \A i \in DOMAIN Tail(op[t].todo) : i + 1 \in DOMAIN op[t].todo /\ Tail(op[t].todo)[i] = op[t].todo[i + 1]
    BY <1>2, <2>2, TailIsRest
  <2>4. \A i \in DOMAIN Tail(op[t].todo) : Tail(op[t].todo)[i].key \in DOMAIN docs'
    BY <1>1, <2>3 DEF Sane, Grows
  <2> QED BY <1>3, <1>5, <2>1, <2>3, <2>4 DEF Sane
<1>6. CASE op'[t] = IdleOp
  <2>1. 0 \in 0 .. Len(rows')
    BY <1>3
  <2> QED BY <1>6, <2>1, IdleIsOp DEF Sane, InTheMiddle
<1> QED BY <1>4, <1>5, <1>6 DEF Settled

-----------------------------------------------------------------------------
(* Every step keeps it.                                                     *)

\* What begins an operation.
LEMMA Began == ASSUME Sound, NEW t \in Threads, NEW o \in Op, Begin(t, o)
               PROVE  Count /\ Moves(t) /\ op'[t] = o /\ ops' \in Nat /\ overlapped' \in BOOLEAN
BY DEF Sound, TypeOK, Begin, Count, Moves

\* A run begins with touchpoints that are stored.
LEMMA RunBegun == ASSUME Sound, NEW t \in Threads, BeginRun(t)
                  PROVE  /\ Count /\ Moves(t) /\ ops' \in Nat /\ overlapped' \in BOOLEAN
                         /\ op'[t].pc = "guard" /\ op'[t].row = 0 /\ op'[t].todo # <<>>
                         /\ \A i \in DOMAIN op'[t].todo : op'[t].todo[i].key \in DOMAIN docs
<1> USE RevisionBounds
<1>1. PICK d \in Documents, n \in 1 .. MaxTouchpoints :
         \E key \in [1 .. n -> Live], action \in [1 .. n -> Actions] :
            Begin(t, [IdleOp EXCEPT !.pc = "guard",
                                    !.todo = [i \in 1 .. n |-> [doc |-> d, key |-> key[i], action |-> action[i]]]])
  BY DEF BeginRun
<1>2. PICK key \in [1 .. n -> Live], action \in [1 .. n -> Actions] :
         Begin(t, [IdleOp EXCEPT !.pc = "guard",
                                 !.todo = [i \in 1 .. n |-> [doc |-> d, key |-> key[i], action |-> action[i]]]])
  BY <1>1
<1> DEFINE todo == [i \in 1 .. n |-> [doc |-> d, key |-> key[i], action |-> action[i]]]
           o == [IdleOp EXCEPT !.pc = "guard", !.todo = todo]
<1>3. \A k \in Live : k \in DOMAIN docs /\ k \in Nat \ {0}
  BY DEF Live, Sound, TypeOK
<1>4. \A i \in 1 .. n : todo[i] \in Revision /\ todo[i].key \in DOMAIN docs
  BY <1>3 DEF Revision
<1>5. todo \in Seq(Revision) /\ Len(todo) = n /\ todo # <<>> /\ DOMAIN todo = 1 .. n
  <2>1. n \in Nat /\ n > 0
    OBVIOUS
  <2>2. todo \in [1 .. n -> Revision]
    BY <1>4
  <2> HIDE DEF todo
  <2>3. todo \in Seq(Revision) /\ Len(todo) = n /\ DOMAIN todo = 1 .. n
    BY <2>1, <2>2
  <2> QED BY <2>1, <2>3
<1> HIDE DEF todo
<1>6. o \in Op /\ o.pc = "guard" /\ o.todo = todo /\ o.row = 0
  BY <1>5, IdleIsOp DEF Op
<1>7. Begin(t, o)
  BY <1>2 DEF todo
<1> HIDE DEF o
<1>8. Count /\ Moves(t) /\ op'[t] = o /\ ops' \in Nat /\ overlapped' \in BOOLEAN
  BY <1>6, <1>7, Began
<1> QED BY <1>4, <1>5, <1>6, <1>8

\* A run begins.
LEMMA BeginRunSound == ASSUME Sound, NEW t \in Threads, BeginRun(t) PROVE Sound'
<1>1. docs' = docs /\ rows' = rows /\ effects' = effects /\ kept' = kept /\ aborts' = aborts
  BY DEF BeginRun
<1>2. Grows /\ 0 \in 0 .. Len(rows')
  BY <1>1 DEF Grows, Sound, TypeOK
<1>3. Sane(op[t])'
  BY <1>1, <1>2, RunBegun DEF Sane
<1> QED BY <1>1, <1>2, <1>3, RunBegun, QuietStep DEF Sound, TypeOK

\* The guard: of what is published no revision of structure goes on.
LEMMA Guarded == ASSUME Sound, NEW t \in Threads, Guard(t)
                 PROVE  /\ Moves(t) /\ op'[t].pc = "find" /\ op'[t].row = op[t].row
                        /\ op'[t].todo \in Seq(Revision) /\ op'[t].todo # <<>>
                        /\ DOMAIN op'[t].todo = DOMAIN op[t].todo
                        /\ \A i \in DOMAIN op[t].todo : op'[t].todo[i].key = op[t].todo[i].key
                        /\ ~Protected(Head(op'[t].todo))
                        /\ op'[t].payload = op[t].payload
                        /\ \A i \in DOMAIN op[t].todo : op'[t].todo[i] = op[t].todo[i] \/ Flagged(op'[t].todo[i])
<1>1. op \in [Threads -> Op] /\ op[t] \in Op /\ Sane(op[t]) /\ op[t].pc = "guard"
  BY DEF Sound, TypeOK, Guard
<1>2. PICK q \in Seq(Revision) : q = op[t].todo
  BY <1>1 DEF Op
<1>3. q # <<>> /\ 1 \in DOMAIN q /\ q[1] \in Revision /\ InHand(t) = q[1]
  BY <1>1, <1>2 DEF Sane, InTheMiddle, InHand
<1> DEFINE a == IF docs[q[1].key].status = "approved" /\ q[1].action \in StructuralActions
                THEN "FLAG_FOR_CURATION" ELSE q[1].action
           r == [q[1] EXCEPT !.action = a]
           q2 == [q EXCEPT ![1] = r]
           o == [op[t] EXCEPT !.pc = "find", !.todo = q2]
<1>4. op' = [op EXCEPT ![t] = o]
  BY <1>1, <1>2, <1>3 DEF Guard
<1>5. a \in Actions
  BY <1>3 DEF Revision, Actions
<1>6. r \in Revision /\ r.key = q[1].key /\ r.action = a
  BY <1>3, <1>5 DEF Revision
<1>7. q2 \in Seq(Revision) /\ DOMAIN q2 = DOMAIN q /\ q2[1] = r /\ \A i \in DOMAIN q : i # 1 => q2[i] = q[i]
  <2> HIDE DEF r
  <2> QED BY <1>3, <1>6
<1>8. ~Protected(r)
  BY <1>6 DEF Protected, StructuralActions
<1>13. r = q[1] \/ Flagged(r)
  BY <1>3, <1>6 DEF Flagged, Revision
<1> HIDE DEF q2, a, r
<1>9. o \in Op /\ o.pc = "find" /\ o.todo = q2 /\ o.row = op[t].row /\ o.payload = op[t].payload
  BY <1>1, <1>7 DEF Op
<1>10. Moves(t) /\ op'[t] = o
  <2> HIDE DEF o
  <2> QED BY <1>1, <1>4, <1>9 DEF Moves
<1>11. q2 # <<>> /\ Head(q2) = r
  BY <1>3, <1>7
<1> HIDE DEF o
<1>12. \A i \in DOMAIN q : q2[i].key = q[i].key
  BY <1>3, <1>6, <1>7
<1>14. \A i \in DOMAIN q : q2[i] = q[i] \/ Flagged(q2[i])
  BY <1>7, <1>13
<1> QED BY <1>2, <1>7, <1>8, <1>9, <1>10, <1>11, <1>12, <1>14

\* The guard has looked.
LEMMA GuardSound == ASSUME Sound, NEW t \in Threads, Guard(t) PROVE Sound'
<1>1. /\ docs' = docs /\ rows' = rows /\ effects' = effects /\ kept' = kept
      /\ aborts' = aborts /\ ops' = ops /\ overlapped' = overlapped
  BY DEF Guard, counters
<1>2. Grows
  BY <1>1 DEF Grows, Sound, TypeOK
<1>3. Sane(op[t]) /\ op[t].pc = "guard"
  BY DEF Sound, Guard
<1>4. Sane(op[t])'
  BY <1>1, <1>3, Guarded DEF Sane, Protected
<1> QED BY <1>1, <1>2, <1>4, Guarded, QuietStep DEF Sound, TypeOK

\* What is in hand is a revision of an entity that is stored.
LEMMA InHandKnown == ASSUME Sound, NEW t \in Threads, op[t].pc \in InTheMiddle
                     PROVE  /\ op[t] \in Op /\ op[t].todo # <<>> /\ op[t].todo \in Seq(Revision)
                            /\ InHand(t) \in Revision /\ InHand(t).key \in DOMAIN docs
                            /\ InHand(t) = Head(op[t].todo)
<1>1. op[t] \in Op /\ Sane(op[t])
  BY DEF Sound, TypeOK
<1>2. op[t].todo # <<>> /\ op[t].todo \in Seq(Revision)
  BY <1>1 DEF Sane, Op
<1>3. Head(op[t].todo) = op[t].todo[1] /\ 1 \in DOMAIN op[t].todo /\ op[t].todo[1] \in Revision
  BY <1>2
<1> QED BY <1>1, <1>2, <1>3 DEF InHand, Sane

\* What the revision in hand needs is there.
Supplied(t) == InHand(t).action \notin NeedsPayload \/ op[t].payload

\* The search for a row: what has none goes on, to be flagged or to be made.
LEMMA Found == ASSUME Sound, NEW t \in Threads, FindPrior(t)
               PROVE  /\ Moves(t)
                      /\ \/ Settled(t)
                         \/ /\ op'[t].todo = op[t].todo /\ op'[t].row = op[t].row /\ ~Prior(InHand(t))
                            /\ op'[t].payload = op[t].payload
                            /\ \/ op'[t].pc = "record" /\ Flagged(InHand(t))
                               \/ /\ op'[t].pc \in {"read", "write"} /\ ~Flagged(InHand(t))
                                  /\ Supplied(t)
<1>1. op[t].pc = "find" /\ op[t].todo # <<>> /\ TypeOK
  BY InHandKnown DEF FindPrior, InTheMiddle, Sound
<1>2. \/ Proceed(t) \/ Fail(t)
      \/ ~Prior(InHand(t)) /\ Flagged(InHand(t)) /\ Goto(t, "record")
      \/ ~Prior(InHand(t)) /\ ~Flagged(InHand(t)) /\ Goto(t, "write") /\ Supplied(t)
      \/ ~Prior(InHand(t)) /\ ~Flagged(InHand(t)) /\ Goto(t, "read") /\ Supplied(t)
  BY DEF FindPrior, Flagged, NeedsPayload, Supplied
<1>3. CASE Proceed(t) \/ Fail(t)
  BY <1>1, <1>3, Proceeded
<1>4. CASE ~Prior(InHand(t)) /\ Flagged(InHand(t)) /\ Goto(t, "record")
  BY <1>1, <1>4, Gone
<1>5. CASE ~Prior(InHand(t)) /\ ~Flagged(InHand(t)) /\ Goto(t, "write") /\ Supplied(t)
  BY <1>1, <1>5, Gone
<1>6. CASE ~Prior(InHand(t)) /\ ~Flagged(InHand(t)) /\ Goto(t, "read") /\ Supplied(t)
  BY <1>1, <1>6, Gone
<1> QED BY <1>2, <1>3, <1>4, <1>5, <1>6

\* The row has been looked for.
LEMMA FindPriorSound == ASSUME Sound, NEW t \in Threads, FindPrior(t) PROVE Sound'
<1>1. /\ docs' = docs /\ rows' = rows /\ effects' = effects /\ kept' = kept
      /\ aborts' = aborts /\ ops' = ops /\ overlapped' = overlapped
  BY DEF FindPrior, counters
<1>2. Grows
  BY <1>1 DEF Grows, Sound, TypeOK
<1>3. Sane(op[t]) /\ op[t].pc = "find" /\ op[t].todo # <<>> /\ Moves(t)
  BY InHandKnown, Found DEF Sound, FindPrior, InTheMiddle
<1>4. Sane(op[t])'
  <2>1. CASE Settled(t)
    BY <1>2, <1>3, <2>1, SettledSane
  <2>2. CASE ~Settled(t)
    BY <1>1, <1>3, <2>2, Found DEF Sane, Protected, InHand, Flagged
  <2> QED BY <2>1, <2>2
<1> QED BY <1>1, <1>2, <1>3, <1>4, QuietStep DEF Sound, TypeOK

\* The version is read, or is no longer current.
LEMMA Read == ASSUME Sound, NEW t \in Threads, ReadCurrent(t)
              PROVE  /\ Moves(t)
                     /\ \/ Settled(t)
                        \/ /\ op'[t].pc = "write" /\ op'[t].todo = op[t].todo /\ op'[t].row = op[t].row
                           /\ op'[t].payload = op[t].payload
<1>1. op[t].pc = "read" /\ op[t].todo # <<>> /\ TypeOK /\ op[t] \in Op /\ op \in [Threads -> Op]
  BY InHandKnown DEF ReadCurrent, InTheMiddle, Sound, TypeOK
<1>2. CASE InHand(t).key \in Live
  <2> DEFINE o == [op[t] EXCEPT !.pc = "write", !.seen = docs[InHand(t).key].evidence]
  <2>1. docs[InHand(t).key].evidence \in [Documents -> Nat]
    <3>1. docs[InHand(t).key] \in Version
      BY <1>1, <1>2 DEF Live, TypeOK
    <3> QED BY <3>1 DEF Version
  <2>2. o \in Op /\ o.pc = "write" /\ o.todo = op[t].todo /\ o.row = op[t].row /\ o.payload = op[t].payload
    BY <1>1, <2>1 DEF Op
  <2>3. op' = [op EXCEPT ![t] = o]
    BY <1>1, <1>2 DEF ReadCurrent
  <2> HIDE DEF o
  <2> QED BY <1>1, <2>2, <2>3 DEF Moves
<1>3. CASE InHand(t).key \notin Live
  BY <1>1, <1>3, Proceeded DEF ReadCurrent
<1> QED BY <1>2, <1>3

\* The version has been read.
LEMMA ReadCurrentSound == ASSUME Sound, NEW t \in Threads, ReadCurrent(t) PROVE Sound'
<1>1. /\ docs' = docs /\ rows' = rows /\ effects' = effects /\ kept' = kept
      /\ aborts' = aborts /\ ops' = ops /\ overlapped' = overlapped
  BY DEF ReadCurrent, counters
<1>2. Grows
  BY <1>1 DEF Grows, Sound, TypeOK
<1>3. Sane(op[t]) /\ op[t].pc = "read" /\ op[t].todo # <<>> /\ Moves(t)
  BY InHandKnown, Read DEF Sound, ReadCurrent, InTheMiddle
<1>4. Sane(op[t])'
  <2>1. CASE Settled(t)
    BY <1>2, <1>3, <2>1, SettledSane
  <2>2. CASE ~Settled(t)
    BY <1>1, <1>3, <2>2, Read DEF Sane, Protected, Flagged
  <2> QED BY <2>1, <2>2
<1> QED BY <1>1, <1>2, <1>3, <1>4, QuietStep DEF Sound, TypeOK

\* A new version takes the place of one, and no other is touched.
LEMMA SuccessorKeeps ==
    ASSUME docs \in Seq(Version), NEW k \in DOMAIN docs, NEW e \in [Documents -> Nat], NEW s \in {"draft", "approved"},
           NEW still \in BOOLEAN
    PROVE  /\ Successor(k, e, s, still) \in Seq(Version)
           /\ DOMAIN docs \subseteq DOMAIN Successor(k, e, s, still)
           /\ \A j \in DOMAIN docs : Successor(k, e, s, still)[j].status = docs[j].status
           /\ \A j \in DOMAIN docs : j # k => Successor(k, e, s, still)[j].live = docs[j].live
<1> DEFINE old == [docs EXCEPT ![k].live = @ /\ still]
           new == [docs[k] EXCEPT !.live = TRUE, !.evidence = e, !.status = s]
<1>1. docs[k] \in Version
  OBVIOUS
<1>2. new \in Version
  BY <1>1 DEF Version
<1>a. PICK l \in BOOLEAN : l = (docs[k].live /\ still)
  BY <1>1 DEF Version
<1>3. [docs[k] EXCEPT !.live = l] \in Version /\ [docs[k] EXCEPT !.live = l].status = docs[k].status
  BY <1>1 DEF Version
<1>b. old = [docs EXCEPT ![k] = [docs[k] EXCEPT !.live = l]]
  BY <1>1, <1>a
<1> HIDE DEF old
<1>4. /\ old \in Seq(Version) /\ DOMAIN old = DOMAIN docs /\ Len(old) = Len(docs)
      /\ \A j \in DOMAIN docs : old[j].status = docs[j].status /\ (j # k => old[j] = docs[j])
  BY <1>3, <1>b
<1>5. Successor(k, e, s, still) = Append(old, new)
  BY DEF Successor, old
<1> HIDE DEF new
<1> QED BY <1>2, <1>4, <1>5

\* What a write does, its expiry gone through or not.
WritesTo(t, still) ==
    LET r == InHand(t)
        k == r.key IN
    /\ still => r.action \in {"REVISE", "RETRACT"}
    /\ kept \subseteq kept' /\ kept' \subseteq Nat
    /\ r.action = "REINFORCE" => docs' = [docs EXCEPT ![k].evidence = [op[t].seen EXCEPT ![r.doc] = @ + 1]]
    /\ r.action = "REVISE" => docs' = Successor(k, op[t].seen, docs[k].status, still)
    /\ r.action = "RETRACT" => docs' = [docs EXCEPT ![k].live = @ /\ still]
    /\ r.action = "GAP_FILL" => docs' = docs
    /\ \/ effects' = Append(effects, r)
       \/ effects' = effects /\ r.action = "RETRACT" /\ k \in kept'

LEMMA WritesOne == ASSUME Sound, NEW t \in Threads, Write(t)
                   PROVE  \E still \in BOOLEAN : WritesTo(t, still)
<1> DEFINE r == InHand(t)
           k == r.key
<1>1. PICK still \in BOOLEAN :
         /\ still => r.action \in {"REVISE", "RETRACT"}
         /\ Expire(k, still)
         /\ docs' = CASE r.action = "REINFORCE" ->
                             [docs EXCEPT ![k].evidence = [op[t].seen EXCEPT ![r.doc] = @ + 1]]
                      [] r.action = "REVISE" -> Successor(k, op[t].seen, docs[k].status, still)
                      [] r.action = "RETRACT" -> [docs EXCEPT ![k].live = @ /\ still]
                      [] r.action = "GAP_FILL" -> docs
         /\ effects' = IF still /\ r.action = "RETRACT" THEN effects ELSE Append(effects, r)
  BY DEF Write
<1>2. k \in DOMAIN docs /\ docs \in Seq(Version) /\ kept \subseteq Nat
  BY InHandKnown DEF Write, InTheMiddle, Sound, TypeOK
<1>3. kept \subseteq kept' /\ kept' \subseteq Nat /\ (still => k \in kept')
  BY <1>1, <1>2 DEF Expire
<1>4. \/ effects' = Append(effects, r)
      \/ effects' = effects /\ r.action = "RETRACT" /\ k \in kept'
  BY <1>1, <1>3
<1>5. /\ r.action = "REINFORCE" => docs' = [docs EXCEPT ![k].evidence = [op[t].seen EXCEPT ![r.doc] = @ + 1]]
      /\ r.action = "REVISE" => docs' = Successor(k, op[t].seen, docs[k].status, still)
      /\ r.action = "RETRACT" => docs' = [docs EXCEPT ![k].live = @ /\ still]
      /\ r.action = "GAP_FILL" => docs' = docs
  <2> HIDE DEF r
  <2> QED BY <1>1
<1> QED BY <1>1, <1>3, <1>4, <1>5 DEF WritesTo

\* What a write does to the versions.
LEMMA Written == ASSUME Sound, NEW t \in Threads, Write(t)
                 PROVE  /\ docs' \in Seq(Version) /\ DOMAIN docs \subseteq DOMAIN docs'
                        /\ \A k \in DOMAIN docs : docs'[k].status = docs[k].status
                        /\ \A k \in DOMAIN docs : docs'[k].live # docs[k].live =>
                              k = InHand(t).key /\ InHand(t).action \in StructuralActions
<1>1. op[t].pc = "write" /\ TypeOK /\ op[t] \in Op /\ Sane(op[t]) /\ docs \in Seq(Version)
  BY DEF Sound, TypeOK, Write
<1>w. PICK still \in BOOLEAN : WritesTo(t, still)
  BY WritesOne
<1>2. InHand(t) \in Revision /\ InHand(t).key \in DOMAIN docs /\ ~Flagged(InHand(t))
  BY <1>1, InHandKnown DEF InTheMiddle, Sane, InHand
<1> DEFINE r == InHand(t)
           k == r.key
<1>3. op[t].seen \in [Documents -> Nat] /\ docs[k] \in Version /\ r.doc \in Documents
  BY <1>1, <1>2 DEF Op, Revision
<1>4. r.action \in {"REINFORCE", "REVISE", "RETRACT", "GAP_FILL"}
  BY <1>2 DEF Revision, Actions, Flagged
<1>5. CASE r.action = "REINFORCE"
  <2> DEFINE e == [op[t].seen EXCEPT ![r.doc] = @ + 1]
             v == [docs[k] EXCEPT !.evidence = e]
  <2>1. e \in [Documents -> Nat]
    BY <1>3
  <2>2. v \in Version /\ v.status = docs[k].status /\ v.live = docs[k].live
    <3> HIDE DEF e
    <3> QED BY <1>3, <2>1 DEF Version
  <2>3. docs' = [docs EXCEPT ![k] = v]
    BY <1>1, <1>w, <1>5 DEF WritesTo
  <2> HIDE DEF v, r
  <2> QED BY <1>1, <1>2, <2>2, <2>3 DEF r
<1>6. CASE r.action = "REVISE"
  <2>1. docs' = Successor(k, op[t].seen, docs[k].status, still)
    BY <1>w, <1>6 DEF WritesTo
  <2>2. docs[k].status \in {"draft", "approved"}
    BY <1>3 DEF Version
  <2>3. /\ docs' \in Seq(Version) /\ DOMAIN docs \subseteq DOMAIN docs'
        /\ \A j \in DOMAIN docs : docs'[j].status = docs[j].status /\ (j # k => docs'[j].live = docs[j].live)
    <3>1. PICK key \in DOMAIN docs, e \in [Documents -> Nat], s \in {"draft", "approved"} :
             key = k /\ e = op[t].seen /\ s = docs[k].status
      BY <1>2, <1>3, <2>2
    <3>2. docs' = Successor(key, e, s, still)
      BY <2>1, <3>1
    <3>3. /\ Successor(key, e, s, still) \in Seq(Version) /\ DOMAIN docs \subseteq DOMAIN Successor(key, e, s, still)
          /\ \A j \in DOMAIN docs : Successor(key, e, s, still)[j].status = docs[j].status
          /\ \A j \in DOMAIN docs : j # key => Successor(key, e, s, still)[j].live = docs[j].live
      BY <1>1, SuccessorKeeps
    <3> QED BY <3>1, <3>2, <3>3
  <2> QED BY <1>6, <2>3 DEF StructuralActions
<1>7. CASE r.action = "RETRACT"
  <2>a. PICK l \in BOOLEAN : l = (docs[k].live /\ still)
    BY <1>3 DEF Version
  <2> DEFINE v == [docs[k] EXCEPT !.live = l]
  <2>1. v \in Version /\ v.status = docs[k].status
    BY <1>3 DEF Version
  <2>2. docs' = [docs EXCEPT ![k] = v]
    BY <1>1, <1>w, <1>7, <2>a DEF WritesTo
  <2> HIDE DEF v
  <2> QED BY <1>1, <1>2, <1>7, <2>1, <2>2 DEF StructuralActions
<1>8. CASE r.action = "GAP_FILL"
  BY <1>1, <1>w, <1>8 DEF WritesTo
<1> QED BY <1>4, <1>5, <1>6, <1>7, <1>8

\* A revision is made, and waits for its row.
LEMMA WriteSound == ASSUME Sound, NEW t \in Threads, Write(t) PROVE Sound'
<1>1. op[t].pc = "write" /\ TypeOK /\ op[t] \in Op /\ Sane(op[t])
  BY DEF Sound, TypeOK, Write
<1>2. InHand(t) \in Revision /\ InHand(t) = Head(op[t].todo) /\ ~Flagged(InHand(t)) /\ op[t].todo # <<>>
  BY <1>1, InHandKnown DEF InTheMiddle, Sane
<1>3. rows' = rows /\ Goto(t, "record") /\ overlapped' = overlapped /\ ops' = ops /\ aborts' = aborts
  BY DEF Write
<1>w. PICK still \in BOOLEAN : WritesTo(t, still)
  BY WritesOne
<1>k. kept \subseteq kept' /\ kept' \subseteq Nat
  BY <1>w DEF WritesTo
<1>4. /\ effects' \in Seq(Revision) /\ Done(InHand(t))'
      /\ \A j \in DOMAIN effects : j \in DOMAIN effects' /\ effects'[j] = effects[j]
      /\ \A j \in DOMAIN effects' : j \in DOMAIN effects \/ effects'[j] = InHand(t)
  <2>1. PICK r \in Revision : r = InHand(t)
    BY <1>2
  <2>2. InHand(t)' = r
    BY <1>1, <1>3, <2>1, Gone DEF InHand
  <2>3. CASE effects' = Append(effects, r)
    <3>1. /\ effects' \in Seq(Revision) /\ Len(effects) + 1 \in DOMAIN effects'
          /\ effects'[Len(effects) + 1] = r
          /\ DOMAIN effects' = DOMAIN effects \cup {Len(effects) + 1}
          /\ \A j \in DOMAIN effects : effects'[j] = effects[j]
      BY <1>1, <2>3 DEF TypeOK
    <3>2. Done(r)'
      BY <3>1 DEF Done, Made
    <3> QED BY <2>1, <2>2, <3>1, <3>2
  <2>4. CASE effects' = effects /\ r.action = "RETRACT" /\ r.key \in kept'
    <3>1. Done(r)'
      BY <2>4 DEF Done
    <3>2. effects' \in Seq(Revision)
      BY <1>1, <2>4 DEF TypeOK
    <3> QED BY <2>2, <2>4, <3>1, <3>2
  <2> QED BY <1>w, <2>1, <2>3, <2>4 DEF WritesTo
<1>5. Grows
  BY <1>1, <1>3, <1>k, <1>4, Written DEF Grows, TypeOK
<1>6. Moves(t) /\ op'[t].pc = "record" /\ op'[t].todo = op[t].todo /\ op'[t].row = op[t].row
  BY <1>1, <1>3, Gone
<1>7. TypeOK'
  BY <1>1, <1>3, <1>k, <1>4, <1>6, Written DEF TypeOK, Moves
<1>8. Sane(op[t])'
  <2>1. Done(Head(op[t].todo))'
    BY <1>2, <1>4, <1>6 DEF InHand
  <2> QED BY <1>1, <1>3, <1>5, <1>6, <2>1 DEF Sane, InTheMiddle, Grows
<1>9. RowsKnown'
  BY <1>3, <1>5 DEF RowsKnown, Sound, Grows
<1>10. AppliedRowsAreTrue' /\ EffectsUnflagged'
  <2>1. AppliedRowsAreTrue'
    <3> SUFFICES ASSUME NEW i \in DOMAIN rows, rows[i].status = "applied" PROVE Done(rows[i].revision)'
      BY <1>3 DEF AppliedRowsAreTrue, Done, Made
    <3>1. Done(rows[i].revision)
      BY DEF AppliedRowsAreTrue, Sound, Done, Made
    <3> QED BY <1>3, <1>k, <1>4, <3>1 DEF Done, Made
  <2>2. EffectsUnflagged'
    BY <1>2, <1>4 DEF EffectsUnflagged, Sound
  <2> QED BY <2>1, <2>2
<1> QED BY <1>5, <1>6, <1>7, <1>8, <1>9, <1>10, SoundStep

\* A row is added.
LEMMA RecordSound == ASSUME Sound, NEW t \in Threads, Record(t) PROVE Sound'
<1>1. op[t].pc = "record" /\ TypeOK /\ Sane(op[t])
  BY DEF Sound, Record
<1>2. /\ InHand(t) \in Revision /\ InHand(t) = Head(op[t].todo) /\ op[t].todo # <<>>
      /\ InHand(t).key \in DOMAIN docs
  BY <1>1, InHandKnown DEF InTheMiddle
<1> DEFINE row == [revision |-> InHand(t), status |-> IF Flagged(InHand(t)) THEN "pending" ELSE "applied",
                   log |-> 0, decisions |-> 0]
<1>3. rows' = Append(rows, row) /\ Proceed(t) /\ docs' = docs /\ effects' = effects
      /\ kept' = kept /\ overlapped' = overlapped /\ ops' = ops /\ aborts' = aborts
  BY DEF Record, counters, Flagged
<1>4. row \in Row /\ row.revision = InHand(t) /\ (row.status = "applied" => ~Flagged(InHand(t)))
  BY <1>2 DEF Row, Statuses
<1> HIDE DEF row
<1>5. /\ rows' \in Seq(Row) /\ Len(rows) <= Len(rows')
      /\ rows'[Len(rows) + 1] = row
      /\ DOMAIN rows' = DOMAIN rows \cup {Len(rows) + 1}
      /\ \A i \in DOMAIN rows : rows'[i] = rows[i]
  BY <1>1, <1>3, <1>4 DEF TypeOK
<1>6. Moves(t) /\ Settled(t)
  BY <1>1, <1>2, <1>3, Proceeded
<1>7. Grows
  BY <1>1, <1>3, <1>5 DEF Grows, TypeOK
<1>8. TypeOK'
  BY <1>1, <1>3, <1>5, <1>6 DEF TypeOK, Moves
<1>9. Sane(op[t])'
  BY <1>2, <1>6, <1>7, SettledSane
<1>10. RowsKnown'
  BY <1>2, <1>3, <1>4, <1>5 DEF RowsKnown, Sound
<1>11. AppliedRowsAreTrue'
  <2> SUFFICES ASSUME NEW i \in DOMAIN rows', rows'[i].status = "applied"
               PROVE  Done(rows'[i].revision)
    BY <1>3 DEF AppliedRowsAreTrue, Done, Made
  <2>1. CASE i \in DOMAIN rows
    BY <1>5, <2>1 DEF AppliedRowsAreTrue, Sound, Done, Made
  <2>2. CASE i = Len(rows) + 1
    BY <1>1, <1>2, <1>4, <1>5, <2>2 DEF Sane
  <2> QED BY <1>5, <2>1, <2>2
<1>12. EffectsUnflagged'
  BY <1>3 DEF EffectsUnflagged, Sound
<1> QED BY <1>6, <1>7, <1>8, <1>9, <1>10, <1>11, <1>12, SoundStep

\* A decision begins with a row that waits for one.
LEMMA DecisionBegun == ASSUME Sound, NEW t \in Threads, BeginDecision(t)
                       PROVE  /\ Count /\ Moves(t) /\ ops' \in Nat /\ overlapped' \in BOOLEAN
                              /\ op'[t].pc = "mark" /\ op'[t].todo = <<>>
                              /\ op'[t].row \in DOMAIN rows /\ Pending(op'[t].row)
<1>1. PICK i \in DOMAIN rows, d \in {"accepted", "rejected"} :
         Pending(i) /\ Begin(t, [IdleOp EXCEPT !.pc = "mark", !.row = i, !.decision = d])
  BY DEF BeginDecision, Decidable
<1> DEFINE o == [IdleOp EXCEPT !.pc = "mark", !.row = i, !.decision = d]
<1>2. i \in Nat
  BY DEF Sound, TypeOK
<1>3. o \in Op /\ o.pc = "mark" /\ o.todo = <<>> /\ o.row = i
  BY <1>2, IdleIsOp DEF Op, Decisions
<1>4. Begin(t, o)
  BY <1>1
<1> HIDE DEF o
<1> QED BY <1>1, <1>3, <1>4, Began

\* A decision begins.
LEMMA BeginDecisionSound == ASSUME Sound, NEW t \in Threads, BeginDecision(t) PROVE Sound'
<1>1. docs' = docs /\ rows' = rows /\ effects' = effects /\ kept' = kept /\ aborts' = aborts
  BY DEF BeginDecision
<1>2. Grows
  BY <1>1 DEF Grows, Sound, TypeOK
<1>3. op'[t].row # 0 /\ op'[t].row \in 0 .. Len(rows')
  BY <1>1, DecisionBegun DEF Sound, TypeOK
<1>4. Sane(op[t])'
  BY <1>3, DecisionBegun DEF Sane, InTheMiddle
<1> QED BY <1>1, <1>2, <1>4, DecisionBegun, QuietStep DEF Sound, TypeOK

\* A modification begins with a row that waits for a decision.
LEMMA ModificationBegun == ASSUME Sound, NEW t \in Threads, BeginModification(t)
                           PROVE  /\ Count /\ Moves(t) /\ ops' \in Nat /\ overlapped' \in BOOLEAN
                                  /\ op'[t].pc \in {"mark", "find"} /\ op'[t].todo # <<>>
                                  /\ \A i \in DOMAIN op'[t].todo : op'[t].todo[i].key \in DOMAIN docs
                                  /\ op'[t].row \in DOMAIN rows /\ Pending(op'[t].row)
<1>1. PICK i \in DOMAIN rows, a \in Actions, payload \in BOOLEAN :
         /\ Pending(i)
         /\ Begin(t, [IdleOp EXCEPT !.pc = IF a = "FLAG_FOR_CURATION" THEN "mark" ELSE "find",
                                    !.todo = <<[rows[i].revision EXCEPT !.action = a]>>,
                                    !.row = i, !.decision = "modified", !.payload = payload])
  BY DEF BeginModification, Decidable
<1> DEFINE r == [rows[i].revision EXCEPT !.action = a]
           todo == <<r>>
           o == [IdleOp EXCEPT !.pc = IF a = "FLAG_FOR_CURATION" THEN "mark" ELSE "find",
                               !.todo = todo, !.row = i, !.decision = "modified", !.payload = payload]
<1>2. i \in Nat /\ rows[i] \in Row
  BY DEF Sound, TypeOK
<1>3. r \in Revision /\ r.key = rows[i].revision.key
  BY <1>2 DEF Row, Revision
<1>4. r.key \in DOMAIN docs
  BY <1>3 DEF Sound, RowsKnown
<1>5. Begin(t, o)
  BY <1>1
<1> HIDE DEF r
<1>6. todo \in Seq(Revision) /\ todo # <<>> /\ DOMAIN todo = {1} /\ todo[1] = r
  BY <1>3
<1> HIDE DEF todo
<1>7. o \in Op /\ o.pc \in {"mark", "find"} /\ o.todo = todo /\ o.row = i
  BY <1>2, <1>6, IdleIsOp DEF Op, Decisions
<1> HIDE DEF o
<1>8. Count /\ Moves(t) /\ op'[t] = o /\ ops' \in Nat /\ overlapped' \in BOOLEAN
  BY <1>5, <1>7, Began
<1> QED BY <1>1, <1>4, <1>6, <1>7, <1>8

\* A modification begins.
LEMMA BeginModificationSound == ASSUME Sound, NEW t \in Threads, BeginModification(t) PROVE Sound'
<1>1. docs' = docs /\ rows' = rows /\ effects' = effects /\ kept' = kept /\ aborts' = aborts
  BY DEF BeginModification
<1>2. Grows
  BY <1>1 DEF Grows, Sound, TypeOK
<1>3. op'[t].row # 0 /\ op'[t].row \in 0 .. Len(rows')
  BY <1>1, ModificationBegun DEF Sound, TypeOK
<1>4. Sane(op[t])'
  BY <1>1, <1>3, ModificationBegun DEF Sane
<1> QED BY <1>1, <1>2, <1>4, ModificationBegun, QuietStep DEF Sound, TypeOK

\* The decision's row is read with its log.
LEMMA Loaded == ASSUME Sound, NEW t \in Threads, LoadRow(t)
                PROVE  /\ Moves(t) /\ op'[t].pc = "stamp" /\ op'[t].todo = op[t].todo /\ op'[t].row = op[t].row
                       /\ op'[t].log = rows[op[t].row].log /\ op[t].row \in DOMAIN rows
<1>1. op[t].pc = "mark" /\ op[t] \in Op /\ op \in [Threads -> Op] /\ Sane(op[t]) /\ rows \in Seq(Row)
  BY DEF Sound, TypeOK, LoadRow
<1>2. op[t].row \in DOMAIN rows
  BY <1>1 DEF Sane
<1>3. rows[op[t].row] \in Row
  BY <1>1, <1>2
<1>4. rows[op[t].row].log \in Nat
  BY <1>3 DEF Row
<1> DEFINE o == [op[t] EXCEPT !.pc = "stamp", !.log = rows[op[t].row].log]
<1>5. o \in Op /\ o.pc = "stamp" /\ o.todo = op[t].todo /\ o.row = op[t].row /\ o.log = rows[op[t].row].log
  BY <1>1, <1>4 DEF Op
<1>6. op' = [op EXCEPT ![t] = o]
  BY <1>1 DEF LoadRow
<1> HIDE DEF o
<1> QED BY <1>1, <1>2, <1>5, <1>6 DEF Moves

\* The row has been read.
LEMMA LoadRowSound == ASSUME Sound, NEW t \in Threads, LoadRow(t) PROVE Sound'
<1>1. /\ docs' = docs /\ rows' = rows /\ effects' = effects /\ kept' = kept
      /\ aborts' = aborts /\ ops' = ops /\ overlapped' = overlapped
  BY DEF LoadRow, counters
<1>2. Grows
  BY <1>1 DEF Grows, Sound, TypeOK
<1>3. Sane(op[t]) /\ op[t].pc = "mark"
  BY DEF Sound, LoadRow
<1>4. Sane(op[t])'
  BY <1>1, <1>3, Loaded DEF Sane, InTheMiddle
<1> QED BY <1>1, <1>2, <1>4, Loaded, QuietStep DEF Sound, TypeOK

\* The row that a decision is written to, and the thread that wrote it.
LEMMA Stamped == ASSUME Sound, NEW t \in Threads, Stamp(t)
                 PROVE  /\ op[t].row \in DOMAIN rows /\ rows' \in Seq(Row) /\ DOMAIN rows' = DOMAIN rows /\ Len(rows') = Len(rows)
                        /\ \A i \in DOMAIN rows : rows'[i].revision = rows[i].revision /\ (i # op[t].row => rows'[i] = rows[i])
                        /\ rows'[op[t].row].status \in Decisions /\ rows'[op[t].row].log = op[t].log + 1
                        /\ rows'[op[t].row].decisions = rows[op[t].row].decisions + 1
                        /\ Moves(t) /\ op'[t] = IdleOp
<1>1. op[t].pc = "stamp" /\ op[t] \in Op /\ op \in [Threads -> Op] /\ Sane(op[t]) /\ rows \in Seq(Row)
  BY DEF Sound, TypeOK, Stamp
<1>2. op[t].row \in DOMAIN rows
  BY <1>1 DEF Sane
<1>3. rows[op[t].row] \in Row /\ op[t].log \in Nat /\ op[t].decision \in Decisions
  BY <1>1, <1>2 DEF Op
<1>a. PICK w \in Row, d \in Decisions, l \in Nat : w = rows[op[t].row] /\ d = op[t].decision /\ l = op[t].log
  BY <1>3
<1> DEFINE row == [w EXCEPT !.status = d, !.log = l + 1, !.decisions = @ + 1]
<1>4. /\ row \in Row /\ row.revision = w.revision /\ row.status \in Decisions
      /\ row.log = l + 1 /\ row.decisions = w.decisions + 1
  <2>1. d \in Statuses /\ l + 1 \in Nat /\ w.decisions + 1 \in Nat
    BY DEF Statuses, Row
  <2> QED BY <2>1 DEF Row
<1>5. rows' = [rows EXCEPT ![op[t].row] = row]
  BY <1>1, <1>2, <1>a DEF Stamp
<1>6. Moves(t) /\ op'[t] = IdleOp
  BY <1>1, IdleIsOp DEF Stamp, Moves
<1> HIDE DEF row
<1> QED BY <1>1, <1>2, <1>a, <1>4, <1>5, <1>6

\* The decision has been written.
LEMMA StampSound == ASSUME Sound, NEW t \in Threads, Stamp(t) PROVE Sound'
<1>1. docs' = docs /\ effects' = effects /\ kept' = kept /\ aborts' = aborts /\ ops' = ops /\ overlapped' = overlapped
  BY DEF Stamp, counters
<1>2. Grows
  BY <1>1, Stamped DEF Grows, Sound, TypeOK
<1>3. TypeOK'
  BY <1>1, Stamped DEF TypeOK, Moves, Sound
<1>4. 0 \in 0 .. Len(rows')
  BY Stamped
<1>5. Sane(op[t])'
  BY <1>4, Stamped, IdleIsOp DEF Sane, InTheMiddle
<1>6. RowsKnown'
  BY <1>1, Stamped DEF RowsKnown, Sound
<1>7. AppliedRowsAreTrue' /\ EffectsUnflagged'
  <2> SUFFICES ASSUME NEW i \in DOMAIN rows', rows'[i].status = "applied" PROVE Done(rows'[i].revision)
    BY <1>1 DEF AppliedRowsAreTrue, EffectsUnflagged, Sound, Done, Made
  <2>1. i \in DOMAIN rows /\ rows'[i] = rows[i]
    BY Stamped DEF Decisions
  <2> QED BY <2>1 DEF AppliedRowsAreTrue, Sound, Done, Made
<1> QED BY <1>2, <1>3, <1>5, <1>6, <1>7, Stamped, SoundStep

\* A curator approves: a new version, and the old one keeps its status.
LEMMA ApproveSound == ASSUME Sound, NEW t \in Threads, Approve(t) PROVE Sound'
<1>1. rows' = rows /\ effects' = effects /\ op' = op /\ aborts' = aborts /\ ops' = ops + 1 /\ overlapped' \in BOOLEAN
  BY DEF Approve, Count, Sound, TypeOK
<1>2. PICK k \in Live, still \in BOOLEAN :
         docs' = Successor(k, docs[k].evidence, "approved", still) /\ Expire(k, still)
  BY DEF Approve
<1>3. docs \in Seq(Version) /\ k \in DOMAIN docs /\ docs[k] \in Version
  BY DEF Live, Sound, TypeOK
<1>4. docs[k].evidence \in [Documents -> Nat]
  BY <1>3 DEF Version
<1>5. /\ docs' \in Seq(Version) /\ DOMAIN docs \subseteq DOMAIN docs'
      /\ \A j \in DOMAIN docs : docs'[j].status = docs[j].status
  BY <1>2, <1>3, <1>4, SuccessorKeeps
<1>k. kept \subseteq kept' /\ kept' \subseteq Nat
  <2>1. k \in Nat /\ kept \subseteq Nat
    BY <1>3 DEF Sound, TypeOK
  <2> QED BY <1>2, <2>1 DEF Expire
<1>6. Grows /\ Moves(t)
  BY <1>1, <1>5, <1>k DEF Grows, Moves, Sound, TypeOK
<1>7. op[t] \in Op /\ Sane(op[t])
  BY DEF Sound, TypeOK
<1>8. op[t].pc \in {"find", "read", "write"} => Head(op[t].todo).key \in DOMAIN docs
  BY InHandKnown DEF InTheMiddle
<1>9. Sane(op[t])'
  BY <1>1, <1>5, <1>7, <1>8, <1>k DEF Sane, Protected, Done, Made
<1> QED BY <1>1, <1>5, <1>6, <1>9, QuietStep DEF Sound, TypeOK

\* An operation dies.
LEMMA AbortSound == ASSUME Sound, NEW t \in Threads, Abort(t) PROVE Sound'
<1>1. /\ docs' = docs /\ rows' = rows /\ effects' = effects /\ kept' = kept
      /\ aborts' = aborts + 1 /\ ops' = ops /\ overlapped' = overlapped
  BY DEF Abort
<1>2. Moves(t) /\ op'[t] = IdleOp
  BY IdleIsOp DEF Abort, Moves, Sound, TypeOK
<1>3. Grows /\ 0 \in 0 .. Len(rows')
  BY <1>1 DEF Grows, Sound, TypeOK
<1>4. Sane(op[t])'
  BY <1>2, <1>3, IdleIsOp DEF Sane, InTheMiddle
<1> QED BY <1>1, <1>2, <1>3, <1>4, QuietStep DEF Sound, TypeOK

\* The first part of the invariant is inductive.
LEMMA SoundSteps == ASSUME Sound, [Next]_vars PROVE Sound'
<1>1. CASE Next
  BY <1>1, BeginRunSound, GuardSound, FindPriorSound, ReadCurrentSound, WriteSound, RecordSound, BeginDecisionSound,
     BeginModificationSound, LoadRowSound, StampSound, ApproveSound, AbortSound DEF Next
<1>2. CASE UNCHANGED vars
  <2>1. TypeOK' /\ RowsKnown' /\ AppliedRowsAreTrue' /\ EffectsUnflagged'
    BY <1>2 DEF Sound, vars, TypeOK, RowsKnown, AppliedRowsAreTrue, EffectsUnflagged
  <2>2. \A t \in Threads : Sane(op[t])'
    BY <1>2 DEF Sound, vars, Sane, Done, Made, Protected
  <2> QED BY <2>1, <2>2 DEF Sound
<1> QED BY <1>1, <1>2

-----------------------------------------------------------------------------
(* While nothing has overlapped.                                            *)

\* What is being made or asked has no row, what is decided on waits, and the
\* decision is written over the log that was read.
Attentive(t) ==
    LET o == op[t] IN
    /\ o.pc \in {"read", "write"} \/ (o.pc = "record" /\ Flagged(InHand(t))) => ~Prior(InHand(t))
    /\ o.row # 0 => Pending(o.row)
    /\ o.pc = "stamp" => o.log = rows[o.row].log

OthersRest(t) == \A s \in Threads \ {t} : op[s].pc = "idle"

\* OneQuestion, and of a row that waits that nothing has been decided.
QuestionsAsked ==
    /\ \A i, j \in DOMAIN rows : Pending(i) /\ Pending(j) /\ rows[i].revision = rows[j].revision => i = j
    /\ \A i \in DOMAIN rows : rows[i].decisions = rows[i].log /\ rows[i].log <= 1 /\ (Pending(i) => rows[i].log = 0)

AskedInv ==
    /\ Sound
    /\ ~overlapped => /\ \A t \in Threads : Attentive(t) /\ (op[t].pc # "idle" => OthersRest(t))
                      /\ QuestionsAsked

\* Who begins while nothing has overlapped is alone.
LEMMA FirstOfAll == ASSUME Count, ~overlapped' PROVE ~overlapped /\ \A s \in Threads : op[s].pc = "idle"
BY DEF Count

\* A thread at rest attends to nothing.
LEMMA AtRest == ASSUME Sound, NEW t \in Threads, op[t].pc = "idle" PROVE Attentive(t)
BY DEF Sound, Sane, Attentive

\* What is left to show of a step.
LEMMA AskedStep == ASSUME Sound', NEW t \in Threads, OthersRest(t)', Attentive(t)', QuestionsAsked' PROVE AskedInv'
<1>1. ASSUME NEW s \in Threads \ {t} PROVE Attentive(s)' /\ op'[s].pc = "idle"
  <2>1. op'[s].pc = "idle"
    BY DEF OthersRest
  <2>2. Sane(op[s])'
    BY DEF Sound
  <2> QED BY <2>1, <2>2 DEF Sane, Attentive
<1> QED BY <1>1 DEF AskedInv

\* Of one that leaves the rows alone.
LEMMA RowsStay ==
    ASSUME AskedInv, ~overlapped, Sound', rows' = rows, NEW t \in Threads, OthersRest(t)', Attentive(t)'
    PROVE  AskedInv'
<1>1. QuestionsAsked'
  BY DEF AskedInv, QuestionsAsked, Pending
<1> QED BY <1>1, AskedStep

\* The other threads rest, before and after a step.
LEMMA StillRest == ASSUME AskedInv, ~overlapped, NEW t \in Threads, op[t].pc # "idle", Moves(t)
                   PROVE  OthersRest(t) /\ OthersRest(t)'
BY DEF AskedInv, OthersRest, Moves

\* What is settled has only its row to attend to.
LEMMA SettledAttends ==
    ASSUME Sound, Sound', NEW t \in Threads, Attentive(t), Settled(t), op[t].row # 0 => rows'[op[t].row].status = "pending"
    PROVE  Attentive(t)'
<1>1. op[t] \in Op /\ op[t].row \in Nat
  BY DEF Sound, TypeOK, Op
<1>2. op'[t].pc \in {"mark", "guard", "idle"} /\ op'[t].row \in {op[t].row, 0}
  <2>1. CASE op[t].row # 0 /\ op'[t] = [op[t] EXCEPT !.pc = "mark"]
    BY <1>1, <2>1 DEF Op
  <2>2. CASE op[t].row = 0 /\ Len(op[t].todo) > 1 /\ op'[t] = [op[t] EXCEPT !.pc = "guard", !.todo = Tail(@)]
    BY <1>1, <2>2 DEF Op
  <2>3. CASE op'[t] = IdleOp
    BY <2>3, IdleIsOp
  <2> QED BY <2>1, <2>2, <2>3 DEF Settled
<1> QED BY <1>2 DEF Attentive, Pending

\* What begins has nobody beside it.
LEMMA AskedBegins ==
    ASSUME AskedInv, Sound', NEW t \in Threads, ~overlapped',
           BeginRun(t) \/ BeginDecision(t) \/ BeginModification(t) \/ Approve(t)
    PROVE  AskedInv'
<1>1. Sound /\ rows' = rows
  BY DEF AskedInv, BeginRun, BeginDecision, BeginModification, Approve
<1>2. Count /\ Moves(t)
  <2>1. CASE Approve(t)
    BY <1>1, <2>1 DEF Approve, Moves, Sound, TypeOK
  <2> QED BY <1>1, <2>1, RunBegun, DecisionBegun, ModificationBegun
<1>3. ~overlapped /\ \A s \in Threads : op[s].pc = "idle"
  BY <1>2, FirstOfAll
<1>4. OthersRest(t)'
  BY <1>2, <1>3 DEF OthersRest, Moves
<1>5. Attentive(t)'
  <2>1. CASE BeginRun(t)
    BY <1>1, <2>1, RunBegun DEF Attentive
  <2>2. CASE BeginDecision(t)
    BY <1>1, <2>2, DecisionBegun DEF Attentive, Pending
  <2>3. CASE BeginModification(t)
    BY <1>1, <2>3, ModificationBegun DEF Attentive, Pending
  <2>4. CASE Approve(t)
    <3>1. op' = op
      BY <2>4 DEF Approve
    <3>2. Sane(op[t])
      BY <1>1 DEF Sound
    <3> QED BY <1>3, <3>1, <3>2 DEF Sane, Attentive
  <2> QED BY <2>1, <2>2, <2>3, <2>4
<1> QED BY <1>1, <1>3, <1>4, <1>5, RowsStay

\* The steps that read, write to the graph or die leave the rows alone.
LEMMA AskedReads ==
    ASSUME AskedInv, Sound', NEW t \in Threads, ~overlapped',
           Guard(t) \/ FindPrior(t) \/ ReadCurrent(t) \/ Write(t) \/ LoadRow(t) \/ Abort(t)
    PROVE  AskedInv'
<1>1. Sound /\ rows' = rows /\ ~overlapped /\ op[t].pc # "idle" /\ Sane(op[t])
  BY DEF AskedInv, Sound, Guard, FindPrior, ReadCurrent, Write, LoadRow, Abort, counters
<1>2. op[t].row # 0 => rows'[op[t].row].status = "pending"
  BY <1>1 DEF AskedInv, Attentive, Pending
<1>3. Attentive(t)
  BY <1>1 DEF AskedInv
<1>4. CASE Guard(t)
  <2>1. Moves(t) /\ op'[t].pc = "find" /\ op'[t].row = op[t].row
    BY <1>1, <1>4, Guarded
  <2>2. Attentive(t)'
    BY <1>1, <1>3, <2>1 DEF Attentive, Pending
  <2> QED BY <1>1, <2>1, <2>2, StillRest, RowsStay
<1>5. CASE FindPrior(t)
  <2>1. Moves(t)
    BY <1>1, <1>5, Found
  <2>2. CASE Settled(t)
    BY <1>1, <1>2, <1>3, <2>1, <2>2, SettledAttends, StillRest, RowsStay
  <2>3. CASE ~Settled(t)
    <3>1. /\ op'[t].todo = op[t].todo /\ op'[t].row = op[t].row /\ ~Prior(InHand(t))
          /\ op'[t].pc \in {"record", "read", "write"}
      BY <1>1, <1>5, <2>3, Found
    <3>2. Attentive(t)'
      BY <1>1, <1>3, <3>1 DEF Attentive, Pending, Prior, InHand
    <3> QED BY <1>1, <2>1, <3>2, StillRest, RowsStay
  <2> QED BY <2>2, <2>3
<1>6. CASE ReadCurrent(t)
  <2>1. Moves(t) /\ op[t].pc = "read"
    BY <1>1, <1>6, Read DEF ReadCurrent
  <2>2. CASE Settled(t)
    BY <1>1, <1>2, <1>3, <2>1, <2>2, SettledAttends, StillRest, RowsStay
  <2>3. CASE ~Settled(t)
    <3>1. op'[t].todo = op[t].todo /\ op'[t].row = op[t].row /\ op'[t].pc = "write"
      BY <1>1, <1>6, <2>3, Read
    <3>2. Attentive(t)'
      BY <1>1, <1>3, <2>1, <3>1 DEF Attentive, Pending, Prior, InHand
    <3> QED BY <1>1, <2>1, <3>2, StillRest, RowsStay
  <2> QED BY <2>2, <2>3
<1>7. CASE Write(t)
  <2>1. Goto(t, "record") /\ op[t].pc = "write" /\ TypeOK
    BY <1>1, <1>7 DEF Write, Sound
  <2>2. Moves(t) /\ op'[t].pc = "record" /\ op'[t].todo = op[t].todo /\ op'[t].row = op[t].row
    BY <2>1, Gone
  <2>3. ~Flagged(InHand(t))'
    BY <1>1, <2>1, <2>2 DEF Sane, InHand, Flagged
  <2>4. Attentive(t)'
    BY <1>1, <1>3, <2>2, <2>3 DEF Attentive, Pending
  <2> QED BY <1>1, <2>2, <2>4, StillRest, RowsStay
<1>8. CASE LoadRow(t)
  <2>1. Moves(t) /\ op'[t].pc = "stamp" /\ op'[t].row = op[t].row /\ op'[t].log = rows[op[t].row].log
    BY <1>1, <1>8, Loaded
  <2>2. Attentive(t)'
    BY <1>1, <1>3, <2>1 DEF Attentive, Pending
  <2> QED BY <1>1, <2>1, <2>2, StillRest, RowsStay
<1>9. CASE Abort(t)
  <2>1. Moves(t) /\ op'[t] = IdleOp
    BY <1>1, <1>9, IdleIsOp DEF Abort, Moves, Sound, TypeOK
  <2>2. Attentive(t)'
    BY <2>1, IdleIsOp DEF Attentive
  <2> QED BY <1>1, <2>1, <2>2, StillRest, RowsStay
<1> QED BY <1>4, <1>5, <1>6, <1>7, <1>8, <1>9

\* A question is added only where the search found none.
LEMMA AskedRecords == ASSUME AskedInv, Sound', NEW t \in Threads, ~overlapped', Record(t) PROVE AskedInv'
<1> DEFINE r == InHand(t)
           n == Len(rows) + 1
<1>1. Sound /\ ~overlapped /\ op[t].pc = "record" /\ Attentive(t) /\ QuestionsAsked /\ rows \in Seq(Row) /\ TypeOK
  BY DEF AskedInv, Sound, Record, counters, TypeOK
<1>2. op[t].todo # <<>>
  BY <1>1, InHandKnown DEF InTheMiddle
<1>3. Proceed(t) /\ rows' = Append(rows, [revision |-> r, status |-> IF Flagged(r) THEN "pending" ELSE "applied",
                                          log |-> 0, decisions |-> 0])
  BY DEF Record, Flagged
<1>4. Moves(t) /\ Settled(t)
  BY <1>1, <1>2, <1>3, Proceeded
<1>5. /\ DOMAIN rows' = DOMAIN rows \cup {n} /\ n \notin DOMAIN rows /\ \A i \in DOMAIN rows : rows'[i] = rows[i]
      /\ rows'[n].revision = r /\ rows'[n].log = 0 /\ rows'[n].decisions = 0
      /\ (rows'[n].status = "pending" => Flagged(r))
  BY <1>1, <1>3
<1>6. op[t].row # 0 => rows'[op[t].row].status = "pending"
  <2>1. op[t] \in Op /\ Sane(op[t])
    BY <1>1 DEF Sound, TypeOK
  <2>2. op[t].row # 0 => op[t].row \in DOMAIN rows
    BY <1>1, <2>1 DEF Sane, Op
  <2> QED BY <1>1, <1>5, <2>2 DEF Attentive, Pending
<1>7. Attentive(t)'
  BY <1>1, <1>4, <1>6, SettledAttends
<1>8. QuestionsAsked'
  <2>1. \A i \in DOMAIN rows' : rows'[i].decisions = rows'[i].log /\ rows'[i].log <= 1
                                /\ (rows'[i].status = "pending" => rows'[i].log = 0)
    <3> SUFFICES ASSUME NEW i \in DOMAIN rows'
                 PROVE  rows'[i].decisions = rows'[i].log /\ rows'[i].log <= 1
                        /\ (rows'[i].status = "pending" => rows'[i].log = 0)
      OBVIOUS
    <3> HIDE DEF r, n
    <3>1. CASE i = n
      BY <1>5, <3>1
    <3>2. CASE i \in DOMAIN rows
      BY <1>1, <1>5, <3>2 DEF QuestionsAsked, Pending
    <3> QED BY <1>5, <3>1, <3>2
  <2>2. ASSUME NEW i \in DOMAIN rows', NEW j \in DOMAIN rows', rows'[i].status = "pending", rows'[j].status = "pending",
               rows'[i].revision = rows'[j].revision
        PROVE  i = j
    <3> HIDE DEF r, n
    <3>1. CASE Flagged(r)
      <4>1. \A k \in DOMAIN rows : rows[k].revision = r => rows[k].status # "pending"
        BY <1>1, <3>1 DEF Attentive, Prior, r
      <4> QED BY <1>1, <1>5, <2>2, <4>1 DEF QuestionsAsked, Pending
    <3>2. CASE ~Flagged(r)
      BY <1>1, <1>5, <2>2, <3>2 DEF QuestionsAsked, Pending
    <3> QED BY <3>1, <3>2
  <2> HIDE DEF r, n
  <2> QED BY <2>1, <2>2 DEF QuestionsAsked, Pending
<1> QED BY <1>1, <1>4, <1>7, <1>8, StillRest, AskedStep

\* A question is decided with nothing decided before.
LEMMA AskedStamps == ASSUME AskedInv, Sound', NEW t \in Threads, ~overlapped', Stamp(t) PROVE AskedInv'
<1>1. Sound /\ ~overlapped /\ op[t].pc = "stamp" /\ Attentive(t) /\ QuestionsAsked /\ Sane(op[t])
  BY DEF AskedInv, Sound, Stamp, counters
<1> DEFINE i0 == op[t].row
<1>2. Pending(i0) /\ op[t].log = rows[i0].log /\ rows[i0].log = 0 /\ rows[i0].decisions = 0
  BY <1>1, Stamped DEF Attentive, Sane, QuestionsAsked
<1>3. /\ DOMAIN rows' = DOMAIN rows
      /\ \A i \in DOMAIN rows : rows'[i].revision = rows[i].revision /\ (i # i0 => rows'[i] = rows[i])
      /\ rows'[i0].status # "pending" /\ rows'[i0].log = 1 /\ rows'[i0].decisions = 1
      /\ Moves(t) /\ op'[t] = IdleOp
  BY <1>1, <1>2, Stamped DEF Decisions
<1> HIDE DEF i0
<1>4. QuestionsAsked'
  BY <1>1, <1>3 DEF QuestionsAsked, Pending
<1>5. Attentive(t)'
  BY <1>3, IdleIsOp DEF Attentive
<1> QED BY <1>1, <1>3, <1>4, <1>5, StillRest, AskedStep

\* Overlapping is not forgotten.
LEMMA OverlappingStays == ASSUME [Next]_vars, overlapped PROVE overlapped'
BY DEF Next, vars, counters, BeginRun, Guard, FindPrior, ReadCurrent, Write, Record, BeginDecision, BeginModification,
       LoadRow, Stamp, Approve, Abort, Begin, Count

\* The second part is inductive.
LEMMA AskedSteps == ASSUME AskedInv, [Next]_vars PROVE AskedInv'
<1>1. Sound'
  BY SoundSteps DEF AskedInv
<1>2. CASE overlapped'
  BY <1>1, <1>2 DEF AskedInv
<1>3. CASE ~overlapped' /\ Next
  BY <1>1, <1>3, AskedBegins, AskedReads, AskedRecords, AskedStamps DEF Next
<1>4. CASE ~overlapped' /\ UNCHANGED vars
  BY <1>1, <1>4 DEF AskedInv, vars, Attentive, OthersRest, QuestionsAsked, Pending, Prior, InHand, Flagged
<1> QED BY <1>2, <1>3, <1>4

-----------------------------------------------------------------------------
(* And while nothing has died either.                                       *)

AllRecorded == \A j \in DOMAIN effects : Recorded(effects[j])

\* A revision that was made has its row, or a thread is about to write it.
MadeAndRecorded ==
    \A j \in DOMAIN effects :
        Recorded(effects[j]) \/ \E t \in Threads : op[t].pc = "record" /\ InHand(t) = effects[j]

ReplayInv ==
    /\ AskedInv
    /\ ~overlapped /\ aborts = 0 => MadeAndRecorded /\ NothingTwice

\* What is applied stays applied.
LEMMA RecordedStays == ASSUME AskedInv, ~overlapped, NEW t \in Threads, rows' = rows \/ Record(t) \/ Stamp(t), NEW r, Recorded(r)
                       PROVE  \E i \in DOMAIN rows' : rows'[i].revision = r /\ rows'[i].status = "applied"
<1>1. Sound /\ rows \in Seq(Row) /\ Attentive(t)
  BY DEF AskedInv, Sound, TypeOK
<1>2. PICK i \in DOMAIN rows : rows[i].revision = r /\ rows[i].status = "applied"
  BY DEF Recorded
<1>3. CASE rows' = rows
  BY <1>2, <1>3
<1>4. CASE Record(t)
  <2>1. i \in DOMAIN rows' /\ rows'[i] = rows[i]
    BY <1>1, <1>4 DEF Record
  <2> QED BY <1>2, <2>1
<1>5. CASE Stamp(t)
  <2>1. op[t].pc = "stamp" /\ Sane(op[t])
    BY <1>1, <1>5 DEF Stamp, Sound
  <2>2. Pending(op[t].row)
    BY <1>1, <2>1 DEF Attentive, Sane
  <2>3. i # op[t].row
    BY <1>2, <2>2 DEF Pending
  <2>4. i \in DOMAIN rows' /\ rows'[i] = rows[i]
    BY <1>1, <1>5, <2>3, Stamped
  <2> QED BY <1>2, <2>4
<1> QED BY <1>3, <1>4, <1>5

\* Where no thread is about to write a row, all there are are written.
LEMMA NoneInHand == ASSUME MadeAndRecorded, NEW t \in Threads, OthersRest(t), op[t].pc # "record" PROVE AllRecorded
BY DEF MadeAndRecorded, AllRecorded, OthersRest

\* The whole invariant is inductive.
LEMMA ReplaySteps == ASSUME ReplayInv, [Next]_vars PROVE ReplayInv'
<1>1. AskedInv /\ AskedInv'
  BY AskedSteps DEF ReplayInv
<1>2. CASE overlapped' \/ aborts' # 0
  BY <1>1, <1>2 DEF ReplayInv
<1>3. CASE UNCHANGED vars
  BY <1>1, <1>3 DEF ReplayInv, vars, MadeAndRecorded, NothingTwice, Recorded, InHand
<1>4. CASE ~overlapped' /\ aborts' = 0 /\ Next
  <2>1. PICK t \in Threads :
           \/ BeginRun(t) \/ Guard(t)
           \/ FindPrior(t) \/ ReadCurrent(t) \/ Write(t) \/ Record(t)
           \/ BeginDecision(t) \/ BeginModification(t) \/ LoadRow(t) \/ Stamp(t)
           \/ Approve(t) \/ Abort(t)
    BY <1>4 DEF Next
  <2>2. Sound /\ Sound' /\ TypeOK /\ ~overlapped
    BY <1>1, <1>4, OverlappingStays DEF AskedInv, Sound
  <2>3. ~Abort(t)
    BY <1>4, <2>2 DEF Abort, TypeOK
  <2>4. aborts = 0
    BY <1>4, <2>1, <2>3 DEF counters, BeginRun, Guard, FindPrior, ReadCurrent, Write, Record, BeginDecision,
                            BeginModification, LoadRow, Stamp, Approve
  <2>5. MadeAndRecorded /\ NothingTwice /\ Attentive(t)
    BY <1>1, <2>2, <2>4 DEF ReplayInv, AskedInv
  <2>6. OthersRest(t)
    <3>1. CASE op[t].pc # "idle"
      BY <1>1, <2>2, <3>1 DEF AskedInv
    <3>2. CASE op[t].pc = "idle"
      <4>1. BeginRun(t) \/ BeginDecision(t) \/ BeginModification(t) \/ Approve(t)
        BY <2>1, <2>3, <3>2 DEF Guard, FindPrior, ReadCurrent, Write, Record, LoadRow, Stamp
      <4>2. Count
        BY <2>2, <4>1, RunBegun, DecisionBegun, ModificationBegun DEF Approve
      <4> QED BY <1>4, <4>2, FirstOfAll DEF OthersRest
    <3> QED BY <3>1, <3>2
  <2>7. CASE Write(t)
    <3>1. op[t].pc = "write" /\ effects \in Seq(Revision) /\ rows' = rows /\ Goto(t, "record")
      BY <2>2, <2>7 DEF Write, TypeOK
    <3>2. AllRecorded
      BY <2>5, <2>6, <3>1, NoneInHand
    <3>3. ~Prior(InHand(t))
      BY <2>5, <3>1 DEF Attentive
    <3>4. \A j \in DOMAIN effects : effects[j] # InHand(t)
      BY <3>2, <3>3 DEF AllRecorded, Recorded, Prior
    <3>5. \/ effects' = Append(effects, InHand(t)) \/ effects' = effects
      BY <2>2, <2>7, WritesOne DEF WritesTo
    <3>9. CASE effects' = Append(effects, InHand(t))
      <4>1. /\ DOMAIN effects' = DOMAIN effects \cup {Len(effects) + 1} /\ Len(effects) + 1 \notin DOMAIN effects
            /\ effects'[Len(effects) + 1] = InHand(t) /\ \A j \in DOMAIN effects : effects'[j] = effects[j]
        BY <3>1, <3>9
      <4>2. NothingTwice'
        BY <2>5, <3>4, <4>1 DEF NothingTwice
      <4>3. op'[t].pc = "record" /\ InHand(t)' = InHand(t)
        BY <2>2, <3>1, Gone DEF InHand
      <4>4. MadeAndRecorded'
        BY <3>1, <3>2, <4>1, <4>3 DEF MadeAndRecorded, AllRecorded, Recorded
      <4> QED BY <1>1, <4>2, <4>4 DEF ReplayInv
    <3>10. CASE effects' = effects
      <4>1. MadeAndRecorded' /\ NothingTwice'
        BY <2>5, <3>1, <3>2, <3>10 DEF MadeAndRecorded, AllRecorded, Recorded, NothingTwice
      <4> QED BY <1>1, <4>1 DEF ReplayInv
    <3> QED BY <3>5, <3>9, <3>10
  <2>8. CASE Record(t)
    <3>1. effects' = effects /\ op[t].pc = "record" /\ rows \in Seq(Row)
      BY <2>2, <2>8 DEF Record, TypeOK
    <3>2. rows' = Append(rows, [revision |-> InHand(t), status |-> IF Flagged(InHand(t)) THEN "pending" ELSE "applied",
                                log |-> 0, decisions |-> 0])
      BY <2>8 DEF Record, Flagged
    <3>3. ASSUME NEW j \in DOMAIN effects PROVE \E i \in DOMAIN rows' : rows'[i].revision = effects[j] /\ rows'[i].status = "applied"
      <4>1. CASE Recorded(effects[j])
        BY <1>1, <2>2, <2>8, <4>1, RecordedStays
      <4>2. CASE ~Recorded(effects[j])
        <5>1. effects[j] = InHand(t)
          BY <2>5, <2>6, <4>2 DEF MadeAndRecorded, OthersRest
        <5>2. ~Flagged(InHand(t))
          BY <2>2, <5>1 DEF Sound, EffectsUnflagged
        <5>3. Len(rows) + 1 \in DOMAIN rows' /\ rows'[Len(rows) + 1].revision = InHand(t)
              /\ rows'[Len(rows) + 1].status = "applied"
          BY <3>1, <3>2, <5>2
        <5> QED BY <5>1, <5>3
      <4> QED BY <4>1, <4>2
    <3>4. MadeAndRecorded'
      BY <3>1, <3>3 DEF MadeAndRecorded, Recorded
    <3> QED BY <1>1, <2>5, <3>1, <3>4 DEF ReplayInv, NothingTwice
  <2>9. CASE ~Write(t) /\ ~Record(t)
    <3>1. effects' = effects /\ (rows' = rows \/ Stamp(t)) /\ op[t].pc # "record"
      BY <2>1, <2>3, <2>9 DEF BeginRun, Guard, FindPrior, ReadCurrent, BeginDecision, BeginModification, LoadRow, Stamp,
                              Approve, CanBegin, Begin
    <3>2. AllRecorded
      BY <2>5, <2>6, <3>1, NoneInHand
    <3>3. \A j \in DOMAIN effects : \E i \in DOMAIN rows' : rows'[i].revision = effects[j] /\ rows'[i].status = "applied"
      BY <1>1, <2>2, <3>1, <3>2, RecordedStays DEF AllRecorded
    <3>4. MadeAndRecorded'
      BY <3>1, <3>3 DEF MadeAndRecorded, Recorded
    <3> QED BY <1>1, <2>5, <3>1, <3>4 DEF ReplayInv, NothingTwice
  <2> QED BY <2>7, <2>8, <2>9
<1> QED BY <1>2, <1>3, <1>4

-----------------------------------------------------------------------------
(* What holds of every behaviour.                                           *)

\* Initially nothing has been revised or asked.
LEMMA ReplayInit == Init => ReplayInv
<1> USE RevisionBounds
<1> SUFFICES ASSUME Init PROVE ReplayInv
  OBVIOUS
<1>1. PICK status \in [1 .. NumEntities -> {"draft", "approved"}] :
         docs = [k \in 1 .. NumEntities |-> [entity |-> k, status |-> status[k], live |-> TRUE, evidence |-> NoEvidence]]
  BY DEF Init, InitWith
<1>2. \A k \in 1 .. NumEntities :
         [entity |-> k, status |-> status[k], live |-> TRUE, evidence |-> NoEvidence] \in Version
  BY DEF Version, NoEvidence
<1>3. docs \in Seq(Version)
  BY <1>1, <1>2
<1>4. rows = <<>> /\ effects = <<>> /\ op = [t \in Threads |-> IdleOp] /\ overlapped = FALSE /\ kept = {} /\ ops = 0 /\ aborts = 0
  BY DEF Init, InitWith
<1>5. rows \in Seq(Row) /\ effects \in Seq(Revision) /\ DOMAIN rows = {} /\ DOMAIN effects = {} /\ Len(rows) = 0
  BY <1>4
<1>6. TypeOK
  BY <1>3, <1>4, <1>5, IdleIsOp DEF TypeOK
<1>7. \A t \in Threads : op[t] = IdleOp
  BY <1>4
<1>8. \A t \in Threads : Sane(op[t]) /\ Attentive(t)
  BY <1>5, <1>7, IdleIsOp DEF Sane, Attentive, InTheMiddle
<1>9. Sound
  BY <1>5, <1>6, <1>8 DEF Sound, RowsKnown, AppliedRowsAreTrue, EffectsUnflagged
<1>10. AskedInv
  BY <1>5, <1>7, <1>8, <1>9, IdleIsOp DEF AskedInv, QuestionsAsked
<1> QED BY <1>5, <1>10 DEF ReplayInv, MadeAndRecorded, NothingTwice

\* All of it together.
THEOREM RevisionInvariant == Spec => []ReplayInv
BY ReplayInit, ReplaySteps, PTL DEF Spec

\* TypeOK holds whatever overlaps and dies, for any threads, documents and
\* entities.
THEOREM RevisionTypesHold == Spec => []TypeOK
<1>1. ReplayInv => TypeOK
  BY DEF ReplayInv, AskedInv, Sound
<1> QED BY <1>1, RevisionInvariant, PTL

\* As long as operations do not overlap and none dies, whichever expiries fail
\* unnoticed, repeating a run makes no revision twice: supersede looks for the
\* row before it makes a revision.
THEOREM ReplayIsSafe == Spec => []ReplaySafe
<1>1. ReplayInv => ReplaySafe
  BY DEF ReplayInv, ReplaySafe
<1> QED BY <1>1, RevisionInvariant, PTL

\* A row that says "applied" tells of a revision that was made, whatever
\* overlaps and dies, but for the retraction of a version whose expiry has failed
\* unnoticed: supersede writes the row last, after a "RETRACT no-op" too.
THEOREM AppliedRowsStayTrue == Spec => []AppliedRowsAreTrue
<1>1. ReplayInv => AppliedRowsAreTrue
  BY DEF ReplayInv, AskedInv, Sound
<1> QED BY <1>1, RevisionInvariant, PTL

\* As long as operations do not overlap, wherever they die, a document has one
\* question about an entity in the inbox at most and a question is decided once.
THEOREM QuestionsAskedOnce == Spec => []OneQuestion
<1>1. ReplayInv => OneQuestion
  BY DEF ReplayInv, AskedInv, QuestionsAsked, OneQuestion
<1> QED BY <1>1, RevisionInvariant, PTL

\* No run retires a current version that has been approved, whoever approves,
\* decides and revises at the same time: what the guard saw is still so at the
\* write, since an approval makes a new version.
THEOREM ApprovedStay == Spec => PublishedProtected
<1>1. ASSUME Sound, [Next]_vars
      PROVE  [\A t \in Threads : aborts = 0 /\ op[t].row = 0 /\ Write(t) =>
                 \A k \in Live : docs[k].status = "approved" => docs'[k].live]_vars
  <2> SUFFICES ASSUME NEW t \in Threads, aborts = 0, op[t].row = 0, Write(t), NEW k \in Live, docs[k].status = "approved"
               PROVE  docs'[k].live
    OBVIOUS
  <2>1. Sane(op[t]) /\ op[t].pc = "write" /\ op[t].todo # <<>>
    BY <1>1, InHandKnown DEF Sound, Write, InTheMiddle
  <2>2. ~Protected(InHand(t))
    BY <2>1 DEF Sane, InHand
  <2>3. k \in DOMAIN docs /\ docs[k].live
    BY DEF Live
  <2> QED BY <1>1, <2>2, <2>3, Written DEF Protected
<1>2. ReplayInv => Sound
  BY DEF ReplayInv, AskedInv
<1> QED BY <1>1, <1>2, RevisionInvariant, PTL DEF Spec, PublishedProtected

-----------------------------------------------------------------------------
(* The circuit breaker.                                                     *)

\* The calls of the window that l began, and those of the window's length
\* before it.
Current(l) == {j \in DOMAIN called : l.start <= called[j]}
Trailing(l) == {j \in DOMAIN called : called[j] < l.start /\ l.start < called[j] + Window}

BreakerTypes ==
    /\ called \in Seq(Nat) /\ clock \in Nat /\ limiter \in [start : Nat, count : Nat]
    /\ limiter.start <= clock
    /\ \A j \in DOMAIN called : called[j] <= clock

WindowHolds(l) ==
    /\ l.count <= MaxPerWindow
    /\ Cardinality(Current(l)) <= l.count /\ Cardinality(Trailing(l)) <= MaxPerWindow
    /\ \A j \in DOMAIN called : called[j] < l.start + Window

BreakerInv ==
    /\ BreakerTypes
    /\ MaxPerWindow > 0 /\ Window > 0 => WindowHolds(limiter)
    /\ BreakerHolds

\* Every set of calls is finite.
LEMMA CallsCounted ==
    ASSUME called \in Seq(Nat)
    PROVE  \A S \in SUBSET DOMAIN called : IsFiniteSet(S) /\ Cardinality(S) \in Nat
<1>1. Len(called) \in Nat /\ DOMAIN called = 1..Len(called)
  OBVIOUS
<1>2. IsFiniteSet(1..Len(called))
  BY <1>1, FS_Interval
<1> QED BY <1>1, <1>2, FS_Subset, FS_CardinalityType

\* A window that is over leaves the next with an empty count and with its own
\* calls behind it, and those of the window before out of reach.
LEMMA RotationHolds ==
    ASSUME BreakerTypes, Window > 0, MaxPerWindow > 0, WindowHolds(limiter)
    PROVE  Rotated \in [start : Nat, count : Nat] /\ Rotated.start <= clock /\ WindowHolds(Rotated)
<1> USE BreakerBounds
<1>1. CASE clock - limiter.start >= Window
  <2>1. Rotated = [start |-> clock, count |-> 0]
    BY <1>1 DEF Rotated
  <2>2. \A j \in DOMAIN called : called[j] \in Nat /\ called[j] < clock
    BY <1>1 DEF BreakerTypes, WindowHolds
  <2>3. Current(Rotated) = {}
    BY <2>1, <2>2 DEF Current, BreakerTypes
  <2>4. Trailing(Rotated) \subseteq Current(limiter) /\ Current(limiter) \subseteq DOMAIN called
    BY <1>1, <2>1, <2>2 DEF Trailing, Current, BreakerTypes
  <2>5. Cardinality(Trailing(Rotated)) <= MaxPerWindow
    <3>1. IsFiniteSet(Current(limiter)) /\ Cardinality(Current(limiter)) \in Nat
      BY <2>4, CallsCounted DEF BreakerTypes
    <3>2. Cardinality(Trailing(Rotated)) <= Cardinality(Current(limiter)) /\ Cardinality(Trailing(Rotated)) \in Nat
      BY <2>4, <3>1, FS_Subset, FS_CardinalityType
    <3> QED BY <3>1, <3>2 DEF WindowHolds, BreakerTypes
  <2>6. \A j \in DOMAIN called : called[j] < Rotated.start + Window
    BY <2>1, <2>2 DEF BreakerTypes
  <2>7. Cardinality(Current(Rotated)) = 0
    BY <2>3, FS_EmptySet
  <2>8. Rotated.start = clock /\ Rotated.count = 0 /\ Rotated \in [start : Nat, count : Nat] /\ clock \in Nat
    BY <2>1 DEF BreakerTypes
  <2> HIDE DEF Rotated
  <2> QED BY <2>5, <2>6, <2>7, <2>8 DEF WindowHolds
<1>2. CASE ~(clock - limiter.start >= Window)
  <2>1. Rotated = limiter
    BY <1>2 DEF Rotated
  <2> QED BY <2>1 DEF BreakerTypes
<1> QED BY <1>1, <1>2

\* One more call, at the clock.
LEMMA CallTypes ==
    ASSUME BreakerTypes, called' = Append(called, clock)
    PROVE  /\ called' \in Seq(Nat)
           /\ DOMAIN called' = DOMAIN called \cup {Len(called) + 1} /\ Len(called) + 1 \notin DOMAIN called
           /\ called'[Len(called) + 1] = clock
           /\ \A j \in DOMAIN called : called'[j] = called[j] /\ called[j] \in Nat
BY DEF BreakerTypes

\* A call that is let through is in the window and counted.
LEMMA CallHolds ==
    ASSUME BreakerTypes, BreakerHolds, NEW l \in [start : Nat, count : Nat], l.start <= clock, WindowHolds(l),
           clock' = clock, MaxPerWindow > 0, Window > 0, l.count < MaxPerWindow, clock < l.start + Window,
           called' = Append(called, clock), limiter' = [l EXCEPT !.count = @ + 1]
    PROVE  BreakerInv'
<1> USE BreakerBounds
<1> DEFINE n == Len(called) + 1
           m == [l EXCEPT !.count = @ + 1]
<1>1. m \in [start : Nat, count : Nat] /\ m.start = l.start /\ m.count = l.count + 1
  OBVIOUS
<1>2. BreakerTypes'
  BY SMTT(40), <1>1, CallTypes DEF BreakerTypes
<1>3. Current(m)' = Current(l) \cup {n} /\ n \notin Current(l) /\ Current(l) \subseteq DOMAIN called
  BY SMTT(40), <1>1, CallTypes DEF Current, BreakerTypes
<1>4. Trailing(m)' = Trailing(l)
  BY SMTT(40), <1>1, CallTypes DEF Trailing, BreakerTypes
<1>5. Cardinality(Current(m)') <= m.count
  <2>1. IsFiniteSet(Current(l)) /\ Cardinality(Current(l)) \in Nat
    BY <1>3, CallsCounted DEF BreakerTypes
  <2>2. Cardinality(Current(m)') = Cardinality(Current(l)) + 1
    BY <1>3, <2>1, FS_AddElement
  <2> QED BY <1>1, <2>1, <2>2 DEF WindowHolds
<1>6. WindowHolds(m)'
  <2>1. \A j \in DOMAIN called' : called'[j] < m.start + Window
    BY <1>1, CallTypes DEF WindowHolds, BreakerTypes
  <2> QED BY <1>1, <1>4, <1>5, <2>1 DEF WindowHolds
<1>7. BreakerHolds'
  <2> SUFFICES ASSUME NEW i \in DOMAIN called'
               PROVE  Cardinality({j \in DOMAIN called' : called'[j] \in called'[i] .. called'[i] + Window - 1})
                          <= 2 * MaxPerWindow
    BY DEF BreakerHolds
  <2> DEFINE S == {j \in DOMAIN called' : called'[j] \in called'[i] .. called'[i] + Window - 1}
  <2>1. called'[i] \in Nat /\ clock \in Nat /\ (i \in DOMAIN called \/ called'[i] = clock)
    BY CallTypes DEF BreakerTypes
  <2>2. ASSUME clock >= called'[i] + Window PROVE Cardinality(S) <= 2 * MaxPerWindow
    <3>1. i \in DOMAIN called
      BY <2>1, <2>2, CallTypes
    <3>2. called'[i] = called[i] /\ called[i] \in Nat
      BY <3>1, CallTypes
    <3>3. ~(clock \in called[i] .. called[i] + Window - 1)
      BY <2>1, <2>2, <3>2
    <3>4. S = {j \in DOMAIN called : called[j] \in called[i] .. called[i] + Window - 1}
      BY <3>2, <3>3, CallTypes
    <3>5. Cardinality({j \in DOMAIN called : called[j] \in called[i] .. called[i] + Window - 1}) <= 2 * MaxPerWindow
      BY <3>1 DEF BreakerHolds
    <3> HIDE DEF S
    <3> QED BY <3>4, <3>5
  <2>3. ASSUME clock < called'[i] + Window PROVE Cardinality(S) <= 2 * MaxPerWindow
    <3>1. S \subseteq Trailing(m)' \cup Current(m)'
      <4>1. SUFFICES ASSUME NEW j \in S PROVE j \in Trailing(m)' \cup Current(m)'
        OBVIOUS
      <4>a. j \in DOMAIN called' /\ called'[j] \in called'[i] .. called'[i] + Window - 1
        OBVIOUS
      <4> HIDE DEF S
      <4>2. j \in DOMAIN called' /\ called'[j] \in Nat /\ called'[j] >= called'[i]
        <5>1. called'[i] \in Int /\ called'[i] + Window - 1 \in Int
          BY <2>1
        <5>2. called'[j] \in Int /\ called'[i] <= called'[j]
          BY SMTT(40), <4>a, <5>1
        <5>3. \A x \in Int : \A y \in Nat : y <= x => x \in Nat /\ x >= y
          OBVIOUS
        <5>4. called'[i] \in Nat /\ j \in DOMAIN called'
          BY <2>1, <4>a
        <5> QED BY <5>2, <5>3, <5>4, Zenon
      <4>3. m.start \in Nat /\ m.start <= clock
        BY <1>1
      <4> HIDE DEF m
      <4>4. m.start < called'[j] + Window
        BY SMTT(40), <2>1, <2>3, <4>2, <4>3
      <4>5. CASE called'[j] < m.start
        BY <4>2, <4>4, <4>5 DEF Trailing
      <4>6. CASE m.start <= called'[j]
        BY <4>2, <4>6 DEF Current
      <4> QED BY <4>2, <4>3, <4>5, <4>6
    <3>2. IsFiniteSet(Trailing(m)') /\ IsFiniteSet(Current(m)')
      <4>1. Trailing(m)' \subseteq DOMAIN called' /\ Current(m)' \subseteq DOMAIN called'
        BY DEF Trailing, Current
      <4>2. IsFiniteSet(DOMAIN called)
        BY CallsCounted DEF BreakerTypes
      <4>3. IsFiniteSet(DOMAIN called')
        BY <4>2, CallTypes, FS_AddElement
      <4> QED BY <4>1, <4>3, FS_Subset
    <3>3. /\ IsFiniteSet(Trailing(m)' \cup Current(m)')
          /\ Cardinality(Trailing(m)' \cup Current(m)')
                 = Cardinality(Trailing(m)') + Cardinality(Current(m)') - Cardinality(Trailing(m)' \cap Current(m)')
      BY <3>2, FS_Union
    <3>4. /\ Cardinality(Trailing(m)') \in Nat /\ Cardinality(Current(m)') \in Nat
          /\ Cardinality(Trailing(m)' \cap Current(m)') \in Nat
          /\ Cardinality(Trailing(m)' \cup Current(m)') \in Nat
      BY <3>2, <3>3, FS_CardinalityType, FS_Intersection
    <3>5. Cardinality(S) <= Cardinality(Trailing(m)' \cup Current(m)') /\ Cardinality(S) \in Nat
      BY <3>1, <3>3, FS_Subset, FS_CardinalityType
    <3>6. Cardinality(Trailing(m)') <= MaxPerWindow /\ Cardinality(Current(m)') <= MaxPerWindow
      BY <1>1, <1>4, <1>5, <3>4 DEF WindowHolds
    <3> HIDE DEF S, m
    <3>7. \A a, b, c, u, s \in Nat : a <= MaxPerWindow /\ b <= MaxPerWindow /\ u = a + b - c /\ s <= u => s <= 2 * MaxPerWindow
      BY SMTT(40)
    <3> DEFINE T == Trailing(m)'  C == Current(m)'
    <3>8. /\ Cardinality(T) \in Nat /\ Cardinality(C) \in Nat /\ Cardinality(T \cap C) \in Nat /\ Cardinality(T \cup C) \in Nat
          /\ Cardinality(S) \in Nat /\ Cardinality(T) <= MaxPerWindow /\ Cardinality(C) <= MaxPerWindow
          /\ Cardinality(T \cup C) = Cardinality(T) + Cardinality(C) - Cardinality(T \cap C)
          /\ Cardinality(S) <= Cardinality(T \cup C)
      BY <3>3, <3>4, <3>5, <3>6
    <3> HIDE DEF T, C
    <3> QED BY <3>7, <3>8
  <2>4. Cardinality(S) <= 2 * MaxPerWindow
    <3> HIDE DEF S
    <3> QED BY SMTT(40), <2>1, <2>2, <2>3
  <2> QED BY <2>4
<1> QED BY <1>2, <1>6, <1>7 DEF BreakerInv

\* With windows of no length every call begins one.
LEMMA CallHoldsAlways ==
    ASSUME BreakerInv, clock' = clock, called' = Append(called, clock), limiter' \in [start : Nat, count : Nat],
           limiter'.start <= clock, MaxPerWindow = 0 \/ Window = 0
    PROVE  BreakerInv'
<1> USE BreakerBounds
<1>1. BreakerTypes'
  BY CallTypes DEF BreakerInv, BreakerTypes
<1>2. CASE MaxPerWindow = 0
  BY <1>1, <1>2 DEF BreakerInv, BreakerHolds
<1>3. CASE Window = 0
  <2>1. \A i \in DOMAIN called' : {j \in DOMAIN called' : called'[j] \in called'[i] .. called'[i] + Window - 1} = {}
    BY <1>1, <1>3 DEF BreakerTypes
  <2>2. \A i \in DOMAIN called' :
           Cardinality({j \in DOMAIN called' : called'[j] \in called'[i] .. called'[i] + Window - 1}) = 0
    BY <2>1, FS_EmptySet
  <2>3. 0 <= 2 * MaxPerWindow
    OBVIOUS
  <2>4. BreakerHolds'
    BY <2>2, <2>3 DEF BreakerHolds
  <2> QED BY <1>1, <1>3, <2>4 DEF BreakerInv
<1> QED BY <1>2, <1>3

\* Time that passes and a window that begins let nothing through.
LEMMA BreakerKept ==
    ASSUME BreakerInv, called' = called, clock' \in Nat, clock <= clock', limiter' \in [start : Nat, count : Nat],
           limiter'.start <= clock', MaxPerWindow > 0 /\ Window > 0 => WindowHolds(limiter')
    PROVE  BreakerInv'
<1>1. BreakerTypes'
  BY DEF BreakerInv, BreakerTypes
<1>2. BreakerHolds'
  BY DEF BreakerInv, BreakerHolds
<1>3. MaxPerWindow > 0 /\ Window > 0 => WindowHolds(limiter)'
  BY DEF WindowHolds, Current, Trailing
<1> QED BY <1>1, <1>2, <1>3 DEF BreakerInv

\* check_and_increment keeps the invariant: what it lets through is counted,
LEMMA PassHolds == ASSUME BreakerInv, ~Tripped, Pass, clock' = clock PROVE BreakerInv'
<1> USE BreakerBounds
<1>1. BreakerTypes /\ BreakerHolds /\ (MaxPerWindow > 0 /\ Window > 0 => WindowHolds(limiter))
  BY DEF BreakerInv
<1>2. Rotated \in [start : Nat, count : Nat] /\ Rotated.start <= clock /\ clock \in Nat
      /\ (Window > 0 => clock < Rotated.start + Window)
  BY <1>1 DEF BreakerTypes, Rotated
<1>3. MaxPerWindow > 0 /\ Window > 0 => WindowHolds(Rotated)
  BY <1>1, RotationHolds
<1>4. called' = Append(called, clock)
  BY DEF Pass
<1>5. CASE MaxPerWindow > 0 /\ Window > 0
  <2>1. limiter' = [Rotated EXCEPT !.count = @ + 1] /\ ~(Rotated.count >= MaxPerWindow)
    BY <1>5 DEF Pass, Tripped
  <2>2. PICK l \in [start : Nat, count : Nat] : l = Rotated
    BY <1>2
  <2> QED BY <1>1, <1>2, <1>3, <1>4, <1>5, <2>1, <2>2, CallHolds
<1>6. CASE MaxPerWindow > 0 /\ Window = 0
  <2>1. limiter' = [Rotated EXCEPT !.count = @ + 1]
    BY <1>6 DEF Pass
  <2>2. limiter' \in [start : Nat, count : Nat] /\ limiter'.start <= clock
    BY <1>2, <2>1
  <2> QED BY <1>4, <1>6, <2>2, CallHoldsAlways
<1>7. CASE MaxPerWindow = 0
  <2>1. limiter' = limiter
    BY <1>7 DEF Pass
  <2> QED BY <1>1, <1>4, <1>7, <2>1, CallHoldsAlways DEF BreakerTypes
<1> QED BY <1>5, <1>6, <1>7

\* and what it flags is not.
LEMMA LetThroughHolds == ASSUME BreakerInv, NEW t \in Threads, LetThrough(t) PROVE BreakerInv'
<1>1. clock' = clock
  BY DEF LetThrough
<1>2. CASE ~Tripped
  BY <1>1, <1>2, PassHolds DEF LetThrough
<1>3. CASE Tripped
  <2>1. limiter' = Rotated /\ called' = called
    BY <1>3 DEF LetThrough
  <2>2. BreakerTypes /\ (MaxPerWindow > 0 /\ Window > 0 => WindowHolds(limiter))
    BY DEF BreakerInv
  <2>3. Rotated \in [start : Nat, count : Nat] /\ Rotated.start <= clock /\ clock \in Nat
    BY <2>2 DEF BreakerTypes, Rotated
  <2>4. MaxPerWindow > 0 /\ Window > 0 => WindowHolds(Rotated)
    BY <2>2, RotationHolds
  <2> QED BY <1>1, <2>1, <2>3, <2>4, BreakerKept
<1> QED BY <1>2, <1>3

\* So does every step of the agent.
LEMMA BreakerSteps == BreakerInv /\ [AgentNext]_<<vars, agentVars>> => BreakerInv'
<1> SUFFICES ASSUME BreakerInv, [AgentNext]_<<vars, agentVars>> PROVE BreakerInv'
  OBVIOUS
<1>1. clock \in Nat /\ clock <= clock /\ limiter \in [start : Nat, count : Nat] /\ limiter.start <= clock
      /\ (MaxPerWindow > 0 /\ Window > 0 => WindowHolds(limiter))
  BY DEF BreakerInv, BreakerTypes
<1>2. CASE limiter' = limiter /\ clock' = clock /\ called' = called
  BY <1>1, <1>2, BreakerKept
<1>3. CASE Tick
  <2>1. limiter' = limiter /\ clock' = clock + 1 /\ called' = called
    BY <1>3 DEF Tick
  <2> QED BY <1>1, <2>1, BreakerKept
<1>4. ASSUME NEW t \in Threads,
             BeginNode(t) \/ Answer(t) \/ BatchAnswered(t) \/ Superseding(t) \/ AgentDies(t)
      PROVE  limiter' = limiter /\ clock' = clock /\ called' = called
  BY <1>4 DEF BeginNode, Answer, BatchAnswered, HandOver, Superseding, AgentDies, agentVars
<1>5. CASE UNCHANGED <<vars, agentVars>>
  BY <1>2, <1>5 DEF agentVars
<1>6. ASSUME NEW t \in Threads, NoClient(t) PROVE BreakerInv'
  BY <1>6, PassHolds DEF NoClient, HandOver
<1> QED BY <1>2, <1>3, <1>4, <1>5, <1>6, LetThroughHolds DEF AgentNext

\* However revisions and the borders of windows fall, no stretch of time as long
\* as a window sees more than two windows' worth of revisions let through
\* (RevisionRateLimiter.check_and_increment), whatever the limit and the length.
THEOREM BreakerAlwaysHolds == AgentSpec => []BreakerHolds
<1>1. AgentInit => BreakerInv
  <2> SUFFICES ASSUME AgentInit PROVE BreakerInv
    OBVIOUS
  <2>1. called = <<>> /\ clock = 0 /\ limiter = [start |-> 0, count |-> 0]
    BY DEF AgentInit, AgentIdle
  <2>2. Current(limiter) = {} /\ Trailing(limiter) = {}
    BY <2>1 DEF Current, Trailing
  <2>3. Cardinality(Current(limiter)) = 0 /\ Cardinality(Trailing(limiter)) = 0
    BY <2>2, FS_EmptySet
  <2>4. BreakerTypes /\ DOMAIN called = {}
    BY <2>1 DEF BreakerTypes
  <2>5. limiter.count = 0
    BY <2>1
  <2>6. MaxPerWindow > 0 /\ Window > 0 => WindowHolds(limiter)
    BY <2>3, <2>4, <2>5, BreakerBounds DEF WindowHolds
  <2> QED BY <2>4, <2>6 DEF BreakerInv, BreakerHolds
<1>2. BreakerInv => BreakerHolds
  BY DEF BreakerInv
<1> QED BY <1>1, <1>2, BreakerSteps, PTL DEF AgentSpec

-----------------------------------------------------------------------------
(* What the agent computes from the concepts of a document.                 *)

LEMMA Least == ASSUME NEW S \in SUBSET Nat, S # {} PROVE \E n \in S : \A m \in S : n <= m
<1>1. PICK n \in S : \A m \in S : ~(<<m, n>> \in OpToRel(<, Nat))
  BY NatLessThanWellFounded, WFMin
<1>2. \A m \in S : m \in Nat /\ n \in Nat /\ ~(m < n)
  BY <1>1 DEF OpToRel
<1> QED BY <1>2

\* A sequence of sequences, one after the other: the recursive function that
\* does it exists, and all it is made of is in S.
Flattens(f, ss, m) == f = [i \in 1 .. m |-> IF i = 1 THEN ss[i] ELSE f[i - 1] \o ss[i]]

LEMMA FlatDefined == ASSUME NEW ss, NEW n \in Nat, n # 0 PROVE \E f : Flattens(f, ss, n)
<1> DEFINE Undefined == {m \in Nat \ {0} : \A f : ~Flattens(f, ss, m)}
<1>1. Undefined = {}
  <2> SUFFICES ASSUME Undefined # {} PROVE FALSE
    OBVIOUS
  <2>1. PICK m \in Undefined : \A k \in Undefined : m <= k
    BY Least, Undefined \in SUBSET Nat
  <2>2. m # 1
    <3>1. Flattens([i \in 1 .. 1 |-> ss[i]], ss, 1)
      BY DEF Flattens
    <3> QED BY <2>1, <3>1
  <2>3. m - 1 \in Nat \ {0} /\ m - 1 \notin Undefined
    BY <2>1, <2>2
  <2>4. PICK f : Flattens(f, ss, m - 1)
    BY <2>3
  <2> DEFINE g == [i \in 1 .. m |-> IF i = 1 THEN ss[i] ELSE f[i - 1] \o ss[i]]
  <2>5. ASSUME NEW i \in 1 .. m, i # 1 PROVE g[i - 1] = f[i - 1]
    <3>1. i - 1 \in 1 .. m - 1 /\ i - 1 \in 1 .. m
      BY <2>3, <2>5
    <3>2. f[i - 1] = IF i - 1 = 1 THEN ss[i - 1] ELSE f[i - 1 - 1] \o ss[i - 1]
      BY <2>4, <3>1 DEF Flattens
    <3>3. g[i - 1] = IF i - 1 = 1 THEN ss[i - 1] ELSE f[i - 1 - 1] \o ss[i - 1]
      BY <3>1
    <3> QED BY <3>2, <3>3
  <2>6. g = [i \in 1 .. m |-> IF i = 1 THEN ss[i] ELSE g[i - 1] \o ss[i]]
    <3>1. \A i \in 1 .. m : (IF i = 1 THEN ss[i] ELSE f[i - 1] \o ss[i]) = IF i = 1 THEN ss[i] ELSE g[i - 1] \o ss[i]
      BY <2>5
    <3> QED BY <3>1
  <2> HIDE DEF g
  <2>7. Flattens(g, ss, m)
    BY <2>6 DEF Flattens
  <2> QED BY <2>1, <2>7
<1> QED BY <1>1

LEMMA Flat == ASSUME NEW S, NEW ss \in Seq(Seq(S)) PROVE FlattenSeq(ss) \in Seq(S)
<1> DEFINE n == Len(ss)
           f == CHOOSE g : Flattens(g, ss, n)
<1>1. CASE n = 0
  <2>1. ss = <<>>
    BY <1>1
  <2>2. FlattenSeq(ss) = ss
    BY <1>1 DEF FlattenSeq
  <2> QED BY <2>1, <2>2, EmptySeq
<1>2. CASE n # 0
  <2>1. FlattenSeq(ss) = f[n]
    BY <1>2 DEF FlattenSeq, Flattens
  <2>2. Flattens(f, ss, n) /\ n \in Nat
    <3>1. n \in Nat
      OBVIOUS
    <3> HIDE DEF n
    <3>2. \E g : Flattens(g, ss, n)
      BY <1>2, <3>1, FlatDefined
    <3> QED BY <3>1, <3>2
  <2>3. \A i \in 1 .. n : ss[i] \in Seq(S)
    OBVIOUS
  <2> HIDE DEF f, n
  <2> DEFINE Wrong == {i \in 1 .. n : f[i] \notin Seq(S)}
  <2>4. Wrong = {}
    <3> SUFFICES ASSUME Wrong # {} PROVE FALSE
      OBVIOUS
    <3>1. PICK i \in Wrong : \A k \in Wrong : i <= k
      BY Least, Wrong \in SUBSET Nat
    <3>2. f[i] = IF i = 1 THEN ss[i] ELSE f[i - 1] \o ss[i]
      BY <2>2, <3>1 DEF Flattens
    <3>3. i # 1
      BY <2>3, <3>1, <3>2
    <3>4. i - 1 \in 1 .. n /\ i - 1 \notin Wrong
      BY <2>2, <3>1, <3>3
    <3>5. f[i - 1] \in Seq(S) /\ ss[i] \in Seq(S)
      BY <2>3, <3>1, <3>4
    <3>6. f[i - 1] \o ss[i] \in Seq(S)
      BY <3>5, ConcatProperties
    <3> QED BY <3>1, <3>2, <3>3, <3>6
  <2> QED BY <1>2, <2>1, <2>2, <2>4
<1> QED BY <1>1, <1>2

Fraction == Nat \X (Nat \ {0})
SignalSet == [uri : {0, 1}, label : {0, 1}, fuzzy : Fraction, chunks : Fraction]

LEMMA BlendType == ASSUME NEW s \in SignalSet PROVE Blend(s) \in Int
<1>1. PICK a \in Nat, b \in Nat \ {0}, c \in Nat, d \in Nat \ {0} :
          a = s.fuzzy[1] /\ b = s.fuzzy[2] /\ c = s.chunks[1] /\ d = s.chunks[2]
  BY DEF SignalSet, Fraction
<1>2. PICK u \in {0, 1}, l \in {0, 1} : u = s.uri /\ l = s.label
  BY DEF SignalSet
<1>3. PICK bd \in Nat \ {0} : bd = 85 * b * d
  <2>1. b * d \in Nat /\ b * d # 0
    OBVIOUS
  <2> QED BY <2>1
<1>4. PICK sum \in Int : sum = (30 * u + 25 * l) * b * d + 15 * a * d + 15 * c * b
  OBVIOUS
<1>5. Blend(s) = (20000 * sum + bd) \div (2 * bd)
  BY <1>1, <1>2, <1>3, <1>4 DEF Blend
<1> QED BY <1>5

LEMMA SignalsType ==
    ASSUME NEW concept \in Concept, NEW belief \in Belief, IsFiniteSet(concept.chunks), IsFiniteSet(belief.chunks)
    PROVE  Signals(concept, belief) \in SignalSet
<1>1. LabelFuzzy(concept.label, belief.label) \in Fraction
  <2>1. PICK a \in Seq(STRING), b \in Seq(STRING) : a = concept.label /\ b = belief.label
    BY DEF Concept, Belief
  <2>2. (a # <<>> => Len(a) \in Nat \ {0}) /\ (b # <<>> => Len(b) \in Nat \ {0})
    BY EmptySeq
  <2>3. LabelFuzzy(a, b) \in Fraction
    BY <2>2 DEF LabelFuzzy, Fraction
  <2> QED BY <2>1, <2>3
<1>2. Jaccard(concept.chunks, belief.chunks) \in Fraction
  <2>1. PICK a, b : a = concept.chunks /\ b = belief.chunks
    OBVIOUS
  <2>2. IsFiniteSet(a \cup b)
    BY <2>1, FS_Union
  <2>3. IsFiniteSet(a \cap b)
    BY <2>1, FS_Subset, a \cap b \in SUBSET a
  <2>4. Cardinality(a \cap b) \in Nat /\ Cardinality(a \cup b) \in Nat /\ (Cardinality(a \cup b) = 0 => a \cup b = {})
    BY <2>2, <2>3, FS_CardinalityType, FS_EmptySet
  <2>5. Jaccard(a, b) \in Fraction
    BY <2>4 DEF Jaccard, Fraction
  <2> QED BY <2>1, <2>5
<1> QED BY <1>1, <1>2 DEF Signals, SignalSet

\* Of finitely many, one has no other ahead, one has one, and so on: how many are
\* ahead tells any two apart.
LEMMA Ranked ==
    ASSUME NEW S, IsFiniteSet(S),
           \A p \in S : Blend(p.signals) \in Int /\ p.key \in Nat,
           \A p, q \in S : p.key = q.key => p = q,
           NEW n \in 1 .. Cardinality(S)
    PROVE  \E p \in S : Cardinality({q \in S : Ahead(q, p)}) = n - 1
<1> DEFINE Before(p) == {q \in S : Ahead(q, p)}
           rank == [p \in S |-> Cardinality(Before(p))]
           N == Cardinality(S)
<1>1. \A p, q \in S : p = q \/ Ahead(p, q) \/ Ahead(q, p)
  BY DEF Ahead
<1>2. \A p, q, r \in S : Ahead(p, q) /\ Ahead(q, r) => Ahead(p, r)
  BY DEF Ahead
<1>3. \A p \in S : ~Ahead(p, p)
  BY DEF Ahead
<1>4. ASSUME NEW p \in S PROVE IsFiniteSet(Before(p)) /\ Cardinality(Before(p)) \in 0 .. N - 1
  <2>1. Before(p) \in SUBSET S /\ p \notin Before(p)
    BY <1>3
  <2>2. IsFiniteSet(Before(p)) /\ Cardinality(Before(p)) <= N /\ N # Cardinality(Before(p))
    BY <2>1, FS_Subset
  <2>3. Cardinality(Before(p)) \in Nat /\ N \in Nat
    BY <2>2, FS_CardinalityType
  <2> HIDE DEF Before
  <2> QED BY <2>2, <2>3
<1>5. ASSUME NEW p \in S, NEW q \in S, Ahead(p, q) PROVE Cardinality(Before(p)) # Cardinality(Before(q))
  <2>1. Before(p) \in SUBSET Before(q) /\ p \in Before(q) /\ p \notin Before(p)
    BY <1>2, <1>3, <1>5
  <2> QED BY <1>4, <2>1, FS_Subset
<1>6. rank \in [S -> 0 .. N - 1] /\ \A p, q \in S : rank[p] = rank[q] => p = q
  <2> HIDE DEF Before
  <2>1. rank \in [S -> 0 .. N - 1]
    BY <1>4
  <2> QED BY <1>1, <1>5, <2>1
<1> HIDE DEF rank
<1>7. rank \in Injection(S, 0 .. N - 1)
  BY <1>6 DEF Injection, IsInjective
<1>8. N \in Nat /\ IsFiniteSet(0 .. N - 1) /\ Cardinality(0 .. N - 1) = N
  <2>1. N \in Nat
    BY FS_CardinalityType
  <2> HIDE DEF N
  <2>2. 0 \in Int /\ N - 1 \in Int /\ (0 > N - 1 <=> N = 0) /\ N - 1 - 0 + 1 = N
    BY <2>1
  <2>3. IsFiniteSet(0 .. N - 1) /\ Cardinality(0 .. N - 1) = IF 0 > N - 1 THEN 0 ELSE N - 1 - 0 + 1
    BY <2>2, FS_Interval
  <2> QED BY <2>1, <2>2, <2>3
<1>9. rank \in Surjection(S, 0 .. N - 1)
  BY <1>7, <1>8, FS_Injection
<1>10. n - 1 \in 0 .. N - 1
  BY <1>8
<1>11. PICK p \in S : rank[p] = n - 1
  BY <1>9, <1>10 DEF Surjection
<1> QED BY <1>11 DEF rank

\* Touchpoints are classes that there are, of concepts of the document.
EntitiesKnown == \A k \in DOMAIN docs : docs[k].entity \in DOMAIN Beliefs

LEMMA TouchpointsOfType ==
    ASSUME docs \in Seq(Version), EntitiesKnown, NEW concepts \in Extractions, NEW i \in DOMAIN concepts
    PROVE  /\ TouchpointsOf(concepts[i], i) \in Seq(Touching(concepts[i], i))
           /\ \A p \in Touching(concepts[i], i) : p.key \in Live /\ p.concept = i
<1> DEFINE S == Touching(concepts[i], i)
           N == Cardinality(S)
<1>1. concepts[i] \in Concept /\ IsFiniteSet(concepts[i].chunks)
  <2>1. concepts \in Seq(Concept) /\ IsFiniteSet(concepts[i].chunks)
    BY DocumentsAssumption
  <2> QED BY <2>1
<1>2. \A k \in Live : /\ k \in Nat /\ k \in DOMAIN docs
                      /\ Beliefs[docs[k].entity] \in Belief /\ IsFiniteSet(Beliefs[docs[k].entity].chunks)
  BY DocumentsAssumption DEF Live, EntitiesKnown
<1>3. \A k \in Live : Signals(concepts[i], Beliefs[docs[k].entity]) \in SignalSet
  BY <1>1, <1>2, SignalsType
<1>4. \A p \in S : \E k \in Live : p = [key |-> k, concept |-> i, signals |-> Signals(concepts[i], Beliefs[docs[k].entity])]
  BY DEF Touching
<1>5. \A p \in S : /\ p.key \in Live /\ p.concept = i /\ p.signals \in SignalSet
                   /\ p = [key |-> p.key, concept |-> i, signals |-> Signals(concepts[i], Beliefs[docs[p.key].entity])]
  BY <1>3, <1>4
<1> HIDE DEF S
<1>6. \A p, q \in S : p.key = q.key => p = q
  BY <1>5
<1>7. \A p \in S : p.key \in Nat /\ p.key \in DOMAIN docs /\ Blend(p.signals) \in Int
  BY <1>2, <1>5, BlendType
<1>8. IsFiniteSet(S)
  <2> DEFINE f == [p \in S |-> p.key]
  <2>1. f \in Injection(S, 1 .. Len(docs))
    BY <1>6, <1>7 DEF Injection, IsInjective
  <2>2. IsFiniteSet(1 .. Len(docs))
    BY FS_Interval, Len(docs) \in Int
  <2> QED BY <2>1, <2>2, FS_Injection
<1>9. N \in Nat
  BY <1>8, FS_CardinalityType
<1>10. \A n \in 1 .. N : \E p \in S : Cardinality({q \in S : Ahead(q, p)}) = n - 1
  BY <1>6, <1>7, <1>8, Ranked
<1>11. \A n \in 1 .. N : (CHOOSE p \in S : Cardinality({q \in S : Ahead(q, p)}) = n - 1) \in S
  BY <1>10
<1>12. TouchpointsOf(concepts[i], i) = [n \in 1 .. N |-> CHOOSE p \in S : Cardinality({q \in S : Ahead(q, p)}) = n - 1]
  BY DEF TouchpointsOf, S
<1> HIDE DEF N
<1>13. TouchpointsOf(concepts[i], i) \in Seq(S)
  <2> DEFINE nth(n) == CHOOSE p \in S : Cardinality({q \in S : Ahead(q, p)}) = n - 1
  <2>1. \A n \in 1 .. N : nth(n) \in S
    BY <1>11
  <2>2. TouchpointsOf(concepts[i], i) = [n \in 1 .. N |-> nth(n)]
    BY <1>12
  <2> HIDE DEF nth
  <2> QED BY <1>9, <2>1, <2>2
<1> QED BY <1>5, <1>13 DEF S

Points(concepts) == UNION {Touching(concepts[i], i) : i \in DOMAIN concepts}

LEMMA TouchpointsType ==
    ASSUME docs \in Seq(Version), EntitiesKnown, NEW concepts \in Extractions
    PROVE  /\ Touchpoints(concepts) \in Seq(Points(concepts))
           /\ \A p \in Points(concepts) : p.key \in Live /\ p.concept \in DOMAIN concepts
<1>1. concepts \in Seq(Concept)
  BY DocumentsAssumption
<1> DEFINE ss == [i \in DOMAIN concepts |-> IF concepts[i].label = <<>> THEN <<>> ELSE TouchpointsOf(concepts[i], i)]
<1>2. ASSUME NEW i \in DOMAIN concepts PROVE ss[i] \in Seq(Points(concepts))
  <2>1. Touching(concepts[i], i) \subseteq Points(concepts)
    BY DEF Points
  <2>2. TouchpointsOf(concepts[i], i) \in Seq(Points(concepts))
    BY <2>1, TouchpointsOfType, SeqMonotonic
  <2> QED BY <2>2, EmptySeq
<1>3. ss \in Seq(Seq(Points(concepts)))
  <2>1. DOMAIN ss = 1 .. Len(concepts) /\ Len(concepts) \in Nat
    BY <1>1
  <2>2. ss = [i \in 1 .. Len(concepts) |-> ss[i]]
    BY <2>1
  <2>3. \A i \in 1 .. Len(concepts) : ss[i] \in Seq(Points(concepts))
    BY <1>2, <2>1
  <2> HIDE DEF ss
  <2> QED BY <2>1, <2>2, <2>3
<1>4. Touchpoints(concepts) \in Seq(Points(concepts))
  BY <1>3, Flat DEF Touchpoints
<1> QED BY <1>4, TouchpointsOfType DEF Points

\* A rule decides alone only what is there already: the node supplies none of
\* what the other rules look at.
Verdicts == {"CONTRADICTED", "REINFORCED", "REDUNDANT", "UNCERTAIN", "GAP-FILLING", "REFINED"}

LEMMA Classified ==
    ASSUME NEW label, NEW s
    PROVE  /\ Classify(label, s, NoFeatures).verdict \in Verdicts
           /\ Classify(label, s, NoFeatures).action \in {"REVISE", "FLAG_FOR_CURATION"}
<1>1. NoFeatures.contradicted = FALSE /\ NoFeatures.linked = FALSE /\ NoFeatures.ranges = 0 /\ NoFeatures.shared = 0
      /\ NoFeatures.subclasses = FALSE
  BY DEF NoFeatures
<1>2. PICK f : f = NoFeatures
  OBVIOUS
<1> QED BY <1>1, <1>2 DEF Classify, Verdicts

Judgements(concepts) ==
    {m \in [key : Live, concept : DOMAIN concepts, verdict : Verdicts, action : Actions] :
        Contested(m) \/ m.action = "REVISE"}

LEMMA JudgedType ==
    ASSUME docs \in Seq(Version), EntitiesKnown, NEW concepts \in Extractions
    PROVE  Judged(concepts) \in Seq(Judgements(concepts))
<1>1. PICK points \in Seq(Points(concepts)) : points = Touchpoints(concepts)
  BY TouchpointsType
<1> DEFINE Verdict(p) == Classify(concepts[p.concept].label, p.signals, NoFeatures)
           M(n) == [key |-> points[n].key, concept |-> points[n].concept,
                    verdict |-> Verdict(points[n]).verdict, action |-> Verdict(points[n]).action]
<1>2. ASSUME NEW n \in DOMAIN points PROVE M(n) \in Judgements(concepts)
  <2>1. points[n].key \in Live /\ points[n].concept \in DOMAIN concepts
    BY TouchpointsType
  <2>2. Verdict(points[n]).verdict \in Verdicts /\ Verdict(points[n]).action \in {"REVISE", "FLAG_FOR_CURATION"}
    BY Classified
  <2> HIDE DEF Verdict
  <2> QED BY <2>1, <2>2 DEF Judgements, Contested, Actions
<1>3. Judged(concepts) = [n \in 1 .. Len(points) |-> M(n)]
  BY <1>1 DEF Judged
<1> HIDE DEF M
<1>4. \A n \in 1 .. Len(points) : M(n) \in Judgements(concepts)
  BY <1>2
<1> QED BY <1>3, <1>4

LEMMA PartedType ==
    ASSUME NEW J, NEW judged \in Seq(J), NEW contested \in BOOLEAN
    PROVE  Parted(judged, contested) \in Seq({m \in J : Contested(m) = contested})
<1> DEFINE K == {m \in J : Contested(m) = contested}
           ss == [n \in DOMAIN judged |-> IF Contested(judged[n]) = contested THEN <<judged[n]>> ELSE <<>>]
<1>1. ASSUME NEW n \in 1 .. Len(judged) PROVE ss[n] \in Seq(K)
  <2>1. judged[n] \in J
    OBVIOUS
  <2>2. CASE Contested(judged[n]) = contested
    <3>1. judged[n] \in K
      BY <2>1, <2>2
    <3> HIDE DEF K
    <3> QED BY <2>2, <3>1
  <2>3. CASE ~(Contested(judged[n]) = contested)
    <3> HIDE DEF K
    <3> QED BY <2>3
  <2> QED BY <2>2, <2>3
<1>2. ss = [n \in 1 .. Len(judged) |-> ss[n]]
  OBVIOUS
<1> HIDE DEF ss, K
<1>3. ss \in Seq(Seq(K))
  BY <1>1, <1>2
<1> QED BY <1>3, Flat DEF Parted, ss, K

-----------------------------------------------------------------------------
(* Whatever the language model answers.                                     *)

\* An answer that was accepted says so, on quotes from a document.
Backed(r) ==
    \E a \in answered :
        /\ a.doc = r.doc /\ a.key = r.key /\ a.answer.action = r.action /\ a.answer.quotes # {}
        /\ \A q \in a.answer.quotes : \E concepts \in Extractions : \E j \in DOMAIN concepts :
              concepts[j].label = a.label /\ q \in concepts[j].quotes

\* What a run may have on its list: the REVISE of a rule is there too, and raises.
Founded(r) == r.action \in {"REVISE", "FLAG_FOR_CURATION"} \/ Backed(r)

Truthful(t) ==
    /\ op[t].row = 0 /\ op[t].payload = FALSE
    /\ \A i \in DOMAIN op[t].todo : Founded(op[t].todo[i])
    /\ op[t].pc \in {"read", "write"} => Head(op[t].todo).action # "REVISE"

Rule == [key : Nat \ {0}, concept : Nat, verdict : Verdicts, action : Actions]
Ask == [key : Nat \ {0}, concept : Nat, verdict : Verdicts, state : {"waiting", "asking", "done"}, tries : Nat, action : Actions]
Brief == [doc : Documents \cup {NoAgent.doc}, concepts : Extractions \cup {<<>>}, auto : Seq(Rule), asks : Seq(Ask)]

\* What the agent has of a run: nothing is decided that is not founded.
Briefed(t) ==
    /\ op[t].pc = "ask" => agent[t].doc \in Documents
    /\ \A n \in DOMAIN agent[t].auto : agent[t].auto[n].key \in DOMAIN docs /\ agent[t].auto[n].action = "REVISE"
    /\ \A n \in DOMAIN agent[t].asks :
          /\ agent[t].asks[n].key \in DOMAIN docs
          /\ agent[t].concepts \in Extractions /\ agent[t].asks[n].concept \in DOMAIN agent[t].concepts
          /\ Founded([doc |-> agent[t].doc, key |-> agent[t].asks[n].key, action |-> agent[t].asks[n].action])

AgentInv ==
    /\ Sound /\ EntitiesKnown /\ agent \in [Threads -> Brief]
    /\ \A t \in Threads : Truthful(t) /\ Briefed(t)
    /\ GroundedChanges

\* What is founded stays so, since answers are not taken back.
LEMMA FoundedStays == ASSUME answered \subseteq answered', NEW r, Founded(r) PROVE Founded(r)'
BY DEF Founded, Backed

LEMMA OthersTruthful ==
    ASSUME AgentInv, answered \subseteq answered', DOMAIN docs \subseteq DOMAIN docs',
           NEW s \in Threads, op'[s] = op[s], agent'[s] = agent[s]
    PROVE  Truthful(s)' /\ Briefed(s)'
<1>1. Truthful(s) /\ Briefed(s)
  BY DEF AgentInv
<1>2. \A i \in DOMAIN op[s].todo : Founded(op[s].todo[i])'
  BY <1>1, FoundedStays DEF Truthful
<1>3. Truthful(s)'
  BY <1>1, <1>2 DEF Truthful
<1>4. \A n \in DOMAIN agent[s].asks :
          Founded([doc |-> agent[s].doc, key |-> agent[s].asks[n].key, action |-> agent[s].asks[n].action])'
  BY <1>1, FoundedStays DEF Briefed
<1>5. Briefed(s)'
  BY <1>1, <1>4 DEF Briefed
<1> QED BY <1>3, <1>5

LEMMA AgentStep ==
    ASSUME AgentInv, Sound', EntitiesKnown', agent' \in [Threads -> Brief], answered \subseteq answered',
           DOMAIN docs \subseteq DOMAIN docs', NEW t \in Threads,
           \A s \in Threads \ {t} : op'[s] = op[s] /\ agent'[s] = agent[s],
           Truthful(t)', Briefed(t)', GroundedChanges'
    PROVE  AgentInv'
<1>1. ASSUME NEW s \in Threads PROVE Truthful(s)' /\ Briefed(s)'
  <2>1. CASE s = t
    BY <2>1
  <2>2. CASE s # t
    BY <2>2, OthersTruthful
  <2> QED BY <2>1, <2>2
<1> QED BY <1>1 DEF AgentInv

\* The steps of supersede, of a run of the agent.
LEMMA RunStep ==
    ASSUME AgentInv, Sound', EntitiesKnown', UNCHANGED agentVars, DOMAIN docs \subseteq DOMAIN docs', NEW t \in Threads, Moves(t),
           op'[t].pc # "ask", Truthful(t)', GroundedChanges'
    PROVE  AgentInv'
<1>1. agent' = agent /\ answered' = answered /\ agent \in [Threads -> Brief] /\ Briefed(t)
  BY DEF agentVars, AgentInv
<1>2. \A n \in DOMAIN agent[t].asks :
          Founded([doc |-> agent[t].doc, key |-> agent[t].asks[n].key, action |-> agent[t].asks[n].action])'
  BY <1>1, FoundedStays DEF Briefed
<1>3. Briefed(t)'
  BY <1>1, <1>2 DEF Briefed
<1> QED BY <1>1, <1>3, AgentStep DEF Moves

LEMMA EffectsStay == ASSUME AgentInv, effects' = effects, answered \subseteq answered' PROVE GroundedChanges'
<1>1. \A i \in DOMAIN effects : Backed(effects[i])
  BY DEF AgentInv, GroundedChanges, Backed
<1>2. \A i \in DOMAIN effects : Backed(effects[i])'
  BY <1>1 DEF Backed
<1> QED BY <1>2 DEF GroundedChanges, Backed

LEMMA EntitiesStay == ASSUME EntitiesKnown, docs' = docs PROVE EntitiesKnown'
BY DEF EntitiesKnown

\* A list that is gone on with, or that is empty.
LEMMA SettledTruthful ==
    ASSUME AgentInv, answered' = answered, NEW t \in Threads, op[t].todo # <<>>, Settled(t)
    PROVE  Truthful(t)' /\ op'[t].pc # "ask"
<1>1. Truthful(t) /\ op[t] \in Op /\ op[t].row = 0
  BY DEF AgentInv, Sound, TypeOK, Truthful
<1>2. CASE op'[t] = IdleOp
  BY <1>2 DEF IdleOp, Truthful
<1>3. CASE Len(op[t].todo) > 1 /\ op'[t] = [op[t] EXCEPT !.pc = "guard", !.todo = Tail(@)]
  <2>1. PICK q \in Seq(Revision) : q = op[t].todo
    BY <1>1 DEF Op
  <2>2. \A i \in DOMAIN Tail(q) : i + 1 \in DOMAIN q /\ Tail(q)[i] = q[i + 1]
    BY <1>3, <2>1, TailIsRest
  <2>3. op'[t].pc = "guard" /\ op'[t].todo = Tail(q) /\ op'[t].row = 0 /\ op'[t].payload = op[t].payload
    BY <1>1, <1>3, <2>1 DEF Op
  <2>4. \A i \in DOMAIN q : Founded(q[i])'
    BY <1>1, <2>1, FoundedStays DEF Truthful
  <2> QED BY <1>1, <2>2, <2>3, <2>4 DEF Truthful
<1> QED BY <1>1, <1>2, <1>3 DEF Settled

\* One that is gone through with.
LEMMA SameTruthful ==
    ASSUME AgentInv, answered' = answered, NEW t \in Threads, op[t].todo # <<>>, op'[t].todo = op[t].todo,
           op'[t].row = op[t].row, op'[t].payload = op[t].payload,
           op'[t].pc \in {"read", "write"} => InHand(t).action # "REVISE"
    PROVE  Truthful(t)'
<1>1. Truthful(t)
  BY DEF AgentInv
<1>2. \A i \in DOMAIN op[t].todo : Founded(op[t].todo[i])'
  BY <1>1, FoundedStays DEF Truthful
<1> QED BY <1>1, <1>2 DEF Truthful, InHand

LEMMA GuardGrounded == ASSUME AgentInv, NEW t \in Threads, Guard(t), UNCHANGED agentVars PROVE AgentInv'
<1>1. Sound /\ Truthful(t) /\ op[t].pc = "guard"
  BY DEF AgentInv, Guard
<1>2. docs' = docs /\ effects' = effects /\ answered' = answered
  BY DEF Guard, agentVars
<1>3. Moves(t) /\ op'[t].pc = "find" /\ Sound'
  BY <1>1, Guarded, GuardSound
<1>q. PICK q, q2 : q = op[t].todo /\ q2 = op'[t].todo
  OBVIOUS
<1>4. ASSUME NEW i \in DOMAIN q PROVE Founded(q2[i])'
  <2>1. q2[i] = q[i] \/ Flagged(q2[i])
    BY <1>1, <1>q, Guarded
  <2>2. Founded(q[i])'
    BY <1>1, <1>2, <1>q, FoundedStays DEF Truthful
  <2> QED BY <2>1, <2>2 DEF Founded, Flagged
<1>5. Truthful(t)'
  BY <1>1, <1>3, <1>4, <1>q, Guarded DEF Truthful
<1> QED BY <1>2, <1>3, <1>5, EntitiesStay, EffectsStay, RunStep DEF AgentInv

LEMMA FindGrounded == ASSUME AgentInv, NEW t \in Threads, FindPrior(t), UNCHANGED agentVars PROVE AgentInv'
<1>1. Sound /\ Truthful(t) /\ op[t].pc = "find"
  BY DEF AgentInv, FindPrior
<1>2. docs' = docs /\ effects' = effects /\ answered' = answered
  BY DEF FindPrior, agentVars
<1>3. Moves(t) /\ Sound' /\ op[t].todo # <<>>
  BY <1>1, Found, FindPriorSound, InHandKnown DEF InTheMiddle
<1>4. Truthful(t)' /\ op'[t].pc # "ask"
  <2>1. CASE Settled(t)
    BY <1>2, <1>3, <2>1, SettledTruthful
  <2>2. CASE ~Settled(t)
    <3>1. /\ op'[t].todo = op[t].todo /\ op'[t].row = op[t].row /\ op'[t].payload = op[t].payload
          /\ op'[t].pc = "record" \/ (op'[t].pc \in {"read", "write"} /\ Supplied(t))
      BY <1>1, <2>2, Found
    <3>2. op'[t].pc \in {"read", "write"} => InHand(t).action # "REVISE"
      BY <1>1, <3>1 DEF Supplied, NeedsPayload, Truthful
    <3> QED BY <1>2, <1>3, <3>1, <3>2, SameTruthful
  <2> QED BY <2>1, <2>2
<1> QED BY <1>2, <1>3, <1>4, EntitiesStay, EffectsStay, RunStep DEF AgentInv

LEMMA ReadGrounded == ASSUME AgentInv, NEW t \in Threads, ReadCurrent(t), UNCHANGED agentVars PROVE AgentInv'
<1>1. Sound /\ Truthful(t) /\ op[t].pc = "read"
  BY DEF AgentInv, ReadCurrent
<1>2. docs' = docs /\ effects' = effects /\ answered' = answered
  BY DEF ReadCurrent, agentVars
<1>3. Moves(t) /\ Sound' /\ op[t].todo # <<>>
  BY <1>1, Read, ReadCurrentSound, InHandKnown DEF InTheMiddle
<1>4. Truthful(t)' /\ op'[t].pc # "ask"
  <2>1. CASE Settled(t)
    BY <1>2, <1>3, <2>1, SettledTruthful
  <2>2. CASE ~Settled(t)
    <3>1. InHand(t).action # "REVISE"
      BY <1>1 DEF Truthful, InHand
    <3> QED BY <1>1, <1>2, <1>3, <2>2, <3>1, Read, SameTruthful
  <2> QED BY <2>1, <2>2
<1> QED BY <1>2, <1>3, <1>4, EntitiesStay, EffectsStay, RunStep DEF AgentInv

\* A version that takes the place of another is of the same entity.
LEMMA SuccessorKnown ==
    ASSUME docs \in Seq(Version), EntitiesKnown, NEW k \in DOMAIN docs, NEW e, NEW s, NEW still \in BOOLEAN,
           docs' = Successor(k, e, s, still)
    PROVE  EntitiesKnown' /\ DOMAIN docs \subseteq DOMAIN docs'
<1>1. PICK old \in Seq(Version) : /\ old = [docs EXCEPT ![k].live = @ /\ still]
                                  /\ Len(old) = Len(docs) /\ \A j \in DOMAIN docs : old[j].entity = docs[j].entity
  <2>1. docs[k] \in Version
    OBVIOUS
  <2>l. PICK l \in BOOLEAN : l = (docs[k].live /\ still)
    BY <2>1 DEF Version
  <2>2. PICK v \in Version : v = [docs[k] EXCEPT !.live = l] /\ v.entity = docs[k].entity
    <3>1. [docs[k] EXCEPT !.live = l] \in Version /\ [docs[k] EXCEPT !.live = l].entity = docs[k].entity
      BY <2>1 DEF Version
    <3> QED BY <3>1
  <2>3. [docs EXCEPT ![k].live = @ /\ still] = [docs EXCEPT ![k] = v]
    BY <2>1, <2>l, <2>2
  <2>4. PICK old \in Seq(Version) : old = [docs EXCEPT ![k] = v]
    <3>1. k \in 1 .. Len(docs)
      OBVIOUS
    <3>2. [docs EXCEPT ![k] = v] \in Seq(Version)
      BY <3>1, ExceptSeq
    <3> QED BY <3>2
  <2>5. Len(old) = Len(docs) /\ \A j \in DOMAIN docs : old[j].entity = docs[j].entity
    BY <2>2, <2>4
  <2> QED BY <2>3, <2>4, <2>5
<1>2. PICK new : new = [docs[k] EXCEPT !.live = TRUE, !.evidence = e, !.status = s]
  OBVIOUS
<1>3. new \in [entity : Nat \ {0}, status : {s}, live : BOOLEAN, evidence : {e}] /\ new.entity = docs[k].entity
  <2>1. docs[k] \in Version
    OBVIOUS
  <2> QED BY <1>2, <2>1 DEF Version
<1>4. docs' = Append(old, new)
  BY <1>1, <1>2 DEF Successor
<1>5. /\ DOMAIN docs' = 1 .. Len(docs) + 1 /\ docs'[Len(docs) + 1] = new /\ DOMAIN docs = 1 .. Len(docs) /\ Len(docs) \in Nat
      /\ \A j \in 1 .. Len(docs) : docs'[j] = old[j]
  BY <1>1, <1>4
<1>6. \A j \in 1 .. Len(docs) + 1 : j \in 1 .. Len(docs) \/ j = Len(docs) + 1
  BY <1>5
<1>7. ASSUME NEW j \in 1 .. Len(docs) + 1 PROVE docs'[j].entity \in DOMAIN Beliefs
  <2>1. CASE j \in 1 .. Len(docs)
    BY <1>1, <1>5, <2>1 DEF EntitiesKnown
  <2>2. CASE j = Len(docs) + 1
    BY <1>3, <1>5, <2>2 DEF EntitiesKnown
  <2> QED BY <1>6, <2>1, <2>2
<1>8. DOMAIN docs \subseteq DOMAIN docs'
  BY <1>5
<1> QED BY <1>5, <1>7, <1>8 DEF EntitiesKnown

LEMMA WriteKnown == ASSUME Sound, EntitiesKnown, NEW t \in Threads, Write(t) PROVE EntitiesKnown'
<1>1. docs \in Seq(Version) /\ InHand(t).key \in DOMAIN docs /\ InHand(t) \in Revision
      /\ InHand(t).action # "FLAG_FOR_CURATION"
  BY InHandKnown DEF Sound, TypeOK, Write, InTheMiddle, Sane, Flagged
<1>2. PICK k \in DOMAIN docs, a \in Actions : k = InHand(t).key /\ a = InHand(t).action
  BY <1>1 DEF Revision
<1>3. a \in {"REINFORCE", "REVISE", "RETRACT", "GAP_FILL"}
  BY <1>1, <1>2 DEF Revision, Actions
<1>4. docs[k] \in Version
  BY <1>1, <1>2
<1>w. PICK still \in BOOLEAN : WritesTo(t, still)
  BY WritesOne
<1>5. CASE a = "REINFORCE"
  <2>1. PICK e : docs' = [docs EXCEPT ![k].evidence = e]
    BY <1>w, <1>2, <1>5 DEF WritesTo
  <2>2. PICK v : v = [docs[k] EXCEPT !.evidence = e]
    OBVIOUS
  <2>3. v.entity = docs[k].entity
    BY <1>4, <2>2 DEF Version
  <2>4. docs' = [docs EXCEPT ![k] = v]
    BY <2>1, <2>2
  <2> QED BY <1>1, <2>3, <2>4 DEF EntitiesKnown
<1>6. CASE a = "REVISE"
  <2>1. docs' = Successor(k, op[t].seen, docs[k].status, still)
    BY <1>w, <1>2, <1>6 DEF WritesTo
  <2> QED BY <1>1, <2>1, SuccessorKnown
<1>7. CASE a = "RETRACT"
  <2>1. PICK v : v = [docs[k] EXCEPT !.live = @ /\ still]
    OBVIOUS
  <2>2. v.entity = docs[k].entity
    BY <1>4, <2>1 DEF Version
  <2>3. docs' = [docs EXCEPT ![k] = v]
    BY <1>w, <1>2, <1>7, <2>1 DEF WritesTo
  <2> QED BY <1>1, <2>2, <2>3 DEF EntitiesKnown
<1>8. CASE a = "GAP_FILL"
  BY <1>w, <1>2, <1>8, EntitiesStay DEF WritesTo
<1> QED BY <1>3, <1>5, <1>6, <1>7, <1>8

\* What is made was founded, is no REVISE of a rule and is not flagged.
LEMMA WriteGrounded == ASSUME AgentInv, NEW t \in Threads, Write(t), UNCHANGED agentVars PROVE AgentInv'
<1>1. Sound /\ Truthful(t) /\ op[t].pc = "write" /\ Sane(op[t]) /\ TypeOK
  BY DEF AgentInv, Write, Sound
<1>2. answered' = answered /\ Goto(t, "record") /\ (effects' = Append(effects, InHand(t)) \/ effects' = effects)
  BY WritesOne DEF Write, WritesTo, agentVars, AgentInv
<1>3. op[t].todo # <<>> /\ op[t].todo \in Seq(Revision) /\ InHand(t) = Head(op[t].todo) /\ InHand(t) \in Revision
  BY <1>1, InHandKnown DEF InTheMiddle
<1>4. /\ Moves(t) /\ op'[t].pc = "record" /\ op'[t].todo = op[t].todo
      /\ op'[t].row = op[t].row /\ op'[t].payload = op[t].payload
  BY <1>1, <1>2, Gone
<1>5. Backed(InHand(t))
  <2>1. 1 \in DOMAIN op[t].todo /\ InHand(t) = op[t].todo[1]
    BY <1>3
  <2>2. Founded(InHand(t)) /\ InHand(t).action # "REVISE" /\ ~Flagged(InHand(t))
    BY <1>1, <1>3, <2>1 DEF Truthful, Sane
  <2> QED BY <2>2 DEF Founded, Flagged
<1>6. GroundedChanges'
  <2>1. \A i \in DOMAIN effects : Backed(effects[i])
    BY DEF AgentInv, GroundedChanges, Backed
  <2>2. effects \in Seq(Revision)
    BY <1>1 DEF TypeOK
  <2>3. PICK r \in Revision : r = InHand(t) /\ Backed(r)
    BY <1>3, <1>5
  <2>4. PICK made : made = effects' /\ \A i \in DOMAIN made : made[i] = r \/ (i \in DOMAIN effects /\ made[i] = effects[i])
    BY <1>2, <2>2, <2>3
  <2>5. \A i \in DOMAIN made : Backed(made[i])
    BY <2>1, <2>3, <2>4
  <2>6. \A i \in DOMAIN made : Backed(made[i])'
    BY <1>2, <2>5 DEF Backed
  <2> QED BY <2>4, <2>6 DEF GroundedChanges, Backed
<1>7. Truthful(t)' /\ op'[t].pc # "ask"
  BY <1>2, <1>3, <1>4, SameTruthful
<1>8. Sound' /\ EntitiesKnown' /\ DOMAIN docs \subseteq DOMAIN docs'
  BY <1>1, WriteSound, WriteKnown, Written DEF AgentInv
<1> QED BY <1>4, <1>6, <1>7, <1>8, RunStep

LEMMA RecordGrounded == ASSUME AgentInv, NEW t \in Threads, Record(t), UNCHANGED agentVars PROVE AgentInv'
<1>1. Sound /\ TypeOK /\ op[t].pc = "record"
  BY DEF AgentInv, Record, Sound
<1>2. docs' = docs /\ effects' = effects /\ answered' = answered /\ Proceed(t)
  BY DEF Record, agentVars
<1>3. op[t].todo # <<>> /\ Sound'
  BY <1>1, RecordSound, InHandKnown DEF InTheMiddle
<1>4. Moves(t) /\ Settled(t)
  BY <1>1, <1>2, <1>3, Proceeded
<1>5. Truthful(t)' /\ op'[t].pc # "ask"
  BY <1>2, <1>3, <1>4, SettledTruthful
<1> QED BY <1>2, <1>3, <1>4, <1>5, EntitiesStay, EffectsStay, RunStep DEF AgentInv

LEMMA ApproveGrounded == ASSUME AgentInv, NEW t \in Threads, Approve(t), UNCHANGED agentVars PROVE AgentInv'
<1>1. Sound /\ TypeOK /\ op[t].pc = "idle" /\ Truthful(t)
  BY DEF AgentInv, Approve, CanBegin, Sound
<1>2. op' = op /\ effects' = effects /\ answered' = answered
  BY DEF Approve, agentVars
<1>3. PICK k \in Live, still \in BOOLEAN : docs' = Successor(k, docs[k].evidence, "approved", still)
  BY DEF Approve
<1>4. EntitiesKnown' /\ DOMAIN docs \subseteq DOMAIN docs' /\ Sound'
  BY <1>1, <1>3, SuccessorKnown, ApproveSound DEF AgentInv, Live, TypeOK
<1>5. Moves(t)
  BY <1>1, <1>2 DEF Moves, TypeOK
<1>6. \A i \in DOMAIN op[t].todo : Founded(op[t].todo[i])'
  BY <1>1, <1>2, FoundedStays DEF Truthful
<1>7. Truthful(t)'
  BY <1>1, <1>2, <1>6 DEF Truthful
<1> QED BY <1>1, <1>2, <1>4, <1>5, <1>7, EffectsStay, RunStep

\* A guard whose read fails lets the revision pass; after that the run protects
\* nothing, but what it makes is founded all the same.
LEMMA UnreadGrounded == ASSUME AgentInv, NEW t \in Threads, GuardUnread(t), UNCHANGED agentVars PROVE AgentInv'
<1>1. Sound /\ TypeOK /\ op[t].pc = "guard" /\ Truthful(t) /\ Sane(op[t])
  BY DEF AgentInv, GuardUnread, Sound
<1>2. /\ docs' = docs /\ rows' = rows /\ effects' = effects /\ answered' = answered
      /\ kept' = kept /\ overlapped' = overlapped /\ ops' = ops
      /\ aborts' = aborts + 1 /\ aborts \in Nat /\ Goto(t, "find")
  BY <1>1 DEF GuardUnread, agentVars, TypeOK
<1>3. /\ Moves(t) /\ op'[t].pc = "find" /\ op'[t].todo = op[t].todo
      /\ op'[t].row = op[t].row /\ op'[t].payload = op[t].payload
  BY <1>1, <1>2, Gone
<1>4. op[t].todo # <<>>
  BY <1>1 DEF Sane, InTheMiddle
<1>5. Grows
  BY <1>1, <1>2 DEF Grows, TypeOK
<1>6. Sane(op[t])'
  <2>1. aborts' # 0
    BY <1>2
  <2> QED BY <1>1, <1>2, <1>3, <1>4, <2>1 DEF Sane
<1>7. Sound'
  BY SMTT(40), <1>1, <1>2, <1>3, <1>5, <1>6, QuietStep DEF TypeOK
<1>8. Truthful(t)'
  BY <1>2, <1>3, <1>4, SameTruthful
<1> QED BY <1>2, <1>3, <1>7, <1>8, EntitiesStay, EffectsStay, RunStep DEF AgentInv

LEMMA SupersedingGrounded == ASSUME AgentInv, NEW t \in Threads, Superseding(t) PROVE AgentInv'
BY GuardGrounded, UnreadGrounded, FindGrounded, ReadGrounded, WriteGrounded, RecordGrounded, ApproveGrounded DEF Superseding

-----------------------------------------------------------------------------
(* The steps of the agent.                                                  *)

LEMMA NothingAsked == NoAgent \in Brief /\ NoAgent.auto = <<>> /\ NoAgent.asks = <<>>
<1>1. <<>> \in Seq(Rule) /\ <<>> \in Seq(Ask)
  BY EmptySeq
<1> QED BY <1>1 DEF NoAgent, Brief

LEMMA QuietSound == ASSUME Sound, UNCHANGED vars PROVE Sound'
BY SoundSteps

LEMMA Elements == ASSUME NEW S, NEW q \in Seq(S)
                  PROVE  Len(q) \in Nat /\ DOMAIN q = 1 .. Len(q) /\ \A n \in DOMAIN q : q[n] \in S
OBVIOUS

\* What a document is to be asked about.
LEMMA PreparedType ==
    ASSUME Sound, EntitiesKnown, NEW d \in Documents, NEW concepts \in Extractions, NEW b,
           b = Prepared(d, concepts, Judged(concepts))
    PROVE  /\ b \in Brief /\ b.doc = d /\ b.concepts = concepts
           /\ \A n \in DOMAIN b.auto : b.auto[n].key \in DOMAIN docs /\ b.auto[n].action = "REVISE"
           /\ \A n \in DOMAIN b.asks : /\ b.asks[n].key \in DOMAIN docs /\ b.asks[n].concept \in DOMAIN concepts
                                       /\ b.asks[n].action = "FLAG_FOR_CURATION"
<1>1. docs \in Seq(Version) /\ concepts \in Seq(Concept)
  BY DocumentsAssumption DEF Sound, TypeOK
<1>2. PICK auto, contested : auto = Parted(Judged(concepts), FALSE) /\ contested = Parted(Judged(concepts), TRUE)
  OBVIOUS
<1>3. PICK A, C : /\ A = {m \in Judgements(concepts) : Contested(m) = FALSE} /\ C = {m \in Judgements(concepts) : Contested(m) = TRUE}
                  /\ auto \in Seq(A) /\ contested \in Seq(C)
  BY <1>1, <1>2, JudgedType, PartedType
<1>4. ASSUME NEW m \in Judgements(concepts)
      PROVE  m \in Rule /\ m.key \in DOMAIN docs /\ m.concept \in DOMAIN concepts
  <2>1. /\ m \in [key : Live, concept : DOMAIN concepts, verdict : Verdicts, action : Actions]
        /\ Live \subseteq DOMAIN docs /\ DOMAIN docs \subseteq Nat \ {0} /\ DOMAIN concepts \subseteq Nat
    BY <1>1 DEF Judgements, Live
  <2> QED BY <2>1 DEF Rule
<1>5. \A m \in A : m \in Rule /\ m.key \in DOMAIN docs /\ m.action = "REVISE"
  BY <1>3, <1>4 DEF Judgements
<1>6. \A m \in C : m \in Rule /\ m.key \in DOMAIN docs /\ m.concept \in DOMAIN concepts
  BY <1>3, <1>4
<1>7. auto \in Seq(Rule) /\ \A n \in DOMAIN auto : auto[n].key \in DOMAIN docs /\ auto[n].action = "REVISE"
  <2>1. auto \in Seq(Rule)
    BY <1>3, <1>5, SeqMonotonic
  <2>2. \A n \in DOMAIN auto : auto[n] \in A
    BY <1>3, Elements
  <2> QED BY <1>5, <2>1, <2>2
<1>8. /\ Len(contested) \in Nat /\ DOMAIN contested = 1 .. Len(contested)
      /\ \A n \in DOMAIN contested : contested[n] \in C
  BY <1>3, Elements
<1>9. \A m \in Rule : Asked(m) \in Ask /\ Asked(m).key = m.key /\ Asked(m).concept = m.concept /\ Asked(m).action = "FLAG_FOR_CURATION"
  BY DEF Asked, Rule, Ask, Downgraded, Actions
<1>10. PICK asks : asks = [n \in 1 .. Len(contested) |-> Asked(contested[n])]
  OBVIOUS
<1>11. asks \in Seq(Ask)
  <2>1. \A n \in 1 .. Len(contested) : Asked(contested[n]) \in Ask
    BY <1>6, <1>8, <1>9
  <2> QED BY <1>8, <1>10, <2>1
<1>12. \A n \in DOMAIN asks : asks[n].key \in DOMAIN docs /\ asks[n].concept \in DOMAIN concepts /\ asks[n].action = "FLAG_FOR_CURATION"
  BY <1>6, <1>8, <1>9, <1>10
<1>13. b = [doc |-> d, concepts |-> concepts, auto |-> auto, asks |-> asks]
  BY <1>2, <1>8, <1>10 DEF Prepared
<1> QED BY <1>7, <1>11, <1>12, <1>13 DEF Brief

LEMMA BeginNodeGrounded == ASSUME AgentInv, NEW t \in Threads, BeginNode(t) PROVE AgentInv'
<1>1. Sound /\ EntitiesKnown /\ TypeOK /\ op[t].pc = "idle" /\ Sane(op[t]) /\ agent \in [Threads -> Brief]
  BY DEF AgentInv, BeginNode, CanBegin, Sound
<1>2. docs' = docs /\ rows' = rows /\ effects' = effects /\ kept' = kept /\ aborts' = aborts /\ answered' = answered
  BY DEF BeginNode
<1>3. Grows /\ EntitiesKnown' /\ GroundedChanges' /\ aborts \in Nat /\ docs \in Seq(Version) /\ Len(rows) \in Nat
  BY <1>1, <1>2, EntitiesStay, EffectsStay DEF Grows, TypeOK
<1>4. CASE Count /\ UNCHANGED <<op, agent>>
  <2>1. ops' \in Nat /\ overlapped' \in BOOLEAN /\ Moves(t)
    BY <1>1, <1>4 DEF Count, TypeOK, Moves
  <2>2. Sane(op[t])'
    BY <1>1, <1>2, <1>4 DEF Sane, Done, Made, Protected
  <2>3. Sound'
    BY <1>1, <1>2, <1>3, <2>1, <2>2, QuietStep
  <2>4. Truthful(t)' /\ Briefed(t)'
    BY <1>2, <1>4, OthersTruthful
  <2> QED BY <1>1, <1>2, <1>3, <1>4, <2>3, <2>4, AgentStep
<1>5. ASSUME NEW d \in Documents, NEW concepts \in Extractions, Begin(t, [IdleOp EXCEPT !.pc = "ask"]),
             agent' = [agent EXCEPT ![t] = Prepared(d, concepts, Judged(concepts))]
      PROVE  AgentInv'
  <2>1. PICK b : b = Prepared(d, concepts, Judged(concepts))
    OBVIOUS
  <2>2. /\ b \in Brief /\ b.doc = d /\ b.concepts = concepts
        /\ \A n \in DOMAIN b.auto : b.auto[n].key \in DOMAIN docs /\ b.auto[n].action = "REVISE"
        /\ \A n \in DOMAIN b.asks : /\ b.asks[n].key \in DOMAIN docs /\ b.asks[n].concept \in DOMAIN concepts
                                    /\ b.asks[n].action = "FLAG_FOR_CURATION"
    BY <1>1, <2>1, PreparedType
  <2>3. PICK o : o = [IdleOp EXCEPT !.pc = "ask"]
    OBVIOUS
  <2>4. o \in Op /\ o.pc = "ask" /\ o.row = 0 /\ o.todo = <<>> /\ o.payload = FALSE
    BY <2>3, IdleIsOp DEF IdleOp, Op
  <2>5. Moves(t) /\ op'[t] = o /\ ops' \in Nat /\ overlapped' \in BOOLEAN
    BY <1>1, <1>5, <2>3, <2>4, Began
  <2>6. Sane(op[t])'
    BY <1>2, <1>3, <2>4, <2>5 DEF Sane, InTheMiddle
  <2>7. Sound'
    BY <1>1, <1>2, <1>3, <2>5, <2>6, QuietStep
  <2>8. Truthful(t)'
    BY <2>4, <2>5 DEF Truthful
  <2>9. agent'[t] = b /\ agent' \in [Threads -> Brief] /\ \A s \in Threads \ {t} : agent'[s] = agent[s]
    BY <1>1, <1>5, <2>1, <2>2
  <2>10. Briefed(t)'
    BY <1>2, <2>2, <2>5, <2>9 DEF Briefed, Founded
  <2> QED BY <1>2, <1>3, <2>5, <2>7, <2>8, <2>9, <2>10, AgentStep DEF Moves
<1> QED BY <1>4, <1>5 DEF BeginNode

\* One question goes on, with what was decided of it.
LEMMA AskGrounded ==
    ASSUME AgentInv, UNCHANGED vars, answered \subseteq answered', NEW t \in Threads, NEW n \in DOMAIN agent[t].asks, NEW ask \in Ask,
           ask.key = agent[t].asks[n].key, ask.concept = agent[t].asks[n].concept,
           NEW d, d = agent[t].doc, Founded([doc |-> d, key |-> ask.key, action |-> ask.action])',
           agent' = [agent EXCEPT ![t] = [agent[t] EXCEPT !.asks = [agent[t].asks EXCEPT ![n] = ask]]]
    PROVE  AgentInv'
<1>1. Sound /\ EntitiesKnown /\ agent \in [Threads -> Brief] /\ Briefed(t) /\ Truthful(t) /\ op' = op /\ docs' = docs /\ effects' = effects
  BY DEF AgentInv, vars
<1>2. PICK b \in Brief : b = agent[t]
  BY <1>1
<1>3. PICK asks \in Seq(Ask) : /\ asks = [b.asks EXCEPT ![n] = ask] /\ DOMAIN asks = DOMAIN b.asks /\ asks[n] = ask
                               /\ \A k \in DOMAIN b.asks : k # n => asks[k] = b.asks[k]
  <2>1. PICK q \in Seq(Ask) : q = b.asks
    BY <1>2 DEF Brief
  <2>2. n \in 1 .. Len(q)
    BY <1>2, <2>1
  <2>3. [q EXCEPT ![n] = ask] \in Seq(Ask)
    BY <2>2, ExceptSeq
  <2>4. PICK r \in Seq(Ask) : r = [q EXCEPT ![n] = ask]
    BY <2>3
  <2>5. DOMAIN r = DOMAIN q /\ r[n] = ask /\ \A k \in DOMAIN q : k # n => r[k] = q[k]
    BY <2>2, <2>4
  <2> QED BY <2>1, <2>4, <2>5
<1>4. PICK b2 \in Brief : b2 = [b EXCEPT !.asks = asks] /\ b2.doc = b.doc /\ b2.concepts = b.concepts /\ b2.auto = b.auto /\ b2.asks = asks
  <2> DEFINE c == [b EXCEPT !.asks = asks]
  <2>1. c \in Brief /\ c.doc = b.doc /\ c.concepts = b.concepts /\ c.auto = b.auto /\ c.asks = asks
    BY DEF Brief
  <2> HIDE DEF c
  <2>2. \E x \in Brief : x = c
    BY <2>1
  <2> QED BY <2>1 DEF c
<1>5. agent' = [agent EXCEPT ![t] = b2]
  BY <1>2, <1>3, <1>4
<1>6. agent'[t] = b2 /\ agent' \in [Threads -> Brief] /\ \A s \in Threads \ {t} : agent'[s] = agent[s]
  BY <1>1, <1>5
<1>7. ASSUME NEW k \in DOMAIN asks
      PROVE  /\ asks[k].key \in DOMAIN docs /\ b.concepts \in Extractions /\ asks[k].concept \in DOMAIN b.concepts
             /\ Founded([doc |-> b.doc, key |-> asks[k].key, action |-> asks[k].action])'
  <2>1. CASE k = n
    BY <1>1, <1>2, <1>3, <2>1 DEF Briefed
  <2>2. CASE k # n
    <3>1. Founded([doc |-> b.doc, key |-> b.asks[k].key, action |-> b.asks[k].action])
      BY <1>1, <1>2, <1>3 DEF Briefed
    <3> QED BY <1>1, <1>2, <1>3, <2>2, <3>1, FoundedStays DEF Briefed
  <2> QED BY <2>1, <2>2
<1>8. Briefed(t)'
  <2>1. agent'[t].auto = agent[t].auto /\ agent'[t].doc = b.doc /\ agent'[t].concepts = b.concepts /\ agent'[t].asks = asks
    BY <1>2, <1>4, <1>6
  <2>2. \A k \in DOMAIN asks : Founded([doc |-> agent[t].doc, key |-> agent[t].asks[k].key, action |-> agent[t].asks[k].action])'
    <3>1. ASSUME NEW k \in DOMAIN asks
          PROVE  Founded([doc |-> agent[t].doc, key |-> agent[t].asks[k].key, action |-> agent[t].asks[k].action])'
      <4>1. PICK r : r = [doc |-> b.doc, key |-> asks[k].key, action |-> asks[k].action]
        OBVIOUS
      <4>2. Founded(r)'
        BY <1>7, <4>1
      <4>3. r = [doc |-> agent'[t].doc, key |-> agent'[t].asks[k].key, action |-> agent'[t].asks[k].action]
        BY <2>1, <4>1
      <4> QED BY <4>2, <4>3
    <3> QED BY <3>1
  <2> QED BY <1>1, <1>7, <2>1, <2>2 DEF Briefed
<1>9. \A i \in DOMAIN op[t].todo : Founded(op[t].todo[i])'
  BY <1>1, FoundedStays DEF Truthful
<1>10. Truthful(t)'
  BY <1>1, <1>9 DEF Truthful
<1> QED BY <1>1, <1>6, <1>8, <1>10, QuietSound, EntitiesStay, EffectsStay, AgentStep

\* The quotes an answer may give are those of a concept with the class's label.
LEMMA QuotesKnown ==
    ASSUME NEW concepts \in Seq(Concept), NEW i \in DOMAIN concepts
    PROVE  \E j \in DOMAIN concepts : concepts[j].label = concepts[i].label /\ QuotesFor(concepts, i) = concepts[j].quotes
<1> DEFINE S == {j \in DOMAIN concepts : concepts[j].label = concepts[i].label}
<1>1. PICK N \in Nat : N = Len(concepts) /\ DOMAIN concepts = 1 .. N
  BY Elements
<1>2. PICK T : T = {N - j : j \in S}
  OBVIOUS
<1>3. T \in SUBSET Nat /\ T # {}
  <2>1. \A j \in S : N - j \in Nat
    BY <1>1
  <2>2. i \in S
    OBVIOUS
  <2> HIDE DEF S
  <2> QED BY <1>2, <2>1, <2>2
<1>4. PICK m \in T : \A k \in T : m <= k
  BY <1>3, Least
<1>5. PICK j \in S : m = N - j
  BY <1>2
<1>6. ASSUME NEW k \in S PROVE k <= j
  <2>1. k \in 1 .. N /\ j \in 1 .. N
    BY <1>1
  <2>2. m <= N - k
    BY <1>2, <1>4
  <2> QED BY <1>5, <2>1, <2>2
<1> DEFINE Chosen(c) == /\ concepts[c].label = concepts[i].label
                        /\ \A k \in DOMAIN concepts : concepts[k].label = concepts[i].label => k <= c
<1>7. j \in DOMAIN concepts /\ Chosen(j)
  BY <1>6
<1>8. PICK c : c = CHOOSE x \in DOMAIN concepts : Chosen(x)
  OBVIOUS
<1>9. c \in DOMAIN concepts /\ Chosen(c)
  BY <1>7, <1>8
<1>10. QuotesFor(concepts, i) = concepts[c].quotes
  BY <1>8 DEF QuotesFor
<1> QED BY <1>9, <1>10

LEMMA Questions ==
    ASSUME AgentInv, NEW t \in Threads, NEW n \in DOMAIN agent[t].asks
    PROVE  /\ agent[t].asks[n] \in Ask /\ agent[t].asks[n].key \in DOMAIN docs
           /\ agent[t].concepts \in Extractions /\ agent[t].asks[n].concept \in DOMAIN agent[t].concepts
           /\ Founded([doc |-> agent[t].doc, key |-> agent[t].asks[n].key, action |-> agent[t].asks[n].action])
<1>1. PICK b \in Brief : b = agent[t]
  BY DEF AgentInv
<1>2. b.asks \in Seq(Ask)
  BY DEF Brief
<1>3. b.asks[n] \in Ask
  BY <1>1, <1>2, Elements
<1> QED BY <1>1, <1>3 DEF AgentInv, Briefed

\* What is let through, or flagged unasked, is decided as before.
LEMMA LetThroughGrounded == ASSUME AgentInv, NEW t \in Threads, LetThrough(t) PROVE AgentInv'
<1>1. PICK n \in Under(t, "waiting"), s \in {"done", "asking"} : agent' = [agent EXCEPT ![t].asks[n].state = s]
  BY DEF LetThrough
<1>2. n \in DOMAIN agent[t].asks /\ UNCHANGED vars /\ answered' = answered
  BY DEF Under, LetThrough
<1>3. PICK old \in Ask : old = agent[t].asks[n]
  BY <1>2, Questions
<1>4. PICK ask : ask = [old EXCEPT !.state = s]
  OBVIOUS
<1>5. ask \in Ask /\ ask.key = old.key /\ ask.concept = old.concept /\ ask.action = old.action
  BY <1>4 DEF Ask
<1>6. agent' = [agent EXCEPT ![t] = [agent[t] EXCEPT !.asks = [agent[t].asks EXCEPT ![n] = ask]]]
  BY <1>1, <1>3, <1>4
<1>7. PICK d, r : d = agent[t].doc /\ r = [doc |-> d, key |-> ask.key, action |-> ask.action]
  OBVIOUS
<1>8. Founded(r)'
  BY <1>2, <1>3, <1>5, <1>7, Questions, FoundedStays
<1> QED BY <1>2, <1>3, <1>5, <1>6, <1>7, <1>8, AskGrounded

\* What is accepted is founded on the answer; what is not is asked again or left.
LEMMA AnswerGrounded == ASSUME AgentInv, NEW t \in Threads, Answer(t) PROVE AgentInv'
<1>1. PICK n \in Under(t, "asking"), answer \in Answers :
         \/ /\ CrossCheck(answer, QuotesFor(agent[t].concepts, agent[t].asks[n].concept))
            /\ agent' = [agent EXCEPT ![t].asks[n] = [@ EXCEPT !.state = "done", !.action = answer.action]]
            /\ answered' = answered \cup {[doc |-> agent[t].doc, key |-> agent[t].asks[n].key, answer |-> answer,
                                           label |-> agent[t].concepts[agent[t].asks[n].concept].label]}
         \/ /\ agent' = [agent EXCEPT ![t].asks[n] = Unheeded(agent[t].asks[n])]
            /\ UNCHANGED answered
  BY DEF Answer
<1>2. n \in DOMAIN agent[t].asks /\ UNCHANGED vars
  BY DEF Under, Answer
<1>3. PICK old \in Ask, concepts \in Extractions :
         /\ old = agent[t].asks[n] /\ concepts = agent[t].concepts /\ old.concept \in DOMAIN concepts
         /\ Founded([doc |-> agent[t].doc, key |-> old.key, action |-> old.action])
  BY <1>2, Questions
<1>d. PICK doc, i : doc = agent[t].doc /\ i = old.concept
  OBVIOUS
<1>4. CASE /\ CrossCheck(answer, QuotesFor(agent[t].concepts, agent[t].asks[n].concept))
           /\ agent' = [agent EXCEPT ![t].asks[n] = [@ EXCEPT !.state = "done", !.action = answer.action]]
           /\ answered' = answered \cup {[doc |-> agent[t].doc, key |-> agent[t].asks[n].key, answer |-> answer,
                                          label |-> agent[t].concepts[agent[t].asks[n].concept].label]}
  <2>1. PICK ask : ask = [old EXCEPT !.state = "done", !.action = answer.action]
    OBVIOUS
  <2>2. answer.action \in Actions /\ answer.quotes \subseteq QuotesFor(concepts, i)
        /\ (answer.action # "FLAG_FOR_CURATION" => answer.quotes # {})
    BY <1>d, <1>3, <1>4 DEF CrossCheck, AgentActions, Actions
  <2>3. ask \in Ask /\ ask.key = old.key /\ ask.concept = old.concept /\ ask.action = answer.action
    BY <2>1, <2>2 DEF Ask
  <2>4. agent' = [agent EXCEPT ![t] = [agent[t] EXCEPT !.asks = [agent[t].asks EXCEPT ![n] = ask]]]
    BY <1>d, <1>3, <1>4, <2>1
  <2>5. PICK a : a = [doc |-> doc, key |-> old.key, answer |-> answer, label |-> concepts[i].label]
    OBVIOUS
  <2>6. a \in answered' /\ answered \subseteq answered'
    BY <1>d, <1>3, <1>4, <2>5
  <2>7. PICK r : r = [doc |-> doc, key |-> ask.key, action |-> ask.action]
    OBVIOUS
  <2>8. Founded(r)'
    <3>1. CASE answer.action = "FLAG_FOR_CURATION"
      BY <2>3, <2>7, <3>1 DEF Founded
    <3>2. CASE answer.action # "FLAG_FOR_CURATION"
      <4>1. concepts \in Seq(Concept)
        BY DocumentsAssumption
      <4>2. PICK j \in DOMAIN concepts : concepts[j].label = concepts[i].label /\ QuotesFor(concepts, i) = concepts[j].quotes
        BY <1>3, <1>d, <4>1, QuotesKnown
      <4>3. \A q \in a.answer.quotes : q \in concepts[j].quotes /\ concepts[j].label = a.label
        BY <2>2, <2>5, <4>2
      <4>4. a.doc = r.doc /\ a.key = r.key /\ a.answer.action = r.action /\ a.answer.quotes # {}
        BY <2>2, <2>3, <2>5, <2>7, <3>2
      <4>5. Backed(r)'
        BY <2>6, <4>3, <4>4 DEF Backed
      <4> QED BY <4>5 DEF Founded
    <3> QED BY <3>1, <3>2
  <2> QED BY <1>2, <1>3, <1>d, <2>3, <2>4, <2>6, <2>7, <2>8, AskGrounded
<1>5. CASE /\ agent' = [agent EXCEPT ![t].asks[n] = Unheeded(agent[t].asks[n])]
           /\ UNCHANGED answered
  <2>2. PICK ask : ask = Unheeded(old)
    OBVIOUS
  <2>3. ask \in Ask /\ ask.key = old.key /\ ask.concept = old.concept /\ ask.action = old.action
    <3>1. PICK s \in {"waiting", "asking", "done"}, k \in Nat : ask = [old EXCEPT !.tries = k, !.state = s]
      <4>1. old.tries + 1 \in Nat /\ old.state \in {"waiting", "asking", "done"}
        BY DEF Ask
      <4> QED BY <2>2, <4>1 DEF Unheeded
    <3> QED BY <3>1 DEF Ask
  <2>4. agent' = [agent EXCEPT ![t] = [agent[t] EXCEPT !.asks = [agent[t].asks EXCEPT ![n] = ask]]]
    BY <1>3, <1>5, <2>2
  <2>5. PICK r : r = [doc |-> doc, key |-> ask.key, action |-> ask.action]
    OBVIOUS
  <2>6. Founded(r)
    BY <1>3, <1>d, <2>3, <2>5
  <2>7. Founded(r)'
    BY <1>5, <2>6, FoundedStays
  <2> QED BY <1>2, <1>3, <1>5, <1>d, <2>3, <2>4, <2>5, <2>7, AskGrounded
<1> QED BY <1>1, <1>4, <1>5

\* The list of a run: what the rules decided, then what was asked.
LEMMA HandOverGrounded ==
    ASSUME AgentInv, NEW t \in Threads, NEW asks \in {<<>>, agent[t].asks}, op[t].pc = "ask", HandOver(t, asks)
    PROVE  AgentInv'
<1>1. /\ Sound /\ EntitiesKnown /\ TypeOK /\ Sane(op[t]) /\ Truthful(t) /\ Briefed(t) /\ op[t] \in Op
      /\ agent \in [Threads -> Brief] /\ op \in [Threads -> Op]
  BY DEF AgentInv, Sound, TypeOK
<1>2. /\ docs' = docs /\ rows' = rows /\ effects' = effects /\ kept' = kept /\ overlapped' = overlapped /\ ops' = ops
      /\ aborts' = aborts /\ answered' = answered /\ agent' = [agent EXCEPT ![t] = NoAgent]
  BY DEF HandOver, counters
<1>3. Grows /\ EntitiesKnown' /\ GroundedChanges'
  BY <1>1, <1>2, EntitiesStay, EffectsStay DEF Grows, TypeOK
<1>4. PICK b \in Brief : b = agent[t]
  BY <1>1
<1>5. b.doc \in Documents /\ b.auto \in Seq(Rule) /\ b.asks \in Seq(Ask)
  BY <1>1, <1>4 DEF Briefed, Brief
<1> DEFINE R == {r \in Revision : r.key \in DOMAIN docs /\ Founded(r)}
<1>6. PICK auto : auto = [n \in DOMAIN b.auto |-> [doc |-> b.doc, key |-> b.auto[n].key, action |-> b.auto[n].action]]
  OBVIOUS
<1>7. auto \in Seq(R)
  <2>1. Len(b.auto) \in Nat /\ DOMAIN b.auto = 1 .. Len(b.auto) /\ \A n \in DOMAIN b.auto : b.auto[n] \in Rule
    BY <1>5, Elements
  <2> DEFINE e(n) == [doc |-> b.doc, key |-> b.auto[n].key, action |-> b.auto[n].action]
  <2>2. ASSUME NEW n \in 1 .. Len(b.auto) PROVE e(n) \in R
    <3>1. b.auto[n] \in Rule /\ b.auto[n].key \in DOMAIN docs /\ b.auto[n].action = "REVISE"
      BY <1>1, <1>4, <2>1 DEF Briefed
    <3>2. e(n) \in Revision
      BY <1>5, <3>1 DEF Revision, Rule
    <3> QED BY <3>1, <3>2 DEF Founded
  <2>3. auto = [n \in 1 .. Len(b.auto) |-> e(n)]
    BY <1>6, <2>1
  <2> HIDE DEF e, R
  <2> QED BY <2>1, <2>2, <2>3
<1>8. PICK proposed : proposed = [n \in DOMAIN asks |-> [doc |-> b.doc, key |-> asks[n].key, action |-> ProposalFor(asks, n)]]
  OBVIOUS
<1>9. proposed \in Seq(R)
  <2>1. asks \in Seq(Ask)
    BY <1>4, <1>5, EmptySeq
  <2>2. Len(asks) \in Nat /\ DOMAIN asks = 1 .. Len(asks) /\ \A n \in DOMAIN asks : asks[n] \in Ask
    BY <2>1, Elements
  <2> DEFINE e(n) == [doc |-> b.doc, key |-> asks[n].key, action |-> asks[n].action]
  <2>3. ASSUME NEW n \in 1 .. Len(asks) PROVE e(n) \in R
    <3>1. asks = agent[t].asks /\ asks[n] \in Ask
      BY <2>2
    <3>2. asks[n].key \in DOMAIN docs /\ Founded(e(n))
      BY <1>4, <2>2, <3>1, Questions
    <3>3. e(n) \in Revision
      BY <1>5, <3>1 DEF Revision, Ask
    <3> QED BY <3>2, <3>3
  <2>4. proposed = [n \in 1 .. Len(asks) |-> e(n)]
    BY <1>8, <2>2 DEF ProposalFor
  <2> HIDE DEF e, R
  <2> QED BY <2>2, <2>3, <2>4
<1>10. PICK todo \in Seq(R) : todo = auto \o proposed
  <2> HIDE DEF R
  <2>1. auto \o proposed \in Seq(R)
    BY <1>7, <1>9
  <2> QED BY <2>1
<1>11. op' = [op EXCEPT ![t] = IF todo = <<>> THEN IdleOp ELSE [op[t] EXCEPT !.pc = "guard", !.todo = todo]]
  BY <1>4, <1>6, <1>8, <1>10 DEF HandOver
<1>12. \A i \in DOMAIN todo : todo[i] \in R
  BY <1>10, Elements
<1>13. PICK o \in Op : /\ op'[t] = o /\ op' = [op EXCEPT ![t] = o] /\ o.row = 0 /\ o.payload = FALSE /\ o.pc \in {"idle", "guard"}
                       /\ \A i \in DOMAIN o.todo : o.todo[i] \in R
                       /\ o.pc = "guard" => o.todo # <<>>
  <2>1. CASE todo = <<>>
    <3>1. op'[t] = IdleOp /\ op' = [op EXCEPT ![t] = IdleOp]
      BY <1>1, <1>11, <2>1
    <3>2. IdleOp \in Op /\ IdleOp.row = 0 /\ IdleOp.payload = FALSE /\ IdleOp.pc = "idle" /\ DOMAIN IdleOp.todo = {}
      BY IdleIsOp DEF IdleOp
    <3> HIDE DEF R
    <3> QED BY <3>1, <3>2
  <2>2. CASE todo # <<>>
    <3>1. todo \in Seq(Revision)
      <4>1. R \subseteq Revision
        OBVIOUS
      <4> QED BY <1>10, <4>1, SeqMonotonic
    <3>2. PICK o : o = [op[t] EXCEPT !.pc = "guard", !.todo = todo]
      OBVIOUS
    <3>3. o \in Op /\ o.pc = "guard" /\ o.todo = todo /\ o.row = 0 /\ o.payload = FALSE
      BY <1>1, <3>1, <3>2 DEF Op, Truthful
    <3> QED BY <1>1, <1>11, <1>12, <2>2, <3>2, <3>3
  <2> QED BY <2>1, <2>2
<1>14. Moves(t)
  BY <1>1, <1>13 DEF Moves
<1>15. Sane(op[t])'
  <2>1. 0 \in 0 .. Len(rows')
    BY <1>1, <1>2 DEF TypeOK
  <2> QED BY <1>2, <1>13, <2>1 DEF Sane, InTheMiddle
<1>16. Sound'
  BY <1>1, <1>2, <1>3, <1>14, <1>15, QuietStep DEF TypeOK
<1>17. Truthful(t)'
  <2>1. \A i \in DOMAIN o.todo : Founded(o.todo[i])'
    BY <1>2, <1>13, FoundedStays
  <2> QED BY <1>13, <2>1 DEF Truthful
<1>18. agent'[t] = NoAgent /\ agent' \in [Threads -> Brief] /\ \A s \in Threads \ {t} : agent'[s] = agent[s]
  BY <1>1, <1>2, NothingAsked
<1>19. Briefed(t)'
  BY <1>13, <1>18, NothingAsked DEF Briefed
<1> QED BY <1>2, <1>3, <1>14, <1>16, <1>17, <1>18, <1>19, AgentStep DEF Moves

\* A run that dies leaves nothing to be done.
LEMMA AgentDiesGrounded == ASSUME AgentInv, NEW t \in Threads, AgentDies(t) PROVE AgentInv'
<1>1. Sound /\ Abort(t) /\ EntitiesKnown /\ agent \in [Threads -> Brief] /\ op \in [Threads -> Op]
  BY DEF AgentInv, AgentDies, Sound, TypeOK
<1>2. docs' = docs /\ effects' = effects /\ answered' = answered /\ agent' = [agent EXCEPT ![t] = NoAgent] /\ op' = [op EXCEPT ![t] = IdleOp]
  BY DEF AgentDies, Abort
<1>3. Sound' /\ EntitiesKnown' /\ GroundedChanges'
  BY <1>1, <1>2, AbortSound, EntitiesStay, EffectsStay
<1>4. op'[t] = IdleOp /\ agent'[t] = NoAgent /\ agent' \in [Threads -> Brief]
      /\ \A s \in Threads \ {t} : op'[s] = op[s] /\ agent'[s] = agent[s]
  BY <1>1, <1>2, NothingAsked
<1>5. Truthful(t)' /\ Briefed(t)'
  BY <1>4, IdleIsOp, NothingAsked DEF Truthful, Briefed, IdleOp
<1> QED BY <1>2, <1>3, <1>4, <1>5, AgentStep

\* Nor does time that passes.
LEMMA NothingGrounded == ASSUME AgentInv, UNCHANGED <<vars, agent, answered>> PROVE AgentInv'
<1>1. op' = op /\ docs' = docs /\ effects' = effects /\ agent' = agent /\ answered' = answered
  BY DEF vars
<1>2. Sound' /\ EntitiesKnown' /\ GroundedChanges'
  BY <1>1, QuietSound, EntitiesStay, EffectsStay DEF AgentInv
<1>3. \A t \in Threads : Truthful(t)' /\ Briefed(t)'
  BY <1>1, OthersTruthful
<1> QED BY <1>1, <1>2, <1>3 DEF AgentInv

LEMMA AgentInitially == AgentInit => AgentInv
<1> SUFFICES ASSUME AgentInit PROVE AgentInv
  OBVIOUS
<1>1. Len(Beliefs) \in Nat /\ DOMAIN Beliefs = 1 .. Len(Beliefs)
  BY DocumentsAssumption, Elements
<1>2. PICK n \in Nat : n = Len(Beliefs)
  BY <1>1
<1>3. PICK status \in [1 .. n -> {"draft", "approved"}] :
         docs = [k \in 1 .. n |-> [entity |-> k, status |-> status[k], live |-> TRUE, evidence |-> NoEvidence]]
  BY <1>2 DEF AgentInit, InitWith
<1>4. \A k \in 1 .. n : [entity |-> k, status |-> status[k], live |-> TRUE, evidence |-> NoEvidence] \in Version
  BY DEF Version, NoEvidence
<1>5. docs \in Seq(Version) /\ EntitiesKnown
  BY <1>1, <1>2, <1>3, <1>4 DEF EntitiesKnown
<1>6. /\ rows = <<>> /\ effects = <<>> /\ op = [t \in Threads |-> IdleOp] /\ overlapped = FALSE /\ kept = {}
      /\ ops = 0 /\ aborts = 0 /\ agent = [t \in Threads |-> NoAgent] /\ answered = {}
  BY DEF AgentInit, InitWith, AgentIdle
<1>7. rows \in Seq(Row) /\ effects \in Seq(Revision) /\ DOMAIN rows = {} /\ DOMAIN effects = {} /\ Len(rows) = 0
  BY <1>6
<1>8. TypeOK
  BY <1>5, <1>6, <1>7, IdleIsOp DEF TypeOK
<1>9. \A t \in Threads : op[t] = IdleOp /\ agent[t] = NoAgent
  BY <1>6
<1>10. \A t \in Threads : Sane(op[t])
  BY <1>7, <1>9, IdleIsOp DEF Sane, InTheMiddle
<1>11. Sound
  BY <1>7, <1>8, <1>10 DEF Sound, RowsKnown, AppliedRowsAreTrue, EffectsUnflagged
<1>12. \A t \in Threads : Truthful(t) /\ Briefed(t)
  BY <1>9, IdleIsOp, NothingAsked DEF Truthful, Briefed, IdleOp
<1>13. GroundedChanges /\ agent \in [Threads -> Brief]
  BY <1>6, <1>7, NothingAsked DEF GroundedChanges
<1> QED BY <1>5, <1>11, <1>12, <1>13 DEF AgentInv

LEMMA AgentSteps == AgentInv /\ [AgentNext]_<<vars, agentVars>> => AgentInv'
<1> SUFFICES ASSUME AgentInv, [AgentNext]_<<vars, agentVars>> PROVE AgentInv'
  OBVIOUS
<1>1. CASE Tick
  BY <1>1, NothingGrounded DEF Tick
<1>2. CASE UNCHANGED <<vars, agentVars>>
  BY <1>2, NothingGrounded DEF agentVars
<1>3. ASSUME NEW t \in Threads, BatchAnswered(t) \/ NoClient(t) PROVE AgentInv'
  BY <1>3, HandOverGrounded DEF BatchAnswered, NoClient
<1> QED BY <1>1, <1>2, <1>3, BeginNodeGrounded, LetThroughGrounded, AnswerGrounded, SupersedingGrounded, AgentDiesGrounded DEF AgentNext

\* Whatever the documents and the beliefs are and whatever the language model
\* answers, and in whatever order, a run of the agent changes the graph only as an
\* accepted answer about that very class said, on quotes that all stand in a
\* document (revision_agent.py:21); what no rule decides alone but REVISE, which
\* raises, is never made unasked.
THEOREM ChangesAreGrounded == AgentSpec => []GroundedChanges
<1>1. AgentInv => GroundedChanges
  BY DEF AgentInv
<1> QED BY <1>1, AgentInitially, AgentSteps, PTL DEF AgentSpec

\* And its audit log tells of what was made, also where a guard could not read the
\* class that it was to protect (_load_existing_entity), but for the retraction of
\* a version whose expiry has failed unnoticed (expire_entity).
THEOREM AgentRowsStayTrue == AgentSpec => []AppliedRowsAreTrue
<1>1. AgentInv => AppliedRowsAreTrue
  BY DEF AgentInv, Sound
<1> QED BY <1>1, AgentInitially, AgentSteps, PTL DEF AgentSpec
=============================================================================
