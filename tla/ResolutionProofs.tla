-------------------------- MODULE ResolutionProofs --------------------------
(***************************************************************************)
(* Invariance proofs for the resolution of classes and of individuals: for *)
(* any number of ontologies, names, terms, handlers and deaths.            *)
(*                                                                         *)
(* Classes: the types; whatever overlaps and dies, what a handler has in   *)
(* hand is there, and the merge behind a pair leaves its target with a     *)
(* successor for ever, so that no second merge of the pair begins; and,    *)
(* while no two requests overlapped, that each pair is filed under the     *)
(* ontology of the run that found it and decided one way.                  *)
(*                                                                         *)
(* Individuals: the types; that a fact which is about to be expired is     *)
(* closed, or continued by a later one that is itself live, closed or      *)
(* refused, so that a chain of moved facts always comes to such an end;    *)
(* and that a live individual without a type has a handler at work on it.  *)
(***************************************************************************)
EXTENDS EntityResolution, Individuals, SequenceTheorems, WellFoundedInduction, TLAPS

-----------------------------------------------------------------------------
(* Classes: the pairs, the verdicts on them and the merges.                 *)

Merging == {"merge", "update", "write", "expire"}

PairsKnown == \A p \in DOMAIN pairs : pairs[p].from \in DOMAIN docs /\ pairs[p].to \in DOMAIN docs

\* Whatever overlaps and dies: what a handler has in hand is there.
Informed(o) ==
    /\ o.run \in 0 .. Len(runs) /\ (o.pc \in {"block", "score"} => o.run # 0)
    /\ o.todo \subseteq (DOMAIN docs) \X (DOMAIN docs)
    /\ o.pc \in Merging => o.source \in DOMAIN docs /\ o.target \in DOMAIN docs
    /\ o.pair # 0 => o.pair \in DOMAIN pairs /\ o.target = pairs[o.pair].to
    /\ o.pc = "mark" => o.pair # 0

\* The merge behind a pair leaves its target with a successor, which is the only
\* current version if the expiry has not failed.
TargetsSucceeded ==
    \A m \in merges :
        /\ m.key \in DOMAIN docs
        /\ m.pair # 0 => m.pair \in DOMAIN pairs /\ (m.retired => ~docs[pairs[m.pair].to].live)

ClassesSound == TypeOK /\ PairsKnown /\ (\A t \in Threads : Informed(op[t])) /\ TargetsSucceeded

\* And while nothing has overlapped.
Undisturbed(t) ==
    LET o == op[t] IN
    /\ o.pc \in {"block", "score"} => active = runs[o.run].ontology
    /\ o.pc = "score" => \A c \in o.todo : docs[c[1]].ontology = active
    /\ o.pc \in Merging \cup {"mark"} /\ o.pair # 0 => Unresolved(o.pair)
    /\ o.pc = "write" => docs[o.target].live

OthersIdle(t) == \A s \in Threads \ {t} : op[s].pc = "idle"

FiledRight == \A p \in DOMAIN pairs : docs[pairs[p].from].ontology = pairs[p].tag
OneWay == \A p \in DOMAIN pairs : ~(pairs[p].accepted /\ pairs[p].rejected)
Once == \A m, n \in merges : m.pair = n.pair /\ m.pair # 0 /\ m.key < n.key => ~m.retired

ResolutionInv ==
    /\ ClassesSound
    /\ ~overlapped => /\ \A t \in Threads : Undisturbed(t) /\ (op[t].pc # "idle" => OthersIdle(t))
                      /\ FiledRight /\ OneWay /\ Once

-----------------------------------------------------------------------------
(* What each step does to its handler and what it leaves alone.             *)

Moves(t) == op' \in [Threads -> Op] /\ \A s \in Threads \ {t} : op'[s] = op[s]

DocsGrow ==
    /\ DOMAIN docs \subseteq DOMAIN docs'
    /\ \A k \in DOMAIN docs : docs'[k].ontology = docs[k].ontology /\ (docs'[k].live => docs[k].live)
PairsGrow ==
    /\ DOMAIN pairs \subseteq DOMAIN pairs'
    /\ \A p \in DOMAIN pairs : /\ pairs'[p].from = pairs[p].from /\ pairs'[p].to = pairs[p].to
                               /\ pairs'[p].tag = pairs[p].tag
Grows == DocsGrow /\ PairsGrow /\ Len(runs) <= Len(runs')

LEMMA IdleIsOp == IdleOp \in Op /\ IdleOp.pc = "idle" /\ IdleOp.run = 0 /\ IdleOp.todo = {} /\ IdleOp.pair = 0
BY DEF IdleOp, Op

LEMMA RunBegun == ASSUME NEW n \in Nat
                  PROVE  LET o == [IdleOp EXCEPT !.pc = "block", !.run = n] IN
                         o \in Op /\ o.pc = "block" /\ o.run = n /\ o.todo = {} /\ o.pair = 0
BY DEF Op, IdleOp
LEMMA MergeBegun == ASSUME NEW a \in Nat, NEW b \in Nat
                  PROVE  LET o == [IdleOp EXCEPT !.pc = "merge", !.source = a, !.target = b] IN
                         /\ o \in Op /\ o.pc = "merge" /\ o.run = 0 /\ o.todo = {} /\ o.pair = 0
                         /\ o.source = a /\ o.target = b
BY DEF Op, IdleOp

LEMMA Gone == ASSUME TypeOK, NEW t \in Threads, NEW pc \in {"score", "update", "write", "expire", "mark"}, Goto(t, pc)
              PROVE  /\ Moves(t)
                     /\ op'[t].pc = pc /\ op'[t].run = op[t].run /\ op'[t].todo = op[t].todo /\ op'[t].pair = op[t].pair
                     /\ op'[t].source = op[t].source /\ op'[t].target = op[t].target /\ op'[t].verdict = op[t].verdict
<1>1. op[t] \in Op /\ op \in [Threads -> Op]
  BY DEF TypeOK
<1>2. op' = [op EXCEPT ![t] = [op[t] EXCEPT !.pc = pc]]
  BY <1>1 DEF Goto
<1>3. [op[t] EXCEPT !.pc = pc] \in Op
  BY <1>1 DEF Op
<1> QED BY <1>1, <1>2, <1>3 DEF Moves, Op

LEMMA Finished == ASSUME TypeOK, NEW t \in Threads, Finish(t) PROVE Moves(t) /\ op'[t] = IdleOp
BY IdleIsOp DEF Finish, Moves, TypeOK

LEMMA Began == ASSUME TypeOK, NEW t \in Threads, NEW kind, NEW o \in Op, Begin(t, kind, o)
               PROVE  /\ Moves(t) /\ op'[t] = o /\ op[t].pc = "idle" /\ ops' \in Nat /\ overlapped' \in BOOLEAN
                      /\ ~overlapped' => ~overlapped /\ OthersIdle(t)
<1>1. Moves(t) /\ op'[t] = o /\ op[t].pc = "idle"
  BY DEF TypeOK, Begin, Moves
<1>2. ops' \in Nat
  BY DEF TypeOK, Begin
<1>3. overlapped' \in BOOLEAN /\ (~overlapped' => ~overlapped /\ OthersIdle(t))
  BY Zenon DEF TypeOK, Begin, OthersIdle
<1> QED BY <1>1, <1>2, <1>3

LEMMA OthersInformed == ASSUME ClassesSound, Grows, runs' \in Seq(Run), NEW t \in Threads, Moves(t), NEW s \in Threads, s # t
                        PROVE  Informed(op[s])'
<1>1. op'[s] = op[s] /\ op[s] \in Op /\ Informed(op[s])
  BY DEF Moves, ClassesSound, TypeOK
<1>2. op[s].run \in 0 .. Len(runs')
  BY <1>1 DEF Informed, Grows, ClassesSound, TypeOK
<1>3. op[s].todo \subseteq (DOMAIN docs') \X (DOMAIN docs')
  BY <1>1 DEF Informed, Grows, DocsGrow
<1>4. op[s].pc \in Merging => op[s].source \in DOMAIN docs' /\ op[s].target \in DOMAIN docs'
  BY <1>1 DEF Informed, Grows, DocsGrow
<1>5. op[s].pair # 0 => op[s].pair \in DOMAIN pairs' /\ op[s].target = pairs'[op[s].pair].to
  BY <1>1 DEF Informed, Grows, PairsGrow
<1>6. (op[s].pc \in {"block", "score"} => op[s].run # 0) /\ (op[s].pc = "mark" => op[s].pair # 0)
  BY <1>1 DEF Informed
<1> QED BY <1>1, <1>2, <1>3, <1>4, <1>5, <1>6 DEF Informed

\* What is left to show of a step.
LEMMA SoundStep ==
    ASSUME ClassesSound, TypeOK', Grows, NEW t \in Threads, Moves(t), Informed(op[t])', PairsKnown', TargetsSucceeded'
    PROVE  ClassesSound'
<1>1. \A s \in Threads : Informed(op[s])'
  BY OthersInformed DEF TypeOK
<1> QED BY <1>1 DEF ClassesSound

\* And of one that leaves the merges alone and adds no pair.
LEMMA QuietStep ==
    ASSUME ClassesSound, Grows, NEW t \in Threads, Moves(t), Informed(op[t])', DOMAIN pairs' = DOMAIN pairs, merges' = merges,
           docs' \in Seq(Doc), edges' = edges, pairs' \in Seq(Pair), active' \in Ontologies \cup {NoOntology},
           runs' \in Seq(Run), overlapped' \in BOOLEAN, ops' \in Nat, aborts' \in Nat
    PROVE  ClassesSound'
<1>1. TypeOK'
  BY DEF TypeOK, Moves, ClassesSound
<1>2. PairsKnown'
  BY DEF PairsKnown, ClassesSound, Grows, DocsGrow, PairsGrow
<1>3. TargetsSucceeded'
  BY DEF TargetsSucceeded, ClassesSound, PairsKnown, Grows, DocsGrow, PairsGrow
<1> QED BY <1>1, <1>2, <1>3, SoundStep

\* While nothing overlaps there is only the one handler to look at.
LEMMA CalmStep ==
    ASSUME ResolutionInv, NEW t \in Threads, Moves(t), ClassesSound',
           ~overlapped' => OthersIdle(t) /\ Undisturbed(t)' /\ FiledRight' /\ OneWay' /\ Once'
    PROVE  ResolutionInv'
<1> SUFFICES ASSUME ~overlapped'
             PROVE  \A s \in Threads : Undisturbed(s)' /\ ((op[s].pc # "idle")' => OthersIdle(s)')
  BY DEF ResolutionInv
<1>1. \A s \in Threads \ {t} : op'[s].pc = "idle"
  BY DEF Moves, OthersIdle
<1>2. \A s \in Threads \ {t} : Undisturbed(s)'
  BY <1>1 DEF Undisturbed, Merging
<1>3. OthersIdle(t)'
  BY <1>1 DEF OthersIdle
<1> QED BY <1>1, <1>2, <1>3

\* A step of a handler that was under way.
LEMMA CalmHandler ==
    ASSUME ResolutionInv, NEW t \in Threads, op[t].pc # "idle", Moves(t), ClassesSound', overlapped' = overlapped,
           ~overlapped => Undisturbed(t)' /\ FiledRight' /\ OneWay' /\ Once'
    PROVE  ResolutionInv'
<1>1. ~overlapped => OthersIdle(t)
  BY DEF ResolutionInv
<1> QED BY <1>1, CalmStep

LEMMA PairsLeft == ASSUME ClassesSound, DocsGrow, UNCHANGED pairs
                   PROVE  (FiledRight => FiledRight') /\ (OneWay => OneWay')
BY DEF ClassesSound, PairsKnown, DocsGrow, FiledRight, OneWay

\* Of a step that changes no class, and of one that changes no pair.
LEMMA Stays == /\ UNCHANGED docs => DocsGrow
               /\ UNCHANGED pairs => PairsGrow
BY DEF DocsGrow, PairsGrow

LEMMA OnceStays == UNCHANGED merges /\ Once => Once'
BY DEF Once

LEMMA InitResolution == Init => ResolutionInv
<1> SUFFICES ASSUME Init PROVE ResolutionInv
  OBVIOUS
<1> USE ResolutionBounds
<1>1. docs \in Seq(Doc)
  <2>1. PICK ontology \in [1 .. NumClasses -> Ontologies] :
          docs = [k \in 1 .. NumClasses |-> [ontology |-> ontology[k], root |-> k, live |-> TRUE]]
    BY DEF Init
  <2>2. docs \in [1 .. NumClasses -> Doc]
    BY <2>1 DEF Doc
  <2> QED BY <2>2, SeqDef
<1>2. \A t \in Threads : op[t] = IdleOp
  BY DEF Init
<1>3. TypeOK
  <2>1. op \in [Threads -> Op]
    BY IdleIsOp DEF Init
  <2>2. pairs \in Seq(Pair) /\ runs \in Seq(Run)
    BY DEF Init
  <2>3. edges \subseteq (Nat \X Nat) /\ merges \subseteq Merge /\ active \in Ontologies \cup {NoOntology}
    BY DEF Init
  <2> QED BY <1>1, <2>1, <2>2, <2>3 DEF Init, TypeOK
<1>4. (\A t \in Threads : Informed(op[t]) /\ Undisturbed(t)) /\ PairsKnown /\ TargetsSucceeded
  BY <1>2, IdleIsOp DEF Init, Informed, Undisturbed, Merging, PairsKnown, TargetsSucceeded
<1>5. FiledRight /\ OneWay /\ Once
  BY DEF Init, FiledRight, OneWay, Once
<1>6. \A t \in Threads : op[t].pc = "idle"
  BY <1>2, IdleIsOp
<1> QED BY <1>3, <1>4, <1>5, <1>6 DEF ResolutionInv, ClassesSound, OthersIdle

-----------------------------------------------------------------------------
(* The runs.                                                                *)

LEMMA BeginRunStep == ASSUME ResolutionInv, NEW t \in Threads, BeginRun(t) PROVE ResolutionInv'
<1>1. PICK o \in Ontologies :
        /\ Begin(t, "run", [IdleOp EXCEPT !.pc = "block", !.run = Len(runs) + 1])
        /\ active' = o
        /\ runs' = Append(runs, [ontology |-> o, status |-> "blocking"])
        /\ UNCHANGED <<classes, pairs, merges, aborts>>
  BY DEF BeginRun
<1> DEFINE begun == [IdleOp EXCEPT !.pc = "block", !.run = Len(runs) + 1]
           run == [ontology |-> o, status |-> "blocking"]
<1>2. TypeOK /\ ClassesSound
  BY DEF ResolutionInv, ClassesSound
<1>3. /\ begun \in Op /\ begun.pc = "block" /\ begun.run = Len(runs) + 1 /\ begun.todo = {} /\ begun.pair = 0
  <2>1. Len(runs) \in Nat
    BY <1>2 DEF TypeOK
  <2>2. Len(runs) + 1 \in Nat
    BY <2>1
  <2> QED BY <2>2, RunBegun
<1> HIDE DEF begun
<1>4. /\ Moves(t) /\ op'[t] = begun /\ ops' \in Nat /\ overlapped' \in BOOLEAN
      /\ ~overlapped' => ~overlapped /\ OthersIdle(t)
  BY <1>1, <1>2, <1>3, Began DEF begun
<1>5. run \in Run
  BY DEF Run
<1>6. runs' \in Seq(Run) /\ Len(runs') = Len(runs) + 1 /\ runs'[Len(runs) + 1] = run
  BY <1>1, <1>2, <1>5 DEF TypeOK
<1>7. UNCHANGED <<docs, edges, pairs, merges, aborts>>
  BY <1>1 DEF classes
<1>8. Grows
  BY <1>2, <1>6, <1>7, Stays DEF Grows, TypeOK
<1>9. Informed(op[t])'
  BY <1>2, <1>3, <1>4, <1>6 DEF Informed, Merging, TypeOK
<1>10. ClassesSound'
  <2>1. docs' \in Seq(Doc) /\ pairs' \in Seq(Pair) /\ active' \in Ontologies \cup {NoOntology} /\ aborts' \in Nat
    BY <1>1, <1>2, <1>7 DEF TypeOK
  <2> QED BY <1>2, <1>4, <1>6, <1>7, <1>8, <1>9, <2>1, QuietStep
<1>11. Undisturbed(t)'
  BY <1>1, <1>3, <1>4, <1>6 DEF Undisturbed, Merging
<1>12. ~overlapped => FiledRight' /\ OneWay' /\ Once'
  BY <1>2, <1>7, Stays, PairsLeft, OnceStays DEF ResolutionInv
<1> QED BY <1>4, <1>10, <1>11, <1>12, CalmStep

LEMMA BlockStep == ASSUME ResolutionInv, NEW t \in Threads, Block(t) PROVE ResolutionInv'
<1> DEFINE mine == {k \in Live : docs[k].ontology = runs[op[t].run].ontology}
<1>1. PICK candidates \in SUBSET {c \in mine \X mine : c[1] < c[2]} :
          op' = [op EXCEPT ![t].pc = "score", ![t].todo = candidates]
  BY DEF Block
<1>2. TypeOK /\ ClassesSound /\ op[t] \in Op /\ op \in [Threads -> Op]
  BY DEF ResolutionInv, ClassesSound, TypeOK
<1>3. mine \subseteq DOMAIN docs /\ DOMAIN docs \subseteq Nat
  BY <1>2 DEF Live, TypeOK
<1>4. candidates \subseteq mine \X mine /\ candidates \subseteq (DOMAIN docs) \X (DOMAIN docs)
  BY <1>3
<1>5. candidates \in SUBSET (Nat \X Nat)
  BY <1>3, <1>4
<1> HIDE DEF mine
<1>6. [[op[t] EXCEPT !.pc = "score"] EXCEPT !.todo = candidates] \in Op
  BY <1>2, <1>5 DEF Op
<1>7. /\ Moves(t)
      /\ op'[t].pc = "score" /\ op'[t].run = op[t].run /\ op'[t].todo = candidates /\ op'[t].pair = op[t].pair
      /\ op'[t].source = op[t].source /\ op'[t].target = op[t].target
  BY <1>1, <1>2, <1>6 DEF Moves, Op
<1>8. op[t].pc = "block" /\ UNCHANGED <<docs, edges, pairs, active, merges, overlapped, ops, aborts>>
  BY DEF Block, classes, counters
<1>9. op[t].run \in DOMAIN runs /\ Informed(op[t])
  BY <1>2, <1>8 DEF ClassesSound, Informed, TypeOK
<1>10. /\ runs' \in Seq(Run) /\ Len(runs') = Len(runs)
       /\ \A r \in DOMAIN runs : runs'[r].ontology = runs[r].ontology
  <2>1. runs' = [runs EXCEPT ![op[t].run] = [runs[op[t].run] EXCEPT !.status = "scoring"]]
    BY DEF Block
  <2>2. runs[op[t].run] \in Run
    BY <1>2, <1>9 DEF TypeOK
  <2>3. [runs[op[t].run] EXCEPT !.status = "scoring"] \in Run
    BY <2>2 DEF Run
  <2> QED BY <1>2, <1>9, <2>1, <2>2, <2>3 DEF TypeOK, Run
<1>11. Grows
  BY <1>2, <1>8, <1>10, Stays DEF Grows, TypeOK
<1>12. Informed(op[t])'
  BY <1>4, <1>7, <1>8, <1>9, <1>10 DEF Informed, Merging
<1>13. ClassesSound'
  BY <1>2, <1>7, <1>8, <1>10, <1>11, <1>12, QuietStep DEF TypeOK
<1>14. ~overlapped => Undisturbed(t)'
  <2> SUFFICES ASSUME ~overlapped PROVE Undisturbed(t)'
    OBVIOUS
  <2>1. active = runs[op[t].run].ontology
    BY <1>8 DEF ResolutionInv, Undisturbed
  <2>2. \A c \in candidates : docs[c[1]].ontology = active
    BY <1>4, <2>1 DEF mine
  <2> QED BY <1>7, <1>8, <1>9, <1>10, <2>1, <2>2 DEF Undisturbed, Merging
<1>15. ~overlapped => FiledRight' /\ OneWay' /\ Once'
  BY <1>2, <1>8, Stays, PairsLeft, OnceStays DEF ResolutionInv
<1> QED BY <1>7, <1>8, <1>13, <1>14, <1>15, CalmHandler

LEMMA ScoreStep == ASSUME ResolutionInv, NEW t \in Threads, Score(t) PROVE ResolutionInv'
<1>1. PICK c \in op[t].todo :
        /\ op' = [op EXCEPT ![t].todo = @ \ {c}]
        /\ \/ UNCHANGED pairs
           \/ /\ {c[1], c[2]} \subseteq Live
              /\ pairs' = Append(pairs, [from |-> c[1], to |-> c[2], tag |-> active,
                                         accepted |-> FALSE, rejected |-> FALSE])
  BY DEF Score
<1>2. TypeOK /\ ClassesSound /\ op[t] \in Op /\ op \in [Threads -> Op] /\ Informed(op[t])
  BY DEF ResolutionInv, ClassesSound, TypeOK
<1>3. op[t].pc = "score" /\ UNCHANGED <<docs, edges, active, runs, merges, overlapped, ops, aborts>>
  BY DEF Score, classes, counters
<1>4. c \in (DOMAIN docs) \X (DOMAIN docs) /\ DOMAIN docs \subseteq Nat \ {0} /\ op[t].todo \ {c} \in SUBSET (Nat \X Nat)
  BY <1>2 DEF Informed, TypeOK, Op
<1>5. op' = [op EXCEPT ![t] = [op[t] EXCEPT !.todo = op[t].todo \ {c}]]
  BY <1>1, <1>2
<1>6. [op[t] EXCEPT !.todo = op[t].todo \ {c}] \in Op
  BY <1>2, <1>4 DEF Op
<1>7. /\ Moves(t)
      /\ op'[t].pc = "score" /\ op'[t].run = op[t].run /\ op'[t].todo = op[t].todo \ {c} /\ op'[t].pair = op[t].pair
      /\ op'[t].target = op[t].target
  BY <1>2, <1>3, <1>5, <1>6 DEF Moves, Op
<1>8. ~overlapped => active = runs[op[t].run].ontology /\ \A d \in op[t].todo : docs[d[1]].ontology = active
  BY <1>3 DEF ResolutionInv, Undisturbed
<1>9. ~overlapped => Undisturbed(t)'
  BY <1>3, <1>7, <1>8 DEF Undisturbed, Merging
<1>10. CASE UNCHANGED pairs
  <2>1. Grows
    BY <1>2, <1>3, <1>10, Stays DEF Grows, TypeOK
  <2>2. Informed(op[t])'
    BY <1>2, <1>3, <1>7, <1>10 DEF Informed, Merging
  <2>3. ClassesSound'
    BY <1>2, <1>3, <1>7, <1>10, <2>1, <2>2, QuietStep DEF TypeOK
  <2>4. ~overlapped => FiledRight' /\ OneWay' /\ Once'
    BY <1>2, <1>3, <1>10, Stays, PairsLeft, OnceStays DEF ResolutionInv
  <2> QED BY <1>3, <1>7, <1>9, <2>3, <2>4, CalmHandler
<1>11. CASE {c[1], c[2]} \subseteq Live /\ pairs' = Append(pairs, [from |-> c[1], to |-> c[2], tag |-> active,
                                                                accepted |-> FALSE, rejected |-> FALSE])
  <2> DEFINE new == [from |-> c[1], to |-> c[2], tag |-> active, accepted |-> FALSE, rejected |-> FALSE]
  <2>1. c[1] \in DOMAIN docs /\ c[2] \in DOMAIN docs
    BY <1>4
  <2>2. new \in Pair
    BY <1>2, <1>4, <2>1 DEF Pair, TypeOK
  <2>3. /\ pairs' \in Seq(Pair) /\ DOMAIN pairs' = DOMAIN pairs \cup {Len(pairs) + 1} /\ Len(pairs) + 1 \notin DOMAIN pairs
        /\ pairs'[Len(pairs) + 1] = new /\ \A p \in DOMAIN pairs : pairs'[p] = pairs[p]
    BY <1>2, <1>11, <2>2 DEF TypeOK
  <2> HIDE DEF new
  <2>4. Grows
    BY <1>2, <1>3, <2>3, Stays DEF Grows, PairsGrow, TypeOK
  <2>5. Informed(op[t])'
    BY <1>2, <1>3, <1>7, <2>3 DEF Informed, Merging
  <2>6. TypeOK'
    BY <1>2, <1>3, <1>7, <2>3 DEF TypeOK, Moves
  <2>7. PairsKnown'
    BY <1>2, <1>3, <2>1, <2>3 DEF PairsKnown, ClassesSound, new
  <2>8. TargetsSucceeded'
    BY <1>2, <1>3, <2>3 DEF TargetsSucceeded, ClassesSound
  <2>9. ClassesSound'
    BY <1>2, <1>7, <2>4, <2>5, <2>6, <2>7, <2>8, SoundStep
  <2>10. ~overlapped => FiledRight'
    BY <1>1, <1>3, <1>8, <2>3 DEF ResolutionInv, FiledRight, new
  <2>11. ~overlapped => OneWay' /\ Once'
    BY <1>3, <2>3, OnceStays DEF ResolutionInv, OneWay, new
  <2> QED BY <1>3, <1>7, <1>9, <2>9, <2>10, <2>11, CalmHandler
<1> QED BY <1>1, <1>10, <1>11

\* The end of an operation that changes nothing of the classes and pairs.
LEMMA FinishStep ==
    ASSUME ResolutionInv, NEW t \in Threads, Finish(t), op[t].pc # "idle", UNCHANGED <<docs, edges, pairs, active, merges, overlapped, ops>>,
           runs' \in Seq(Run), Len(runs') = Len(runs), aborts' \in Nat
    PROVE  ResolutionInv'
<1>1. TypeOK /\ ClassesSound
  BY DEF ResolutionInv, ClassesSound
<1>2. Moves(t) /\ op'[t] = IdleOp
  BY <1>1, Finished
<1>3. Grows
  BY <1>1, Stays DEF Grows, TypeOK
<1>4. Informed(op[t])'
  BY <1>1, <1>2, IdleIsOp DEF Informed, Merging, TypeOK
<1>5. ClassesSound'
  BY <1>1, <1>2, <1>3, <1>4, QuietStep DEF TypeOK
<1>6. Undisturbed(t)'
  BY <1>2, IdleIsOp DEF Undisturbed, Merging
<1>7. ~overlapped => FiledRight' /\ OneWay' /\ Once'
  BY <1>1, Stays, PairsLeft, OnceStays DEF ResolutionInv
<1> QED BY <1>2, <1>5, <1>6, <1>7, CalmHandler

LEMMA RunMarked == ASSUME ResolutionInv, NEW t \in Threads, op[t].run # 0, NEW status \in {"blocking", "scoring", "complete", "failed"},
                          runs' = [runs EXCEPT ![op[t].run].status = status]
                   PROVE  runs' \in Seq(Run) /\ Len(runs') = Len(runs)
<1>1. runs \in Seq(Run) /\ op[t].run \in DOMAIN runs
  BY DEF ResolutionInv, ClassesSound, TypeOK, Informed
<1>2. runs' = [runs EXCEPT ![op[t].run] = [runs[op[t].run] EXCEPT !.status = status]]
  OBVIOUS
<1>3. runs[op[t].run] \in Run
  BY <1>1
<1>4. [runs[op[t].run] EXCEPT !.status = status] \in Run
  BY <1>3 DEF Run
<1> QED BY <1>1, <1>2, <1>4

LEMMA FinishRunStep == ASSUME ResolutionInv, NEW t \in Threads, FinishRun(t) PROVE ResolutionInv'
<1>1. op[t].pc = "score" /\ op[t].run # 0
  BY DEF FinishRun, ResolutionInv, ClassesSound, Informed
<1>2. runs' \in Seq(Run) /\ Len(runs') = Len(runs)
  BY <1>1, RunMarked DEF FinishRun
<1> QED BY <1>1, <1>2, FinishStep DEF FinishRun, classes, counters, ResolutionInv, ClassesSound, TypeOK

LEMMA AbortStep == ASSUME ResolutionInv, NEW t \in Threads, Abort(t) PROVE ResolutionInv'
<1>1. runs' \in Seq(Run) /\ Len(runs') = Len(runs)
  <2>1. CASE op[t].run = 0
    BY <2>1 DEF Abort, ResolutionInv, ClassesSound, TypeOK
  <2>2. CASE op[t].run # 0
    <3>1. runs' = [runs EXCEPT ![op[t].run].status = "failed"]
      BY <2>2 DEF Abort
    <3> QED BY <2>2, <3>1, RunMarked
  <2> QED BY <2>1, <2>2
<1>2. aborts' \in Nat
  BY DEF Abort, ResolutionInv, ClassesSound, TypeOK
<1> QED BY <1>1, <1>2, FinishStep DEF Abort, classes

-----------------------------------------------------------------------------
(* The verdicts.                                                            *)

LEMMA BeginDecisionStep == ASSUME ResolutionInv, NEW t \in Threads, BeginDecision(t) PROVE ResolutionInv'
<1>1. PICK p \in DOMAIN pairs, verdict \in {"accept", "reject"} :
        /\ Unresolved(p)
        /\ Begin(t, "decide",
                 [IdleOp EXCEPT !.pc = IF verdict = "accept" THEN "merge" ELSE "mark",
                                !.pair = p, !.verdict = verdict,
                                !.source = pairs[p].from, !.target = pairs[p].to])
        /\ UNCHANGED <<classes, pairs, active, runs, merges, aborts>>
  BY DEF BeginDecision
<1> DEFINE first == IF verdict = "accept" THEN "merge" ELSE "mark"
           begun == [IdleOp EXCEPT !.pc = first, !.pair = p, !.verdict = verdict,
                                   !.source = pairs[p].from, !.target = pairs[p].to]
<1>2. TypeOK /\ ClassesSound /\ PairsKnown
  BY DEF ResolutionInv, ClassesSound
<1>3. p \in Nat \ {0} /\ pairs[p].from \in DOMAIN docs /\ pairs[p].to \in DOMAIN docs /\ DOMAIN docs \subseteq Nat
  BY <1>2 DEF PairsKnown, TypeOK
<1>4. first \in {"merge", "mark"}
  OBVIOUS
<1> HIDE DEF first
<1>5. /\ begun \in Op /\ begun.pc = first /\ begun.run = 0 /\ begun.todo = {} /\ begun.pair = p
      /\ begun.source = pairs[p].from /\ begun.target = pairs[p].to
  <2>1. p \in Nat /\ pairs[p].from \in Nat /\ pairs[p].to \in Nat
    BY <1>3
  <2> QED BY <1>4, <2>1 DEF Op, IdleOp
<1>6. Begin(t, "decide", begun)
  BY <1>1 DEF first
<1> HIDE DEF begun
<1>7. /\ Moves(t) /\ op'[t] = begun /\ ops' \in Nat /\ overlapped' \in BOOLEAN
      /\ ~overlapped' => ~overlapped /\ OthersIdle(t)
  BY <1>2, <1>5, <1>6, Began
<1>8. UNCHANGED <<docs, edges, pairs, active, runs, merges, aborts>>
  BY <1>1 DEF classes
<1>9. Grows
  BY <1>2, <1>8, Stays DEF Grows, TypeOK
<1>10. Informed(op[t])'
  BY <1>2, <1>3, <1>4, <1>5, <1>7, <1>8 DEF Informed, Merging, TypeOK
<1>11. ClassesSound'
  BY <1>2, <1>7, <1>8, <1>9, <1>10, QuietStep DEF TypeOK
<1>12. Undisturbed(t)'
  BY <1>1, <1>4, <1>5, <1>7, <1>8 DEF Undisturbed, Merging, Unresolved
<1>13. ~overlapped => FiledRight' /\ OneWay' /\ Once'
  BY <1>2, <1>8, Stays, PairsLeft, OnceStays DEF ResolutionInv
<1> QED BY <1>7, <1>11, <1>12, <1>13, CalmStep

LEMMA MarkStep == ASSUME ResolutionInv, NEW t \in Threads, Mark(t) PROVE ResolutionInv'
<1> DEFINE p == op[t].pair
           marked == IF op[t].verdict = "accept" THEN [pairs[p] EXCEPT !.accepted = TRUE]
                     ELSE [pairs[p] EXCEPT !.rejected = TRUE]
<1>1. TypeOK /\ ClassesSound /\ op[t] \in Op /\ Informed(op[t]) /\ pairs \in Seq(Pair)
  BY DEF ResolutionInv, ClassesSound, TypeOK
<1>2. op[t].pc = "mark" /\ Finish(t) /\ UNCHANGED <<docs, edges, active, runs, merges, overlapped, ops, aborts>>
  BY DEF Mark, classes, counters
<1>3. p \in DOMAIN pairs /\ pairs[p] \in Pair
  BY <1>1, <1>2 DEF Informed
<1>4. /\ marked \in Pair /\ marked.from = pairs[p].from /\ marked.to = pairs[p].to /\ marked.tag = pairs[p].tag
      /\ ~pairs[p].accepted /\ ~pairs[p].rejected => ~(marked.accepted /\ marked.rejected)
  BY <1>3 DEF Pair
<1>5. pairs' = [pairs EXCEPT ![p] = marked]
  BY DEF Mark
<1> HIDE DEF marked
<1>6. /\ pairs' \in Seq(Pair) /\ DOMAIN pairs' = DOMAIN pairs /\ pairs'[p] = marked
      /\ \A q \in DOMAIN pairs \ {p} : pairs'[q] = pairs[q]
  BY <1>1, <1>3, <1>4, <1>5
<1> HIDE DEF p
<1>7. Moves(t) /\ op'[t] = IdleOp
  BY <1>1, <1>2, Finished
<1>8. Grows
  <2>1. \A q \in DOMAIN pairs : /\ pairs'[q].from = pairs[q].from /\ pairs'[q].to = pairs[q].to
                                /\ pairs'[q].tag = pairs[q].tag
    BY <1>4, <1>6
  <2> QED BY <1>1, <1>2, <1>6, <2>1, Stays DEF Grows, PairsGrow, TypeOK
<1>9. Informed(op[t])'
  BY <1>1, <1>2, <1>7, IdleIsOp DEF Informed, Merging, TypeOK
<1>10. ClassesSound'
  BY <1>1, <1>2, <1>6, <1>7, <1>8, <1>9, QuietStep DEF TypeOK
<1>11. Undisturbed(t)'
  BY <1>7, IdleIsOp DEF Undisturbed, Merging
<1>12. ASSUME ~overlapped PROVE FiledRight' /\ OneWay' /\ Once'
  <2>1. FiledRight' /\ Once'
    BY <1>2, <1>6, <1>8, <1>12, OnceStays DEF ResolutionInv, FiledRight, Grows, PairsGrow
  <2>2. Unresolved(p)
    BY <1>2, <1>3, <1>12 DEF ResolutionInv, Undisturbed, p, ClassesSound, Informed
  <2>3. OneWay'
    BY <1>4, <1>6, <1>12, <2>2 DEF ResolutionInv, OneWay, Unresolved
  <2> QED BY <2>1, <2>3
<1> QED BY <1>2, <1>7, <1>10, <1>11, <1>12, CalmHandler

-----------------------------------------------------------------------------
(* The merges.                                                              *)

LEMMA BeginMergeStep == ASSUME ResolutionInv, NEW t \in Threads, BeginMerge(t) PROVE ResolutionInv'
<1>1. PICK source \in DOMAIN docs, target \in DOMAIN docs :
        /\ Begin(t, "merge", [IdleOp EXCEPT !.pc = "merge", !.source = source, !.target = target])
        /\ UNCHANGED <<classes, pairs, active, runs, merges, aborts>>
  BY DEF BeginMerge
<1> DEFINE begun == [IdleOp EXCEPT !.pc = "merge", !.source = source, !.target = target]
<1>2. TypeOK /\ ClassesSound /\ DOMAIN docs \subseteq Nat
  BY DEF ResolutionInv, ClassesSound, TypeOK
<1>3. /\ begun \in Op /\ begun.pc = "merge" /\ begun.run = 0 /\ begun.todo = {} /\ begun.pair = 0
      /\ begun.source = source /\ begun.target = target
  <2>1. source \in Nat /\ target \in Nat
    BY <1>2
  <2> QED BY <2>1, MergeBegun
<1>4. Begin(t, "merge", begun)
  BY <1>1
<1> HIDE DEF begun
<1>5. /\ Moves(t) /\ op'[t] = begun /\ ops' \in Nat /\ overlapped' \in BOOLEAN
      /\ ~overlapped' => ~overlapped /\ OthersIdle(t)
  BY <1>2, <1>3, <1>4, Began
<1>6. UNCHANGED <<docs, edges, pairs, active, runs, merges, aborts>>
  BY <1>1 DEF classes
<1>7. Grows
  BY <1>2, <1>6, Stays DEF Grows, TypeOK
<1>8. Informed(op[t])'
  BY <1>2, <1>3, <1>5, <1>6 DEF Informed, Merging, TypeOK
<1>9. ClassesSound'
  BY <1>2, <1>5, <1>6, <1>7, <1>8, QuietStep DEF TypeOK
<1>10. Undisturbed(t)'
  BY <1>3, <1>5 DEF Undisturbed
<1>11. ~overlapped => FiledRight' /\ OneWay' /\ Once'
  BY <1>2, <1>6, Stays, PairsLeft, OnceStays DEF ResolutionInv
<1> QED BY <1>5, <1>9, <1>10, <1>11, CalmStep

\* The two reads before the winner is updated.
LEMMA ReadStep ==
    ASSUME ResolutionInv, NEW t \in Threads, op[t].pc \in {"merge", "update"}, NEW pc \in {"update", "write"}, Goto(t, pc),
           op[t].target \in Live, UNCHANGED <<docs, edges, pairs, active, runs, merges, overlapped, ops, aborts>>
    PROVE  ResolutionInv'
<1>1. TypeOK /\ ClassesSound /\ Informed(op[t])
  BY DEF ResolutionInv, ClassesSound
<1>2. /\ Moves(t)
      /\ op'[t].pc = pc /\ op'[t].run = op[t].run /\ op'[t].todo = op[t].todo /\ op'[t].pair = op[t].pair
      /\ op'[t].source = op[t].source /\ op'[t].target = op[t].target
  BY <1>1, Gone
<1>3. Grows
  BY <1>1, Stays DEF Grows, TypeOK
<1>4. Informed(op[t])'
  BY <1>1, <1>2 DEF Informed, Merging
<1>5. ClassesSound'
  BY <1>1, <1>2, <1>3, <1>4, QuietStep DEF TypeOK
<1>6. ~overlapped => Undisturbed(t)'
  BY <1>2 DEF ResolutionInv, Undisturbed, Merging, Unresolved, Live
<1>7. ~overlapped => FiledRight' /\ OneWay' /\ Once'
  BY <1>1, Stays, PairsLeft, OnceStays DEF ResolutionInv
<1> QED BY <1>2, <1>5, <1>6, <1>7, CalmHandler

LEMMA ReadClassesStep == ASSUME ResolutionInv, NEW t \in Threads, ReadClasses(t) PROVE ResolutionInv'
<1>1. op[t].pc = "merge" /\ UNCHANGED <<docs, edges, pairs, active, runs, merges, overlapped, ops, aborts>>
  BY DEF ReadClasses, classes, counters
<1>2. CASE {op[t].source, op[t].target} \subseteq Live
  BY <1>1, <1>2, ReadStep DEF ReadClasses
<1>3. CASE ~({op[t].source, op[t].target} \subseteq Live)
  BY <1>1, <1>3, FinishStep DEF ReadClasses, ResolutionInv, ClassesSound, TypeOK
<1> QED BY <1>2, <1>3

LEMMA ReadTargetStep == ASSUME ResolutionInv, NEW t \in Threads, ReadTarget(t) PROVE ResolutionInv'
<1>1. op[t].pc = "update" /\ UNCHANGED <<docs, edges, pairs, active, runs, merges, overlapped, ops, aborts>>
  BY DEF ReadTarget, classes, counters
<1>2. CASE op[t].target \in Live
  BY <1>1, <1>2, ReadStep DEF ReadTarget
<1>3. CASE op[t].target \notin Live
  BY <1>1, <1>3, FinishStep DEF ReadTarget, ResolutionInv, ClassesSound, TypeOK
<1> QED BY <1>2, <1>3

\* A pair is merged into a live winner, which no merge before has updated.
LEMMA UpdateTargetStep == ASSUME ResolutionInv, NEW t \in Threads, UpdateTarget(t) PROVE ResolutionInv'
<1> DEFINE k == op[t].target
           new == Len(docs) + 1
           successor == [docs[k] EXCEPT !.live = TRUE]
           kept == [docs[k] EXCEPT !.live = FALSE]
<1>1. TypeOK /\ ClassesSound /\ op[t] \in Op /\ Informed(op[t]) /\ docs \in Seq(Doc) /\ PairsKnown /\ TargetsSucceeded
  BY DEF ResolutionInv, ClassesSound, TypeOK
<1>a. PICK rows \in {docs, Retired(k)} :
        /\ Expires(k, rows)
        /\ docs' = Append(rows, successor)
        /\ merges' = merges \cup {[pair |-> op[t].pair, loser |-> docs[op[t].source].root,
                                    winner |-> docs[k].root, key |-> new, retired |-> ~rows[k].live]}
  BY DEF UpdateTarget
<1> DEFINE merge == [pair |-> op[t].pair, loser |-> docs[op[t].source].root,
                     winner |-> docs[k].root, key |-> new, retired |-> ~rows[k].live]
<1>2. /\ op[t].pc = "write" /\ Goto(t, "expire") /\ UNCHANGED <<pairs, active, runs, overlapped, ops>>
      /\ aborts' \in Nat /\ docs' = Append(rows, successor) /\ merges' = merges \cup {merge}
  BY <1>1, <1>a DEF UpdateTarget, Expires, TypeOK
<1>3. k \in DOMAIN docs /\ op[t].source \in DOMAIN docs /\ docs[k] \in Doc /\ docs[op[t].source] \in Doc
  BY <1>1, <1>2 DEF Informed, Merging
<1>4. successor \in Doc /\ kept \in Doc /\ kept.ontology = docs[k].ontology /\ ~kept.live
  BY <1>3 DEF Doc
<1>b. /\ rows \in Seq(Doc) /\ Len(rows) = Len(docs) /\ rows[k].ontology = docs[k].ontology
      /\ rows[k].live => docs[k].live
      /\ \A j \in DOMAIN docs \ {k} : rows[j] = docs[j]
  <2>1. CASE rows = docs
    BY <1>1, <2>1
  <2>2. CASE rows = [docs EXCEPT ![k] = kept]
    <3> HIDE DEF kept
    <3> QED BY <1>1, <1>3, <1>4, <2>2
  <2> QED BY <1>a, <2>1, <2>2 DEF Retired
<1>5. merge \in Merge
  <2>1. (~rows[k].live) \in BOOLEAN
    BY Zenon
  <2>2. new \in Nat /\ docs[k].root \in Nat /\ docs[op[t].source].root \in Nat /\ op[t].pair \in Nat
    BY <1>1, <1>3 DEF Doc, Op
  <2> QED BY <2>1, <2>2 DEF Merge
<1>6. edges' \subseteq Nat \X Nat
  <2>1. \A e \in edges : e \in Nat \X Nat
    BY <1>1 DEF TypeOK
  <2>2. new \in Nat
    BY <1>1
  <2> QED BY <2>1, <2>2 DEF UpdateTarget
<1>7. /\ docs' \in Seq(Doc) /\ DOMAIN docs' = DOMAIN docs \cup {new} /\ new \notin DOMAIN docs
      /\ \A j \in DOMAIN docs : new \in Nat /\ j < new
      /\ docs'[k] = rows[k] /\ docs'[k].ontology = docs[k].ontology /\ (docs'[k].live => docs[k].live)
      /\ \A j \in DOMAIN docs \ {k} : docs'[j] = docs[j]
  <2> HIDE DEF successor
  <2> QED BY <1>1, <1>2, <1>3, <1>4, <1>b
<1>c. merge.pair = op[t].pair /\ merge.key = new /\ (merge.retired => ~docs'[k].live)
  BY <1>7
<1> HIDE DEF k, new, successor, merge
<1>8. /\ Moves(t)
      /\ op'[t].pc = "expire" /\ op'[t].run = op[t].run /\ op'[t].todo = op[t].todo /\ op'[t].pair = op[t].pair
      /\ op'[t].source = op[t].source /\ op'[t].target = op[t].target
  BY <1>1, <1>2, Gone
<1>9. DocsGrow
  BY <1>3, <1>7 DEF DocsGrow
<1>10. Grows
  BY <1>1, <1>2, <1>9, Stays DEF Grows, TypeOK
<1>11. Informed(op[t])'
  BY <1>1, <1>2, <1>7, <1>8 DEF Informed, Merging
<1>12. TypeOK'
  BY <1>1, <1>2, <1>5, <1>6, <1>7, <1>8 DEF TypeOK, Moves
<1>13. PairsKnown'
  BY <1>1, <1>2, <1>7 DEF PairsKnown
<1>14. TargetsSucceeded'
  <2>1. ASSUME NEW m \in merges'
        PROVE  /\ m.key \in DOMAIN docs'
               /\ m.pair # 0 => m.pair \in DOMAIN pairs /\ (m.retired => ~docs'[pairs[m.pair].to].live)
    <3>1. CASE m \in merges
      BY <1>1, <1>9, <3>1 DEF TargetsSucceeded, PairsKnown, DocsGrow
    <3>2. CASE m = merge
      BY <1>1, <1>7, <1>c, <3>2 DEF Informed, k
    <3> QED BY <1>2, <3>1, <3>2
  <2> QED BY <1>2, <2>1 DEF TargetsSucceeded
<1>15. ClassesSound'
  BY <1>1, <1>8, <1>10, <1>11, <1>12, <1>13, <1>14, SoundStep
<1>16. ASSUME ~overlapped PROVE Undisturbed(t)' /\ FiledRight' /\ OneWay' /\ Once'
  <2>1. Undisturbed(t) /\ Once
    BY <1>16 DEF ResolutionInv
  <2>2. Undisturbed(t)'
    BY <1>2, <1>8, <2>1 DEF Undisturbed, Merging, Unresolved
  <2>3. FiledRight' /\ OneWay'
    BY <1>1, <1>2, <1>9, <1>16, PairsLeft DEF ResolutionInv
  <2>4. docs[k].live
    BY <1>2, <2>1 DEF Undisturbed, k
  <2>5. \A m \in merges : m.pair = merge.pair /\ m.pair # 0 => ~m.retired
    BY <1>1, <1>c, <2>4 DEF TargetsSucceeded, Informed, k
  <2>6. \A m \in merges : ~(merge.key < m.key)
    BY <1>1, <1>7, <1>c DEF TargetsSucceeded
  <2>7. ~(merge.key < merge.key)
    BY <1>1, <1>c DEF new
  <2>8. Once'
    BY <1>2, <2>1, <2>5, <2>6, <2>7 DEF Once
  <2> QED BY <2>2, <2>3, <2>8
<1> QED BY <1>2, <1>8, <1>15, <1>16, CalmHandler

LEMMA ExpireSourceStep == ASSUME ResolutionInv, NEW t \in Threads, ExpireSource(t) PROVE ResolutionInv'
<1> DEFINE k == op[t].source
           gone == [docs[k] EXCEPT !.live = FALSE]
<1>1. TypeOK /\ ClassesSound /\ op[t] \in Op /\ Informed(op[t]) /\ docs \in Seq(Doc)
  BY DEF ResolutionInv, ClassesSound, TypeOK
<1>2. /\ op[t].pc = "expire" /\ UNCHANGED <<edges, pairs, active, runs, merges, overlapped, ops>>
      /\ aborts' \in Nat /\ (docs' = docs \/ docs' = [docs EXCEPT ![k] = gone])
  BY <1>1 DEF ExpireSource, Expires, Retired, TypeOK
<1>3. k \in DOMAIN docs /\ docs[k] \in Doc
  BY <1>1, <1>2 DEF Informed, Merging
<1>4. gone \in Doc /\ ~gone.live /\ gone.ontology = docs[k].ontology
  BY <1>3 DEF Doc
<1> HIDE DEF gone
<1>5. /\ docs' \in Seq(Doc) /\ DOMAIN docs' = DOMAIN docs /\ docs'[k] \in {docs[k], gone}
      /\ \A j \in DOMAIN docs \ {k} : docs'[j] = docs[j]
  BY <1>1, <1>2, <1>3, <1>4
<1> HIDE DEF k
<1>6. DocsGrow
  BY <1>3, <1>4, <1>5 DEF DocsGrow
<1>7. Grows
  BY <1>1, <1>2, <1>6, Stays DEF Grows, TypeOK
<1>8. ~overlapped => FiledRight' /\ OneWay' /\ Once'
  BY <1>1, <1>2, <1>6, PairsLeft, OnceStays DEF ResolutionInv
<1>9. CASE op[t].pair = 0
  <2>1. Moves(t) /\ op'[t] = IdleOp
    BY <1>1, <1>9, Finished DEF ExpireSource
  <2>2. Informed(op[t])'
    BY <1>1, <1>2, <2>1, IdleIsOp DEF Informed, Merging, TypeOK
  <2>3. ClassesSound'
    BY <1>1, <1>2, <1>5, <1>7, <2>1, <2>2, QuietStep DEF TypeOK
  <2>4. Undisturbed(t)'
    BY <2>1, IdleIsOp DEF Undisturbed, Merging
  <2> QED BY <1>2, <1>8, <2>1, <2>3, <2>4, CalmHandler
<1>10. CASE op[t].pair # 0
  <2>1. /\ Moves(t)
        /\ op'[t].pc = "mark" /\ op'[t].run = op[t].run /\ op'[t].todo = op[t].todo /\ op'[t].pair = op[t].pair
        /\ op'[t].source = op[t].source /\ op'[t].target = op[t].target
    BY <1>1, <1>10, Gone DEF ExpireSource
  <2>2. Informed(op[t])'
    BY <1>1, <1>2, <1>5, <1>10, <2>1 DEF Informed, Merging
  <2>3. ClassesSound'
    BY <1>1, <1>2, <1>5, <1>7, <2>1, <2>2, QuietStep DEF TypeOK
  <2>4. ~overlapped => Undisturbed(t)'
    BY <1>2, <1>10, <2>1 DEF ResolutionInv, Undisturbed, Merging, Unresolved
  <2> QED BY <1>2, <1>8, <2>1, <2>3, <2>4, CalmHandler
<1> QED BY <1>9, <1>10

-----------------------------------------------------------------------------
LEMMA ResolutionStep == ResolutionInv /\ [Next]_vars => ResolutionInv'
<1> SUFFICES ASSUME ResolutionInv, [Next]_vars PROVE ResolutionInv'
  OBVIOUS
<1>1. CASE UNCHANGED vars
  <2>1. UNCHANGED <<docs, edges, pairs, active, runs, merges, op, overlapped, ops, aborts>>
    BY <1>1 DEF vars
  <2>2. ClassesSound'
    BY <2>1 DEF ResolutionInv, ClassesSound, TypeOK, PairsKnown, Informed, TargetsSucceeded
  <2>3. FiledRight' = FiledRight /\ OneWay' = OneWay /\ Once' = Once
    BY <2>1 DEF FiledRight, OneWay, Once
  <2>4. \A t \in Threads : (Undisturbed(t) => Undisturbed(t)') /\ (OthersIdle(t) => OthersIdle(t)')
    BY <2>1 DEF Undisturbed, OthersIdle, Unresolved
  <2> QED BY <2>1, <2>2, <2>3, <2>4 DEF ResolutionInv
<1>2. ASSUME NEW t \in Threads,
             \/ BeginRun(t) \/ Block(t) \/ Score(t) \/ FinishRun(t)
             \/ BeginDecision(t) \/ Mark(t)
             \/ BeginMerge(t) \/ ReadClasses(t) \/ ReadTarget(t)
             \/ UpdateTarget(t) \/ ExpireSource(t)
             \/ Abort(t)
      PROVE  ResolutionInv'
  BY <1>2, BeginRunStep, BlockStep, ScoreStep, FinishRunStep, BeginDecisionStep, MarkStep, BeginMergeStep, ReadClassesStep,
     ReadTargetStep, UpdateTargetStep, ExpireSourceStep, AbortStep
<1> QED BY <1>1, <1>2 DEF Next

LEMMA ResolutionAlways == Spec => []ResolutionInv
<1> QED BY InitResolution, ResolutionStep, PTL DEF Spec

(* The types of the pipeline's runs, the candidate pairs and the handlers,  *)
(* for any number of classes, ontologies and requests (services/er.py).     *)
THEOREM ResolutionTypesHold == Spec => []TypeOK
<1>1. ResolutionInv => TypeOK
  BY DEF ResolutionInv, ClassesSound
<1> QED BY <1>1, ResolutionAlways, PTL

(* accept_candidate, as long as operations do not overlap and wherever they *)
(* die: accepting a pair again merges nothing twice, because the first      *)
(* merge has left the pair's target with a successor, unless the expiry of  *)
(* that target failed unnoticed.                                            *)
THEOREM PairsMergeOnce == Spec => []MergedOnce
<1>1. ResolutionInv => MergedOnce
  BY DEF ResolutionInv, Once, MergedOnce
<1> QED BY <1>1, ResolutionAlways, PTL

(* _execute_scoring and the verdicts, as long as operations do not overlap: *)
(* a pair is filed under the ontology of its classes although the tag comes *)
(* from the configuration that all runs share, and none is both accepted    *)
(* and rejected.                                                            *)
THEOREM PairsFiledAndDecided == Spec => [](PairsFiledRight /\ DecidedOneWay)
<1>1. ResolutionInv => PairsFiledRight /\ DecidedOneWay
  BY DEF ResolutionInv, FiledRight, OneWay, PairsFiledRight, DecidedOneWay
<1> QED BY <1>1, ResolutionAlways, PTL

-----------------------------------------------------------------------------
(* Individuals: their types and their facts.                                *)

\* The handlers at work on an individual's types, or about to expire it.
AtTypes == {"type", "untype", "retype", "facts", "retract", "drop"}

\* A fact need not be continued, and it has been, by a later one.
Touched(f) == {facts[f].from, facts[f].to} \cap refused # {}
Settled(f) == facts[f].live \/ Closed(f) \/ Touched(f)
Carried(f) == \/ Closed(f)
              \/ \E g \in DOMAIN facts : g > f /\ facts[g].root = facts[f].root /\ Settled(g)

\* What a handler has in hand is there, and what it is about to expire may go.
Prepared(o) ==
    /\ \A c \in o.canon \cup o.local : c.of \in DOMAIN people
    /\ \A p \in o.pairs : p.keep \in DOMAIN people /\ p.drop \in DOMAIN people
    /\ o.pc \in {"chunk", "mention", "type"} => o.request.homes # <<>>
    /\ o.pc \notin {"idle", "chunk", "mention", "next"} => o.drop \in DOMAIN people
    /\ o.pc \in {"move", "expire", "union", "unite"} => o.keep \in DOMAIN people
    /\ o.pc \in {"next", "move", "expire", "union", "unite"} => o.kind = "merge"
    /\ o.pc = "relabel" => o.kind = "edit"
    /\ o.pc \in {"move", "expire"} =>
          o.edges \subseteq DOMAIN facts /\ \E u \in unions : u.keep = o.keep /\ u.drop = o.drop
    /\ o.pc = "expire" => o.edge \in DOMAIN facts /\ Carried(o.edge)
    /\ o.pc \in {"types", "untype"} /\ o.kind = "reject" => o.drop \in refused
    /\ o.pc \in {"facts", "retract"} => o.kind = "reject" /\ o.drop \in refused
    /\ o.pc = "drop" => o.kind \in {"merge", "reject"}
    /\ o.pc = "retract" => \A f \in o.edges : f \in DOMAIN facts /\ o.drop \in {facts[f].from, facts[f].to}
    /\ o.pc = "untype" => \A k \in o.edges : k \in DOMAIN typings /\ typings[k].of = o.drop

FactsKept == \A f \in DOMAIN facts : \E g \in DOMAIN facts : facts[g].root = facts[f].root /\ Settled(g)

AtWork(i) == \E h \in Handlers : task[h].pc \in AtTypes /\ task[h].drop = i
AllTyped == deaths = 0 => \A i \in Alive(people) : TypesOf(i) # {} \/ AtWork(i)

AboxInv == AboxTypeOK /\ (\A h \in Handlers : Prepared(task[h])) /\ FactsKept /\ AllTyped

-----------------------------------------------------------------------------
(* What every step leaves as it was, and what follows from that.            *)

FactsGrow ==
    /\ DOMAIN facts \subseteq DOMAIN facts'
    /\ \A f \in DOMAIN facts : /\ facts'[f].from = facts[f].from /\ facts'[f].to = facts[f].to
                               /\ facts'[f].root = facts[f].root
    /\ \A f \in DOMAIN facts' \ DOMAIN facts : facts'[f].live
AboxGrows ==
    /\ DOMAIN people \subseteq DOMAIN people' /\ FactsGrow
    /\ DOMAIN typings \subseteq DOMAIN typings' /\ \A k \in DOMAIN typings : typings'[k].of = typings[k].of
    /\ unions \subseteq unions' /\ refused \subseteq refused'

\* One fact at most is expired, and only one that may go.
MayGo(e) ==
    /\ \A f \in DOMAIN facts \ {e} : facts'[f].live = facts[f].live
    /\ e \in DOMAIN facts => Carried(e) \/ Touched(e)'

MovesOnly(h) == task' \in [Handlers -> Task] /\ \A s \in Handlers \ {h} : task'[s] = task[s]

LEMMA Became == ASSUME AboxTypeOK, NEW h \in Handlers, NEW t \in Task, Become(h, t)
                PROVE  MovesOnly(h) /\ task'[h] = t
BY DEF AboxTypeOK, Become, MovesOnly

LEMMA IdleIsTask == /\ IdleTask \in Task /\ IdleTask.pc = "idle" /\ IdleTask.kind = "" /\ IdleTask.canon = {}
                    /\ IdleTask.local = {} /\ IdleTask.pairs = {} /\ IdleTask.drop = 0 /\ IdleTask.edges = {}
<1>1. <<>> \in Mentions /\ <<>> \in Statements /\ <<>> \in Sources
  BY DEF Mentions, Statements, Sources
<1>2. [homes |-> <<>>, guided |-> TRUE, scoped |-> FALSE] \in Request
  BY DEF Request
<1>3. NoTerm \in Term
  BY DEF NoTerm, Term, Text
<1>4. "" \in Text /\ "idle" \in Stage /\ "" \in Kind
  BY DEF Text, Stage, Kind
<1>5. {} \in Canons /\ {} \in Locals /\ {} \in PairSets /\ {} \in Keys
  BY DEF Canons, Locals, PairSets, Keys
<1> QED BY <1>1, <1>2, <1>3, <1>4, <1>5 DEF IdleTask, Task

LEMMA FactsCarried ==
    ASSUME AboxTypeOK, AboxGrows, NEW e, MayGo(e), NEW f \in DOMAIN facts
    PROVE  /\ Closed(f) => Closed(f)'
           /\ Carried(f) => Carried(f)'
           /\ (\E g \in DOMAIN facts : facts[g].root = facts[f].root /\ Settled(g))
                => \E g \in DOMAIN facts' : facts'[g].root = facts'[f].root /\ Settled(g)'
<1>1. DOMAIN facts \subseteq Nat
  BY DEF AboxTypeOK
<1>2. \A g \in DOMAIN facts : (Closed(g) => Closed(g)') /\ (Touched(g) => Touched(g)')
  BY DEF AboxGrows, FactsGrow, Closed, Touched
<1>3. \A g \in DOMAIN facts \ {e} : Settled(g) => Settled(g)'
  BY <1>2 DEF Settled, MayGo
<1>4. e \in DOMAIN facts => Settled(e)' \/ \E g \in DOMAIN facts : g > e /\ facts[g].root = facts[e].root /\ Settled(g)'
  <2>1. CASE e \in DOMAIN facts /\ Touched(e)'
    BY <2>1 DEF Settled
  <2>2. CASE e \in DOMAIN facts /\ Closed(e)
    BY <1>2, <2>2 DEF Settled
  <2>3. CASE e \in DOMAIN facts /\ \E g \in DOMAIN facts : g > e /\ facts[g].root = facts[e].root /\ Settled(g)
    BY <1>1, <1>3, <2>3
  <2> QED BY <2>1, <2>2, <2>3 DEF MayGo, Carried
<1>5. Carried(f) => Carried(f)'
  <2> SUFFICES ASSUME NEW g \in DOMAIN facts, g > f, facts[g].root = facts[f].root, Settled(g)
               PROVE  Carried(f)'
    BY <1>2 DEF Carried
  <2>1. \E j \in DOMAIN facts : j > f /\ facts[j].root = facts[f].root /\ Settled(j)'
    BY <1>1, <1>3, <1>4
  <2> QED BY <2>1 DEF Carried, AboxGrows, FactsGrow
<1>6. ASSUME NEW g \in DOMAIN facts, facts[g].root = facts[f].root, Settled(g)
      PROVE  \E j \in DOMAIN facts' : facts'[j].root = facts'[f].root /\ Settled(j)'
  <2>1. \E j \in DOMAIN facts : facts[j].root = facts[f].root /\ Settled(j)'
    BY <1>3, <1>4, <1>6
  <2> QED BY <2>1 DEF AboxGrows, FactsGrow
<1> QED BY <1>2, <1>5, <1>6

LEMMA OthersPrepared ==
    ASSUME AboxTypeOK, AboxGrows, NEW e, MayGo(e), NEW h \in Handlers, MovesOnly(h), NEW s \in Handlers \ {h},
           Prepared(task[s])
    PROVE  Prepared(task[s])'
<1>1. task'[s] = task[s] /\ task[s] \in Task
  BY DEF MovesOnly, AboxTypeOK
<1>2. /\ \A c \in task[s].canon \cup task[s].local : c.of \in DOMAIN people'
      /\ \A p \in task[s].pairs : p.keep \in DOMAIN people' /\ p.drop \in DOMAIN people'
      /\ task[s].pc \notin {"idle", "chunk", "mention", "next"} => task[s].drop \in DOMAIN people'
      /\ task[s].pc \in {"move", "expire", "union", "unite"} => task[s].keep \in DOMAIN people'
  BY DEF Prepared, AboxGrows
<1>3. task[s].pc \in {"move", "expire"} =>
         task[s].edges \subseteq DOMAIN facts' /\ \E u \in unions' : u.keep = task[s].keep /\ u.drop = task[s].drop
  BY DEF Prepared, AboxGrows, FactsGrow
<1>4. task[s].pc = "expire" => task[s].edge \in DOMAIN facts' /\ Carried(task[s].edge)'
  <2>1. SUFFICES ASSUME task[s].pc = "expire" PROVE task[s].edge \in DOMAIN facts' /\ Carried(task[s].edge)'
    OBVIOUS
  <2>2. PICK f \in DOMAIN facts : f = task[s].edge /\ Carried(f)
    BY <2>1 DEF Prepared
  <2>3. f \in DOMAIN facts' /\ Carried(f)'
    BY <2>2, FactsCarried DEF AboxGrows, FactsGrow
  <2>4. task'[s].edge = f
    BY <1>1, <2>2
  <2> QED BY <1>1, <2>2, <2>3, <2>4 DEF Carried, Closed, Settled, Touched
<1>5. task[s].pc = "retract" => \A f \in task[s].edges : f \in DOMAIN facts' /\ task[s].drop \in {facts'[f].from, facts'[f].to}
  BY DEF Prepared, AboxGrows, FactsGrow
<1>6. task[s].pc = "untype" => \A k \in task[s].edges : k \in DOMAIN typings' /\ typings'[k].of = task[s].drop
  BY DEF Prepared, AboxGrows
<1>7. /\ task[s].pc \in {"types", "untype"} /\ task[s].kind = "reject" => task[s].drop \in refused'
      /\ task[s].pc \in {"facts", "retract"} => task[s].kind = "reject" /\ task[s].drop \in refused'
      /\ task[s].pc = "drop" => task[s].kind \in {"merge", "reject"}
      /\ task[s].pc \in {"chunk", "mention", "type"} => task[s].request.homes # <<>>
      /\ task[s].pc \in {"next", "move", "expire", "union", "unite"} => task[s].kind = "merge"
      /\ task[s].pc = "relabel" => task[s].kind = "edit"
  BY DEF Prepared, AboxGrows
<1> QED BY <1>1, <1>2, <1>3, <1>4, <1>5, <1>6, <1>7 DEF Prepared

\* What is left to show of a step.
LEMMA AboxStep ==
    ASSUME AboxInv, AboxTypeOK', AboxGrows, NEW e, MayGo(e), NEW h \in Handlers, MovesOnly(h),
           Prepared(task[h])', AllTyped'
    PROVE  AboxInv'
<1>1. \A s \in Handlers : Prepared(task[s])'
  BY OthersPrepared DEF AboxInv
<1>2. FactsKept'
  <2>1. \A f \in DOMAIN facts : \E g \in DOMAIN facts' : facts'[g].root = facts'[f].root /\ Settled(g)'
    BY FactsCarried DEF AboxInv, FactsKept
  <2>2. \A f \in DOMAIN facts' \ DOMAIN facts : Settled(f)'
    BY DEF AboxGrows, FactsGrow, Settled
  <2> QED BY <2>1, <2>2 DEF FactsKept
<1> QED BY <1>1, <1>2 DEF AboxInv

\* What a step may do to the individuals and types.
WorkedThen(i) == \E s \in Handlers : task'[s].pc \in AtTypes /\ task'[s].drop = i
LEMMA TypedStays ==
    ASSUME AboxInv, NEW h \in Handlers, MovesOnly(h), deaths' = 0 => deaths = 0,
           \A i \in Alive(people') : i \in Alive(people) \/ WorkedThen(i),
           \A k \in Alive(typings) : (k \in Alive(typings') /\ typings'[k].of = typings[k].of) \/ WorkedThen(typings[k].of),
           deaths' = 0 /\ task[h].pc \in AtTypes =>
              \/ WorkedThen(task[h].drop) \/ task[h].drop \notin Alive(people')
              \/ \E k \in Alive(typings') : typings'[k].of = task[h].drop
    PROVE  AllTyped'
<1> SUFFICES ASSUME deaths' = 0, NEW i \in Alive(people') PROVE TypesOf(i)' # {} \/ AtWork(i)'
  BY DEF AllTyped
<1>1. WorkedThen(i) => AtWork(i)'
  BY DEF WorkedThen, AtWork
<1> SUFFICES ASSUME ~WorkedThen(i) PROVE TypesOf(i)' # {}
  BY <1>1
<1>2. i \in Alive(people) /\ (TypesOf(i) # {} \/ AtWork(i))
  BY DEF AboxInv, AllTyped
<1>3. CASE TypesOf(i) # {}
  BY <1>3 DEF TypesOf
<1>4. CASE AtWork(i)
  <2>1. task[h].pc \in AtTypes /\ task[h].drop = i
    BY <1>4 DEF AtWork, WorkedThen, MovesOnly
  <2> QED BY <2>1 DEF TypesOf
<1> QED BY <1>2, <1>3, <1>4

\* A step that reads, or begins, or gives up.
LEMMA AboxQuiet ==
    ASSUME AboxInv, NEW h \in Handlers, NEW t \in Task, Become(h, t), UNCHANGED <<people, typings, facts, refused>>,
           unions \subseteq unions', unions' \subseteq Union,
           acts' \in Nat, deaths' \in Nat, deaths' = 0 => deaths = 0,
           deaths' = 0 /\ task[h].pc \in AtTypes => t.pc \in AtTypes /\ t.drop = task[h].drop,
           MovesOnly(h) /\ task'[h] = t => Prepared(task[h])'
    PROVE  AboxInv'
<1>1. AboxTypeOK
  BY DEF AboxInv
<1>2. MovesOnly(h) /\ task'[h] = t
  BY <1>1, Became
<1>3. AboxTypeOK'
  BY <1>1, <1>2 DEF AboxTypeOK, MovesOnly
<1>4. AboxGrows /\ MayGo(0)
  BY <1>1 DEF AboxGrows, FactsGrow, MayGo, AboxTypeOK
<1>5. deaths' = 0 /\ task[h].pc \in AtTypes => WorkedThen(task[h].drop)
  BY <1>2 DEF WorkedThen
<1>6. AllTyped'
  BY <1>2, <1>5, TypedStays
<1> QED BY <1>2, <1>3, <1>4, <1>6, AboxStep

\* An expiry that fails.
Failing == deaths' = deaths + 1
LEMMA FailedStep ==
    ASSUME AboxInv, NEW h \in Handlers, NEW t \in Task, Become(h, t), UNCHANGED <<people, typings, facts, refused, unions, acts>>,
           Failing, AboxGrows /\ task'[h] = t => Prepared(task[h])'
    PROVE  AboxInv'
<1>1. AboxTypeOK
  BY DEF AboxInv
<1>2. acts' \in Nat /\ deaths' \in Nat /\ deaths' # 0 /\ unions' \subseteq Union
  BY <1>1 DEF AboxTypeOK, Failing
<1>3. AboxGrows
  BY DEF AboxGrows, FactsGrow
<1> QED BY <1>2, <1>3, AboxQuiet

LEMMA SeededTyped == \A k \in DOMAIN Seeded :
                        Seeded[k].class \in Term /\ Seeded[k].name \in Text /\ Seeded[k].span \in BOOLEAN
<1> SUFFICES ASSUME NEW k \in DOMAIN Seeded
             PROVE  Seeded[k].class \in Term /\ Seeded[k].name \in Text /\ Seeded[k].span \in BOOLEAN
  OBVIOUS
<1> DEFINE Rows == [name : Text, class : ClassTerms, span : BOOLEAN]
<1>1. Seeded \in Seq(Rows) /\ ClassTerms \subseteq Term
  BY AboxAssumption
<1> HIDE DEF Rows
<1>2. Seeded[k] \in Rows
  BY <1>1
<1> QED BY <1>1, <1>2 DEF Rows

LEMMA InitAbox == AboxInit => AboxInv
<1> SUFFICES ASSUME AboxInit PROVE AboxInv
  OBVIOUS
<1> USE AboxAssumption
<1>0. \A k \in DOMAIN Seeded : Seeded[k].class \in Term /\ Seeded[k].name \in Text /\ Seeded[k].span \in BOOLEAN
  BY SeededTyped
<1> DEFINE first(k) == Individual(Seeded[k].class.home, Seeded[k].name, <<[chunk |-> 0, span |-> Seeded[k].span]>>)
<1>1. people \in Seq(IndividualRow) /\ DOMAIN people = DOMAIN Seeded
  <2>1. ASSUME NEW k \in DOMAIN Seeded PROVE first(k) \in IndividualRow
    <3>1. Seeded[k].class \in Term /\ Seeded[k].name \in Text /\ Seeded[k].span \in BOOLEAN
      BY <1>0
    <3>2. [chunk |-> 0, span |-> Seeded[k].span] \in [chunk : Nat, span : BOOLEAN]
      BY <3>1
    <3>3. <<[chunk |-> 0, span |-> Seeded[k].span]>> \in Sources
      BY <3>2 DEF Sources
    <3>4. Seeded[k].class.home \in Text
      BY <3>1 DEF Term
    <3> QED BY <3>1, <3>3, <3>4 DEF Individual, IndividualRow, Keys
  <2> HIDE DEF first
  <2>2. people = [k \in DOMAIN Seeded |-> first(k)]
    BY DEF AboxInit, first
  <2>3. DOMAIN Seeded = 1 .. Len(Seeded) /\ Len(Seeded) \in Nat
    OBVIOUS
  <2>4. people \in [1 .. Len(Seeded) -> IndividualRow]
    BY <2>1, <2>2, <2>3
  <2> QED BY <2>2, <2>3, <2>4, SeqDef
<1>2. typings \in Seq(TypingRow) /\ DOMAIN typings = DOMAIN Seeded /\ \A k \in DOMAIN Seeded : typings[k].of = k /\ typings[k].live
  <2>1. DOMAIN Seeded = 1 .. Len(Seeded) /\ Len(Seeded) \in Nat
    OBVIOUS
  <2>2. ASSUME NEW k \in DOMAIN Seeded
        PROVE  Typing(k, Seeded[k].class) \in TypingRow /\ Typing(k, Seeded[k].class).of = k /\ Typing(k, Seeded[k].class).live
    BY <1>0, <2>1 DEF Typing, TypingRow
  <2>3. typings = [k \in DOMAIN Seeded |-> Typing(k, Seeded[k].class)]
    BY DEF AboxInit
  <2>4. typings \in [1 .. Len(Seeded) -> TypingRow]
    BY <2>1, <2>2, <2>3
  <2> QED BY <2>1, <2>2, <2>3, <2>4, SeqDef
<1>3. facts \in Seq(FactRow) /\ \A f \in DOMAIN facts : facts[f].live
  <2> DEFINE row(k) == Fact(people[SeededFacts[k][1]].home, SeededFacts[k][1], SeededFacts[k][2], TRUE,
                            people[SeededFacts[k][1]].home # people[SeededFacts[k][2]].home, k)
  <2>1. DOMAIN SeededFacts = 1 .. Len(SeededFacts) /\ Len(SeededFacts) \in Nat
    OBVIOUS
  <2>2. ASSUME NEW k \in DOMAIN SeededFacts PROVE row(k) \in FactRow /\ row(k).live
    <3>1. SeededFacts[k][1] \in DOMAIN Seeded /\ SeededFacts[k][2] \in DOMAIN Seeded /\ DOMAIN Seeded \subseteq Nat
      OBVIOUS
    <3>2. people[SeededFacts[k][1]] \in IndividualRow
      BY <1>1, <3>1
    <3>3. people[SeededFacts[k][1]].home \in Text
      BY <3>2 DEF IndividualRow
    <3> QED BY <2>1, <3>1, <3>3 DEF Fact, FactRow
  <2>3. facts = [k \in DOMAIN SeededFacts |-> row(k)]
    BY DEF AboxInit
  <2> HIDE DEF row
  <2>4. facts \in [1 .. Len(SeededFacts) -> FactRow]
    BY <2>1, <2>2, <2>3
  <2> QED BY <2>1, <2>2, <2>3, <2>4, SeqDef
<1>4. \A h \in Handlers : task[h] = IdleTask
  BY DEF AboxInit
<1>5. AboxTypeOK
  BY <1>1, <1>2, <1>3, IdleIsTask DEF AboxInit, AboxTypeOK
<1>6. \A h \in Handlers : Prepared(task[h])
  BY <1>4, IdleIsTask DEF Prepared
<1>7. FactsKept
  BY <1>3 DEF FactsKept, Settled
<1>8. AllTyped
  BY <1>1, <1>2 DEF AllTyped, Alive, TypesOf
<1> QED BY <1>5, <1>6, <1>7, <1>8 DEF AboxInv

LEMMA InHand == ASSUME AboxInv, NEW h \in Handlers
                PROVE  AboxTypeOK /\ task[h] \in Task /\ Prepared(task[h]) /\ acts \in Nat /\ deaths \in Nat
BY DEF AboxInv, AboxTypeOK

\* A step that begins leaves the handler with what it was given.
LEMMA Commenced == ASSUME AboxInv, NEW h \in Handlers, Free(h), NEW t \in Task, Commence(h, t), UNCHANGED <<abox, past>>,
                          MovesOnly(h) /\ task'[h] = t => Prepared(task[h])'
                   PROVE  AboxInv'
<1>1. task[h].pc \notin AtTypes
  BY DEF Free, AtTypes
<1>2. unions' \subseteq Union
  BY DEF past, AboxInv, AboxTypeOK
<1>3. UNCHANGED <<people, typings, facts, refused, unions>>
  BY DEF abox, past
<1> QED BY <1>1, <1>2, <1>3, InHand, AboxQuiet DEF Commence

-----------------------------------------------------------------------------
(* Extraction.                                                              *)

LEMMA BeginExtractStep == ASSUME AboxInv, NEW h \in Handlers, BeginExtract(h) PROVE AboxInv'
<1>1. PICK request \in Requests : Commence(h, [IdleTask EXCEPT !.pc = "chunk", !.request = request])
  BY DEF BeginExtract
<1> DEFINE t == [IdleTask EXCEPT !.pc = "chunk", !.request = request]
<1>2. request \in Request /\ request.homes # <<>>
  BY AboxAssumption
<1>3. /\ t \in Task /\ t.pc = "chunk" /\ t.request = request /\ t.canon = {} /\ t.local = {} /\ t.pairs = {}
  <2>1. "chunk" \in Stage
    BY DEF Stage
  <2> QED BY <1>2, <2>1, IdleIsTask DEF Task
<1> HIDE DEF t
<1>4. Commence(h, t)
  BY <1>1 DEF t
<1>5. ASSUME task'[h] = t PROVE Prepared(task[h])'
  BY <1>2, <1>3, <1>5 DEF Prepared
<1> QED BY <1>3, <1>4, <1>5, Commenced DEF BeginExtract

LEMMA ReadChunkStep == ASSUME AboxInv, NEW h \in Handlers, ReadChunk(h) PROVE AboxInv'
<1>1. task[h] \in Task /\ Prepared(task[h]) /\ acts \in Nat /\ deaths \in Nat
  BY InHand
<1>2. /\ task[h].pc = "chunk" /\ task[h].pc \notin AtTypes
      /\ UNCHANGED <<people, typings, facts, refused, unions, acts, deaths>>
      /\ unions' \subseteq Union
  BY DEF ReadChunk, AtTypes, abox, past, AboxInv, AboxTypeOK
<1>3. CASE Rest(h)
  <2>1. ASSUME task'[h] = IdleTask PROVE Prepared(task[h])'
    BY <2>1, IdleIsTask DEF Prepared
  <2> QED BY <1>1, <1>2, <1>3, <2>1, IdleIsTask, AboxQuiet DEF Rest
<1>4. ASSUME NEW reading \in Readings,
             Become(h, [task[h] EXCEPT !.pc = "mention", !.chunk = @ + 1, !.local = {},
                           !.mentions = reading.mentions, !.statements = reading.statements])
      PROVE  AboxInv'
  <2> DEFINE t == [task[h] EXCEPT !.pc = "mention", !.chunk = @ + 1, !.local = {},
                       !.mentions = reading.mentions, !.statements = reading.statements]
  <2>1. reading.mentions \in Mentions /\ reading.statements \in Statements
    BY AboxAssumption
  <2>2. /\ t \in Task /\ t.pc = "mention" /\ t.canon = task[h].canon /\ t.local = {} /\ t.pairs = task[h].pairs
        /\ t.request = task[h].request
    <3>1. "mention" \in Stage /\ {} \in Locals
      BY DEF Stage, Locals
    <3>2. task[h].chunk + 1 \in Nat
      BY <1>1 DEF Task
    <3> QED BY <1>1, <2>1, <3>1, <3>2 DEF Task
  <2>3. Become(h, t)
    BY <1>4
  <2> HIDE DEF t
  <2>4. ASSUME task'[h] = t PROVE Prepared(task[h])'
    BY <1>1, <1>2, <2>2, <2>4 DEF Prepared
  <2> QED BY <1>1, <1>2, <2>2, <2>3, <2>4, AboxQuiet
<1> QED BY <1>3, <1>4 DEF ReadChunk

LEMMA OwnerIsTerm == ASSUME NEW homes \in Seq(Text), homes # <<>>, NEW word \in Text
                     PROVE  OwnerOf(homes, word) \in Term /\ HomeOf(homes, OwnerOf(homes, word)) \in Text
<1> DEFINE owners == {i \in DOMAIN homes : [home |-> homes[i], word |-> word] \in ClassTerms}
           first == CHOOSE i \in owners : \A j \in owners : i <= j
<1>1. OwnerOf(homes, word) = IF owners = {} THEN NoTerm ELSE [home |-> homes[first], word |-> word]
  BY DEF OwnerOf
<1>2. owners \subseteq DOMAIN homes /\ owners \in SUBSET Nat
  OBVIOUS
<1>3. homes[1] \in Text
  OBVIOUS
<1>4. ASSUME owners # {} PROVE first \in owners
  <2> HIDE DEF owners
  <2>1. PICK x \in owners : \A y \in owners : ~(<<y, x>> \in OpToRel(<, Nat))
    BY <1>2, <1>4, NatLessThanWellFounded, WFMin
  <2>2. ASSUME NEW y \in owners, y < x PROVE <<y, x>> \in OpToRel(<, Nat)
    BY <1>2, <2>2 DEF OpToRel
  <2>3. \A y \in owners : ~(y < x)
    BY <2>1, <2>2
  <2>4. \A y \in owners : x <= y
    BY <1>2, <2>3
  <2> QED BY <2>4
<1>5. NoTerm \in Term
  BY DEF NoTerm, Term, Text
<1>6. ASSUME owners # {} PROVE [home |-> homes[first], word |-> word] \in Term
  <2>1. homes[first] \in Text
    BY <1>2, <1>4, <1>6
  <2> QED BY <2>1 DEF Term
<1> HIDE DEF owners, first
<1>7. OwnerOf(homes, word) \in Term
  BY <1>1, <1>5, <1>6
<1> QED BY <1>3, <1>7 DEF HomeOf, Term

LEMMA HeadAndTail == ASSUME NEW S, NEW s \in Seq(S), s # <<>> PROVE Head(s) \in S /\ Tail(s) \in Seq(S)
OBVIOUS

LEMMA LearnIs == ASSUME NEW local \in Locals, NEW name \in Text, NEW i \in Nat, NEW span \in BOOLEAN
                 PROVE  Learn(local, name, i, span) \in Locals /\ \A l \in Learn(local, name, i, span) : l \in local \/ l.of = i
BY DEF Learn, Locals

LEMMA CreateIndividualStep == ASSUME AboxInv, NEW h \in Handlers, CreateIndividual(h) PROVE AboxInv'
<1> DEFINE t == task[h]
           m == Head(t.mentions)
           class == OwnerOf(t.request.homes, m.word)
           home == HomeOf(t.request.homes, class)
           span == m.name \in Excerpts[t.chunk]
           rest == [t EXCEPT !.mentions = Tail(t.mentions)]
           row == Individual(home, m.name, <<[chunk |-> t.chunk, span |-> span]>>)
           i == Len(people) + 1
           Heard(c) == [rest EXCEPT !.local = Learn(t.local, m.name, c, span)]
           made == [rest EXCEPT !.pc = "type", !.drop = i, !.class = class,
                       !.canon = t.canon \cup {[class |-> class, name |-> m.name, of |-> i]},
                       !.local = Learn(t.local, m.name, i, span)]
<1>1. AboxTypeOK /\ t \in Task /\ Prepared(t) /\ acts \in Nat /\ deaths \in Nat
  BY InHand
<1>2. /\ t.pc = "mention" /\ t.pc \notin AtTypes /\ t.mentions # <<>>
      /\ UNCHANGED <<typings, facts, refused, unions, acts, deaths>>
      /\ unions' \subseteq Union
  BY DEF CreateIndividual, AtTypes, past, AboxInv, AboxTypeOK
<1>3. /\ t.mentions \in Mentions /\ t.request \in Request /\ t.local \in Locals /\ t.canon \in Canons /\ t.chunk \in Nat
      /\ t.request.homes \in Seq(Text) /\ t.request.homes # <<>>
  BY <1>1, <1>2 DEF Task, Request, Prepared
<1>4. m \in [name : Text, word : Text] /\ Tail(t.mentions) \in Mentions
  BY <1>2, <1>3, HeadAndTail DEF Mentions
<1>5. m.name \in Text /\ m.word \in Text /\ span \in BOOLEAN
  BY <1>4
<1>6. class \in Term /\ home \in Text
  BY <1>3, <1>5, OwnerIsTerm
<1>7. i \in Nat /\ i \notin DOMAIN people /\ DOMAIN people \subseteq Nat
  BY <1>1 DEF AboxTypeOK
<1> HIDE DEF m, class, home, span
<1>8. rest \in Task /\ rest.pc = "mention" /\ rest.canon = t.canon /\ rest.local = t.local /\ rest.pairs = t.pairs
      /\ rest.request = t.request
  BY <1>1, <1>2, <1>4 DEF Task
<1>9. ASSUME NEW c \in DOMAIN people
      PROVE  /\ Heard(c) \in Task /\ Heard(c).pc = "mention" /\ Heard(c).canon = t.canon /\ Heard(c).pairs = t.pairs
             /\ Heard(c).local = Learn(t.local, m.name, c, span) /\ Heard(c).request = t.request
  <2>1. Learn(t.local, m.name, c, span) \in Locals
    BY <1>3, <1>5, <1>7, LearnIs
  <2> HIDE DEF rest
  <2> QED BY <1>8, <2>1 DEF Task
<1>10. /\ made \in Task /\ made.pc = "type" /\ made.drop = i /\ made.pairs = t.pairs /\ made.request = t.request
       /\ made.canon = t.canon \cup {[class |-> class, name |-> m.name, of |-> i]}
       /\ made.local = Learn(t.local, m.name, i, span)
  <2>1. Learn(t.local, m.name, i, span) \in Locals
    BY <1>3, <1>5, <1>7, LearnIs
  <2>2. t.canon \cup {[class |-> class, name |-> m.name, of |-> i]} \in Canons
    BY <1>3, <1>5, <1>6, <1>7 DEF Canons
  <2>3. "type" \in Stage
    BY DEF Stage
  <2> HIDE DEF rest, i
  <2> QED BY <1>6, <1>7, <1>8, <2>1, <2>2, <2>3 DEF Task
<1> HIDE DEF rest, made
<1>11. CASE Become(h, rest) /\ UNCHANGED people
  <2>1. ASSUME task'[h] = rest PROVE Prepared(task[h])'
    BY <1>1, <1>2, <1>8, <1>11, <2>1 DEF Prepared
  <2> QED BY <1>1, <1>2, <1>8, <1>11, <2>1, AboxQuiet
<1>12. ASSUME NEW c \in t.canon, Become(h, Heard(c.of)), UNCHANGED people PROVE AboxInv'
  <2>1. c.of \in DOMAIN people
    BY <1>1 DEF Prepared
  <2> DEFINE o == Heard(c.of)
  <2>2. /\ o \in Task /\ o.pc = "mention" /\ o.canon = t.canon /\ o.pairs = t.pairs
        /\ o.local = Learn(t.local, m.name, c.of, span) /\ o.request = t.request
    BY <1>9, <2>1
  <2>3. \A l \in o.local : l.of \in DOMAIN people
    BY <1>1, <1>3, <1>5, <1>7, <2>1, <2>2, LearnIs DEF Prepared
  <2> HIDE DEF o
  <2>4. ASSUME task'[h] = o PROVE Prepared(task[h])'
    BY <1>1, <1>2, <1>12, <2>2, <2>3, <2>4 DEF Prepared
  <2>5. Become(h, o)
    BY <1>12 DEF o
  <2> QED BY <1>1, <1>2, <1>12, <2>2, <2>4, <2>5, AboxQuiet
<1>13. CASE people' = Append(people, row) /\ Become(h, made)
  <2>1. row \in IndividualRow
    <3>1. <<[chunk |-> t.chunk, span |-> span]>> \in Sources
      BY <1>3, <1>5 DEF Sources
    <3> HIDE DEF t
    <3> QED BY <1>5, <1>6, <3>1 DEF Individual, IndividualRow, Keys
  <2> HIDE DEF row
  <2>2. /\ people' \in Seq(IndividualRow) /\ DOMAIN people' = DOMAIN people \cup {i}
        /\ \A j \in DOMAIN people : people'[j] = people[j]
    BY <1>1, <1>13, <2>1 DEF AboxTypeOK
  <2> HIDE DEF i
  <2>3. MovesOnly(h) /\ task'[h] = made
    BY <1>1, <1>10, <1>13, Became
  <2>4. AboxTypeOK'
    BY <1>1, <1>2, <2>2, <2>3 DEF AboxTypeOK, MovesOnly
  <2>5. AboxGrows /\ MayGo(0)
    BY <1>1, <1>2, <2>2 DEF AboxGrows, FactsGrow, MayGo, AboxTypeOK
  <2>6. Prepared(task[h])'
    <3>1. \A c \in made.canon \cup made.local : c.of \in DOMAIN people'
      BY <1>1, <1>3, <1>5, <1>7, <1>10, <2>2, LearnIs DEF Prepared
    <3> QED BY <1>1, <1>2, <1>3, <1>10, <2>2, <2>3, <3>1 DEF Prepared
  <2>7. AllTyped'
    <3>1. WorkedThen(i)
      BY <1>10, <2>3 DEF WorkedThen, AtTypes
    <3>2. \A j \in Alive(people') : j \in Alive(people) \/ WorkedThen(j)
      BY <2>2, <3>1 DEF Alive
    <3> QED BY <1>2, <2>3, <3>2, TypedStays
  <2> QED BY <2>3, <2>4, <2>5, <2>6, <2>7, AboxStep, <1>1
<1> QED
  <2>1. \/ Become(h, rest) /\ UNCHANGED people
        \/ \E c \in t.canon : Become(h, [rest EXCEPT !.local = Learn(rest.local, m.name, c.of, span)]) /\ UNCHANGED people
        \/ /\ people' = Append(people, row)
           /\ Become(h, [rest EXCEPT !.pc = "type", !.drop = Len(people'), !.class = class,
                            !.canon = rest.canon \cup {[class |-> class, name |-> m.name, of |-> Len(people')]},
                            !.local = Learn(rest.local, m.name, Len(people'), span)])
    BY DEF CreateIndividual, rest, m, class, home, span
  <2>2. people' = Append(people, row) => Len(people') = i
    BY <1>1 DEF AboxTypeOK
  <2> QED BY <1>8, <1>11, <1>12, <1>13, <2>1, <2>2 DEF made

\* A step that gives the individual in hand a type.
LEMMA TypeGiven ==
    ASSUME AboxInv, NEW h \in Handlers, NEW t \in Task, Become(h, t), typings' = Append(typings, Typing(task[h].drop, task[h].class)),
           UNCHANGED <<people, facts, unions, refused, acts, deaths>>, task'[h] = t => Prepared(task[h])'
    PROVE  AboxInv'
<1> DEFINE row == Typing(task[h].drop, task[h].class)
           k == Len(typings) + 1
<1>1. AboxTypeOK /\ task[h] \in Task
  BY InHand
<1>2. MovesOnly(h) /\ task'[h] = t
  BY <1>1, Became
<1>3. row \in TypingRow /\ row.of = task[h].drop /\ row.live
  BY <1>1 DEF Typing, TypingRow, Task
<1> HIDE DEF row
<1>4. /\ typings' \in Seq(TypingRow) /\ DOMAIN typings' = DOMAIN typings \cup {k} /\ typings'[k] = row
      /\ \A j \in DOMAIN typings : typings'[j] = typings[j]
  BY <1>1, <1>3 DEF AboxTypeOK, row
<1> HIDE DEF k
<1>5. AboxTypeOK'
  BY <1>1, <1>2, <1>4 DEF AboxTypeOK, MovesOnly
<1>6. AboxGrows /\ MayGo(0)
  BY <1>1, <1>4 DEF AboxGrows, FactsGrow, MayGo, AboxTypeOK
<1>7. AllTyped'
  <2>1. k \in Alive(typings') /\ typings'[k].of = task[h].drop
    BY <1>3, <1>4 DEF Alive
  <2>2. \A j \in Alive(typings) : j \in Alive(typings') /\ typings'[j].of = typings[j].of
    BY <1>4 DEF Alive
  <2> QED BY <1>2, <2>1, <2>2, TypedStays
<1> QED BY <1>2, <1>5, <1>6, <1>7, AboxStep

LEMMA TypeIndividualStep == ASSUME AboxInv, NEW h \in Handlers, TypeIndividual(h) PROVE AboxInv'
<1> DEFINE t == [task[h] EXCEPT !.pc = "mention", !.drop = 0, !.class = NoTerm]
<1>1. AboxTypeOK /\ task[h] \in Task /\ Prepared(task[h]) /\ task[h].pc = "type"
  BY InHand DEF TypeIndividual
<1>2. /\ t \in Task /\ t.pc = "mention" /\ t.canon = task[h].canon /\ t.local = task[h].local /\ t.pairs = task[h].pairs
      /\ t.request = task[h].request
  <2>1. "mention" \in Stage /\ NoTerm \in Term
    BY DEF Stage, NoTerm, Term, Text
  <2> QED BY <1>1, <2>1 DEF Task
<1>3. Become(h, t)
  BY DEF TypeIndividual
<1> HIDE DEF t
<1>4. UNCHANGED <<people, facts, unions, refused, acts, deaths>>
  BY DEF TypeIndividual, past
<1>5. ASSUME task'[h] = t PROVE Prepared(task[h])'
  BY <1>1, <1>2, <1>4, <1>5 DEF Prepared
<1> QED BY <1>2, <1>3, <1>4, <1>5, TypeGiven DEF TypeIndividual

\* A step that states a fact.
LEMMA FactAdded ==
    ASSUME AboxInv, NEW h \in Handlers, task[h].pc \notin AtTypes, NEW t \in Task, Become(h, t), NEW row \in FactRow, row.live,
           facts' = Append(facts, row), UNCHANGED <<people, typings, unions, refused, acts, deaths>>,
           AboxGrows /\ MayGo(0) /\ task'[h] = t /\ facts'[Len(facts) + 1] = row => Prepared(task[h])'
    PROVE  AboxInv'
<1>1. AboxTypeOK
  BY InHand
<1>2. MovesOnly(h) /\ task'[h] = t
  BY <1>1, Became
<1>3. /\ facts' \in Seq(FactRow) /\ DOMAIN facts' = DOMAIN facts \cup {Len(facts) + 1} /\ facts'[Len(facts) + 1] = row
      /\ (\A f \in DOMAIN facts : facts'[f] = facts[f]) /\ 0 \notin DOMAIN facts
  BY <1>1 DEF AboxTypeOK
<1>4. AboxTypeOK'
  BY <1>1, <1>2, <1>3 DEF AboxTypeOK, MovesOnly
<1>5. AboxGrows /\ MayGo(0)
  BY <1>3 DEF AboxGrows, FactsGrow, MayGo
<1>6. AllTyped'
  BY <1>2, TypedStays
<1> QED BY <1>2, <1>3, <1>4, <1>5, <1>6, AboxStep

LEMMA AddFactStep == ASSUME AboxInv, NEW h \in Handlers, AddFact(h) PROVE AboxInv'
<1> DEFINE t == task[h]
           s == Head(t.statements)
           ends == {p \in t.local \X t.local : p[1].name = s[1] /\ p[2].name = s[2]}
           done == [t EXCEPT !.pc = "chunk"]
           rest == [t EXCEPT !.statements = Tail(t.statements)]
           row(p) == Fact(people[p[1].of].home, p[1].of, p[2].of, p[1].span \/ p[2].span,
                          people[p[1].of].home # people[p[2].of].home, Len(facts) + 1)
<1>1. AboxTypeOK /\ t \in Task /\ Prepared(t) /\ acts \in Nat /\ deaths \in Nat
  BY InHand
<1>2. /\ t.pc = "mention" /\ t.pc \notin AtTypes /\ UNCHANGED <<people, typings, refused, unions, acts, deaths>>
      /\ unions' \subseteq Union
  BY DEF AddFact, AtTypes, past, AboxInv, AboxTypeOK
<1>3. /\ done \in Task /\ done.pc = "chunk" /\ done.canon = t.canon /\ done.local = t.local /\ done.pairs = t.pairs
      /\ done.request = t.request
  <2>1. "chunk" \in Stage
    BY DEF Stage
  <2> QED BY <1>1, <2>1 DEF Task
<1>4. ASSUME t.statements # <<>>
      PROVE  /\ rest \in Task /\ rest.pc = "mention" /\ rest.canon = t.canon /\ rest.local = t.local /\ rest.pairs = t.pairs
             /\ rest.request = t.request
  <2>1. t.statements \in Statements
    BY <1>1 DEF Task
  <2>2. Tail(t.statements) \in Statements
    BY <1>4, <2>1, HeadAndTail DEF Statements
  <2> QED BY <1>1, <1>2, <2>2 DEF Task
<1> HIDE DEF done, rest
<1>5. CASE Become(h, done) /\ UNCHANGED facts
  <2>1. ASSUME task'[h] = done PROVE Prepared(task[h])'
    BY <1>1, <1>2, <1>3, <1>5, <2>1 DEF Prepared
  <2> QED BY <1>1, <1>2, <1>3, <1>5, <2>1, AboxQuiet
<1>6. CASE t.statements # <<>> /\ Become(h, rest) /\ UNCHANGED facts
  <2>1. ASSUME task'[h] = rest PROVE Prepared(task[h])'
    BY <1>1, <1>2, <1>4, <1>6, <2>1 DEF Prepared
  <2> QED BY <1>1, <1>2, <1>4, <1>6, <2>1, AboxQuiet
<1>7. ASSUME t.statements # <<>>, Become(h, rest), NEW p \in t.local \X t.local, facts' = Append(facts, row(p)) PROVE AboxInv'
  <2>1. row(p) \in FactRow /\ row(p).live
    <3>1. p[1] \in t.local /\ p[2] \in t.local /\ t.local \in Locals
      BY <1>1 DEF Task
    <3>2. /\ p[1].of \in Nat /\ p[2].of \in Nat /\ p[1].span \in BOOLEAN /\ p[2].span \in BOOLEAN
          /\ p[1].of \in DOMAIN people
      BY <1>1, <3>1 DEF Prepared, Locals
    <3>3. people[p[1].of] \in IndividualRow
      BY <1>1, <3>2 DEF AboxTypeOK
    <3>4. people[p[1].of].home \in Text
      BY <3>3 DEF IndividualRow
    <3>5. Len(facts) + 1 \in Nat
      BY <1>1 DEF AboxTypeOK
    <3> QED BY <3>2, <3>4, <3>5 DEF Fact, FactRow
  <2> HIDE DEF row
  <2>2. ASSUME AboxGrows, task'[h] = rest PROVE Prepared(task[h])'
    BY <1>1, <1>2, <1>4, <1>7, <2>2 DEF Prepared
  <2> QED BY <1>2, <1>4, <1>7, <2>1, <2>2, FactAdded
<1> QED
  <2>1. \/ Become(h, done) /\ UNCHANGED facts
        \/ t.statements # <<>> /\ Become(h, rest) /\ UNCHANGED facts
        \/ t.statements # <<>> /\ Become(h, rest) /\ \E p \in ends : facts' = Append(facts, row(p))
    BY DEF AddFact, done, rest
  <2> QED BY <1>5, <1>6, <1>7, <2>1

-----------------------------------------------------------------------------
(* Canonicalisation.                                                        *)

Ended(r, s, e) == r = [s EXCEPT ![e].live = FALSE]
LEMMA RowExpired == ASSUME NEW s \in Seq(FactRow), NEW e \in DOMAIN s, NEW r, Ended(r, s, e)
                    PROVE  /\ r \in Seq(FactRow) /\ DOMAIN r = DOMAIN s /\ \A f \in DOMAIN s \ {e} : r[f] = s[f]
                           /\ r[e].from = s[e].from /\ r[e].to = s[e].to /\ r[e].root = s[e].root
<1> DEFINE gone == [s[e] EXCEPT !.live = FALSE]
<1>1. s[e] \in FactRow
  OBVIOUS
<1>2. gone \in FactRow /\ gone.from = s[e].from /\ gone.to = s[e].to /\ gone.root = s[e].root
  BY <1>1 DEF FactRow
<1>3. r = [s EXCEPT ![e] = gone]
  BY DEF Ended
<1> HIDE DEF gone
<1> QED BY <1>2, <1>3

\* A step that expires a fact that may go.
LEMMA FactExpired ==
    ASSUME AboxInv, NEW h \in Handlers, NEW t \in Task, Become(h, t), NEW e \in DOMAIN facts, Carried(e) \/ Touched(e),
           Ended(facts', facts, e), UNCHANGED <<people, typings, unions, refused, acts, deaths>>,
           task[h].pc \in AtTypes => t.pc \in AtTypes /\ t.drop = task[h].drop,
           AboxGrows /\ task'[h] = t => Prepared(task[h])'
    PROVE  AboxInv'
<1>1. AboxTypeOK /\ facts \in Seq(FactRow)
  BY InHand DEF AboxTypeOK
<1>2. MovesOnly(h) /\ task'[h] = t
  BY <1>1, Became
<1>5. /\ facts' \in Seq(FactRow) /\ DOMAIN facts' = DOMAIN facts /\ \A f \in DOMAIN facts \ {e} : facts'[f] = facts[f]
      /\ facts'[e].from = facts[e].from /\ facts'[e].to = facts[e].to /\ facts'[e].root = facts[e].root
  BY <1>1, RowExpired
<1>6. AboxTypeOK'
  BY <1>1, <1>2, <1>5 DEF AboxTypeOK, MovesOnly
<1>7. AboxGrows
  BY <1>5 DEF AboxGrows, FactsGrow
<1>8. MayGo(e)
  BY <1>5 DEF MayGo, Touched
<1>9. task[h].pc \in AtTypes => WorkedThen(task[h].drop)
  BY <1>2 DEF WorkedThen
<1>10. AllTyped'
  BY <1>2, <1>9, TypedStays
<1> QED BY <1>2, <1>6, <1>7, <1>8, <1>10, AboxStep

\* A step that changes an individual.
LEMMA IndividualChanged ==
    ASSUME AboxInv, NEW h \in Handlers, NEW t \in Task, Become(h, t), NEW i \in DOMAIN people, NEW row \in IndividualRow,
           people' = [people EXCEPT ![i] = row], row.live => people[i].live, UNCHANGED <<typings, facts, unions, acts, deaths>>,
           refused \subseteq refused', refused' \subseteq Nat, AboxGrows /\ task'[h] = t => Prepared(task[h])',
           task[h].pc \in AtTypes => i = task[h].drop /\ ~row.live
    PROVE  AboxInv'
<1>1. AboxTypeOK
  BY InHand
<1>2. MovesOnly(h) /\ task'[h] = t
  BY <1>1, Became
<1>3. /\ people' \in Seq(IndividualRow) /\ DOMAIN people' = DOMAIN people /\ people'[i] = row
      /\ \A j \in DOMAIN people \ {i} : people'[j] = people[j]
  BY <1>1 DEF AboxTypeOK
<1>4. AboxTypeOK'
  BY <1>1, <1>2, <1>3 DEF AboxTypeOK, MovesOnly
<1>5. AboxGrows /\ MayGo(0)
  BY <1>1, <1>3 DEF AboxGrows, FactsGrow, MayGo, AboxTypeOK
<1>6. Alive(people') \subseteq Alive(people) /\ (task[h].pc \in AtTypes => task[h].drop \notin Alive(people'))
  BY <1>3 DEF Alive
<1>7. AllTyped'
  BY <1>2, <1>6, TypedStays
<1> QED BY <1>2, <1>4, <1>5, <1>7, AboxStep

LEMMA BeginCanonicalizeStep == ASSUME AboxInv, NEW h \in Handlers, BeginCanonicalize(h) PROVE AboxInv'
<1>1. PICK home \in {c.home : c \in ClassTerms}, sort \in Sorts :
        Commence(h, [IdleTask EXCEPT !.pc = "next", !.kind = "merge", !.pairs = Duplicates(home, sort),
                        !.class = [home |-> home, word |-> ""]])
  BY DEF BeginCanonicalize
<1> DEFINE found == Duplicates(home, sort)
           t == [IdleTask EXCEPT !.pc = "next", !.kind = "merge", !.pairs = found,
                    !.class = [home |-> home, word |-> ""]]
<1>2. \A p \in found : p.keep \in DOMAIN people /\ p.drop \in DOMAIN people /\ p = [keep |-> p.keep, drop |-> p.drop]
  BY DEF Duplicates, Alive
<1>3. found \in PairSets
  <2>1. DOMAIN people \subseteq Nat
    BY DEF AboxInv, AboxTypeOK
  <2> QED BY <1>2, <2>1 DEF PairSets
<1>4. [home |-> home, word |-> ""] \in Term
  BY AboxAssumption DEF Term, Text
<1> HIDE DEF found
<1>5. /\ t \in Task /\ t.pc = "next" /\ t.kind = "merge" /\ t.canon = {} /\ t.local = {} /\ t.pairs = found
  <2>1. "next" \in Stage /\ "merge" \in Kind
    BY DEF Stage, Kind
  <2> QED BY <1>3, <1>4, <2>1, IdleIsTask DEF Task
<1>6. Commence(h, t)
  BY <1>1 DEF found
<1> HIDE DEF t
<1>7. ASSUME task'[h] = t, UNCHANGED people PROVE Prepared(task[h])'
  BY <1>2, <1>5, <1>7 DEF Prepared
<1> QED BY <1>5, <1>6, <1>7, Commenced DEF BeginCanonicalize, abox

LEMMA NextPairStep == ASSUME AboxInv, NEW h \in Handlers, NextPair(h) PROVE AboxInv'
<1> DEFINE t == task[h]
           fit == {p \in t.pairs : {p.keep, p.drop} \cap t.gone = {}}
<1>1. AboxTypeOK /\ t \in Task /\ Prepared(t) /\ acts \in Nat /\ deaths \in Nat
  BY InHand
<1>2. /\ t.pc = "next" /\ t.pc \notin AtTypes /\ UNCHANGED <<people, typings, facts, refused, acts, deaths>>
  BY DEF NextPair, AtTypes, abox
<1>3. CASE Rest(h) /\ UNCHANGED unions
  <2>1. ASSUME task'[h] = IdleTask PROVE Prepared(task[h])'
    BY <2>1, IdleIsTask DEF Prepared
  <2>2. unions' \subseteq Union
    BY <1>1, <1>3 DEF AboxTypeOK
  <2> QED BY <1>1, <1>2, <1>3, <2>1, <2>2, IdleIsTask, AboxQuiet DEF Rest
<1>4. ASSUME NEW p \in fit, NEW alike \in BOOLEAN, unions' = unions \cup {[keep |-> p.keep, drop |-> p.drop, alike |-> alike]},
             Become(h, [t EXCEPT !.pc = IF FactsOf(p.drop) = {} THEN "union" ELSE "move",
                           !.pairs = fit \ {p}, !.keep = p.keep, !.drop = p.drop, !.edges = FactsOf(p.drop)])
      PROVE  AboxInv'
  <2> DEFINE found == FactsOf(p.drop)
             stage == IF found = {} THEN "union" ELSE "move"
             left == fit \ {p}
             o == [t EXCEPT !.pc = stage, !.pairs = left, !.keep = p.keep, !.drop = p.drop, !.edges = found]
  <2>1. p \in t.pairs /\ t.pairs \in PairSets
    BY <1>1 DEF Task
  <2>2. p.keep \in Nat /\ p.drop \in Nat /\ p.keep \in DOMAIN people /\ p.drop \in DOMAIN people
    BY <1>1, <2>1 DEF PairSets, Prepared
  <2>3. left \subseteq t.pairs /\ left \in PairSets
    BY <2>1 DEF PairSets
  <2>4. found \subseteq DOMAIN facts /\ found \in Keys
    BY <1>1 DEF FactsOf, Alive, Keys, AboxTypeOK
  <2>5. stage \in Stage /\ stage \in {"union", "move"} /\ stage \notin AtTypes
    BY DEF Stage, AtTypes
  <2> HIDE DEF found, stage, left
  <2>6. /\ o \in Task /\ o.pc = stage /\ o.pairs = left /\ o.keep = p.keep /\ o.drop = p.drop /\ o.edges = found
        /\ o.canon = t.canon /\ o.local = t.local /\ o.kind = t.kind
    BY <1>1, <2>2, <2>3, <2>4, <2>5 DEF Task
  <2>7. Become(h, o)
    BY <1>4 DEF found, stage, left
  <2> HIDE DEF o
  <2>8. [keep |-> p.keep, drop |-> p.drop, alike |-> alike] \in Union
    BY <2>2 DEF Union
  <2>9. unions \subseteq unions' /\ unions' \subseteq Union
    BY <1>1, <1>4, <2>8 DEF AboxTypeOK
  <2>10. \E u \in unions' : u.keep = p.keep /\ u.drop = p.drop
    <3> DEFINE u == [keep |-> p.keep, drop |-> p.drop, alike |-> alike]
    <3>1. u \in unions' /\ u.keep = p.keep /\ u.drop = p.drop
      BY <1>4
    <3> QED BY <3>1
  <2>11. ASSUME task'[h] = o PROVE Prepared(task[h])'
    BY <1>1, <1>2, <2>2, <2>3, <2>4, <2>5, <2>6, <2>10, <2>11 DEF Prepared
  <2> QED BY <1>1, <1>2, <2>6, <2>7, <2>9, <2>11, AboxQuiet
<1> QED
  <2>1. \/ Rest(h) /\ UNCHANGED unions
        \/ \E p \in fit :
              /\ Become(h, [t EXCEPT !.pc = IF FactsOf(p.drop) = {} THEN "union" ELSE "move",
                               !.pairs = fit \ {p}, !.keep = p.keep, !.drop = p.drop, !.edges = FactsOf(p.drop)])
              /\ unions' = unions \cup {[keep |-> p.keep, drop |-> p.drop, alike |->
                    \E j \in TypesOf(p.keep), k \in TypesOf(p.drop) : typings[j].class = typings[k].class]}
    BY DEF NextPair
  <2> QED BY <1>3, <1>4, <2>1

LEMMA AddMovedStep == ASSUME AboxInv, NEW h \in Handlers, AddMoved(h) PROVE AboxInv'
<1> DEFINE t == task[h]
           at(i) == IF i = t.drop THEN t.keep ELSE i
<1>1. AboxTypeOK /\ t \in Task /\ Prepared(t) /\ acts \in Nat /\ deaths \in Nat
  BY InHand
<1>2. PICK f \in t.edges : /\ facts' = Reassigned(f, t)
                           /\ Become(h, [t EXCEPT !.pc = "expire", !.edge = f, !.edges = t.edges \ {f}])
  BY <1>1 DEF AddMoved
<1> DEFINE o == [t EXCEPT !.pc = "expire", !.edge = f, !.edges = t.edges \ {f}]
           row == Fact(t.class.home, at(facts[f].from), at(facts[f].to), facts[f].span, FALSE, facts[f].root)
<1>3. /\ t.pc = "move" /\ t.pc \notin AtTypes /\ UNCHANGED <<people, typings, refused, unions, acts, deaths>>
      /\ unions' \subseteq Union
  BY DEF AddMoved, AtTypes, past, AboxInv, AboxTypeOK
<1>4. f \in DOMAIN facts /\ f \in Nat /\ facts[f] \in FactRow
  BY <1>1, <1>3 DEF Prepared, AboxTypeOK
<1>5. /\ o \in Task /\ o.pc = "expire" /\ o.edge = f /\ o.edges = t.edges \ {f} /\ o.keep = t.keep /\ o.drop = t.drop
      /\ o.canon = t.canon /\ o.local = t.local /\ o.pairs = t.pairs /\ o.kind = t.kind
  <2>1. "expire" \in Stage /\ t.edges \ {f} \in Keys
    BY <1>1 DEF Stage, Keys, Task
  <2> QED BY <1>1, <1>4, <2>1 DEF Task
<1> HIDE DEF o
<1>6. Become(h, o)
  BY <1>2 DEF o
<1>7. ASSUME AboxGrows, task'[h] = o, Carried(f)' PROVE Prepared(task[h])'
  <2>1. Carried(task[h].edge)'
    BY <1>5, <1>7 DEF Carried, Closed, Settled, Touched
  <2>2. f \in DOMAIN facts' /\ o.edges \subseteq DOMAIN facts'
    BY <1>1, <1>3, <1>4, <1>5, <1>7 DEF AboxGrows, FactsGrow, Prepared
  <2> QED BY <1>1, <1>3, <1>5, <1>7, <2>1, <2>2 DEF Prepared
<1>8. CASE at(facts[f].from) = at(facts[f].to)
  <2>1. facts' = facts
    BY <1>2, <1>8 DEF Reassigned
  <2>2. \E u \in unions : u.keep = t.keep /\ u.drop = t.drop
    BY <1>1, <1>3 DEF Prepared
  <2>3. facts[f].from = facts[f].to \/ {t.keep, t.drop} = {facts[f].from, facts[f].to}
    BY <1>8
  <2>4. Closed(f)
    BY <2>2, <2>3 DEF Closed
  <2>5. Carried(f)'
    BY <1>3, <2>1, <2>4 DEF Carried, Closed
  <2>6. AboxGrows
    BY <1>3, <2>1 DEF AboxGrows, FactsGrow
  <2> QED BY <1>1, <1>3, <1>5, <1>6, <1>7, <2>1, <2>5, <2>6, AboxQuiet
<1>9. CASE at(facts[f].from) # at(facts[f].to)
  <2>1. facts' = Append(facts, row)
    BY <1>2, <1>9 DEF Reassigned
  <2>2. row \in FactRow /\ row.live /\ row.root = facts[f].root
    <3>1. facts[f].from \in Nat /\ facts[f].to \in Nat /\ facts[f].span \in BOOLEAN /\ facts[f].root \in Nat
      BY <1>4 DEF FactRow
    <3>2. t.keep \in Nat /\ t.class.home \in Text
      BY <1>1 DEF Task, Term
    <3>3. at(facts[f].from) \in Nat /\ at(facts[f].to) \in Nat
      BY <3>1, <3>2
    <3> HIDE DEF t, at
    <3> QED BY <3>1, <3>2, <3>3 DEF Fact, FactRow
  <2> HIDE DEF row
  <2>3. ASSUME AboxGrows PROVE Carried(f)'
    <3>1. PICK g \in DOMAIN facts' : g > f /\ facts'[g] = row
      <4>1. facts \in Seq(FactRow)
        BY <1>1 DEF AboxTypeOK
      <4>2. Len(facts) + 1 \in DOMAIN facts' /\ Len(facts) + 1 > f /\ facts'[Len(facts) + 1] = row
        BY <1>4, <2>1, <2>2, <4>1
      <4> QED BY <4>2
    <3>2. facts'[g].root = facts'[f].root /\ Settled(g)'
      BY <1>4, <2>2, <2>3, <3>1 DEF Settled, AboxGrows, FactsGrow
    <3> QED BY <3>1, <3>2 DEF Carried
  <2> QED BY <1>3, <1>5, <1>6, <1>7, <2>1, <2>2, <2>3, FactAdded
<1> QED BY <1>8, <1>9

LEMMA ExpireMovedStep == ASSUME AboxInv, NEW h \in Handlers, ExpireMoved(h) PROVE AboxInv'
<1> DEFINE t == task[h]
           stage == IF t.edges = {} THEN "union" ELSE "move"
           o == [t EXCEPT !.pc = stage, !.edge = 0]
<1>1. AboxTypeOK /\ t \in Task /\ Prepared(t)
  BY InHand
<1>2. /\ t.pc = "expire" /\ t.pc \notin AtTypes /\ UNCHANGED <<people, typings, refused, unions, acts>>
      /\ Ends(facts, t.edge, facts')
  BY DEF ExpireMoved, AtTypes, past
<1>3. stage \in Stage /\ stage \in {"union", "move"}
  BY DEF Stage
<1> HIDE DEF stage
<1>4. /\ o \in Task /\ o.pc = stage /\ o.edges = t.edges /\ o.keep = t.keep /\ o.drop = t.drop
      /\ o.canon = t.canon /\ o.local = t.local /\ o.pairs = t.pairs /\ o.kind = t.kind
  BY <1>1, <1>3 DEF Task
<1>5. Become(h, o)
  BY DEF ExpireMoved, stage
<1> HIDE DEF o
<1>6. t.edge \in DOMAIN facts /\ Carried(t.edge)
  BY <1>1, <1>2 DEF Prepared
<1>7. ASSUME AboxGrows, task'[h] = o PROVE Prepared(task[h])'
  <2>1. o.edges \subseteq DOMAIN facts' /\ \E u \in unions' : u.keep = o.keep /\ u.drop = o.drop
    BY <1>1, <1>2, <1>4, <1>7 DEF Prepared, AboxGrows, FactsGrow
  <2> QED BY <1>1, <1>2, <1>3, <1>4, <1>7, <2>1 DEF Prepared
<1>8. CASE Ended(facts', facts, t.edge) /\ UNCHANGED deaths
  BY <1>2, <1>4, <1>5, <1>6, <1>7, <1>8, FactExpired
<1>9. CASE Failing /\ UNCHANGED facts
  BY <1>2, <1>4, <1>5, <1>7, <1>9, FailedStep
<1> QED BY <1>2, <1>8, <1>9 DEF Ends, Ended, Failing

LEMMA ReadSourcesStep == ASSUME AboxInv, NEW h \in Handlers, ReadSources(h) PROVE AboxInv'
<1> DEFINE t == task[h]
           prov == people[t.keep].prov \o people[t.drop].prov
           from == people[t.keep].from \cup {t.drop}
           o == [t EXCEPT !.pc = "unite", !.prov = prov, !.from = from]
<1>1. AboxTypeOK /\ t \in Task /\ Prepared(t) /\ acts \in Nat /\ deaths \in Nat
  BY InHand
<1>2. /\ t.pc = "union" /\ t.pc \notin AtTypes /\ UNCHANGED <<people, typings, facts, refused, unions, acts, deaths>>
      /\ unions' \subseteq Union
  BY DEF ReadSources, AtTypes, abox, past, AboxInv, AboxTypeOK
<1>3. people[t.keep] \in IndividualRow /\ people[t.drop] \in IndividualRow /\ t.drop \in Nat
  BY <1>1, <1>2 DEF Prepared, AboxTypeOK, Task
<1>4. people[t.keep].prov \in Sources /\ people[t.drop].prov \in Sources /\ people[t.keep].from \in Keys
  BY <1>3 DEF IndividualRow
<1>5. prov \in Sources /\ from \in Keys /\ "unite" \in Stage
  BY <1>3, <1>4 DEF Sources, Keys, Stage
<1> HIDE DEF prov, from
<1>6. /\ o \in Task /\ o.pc = "unite" /\ o.keep = t.keep /\ o.drop = t.drop
      /\ o.canon = t.canon /\ o.local = t.local /\ o.pairs = t.pairs /\ o.kind = t.kind
  BY <1>1, <1>5 DEF Task
<1>7. Become(h, o)
  BY DEF ReadSources, prov, from
<1> HIDE DEF o
<1>8. ASSUME task'[h] = o PROVE Prepared(task[h])'
  BY <1>1, <1>2, <1>6, <1>8 DEF Prepared
<1> QED BY <1>1, <1>2, <1>6, <1>7, <1>8, AboxQuiet

LEMMA UniteStep == ASSUME AboxInv, NEW h \in Handlers, Unite(h) PROVE AboxInv'
<1> DEFINE t == task[h]
           i == t.keep
           row == [people[i] EXCEPT !.prov = t.prov, !.from = t.from]
           o == [t EXCEPT !.pc = "types", !.prov = <<>>, !.from = {}]
<1>1. AboxTypeOK /\ t \in Task /\ Prepared(t)
  BY InHand
<1>2. t.pc = "unite" /\ t.pc \notin AtTypes /\ UNCHANGED <<typings, facts, refused, unions, acts, deaths>>
  BY DEF Unite, AtTypes, past
<1>3. i \in DOMAIN people /\ people[i] \in IndividualRow /\ t.prov \in Sources /\ t.from \in Keys
  BY <1>1, <1>2 DEF Prepared, AboxTypeOK, Task
<1>4. row \in IndividualRow /\ row.live = people[i].live
  BY <1>3 DEF IndividualRow
<1>5. people' = [people EXCEPT ![i] = row]
  BY <1>3 DEF Unite
<1> HIDE DEF i, row
<1>6. /\ o \in Task /\ o.pc = "types" /\ o.drop = t.drop
      /\ o.canon = t.canon /\ o.local = t.local /\ o.pairs = t.pairs /\ o.kind = "merge"
  <2>1. <<>> \in Sources /\ {} \in Keys /\ "types" \in Stage
    BY DEF Sources, Keys, Stage
  <2>2. t.kind = "merge"
    BY <1>1, <1>2 DEF Prepared
  <2> QED BY <1>1, <2>1, <2>2 DEF Task
<1>7. Become(h, o)
  BY DEF Unite
<1> HIDE DEF o
<1>8. ASSUME AboxGrows, task'[h] = o PROVE Prepared(task[h])'
  BY <1>1, <1>2, <1>6, <1>8 DEF Prepared, AboxGrows
<1>9. refused \subseteq refused' /\ refused' \subseteq Nat
  BY <1>1, <1>2 DEF AboxTypeOK
<1> QED BY <1>2, <1>3, <1>4, <1>5, <1>6, <1>7, <1>8, <1>9, IndividualChanged

-----------------------------------------------------------------------------
(* Curation, and the ends of a merge.                                       *)

LEMMA PeopleKeys == ASSUME AboxInv PROVE DOMAIN people \subseteq Nat
BY DEF AboxInv, AboxTypeOK

LEMMA BeginCurateStep == ASSUME AboxInv, NEW h \in Handlers, BeginCurate(h) PROVE AboxInv'
<1>1. PICK i \in Alive(people), kind \in {"approve", "reject"} :
        Commence(h, [IdleTask EXCEPT !.pc = kind, !.kind = kind, !.drop = i])
  BY DEF BeginCurate
<1> DEFINE t == [IdleTask EXCEPT !.pc = kind, !.kind = kind, !.drop = i]
<1>2. i \in DOMAIN people /\ i \in Nat
  <2>1. DOMAIN people \subseteq Nat
    BY PeopleKeys
  <2> QED BY <2>1 DEF Alive
<1>3. t \in Task /\ t.pc = kind /\ t.drop = i /\ t.canon = {} /\ t.local = {} /\ t.pairs = {}
  <2>1. kind \in Stage /\ kind \in Kind
    BY DEF Stage, Kind
  <2> QED BY <1>2, <2>1, IdleIsTask DEF Task
<1>4. Commence(h, t)
  BY <1>1
<1> HIDE DEF t
<1>5. ASSUME task'[h] = t, UNCHANGED people PROVE Prepared(task[h])'
  BY <1>2, <1>3, <1>5 DEF Prepared
<1> QED BY <1>3, <1>4, <1>5, Commenced DEF BeginCurate, abox

LEMMA BeginEditStep == ASSUME AboxInv, NEW h \in Handlers, BeginEdit(h) PROVE AboxInv'
<1>1. PICK i \in Alive(people), name \in Names \cup {""}, class \in ClassTerms \cup {NoTerm} :
        Commence(h, [IdleTask EXCEPT !.pc = "relabel", !.kind = "edit", !.drop = i, !.name = name, !.class = class])
  BY DEF BeginEdit
<1> DEFINE t == [IdleTask EXCEPT !.pc = "relabel", !.kind = "edit", !.drop = i, !.name = name, !.class = class]
<1>2. i \in DOMAIN people /\ i \in Nat
  <2>1. DOMAIN people \subseteq Nat
    BY PeopleKeys
  <2>2. i \in DOMAIN people
    BY DEF Alive
  <2> QED BY <2>1, <2>2
<1>3. name \in Text /\ class \in Term
  <2>1. Names \subseteq Text /\ ClassTerms \subseteq Term
    BY AboxAssumption
  <2>2. "" \in Text /\ NoTerm \in Term
    BY DEF Text, Term, NoTerm
  <2> QED BY <2>1, <2>2
<1>4. t \in Task /\ t.pc = "relabel" /\ t.kind = "edit" /\ t.drop = i /\ t.canon = {} /\ t.local = {} /\ t.pairs = {}
  <2>1. "relabel" \in Stage /\ "edit" \in Kind
    BY DEF Stage, Kind
  <2> QED BY <1>2, <1>3, <2>1, IdleIsTask DEF Task
<1>5. Commence(h, t)
  BY <1>1
<1> HIDE DEF t
<1>6. ASSUME task'[h] = t, UNCHANGED people PROVE Prepared(task[h])'
  BY <1>2, <1>4, <1>6 DEF Prepared
<1> QED BY <1>4, <1>5, <1>6, Commenced DEF BeginEdit, abox

\* What comes after the first step of a verdict, an edit or a merge's union.
LEMMA OnToTypes == ASSUME NEW t \in Task
                   PROVE  LET o == [t EXCEPT !.pc = "types"] IN
                          /\ o \in Task /\ o.pc = "types" /\ o.drop = t.drop /\ o.kind = t.kind
                          /\ o.canon = t.canon /\ o.local = t.local /\ o.pairs = t.pairs
<1>1. "types" \in Stage
  BY DEF Stage
<1> QED BY <1>1 DEF Task

LEMMA SetStatusStep == ASSUME AboxInv, NEW h \in Handlers, SetStatus(h) PROVE AboxInv'
<1> DEFINE t == task[h]
           i == t.drop
           status == IF t.pc = "approve" THEN "approved" ELSE "rejected"
           row == [people[i] EXCEPT !.status = status]
           o == [t EXCEPT !.pc = "types"]
<1>1. AboxTypeOK /\ t \in Task /\ Prepared(t)
  BY InHand
<1>2. /\ t.pc \in {"approve", "reject"} /\ t.pc \notin AtTypes /\ UNCHANGED <<typings, facts, unions, acts, deaths>>
      /\ refused' = IF t.pc = "approve" THEN refused ELSE refused \cup {t.drop}
  BY DEF SetStatus, AtTypes
<1>3. i \in DOMAIN people /\ people[i] \in IndividualRow /\ i \in Nat
  BY <1>1, <1>2 DEF Prepared, AboxTypeOK, Task
<1>4. row \in IndividualRow /\ row.live = people[i].live
  BY <1>3 DEF IndividualRow
<1>5. people' = [people EXCEPT ![i] = row]
  BY <1>3 DEF SetStatus
<1> HIDE DEF row
<1>6. refused \subseteq refused' /\ refused' \subseteq Nat
  BY <1>1, <1>2, <1>3 DEF AboxTypeOK
<1> HIDE DEF i
<1>7. CASE Rest(h)
  <2>1. ASSUME task'[h] = IdleTask PROVE Prepared(task[h])'
    BY <2>1, IdleIsTask DEF Prepared
  <2> QED BY <1>2, <1>3, <1>4, <1>5, <1>6, <1>7, <2>1, IdleIsTask, IndividualChanged DEF Rest
<1>8. CASE t.pc = "reject" /\ Become(h, o)
  <2>1. /\ o \in Task /\ o.pc = "types" /\ o.drop = t.drop
        /\ o.canon = t.canon /\ o.local = t.local /\ o.pairs = t.pairs
    BY <1>1, OnToTypes
  <2> HIDE DEF o
  <2>2. o.drop \in refused'
    BY <1>2, <1>8, <2>1
  <2>3. ASSUME AboxGrows, task'[h] = o PROVE Prepared(task[h])'
    BY <1>1, <1>2, <2>1, <2>2, <2>3 DEF Prepared, AboxGrows
  <2> QED BY <1>2, <1>3, <1>4, <1>5, <1>6, <1>8, <2>1, <2>3, IndividualChanged
<1> QED
  <2>1. IF t.pc = "approve" THEN Rest(h) ELSE Become(h, o)
    BY DEF SetStatus
  <2> QED BY <1>2, <1>7, <1>8, <2>1

LEMMA RelabelStep == ASSUME AboxInv, NEW h \in Handlers, Relabel(h) PROVE AboxInv'
<1> DEFINE t == task[h]
           i == t.drop
           row == IF t.name = "" THEN people[i] ELSE [people[i] EXCEPT !.name = t.name]
           o == [t EXCEPT !.pc = "types"]
<1>1. AboxTypeOK /\ t \in Task /\ Prepared(t)
  BY InHand
<1>2. t.pc = "relabel" /\ t.pc \notin AtTypes /\ UNCHANGED <<typings, facts, unions, refused, acts, deaths>>
  BY DEF Relabel, AtTypes, past
<1>3. i \in DOMAIN people /\ people[i] \in IndividualRow /\ t.name \in Text
  BY <1>1, <1>2 DEF Prepared, AboxTypeOK, Task
<1>4. row \in IndividualRow /\ row.live = people[i].live
  BY <1>3 DEF IndividualRow
<1>5. people' = [people EXCEPT ![i] = row]
  <2>1. people \in [DOMAIN people -> IndividualRow]
    BY <1>1 DEF AboxTypeOK
  <2>2. people' = IF t.name = "" THEN people ELSE [people EXCEPT ![i].name = t.name]
    BY DEF Relabel
  <2> QED BY <1>3, <2>1, <2>2
<1> HIDE DEF i, row
<1>6. refused \subseteq refused' /\ refused' \subseteq Nat
  BY <1>1, <1>2 DEF AboxTypeOK
<1>7. CASE Rest(h)
  <2>1. ASSUME task'[h] = IdleTask PROVE Prepared(task[h])'
    BY <2>1, IdleIsTask DEF Prepared
  <2> QED BY <1>2, <1>3, <1>4, <1>5, <1>6, <1>7, <2>1, IdleIsTask, IndividualChanged DEF Rest
<1>8. CASE Become(h, o)
  <2>1. /\ o \in Task /\ o.pc = "types" /\ o.drop = t.drop /\ o.kind = "edit"
        /\ o.canon = t.canon /\ o.local = t.local /\ o.pairs = t.pairs
    BY <1>1, <1>2, OnToTypes DEF Prepared
  <2> HIDE DEF o
  <2>2. ASSUME AboxGrows, task'[h] = o PROVE Prepared(task[h])'
    BY <1>1, <1>2, <2>1, <2>2 DEF Prepared, AboxGrows
  <2> QED BY <1>2, <1>3, <1>4, <1>5, <1>6, <1>8, <2>1, <2>2, IndividualChanged
<1> QED BY <1>7, <1>8 DEF Relabel

\* Where the reading of the types leads.
LEMMA AfterTypesIs == ASSUME NEW t \in Task
                      PROVE  /\ AfterTypes(t) \in {"drop", "facts", "retype"} /\ AfterTypes(t) \in Stage /\ AfterTypes(t) \in AtTypes
                             /\ AfterTypes(t) = "facts" => t.kind = "reject"
                             /\ AfterTypes(t) = "drop" => t.kind = "merge"
BY DEF AfterTypes, Stage, AtTypes

LEMMA ReadTypesStep == ASSUME AboxInv, NEW h \in Handlers, ReadTypes(h) PROVE AboxInv'
<1> DEFINE t == task[h]
           found == TypesOf(t.drop)
           stage == IF found = {} THEN AfterTypes(t) ELSE "untype"
           o == [t EXCEPT !.edges = found, !.pc = stage]
<1>1. AboxTypeOK /\ t \in Task /\ Prepared(t) /\ acts \in Nat /\ deaths \in Nat
  BY InHand
<1>2. /\ t.pc = "types" /\ t.pc \notin AtTypes /\ UNCHANGED <<people, typings, facts, refused, unions, acts, deaths>>
      /\ unions' \subseteq Union
  BY DEF ReadTypes, AtTypes, abox, past, AboxInv, AboxTypeOK
<1>3. found \in Keys /\ \A k \in found : k \in DOMAIN typings /\ typings[k].of = t.drop
  BY <1>1 DEF TypesOf, Alive, Keys, AboxTypeOK
<1>4. /\ stage \in Stage /\ stage \in {"drop", "facts", "retype", "untype"}
      /\ (stage = "facts" => t.kind = "reject") /\ (stage = "drop" => t.kind = "merge")
  BY <1>1, AfterTypesIs DEF Stage
<1> HIDE DEF found, stage
<1>5. /\ o \in Task /\ o.pc = stage /\ o.edges = found /\ o.drop = t.drop /\ o.kind = t.kind
      /\ o.canon = t.canon /\ o.local = t.local /\ o.pairs = t.pairs
  BY <1>1, <1>3, <1>4 DEF Task
<1>6. Become(h, o)
  BY DEF ReadTypes, found, stage
<1> HIDE DEF o
<1>7. ASSUME task'[h] = o PROVE Prepared(task[h])'
  BY <1>1, <1>2, <1>3, <1>4, <1>5, <1>7 DEF Prepared
<1> QED BY <1>1, <1>2, <1>5, <1>6, <1>7, AboxQuiet

LEMMA UntypeStep == ASSUME AboxInv, NEW h \in Handlers, Untype(h) PROVE AboxInv'
<1> DEFINE t == task[h]
<1>1. AboxTypeOK /\ t \in Task /\ Prepared(t)
  BY InHand
<1>2. PICK k \in t.edges :
        /\ Ends(typings, k, typings')
        /\ Become(h, [t EXCEPT !.edges = t.edges \ {k}, !.pc = IF t.edges = {k} THEN AfterTypes(t) ELSE "untype"])
  BY <1>1 DEF Untype
<1> DEFINE gone == [typings[k] EXCEPT !.live = FALSE]
           stage == IF t.edges = {k} THEN AfterTypes(t) ELSE "untype"
           left == t.edges \ {k}
           o == [t EXCEPT !.edges = left, !.pc = stage]
<1>3. t.pc = "untype" /\ UNCHANGED <<people, facts, refused, unions, acts>>
  BY DEF Untype, past
<1>4. k \in DOMAIN typings /\ typings[k].of = t.drop /\ typings[k] \in TypingRow
  BY <1>1, <1>2, <1>3 DEF Prepared, AboxTypeOK
<1>5. gone \in TypingRow /\ gone.of = t.drop
  BY <1>4 DEF TypingRow
<1>6. \/ typings' = [typings EXCEPT ![k] = gone] /\ UNCHANGED deaths
      \/ Failing /\ UNCHANGED typings
  BY <1>2 DEF Ends, Failing
<1>7. left \in Keys /\ left \subseteq t.edges
  BY <1>1 DEF Keys, Task
<1>8. /\ stage \in Stage /\ stage \in {"drop", "facts", "retype", "untype"} /\ stage \in AtTypes
      /\ (stage = "facts" => t.kind = "reject") /\ (stage = "drop" => t.kind = "merge")
  BY <1>1, AfterTypesIs DEF Stage, AtTypes
<1> HIDE DEF gone, stage, left
<1>9. /\ o \in Task /\ o.pc = stage /\ o.edges = left /\ o.drop = t.drop /\ o.kind = t.kind
      /\ o.canon = t.canon /\ o.local = t.local /\ o.pairs = t.pairs
  BY <1>1, <1>7, <1>8 DEF Task
<1>10. Become(h, o)
  BY <1>2 DEF stage, left
<1> HIDE DEF o
<1>11. MovesOnly(h) /\ task'[h] = o
  BY <1>1, <1>9, <1>10, Became
<1>12. /\ typings' \in Seq(TypingRow) /\ DOMAIN typings' = DOMAIN typings
       /\ typings'[k].of = t.drop /\ deaths' \in Nat /\ (deaths' = 0 => deaths = 0)
       /\ \A j \in DOMAIN typings \ {k} : typings'[j] = typings[j]
  <2>1. typings \in Seq(TypingRow) /\ deaths \in Nat
    BY <1>1 DEF AboxTypeOK
  <2>2. CASE typings' = [typings EXCEPT ![k] = gone] /\ UNCHANGED deaths
    BY <1>4, <1>5, <2>1, <2>2
  <2>3. CASE Failing /\ UNCHANGED typings
    BY <1>4, <2>1, <2>3 DEF Failing
  <2> QED BY <1>6, <2>2, <2>3
<1>13. AboxTypeOK'
  BY <1>1, <1>3, <1>11, <1>12 DEF AboxTypeOK, MovesOnly
<1>14. AboxGrows /\ MayGo(0)
  BY <1>1, <1>3, <1>4, <1>12 DEF AboxGrows, FactsGrow, MayGo, AboxTypeOK
<1>15. Prepared(task[h])'
  <2>1. \A j \in o.edges : j \in DOMAIN typings' /\ typings'[j].of = o.drop
    BY <1>1, <1>3, <1>7, <1>9, <1>12 DEF Prepared
  <2>2. o.pc \in {"facts", "untype"} /\ o.kind = "reject" => o.drop \in refused
    BY <1>1, <1>3, <1>9 DEF Prepared
  <2> QED BY <1>1, <1>3, <1>8, <1>9, <1>11, <2>1, <2>2 DEF Prepared
<1>16. AllTyped'
  <2>1. WorkedThen(t.drop)
    BY <1>8, <1>9, <1>11 DEF WorkedThen
  <2>2. \A j \in Alive(typings) : (j \in Alive(typings') /\ typings'[j].of = typings[j].of) \/ WorkedThen(typings[j].of)
    BY <1>4, <1>12, <2>1 DEF Alive
  <2> QED BY <1>3, <1>11, <1>12, <2>1, <2>2, TypedStays
<1> QED BY <1>11, <1>13, <1>14, <1>15, <1>16, AboxStep

LEMMA RetypeStep == ASSUME AboxInv, NEW h \in Handlers, Retype(h) PROVE AboxInv'
<1>1. ASSUME task'[h] = IdleTask PROVE Prepared(task[h])'
  BY <1>1, IdleIsTask DEF Prepared
<1> QED BY <1>1, IdleIsTask, TypeGiven DEF Retype, Rest, past

LEMMA ReadFactsStep == ASSUME AboxInv, NEW h \in Handlers, ReadFacts(h) PROVE AboxInv'
<1> DEFINE t == task[h]
           found == FactsOf(t.drop)
           stage == IF found = {} THEN "drop" ELSE "retract"
           o == [t EXCEPT !.edges = found, !.pc = stage]
<1>1. AboxTypeOK /\ t \in Task /\ Prepared(t) /\ acts \in Nat /\ deaths \in Nat
  BY InHand
<1>2. /\ t.pc = "facts" /\ UNCHANGED <<people, typings, facts, refused, unions, acts, deaths>> /\ unions' \subseteq Union
  BY DEF ReadFacts, abox, past, AboxInv, AboxTypeOK
<1>3. found \in Keys /\ \A f \in found : f \in DOMAIN facts /\ t.drop \in {facts[f].from, facts[f].to}
  BY <1>1 DEF FactsOf, Alive, Keys, AboxTypeOK
<1>4. stage \in Stage /\ stage \in {"drop", "retract"} /\ stage \in AtTypes
  BY DEF Stage, AtTypes
<1> HIDE DEF found, stage
<1>5. /\ o \in Task /\ o.pc = stage /\ o.edges = found /\ o.drop = t.drop /\ o.kind = t.kind
      /\ o.canon = t.canon /\ o.local = t.local /\ o.pairs = t.pairs
  BY <1>1, <1>3, <1>4 DEF Task
<1>6. Become(h, o)
  BY DEF ReadFacts, found, stage
<1> HIDE DEF o
<1>7. ASSUME task'[h] = o PROVE Prepared(task[h])'
  BY <1>1, <1>2, <1>3, <1>4, <1>5, <1>7 DEF Prepared
<1> QED BY <1>1, <1>2, <1>4, <1>5, <1>6, <1>7, AboxQuiet

LEMMA RetractStep == ASSUME AboxInv, NEW h \in Handlers, Retract(h) PROVE AboxInv'
<1> DEFINE t == task[h]
<1>1. AboxTypeOK /\ t \in Task /\ Prepared(t)
  BY InHand
<1>2. PICK f \in t.edges :
        /\ Ends(facts, f, facts')
        /\ Become(h, [t EXCEPT !.edges = t.edges \ {f}, !.pc = IF t.edges = {f} THEN "drop" ELSE "retract"])
  BY <1>1 DEF Retract
<1> DEFINE stage == IF t.edges = {f} THEN "drop" ELSE "retract"
           left == t.edges \ {f}
           o == [t EXCEPT !.edges = left, !.pc = stage]
<1>3. t.pc = "retract" /\ UNCHANGED <<people, typings, refused, unions, acts>>
  BY DEF Retract, past
<1>4. (Ended(facts', facts, f) /\ UNCHANGED deaths) \/ (Failing /\ UNCHANGED facts)
  BY <1>2 DEF Ends, Ended, Failing
<1>5. f \in DOMAIN facts /\ Touched(f)
  BY <1>1, <1>3 DEF Prepared, Touched
<1>6. left \in Keys /\ left \subseteq t.edges
  BY <1>1 DEF Keys, Task
<1>7. stage \in Stage /\ stage \in {"drop", "retract"} /\ stage \in AtTypes
  BY DEF Stage, AtTypes
<1> HIDE DEF stage, left
<1>8. /\ o \in Task /\ o.pc = stage /\ o.edges = left /\ o.drop = t.drop /\ o.kind = t.kind
      /\ o.canon = t.canon /\ o.local = t.local /\ o.pairs = t.pairs
  BY <1>1, <1>6, <1>7 DEF Task
<1>9. Become(h, o)
  BY <1>2 DEF stage, left
<1> HIDE DEF o
<1>10. ASSUME AboxGrows, task'[h] = o PROVE Prepared(task[h])'
  <2>1. \A g \in o.edges : g \in DOMAIN facts' /\ o.drop \in {facts'[g].from, facts'[g].to}
    BY <1>1, <1>3, <1>6, <1>8, <1>10 DEF Prepared, AboxGrows, FactsGrow
  <2> QED BY <1>1, <1>3, <1>7, <1>8, <1>10, <2>1 DEF Prepared
<1>11. CASE Ended(facts', facts, f) /\ UNCHANGED deaths
  BY <1>3, <1>5, <1>7, <1>8, <1>9, <1>10, <1>11, FactExpired
<1>12. CASE Failing /\ UNCHANGED facts
  BY <1>3, <1>8, <1>9, <1>10, <1>12, FailedStep
<1> QED BY <1>4, <1>11, <1>12

LEMMA DropIndividualStep == ASSUME AboxInv, NEW h \in Handlers, DropIndividual(h) PROVE AboxInv'
<1> DEFINE t == task[h]
           i == t.drop
           row == [people[i] EXCEPT !.live = FALSE]
           o == [t EXCEPT !.pc = "next", !.gone = t.gone \cup {i}, !.keep = 0, !.drop = 0]
<1>1. AboxTypeOK /\ t \in Task /\ Prepared(t)
  BY InHand
<1>2. t.pc = "drop" /\ UNCHANGED <<typings, facts, unions, refused, acts>>
  BY DEF DropIndividual, past
<1>3. i \in DOMAIN people /\ people[i] \in IndividualRow /\ i \in Nat /\ t.gone \in Keys
  BY <1>1, <1>2 DEF Prepared, AboxTypeOK, Task
<1>4. row \in IndividualRow /\ ~row.live
  BY <1>3 DEF IndividualRow
<1>5. (people' = [people EXCEPT ![i] = row] /\ UNCHANGED deaths) \/ (Failing /\ UNCHANGED people)
  BY <1>3 DEF DropIndividual, Ends, Failing
<1> HIDE DEF row
<1>6. refused \subseteq refused' /\ refused' \subseteq Nat
  BY <1>1, <1>2 DEF AboxTypeOK
<1>7. CASE Rest(h)
  <2>1. ASSUME task'[h] = IdleTask PROVE Prepared(task[h])'
    BY <2>1, IdleIsTask DEF Prepared
  <2>2. CASE people' = [people EXCEPT ![i] = row] /\ UNCHANGED deaths
    BY <1>2, <1>3, <1>4, <1>6, <1>7, <2>1, <2>2, IdleIsTask, IndividualChanged DEF Rest
  <2>3. CASE Failing /\ UNCHANGED people
    BY <1>2, <1>7, <2>1, <2>3, IdleIsTask, FailedStep DEF Rest
  <2> QED BY <1>5, <2>2, <2>3
<1>8. CASE t.kind # "reject" /\ Become(h, o)
  <2>1. /\ o \in Task /\ o.pc = "next" /\ o.kind = t.kind /\ o.canon = t.canon /\ o.local = t.local /\ o.pairs = t.pairs
    <3>1. "next" \in Stage /\ t.gone \cup {i} \in Keys
      BY <1>3 DEF Stage, Keys
    <3> QED BY <1>1, <3>1 DEF Task
  <2> HIDE DEF o
  <2>2. ASSUME AboxGrows, task'[h] = o PROVE Prepared(task[h])'
    BY <1>1, <1>2, <1>8, <2>1, <2>2 DEF Prepared, AboxGrows
  <2>3. CASE people' = [people EXCEPT ![i] = row] /\ UNCHANGED deaths
    BY <1>2, <1>3, <1>4, <1>6, <1>8, <2>1, <2>2, <2>3, IndividualChanged
  <2>4. CASE Failing /\ UNCHANGED people
    BY <1>2, <1>8, <2>1, <2>2, <2>4, FailedStep
  <2> QED BY <1>5, <2>3, <2>4
<1> QED BY <1>7, <1>8 DEF DropIndividual

LEMMA DiesStep == ASSUME AboxInv, NEW h \in Handlers, Dies(h) PROVE AboxInv'
<1>1. AboxTypeOK /\ acts \in Nat /\ deaths \in Nat
  BY InHand
<1>2. ASSUME task'[h] = IdleTask PROVE Prepared(task[h])'
  BY <1>2, IdleIsTask DEF Prepared
<1>3. UNCHANGED <<people, typings, facts, refused, unions, acts>> /\ unions' \subseteq Union
  BY <1>1 DEF Dies, abox, past, AboxTypeOK
<1>4. deaths' \in Nat /\ deaths' # 0
  BY <1>1 DEF Dies
<1> QED BY <1>1, <1>2, <1>3, <1>4, IdleIsTask, AboxQuiet DEF Dies, Rest

-----------------------------------------------------------------------------
LEMMA AboxNextStep == AboxInv /\ [AboxNext]_aboxVars => AboxInv'
<1> SUFFICES ASSUME AboxInv, [AboxNext]_aboxVars PROVE AboxInv'
  OBVIOUS
<1>1. CASE UNCHANGED aboxVars
  <2>1. UNCHANGED <<people, typings, facts, task, unions, refused, acts, deaths>>
    BY <1>1 DEF aboxVars
  <2>2. AboxTypeOK'
    BY <2>1 DEF AboxInv, AboxTypeOK
  <2>3. \A h \in Handlers : Prepared(task[h])'
    <3> SUFFICES ASSUME NEW h \in Handlers PROVE Prepared(task[h])'
      OBVIOUS
    <3>1. Prepared(task[h]) /\ task'[h] = task[h]
      BY <2>1 DEF AboxInv
    <3>2. Carried(task[h].edge) => Carried(task[h].edge)'
      BY SMTT(40), <2>1 DEF Carried, Settled, Closed, Touched
    <3> QED BY <2>1, <3>1, <3>2 DEF Prepared
  <2>4. FactsKept'
    <3>1. \A f \in DOMAIN facts : Settled(f) => Settled(f)'
      BY <2>1 DEF Settled, Closed, Touched
    <3> QED BY <2>1, <3>1 DEF AboxInv, FactsKept
  <2>5. AllTyped'
    BY <2>1 DEF AboxInv, AllTyped, Alive, TypesOf, AtWork
  <2> QED BY <2>2, <2>3, <2>4, <2>5 DEF AboxInv
<1>2. ASSUME NEW h \in Handlers,
             \/ BeginExtract(h) \/ ReadChunk(h) \/ CreateIndividual(h) \/ TypeIndividual(h) \/ AddFact(h)
             \/ BeginCanonicalize(h) \/ NextPair(h) \/ AddMoved(h) \/ ExpireMoved(h) \/ ReadSources(h) \/ Unite(h)
             \/ BeginCurate(h) \/ BeginEdit(h) \/ SetStatus(h) \/ Relabel(h) \/ ReadTypes(h) \/ Untype(h) \/ Retype(h)
             \/ ReadFacts(h) \/ Retract(h) \/ DropIndividual(h)
             \/ Dies(h)
      PROVE  AboxInv'
  BY <1>2, BeginExtractStep, ReadChunkStep, CreateIndividualStep, TypeIndividualStep, AddFactStep, BeginCanonicalizeStep,
     NextPairStep, AddMovedStep, ExpireMovedStep, ReadSourcesStep, UniteStep, BeginCurateStep, BeginEditStep, SetStatusStep,
     RelabelStep, ReadTypesStep, UntypeStep, RetypeStep, ReadFactsStep, RetractStep, DropIndividualStep, DiesStep
<1> QED BY <1>1, <1>2 DEF AboxNext

LEMMA AboxAlways == AboxSpec => []AboxInv
<1> QED BY InitAbox, AboxNextStep, PTL DEF AboxSpec

(* The types of the assertion graph and of the handlers that write it, for  *)
(* any classes, names, excerpts and answers of the language model           *)
(* (individuals_repo.py, abox_extraction.py, abox_canonicalize.py).         *)
THEOREM AboxTypesHold == AboxSpec => []AboxTypeOK
<1>1. AboxInv => AboxTypeOK
  BY DEF AboxInv
<1> QED BY <1>1, AboxAlways, PTL

(* merge_individuals adds a fact at the survivor before it expires the old  *)
(* one: however many handlers merge, reject and extract, and wherever they  *)
(* die, a fact that was extracted stays stated until one of its individuals *)
(* is rejected or the two of them become one.                               *)
THEOREM FactsAreKept == AboxSpec => []FactsSurvive
<1>1. AboxInv => FactsSurvive
  BY DEF AboxInv, FactsKept, Settled, Touched, FactsSurvive, Continued
<1> QED BY <1>1, AboxAlways, PTL

(* create_individual, _retype_individual, reject_individual: as long as no  *)
(* operation is cut short and no expiry fails, a live individual on which   *)
(* no handler is at work has a type, however many of them run into each     *)
(* other.                                                                   *)
THEOREM QuietIsTyped == AboxSpec => []TypedWhenQuiet
<1>1. AboxInv => TypedWhenQuiet
  BY DEF AboxInv, AllTyped, AtWork, TypedWhenQuiet
<1> QED BY <1>1, AboxAlways, PTL
=============================================================================
