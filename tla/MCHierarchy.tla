------------------------------ MODULE MCHierarchy ------------------------------
(* Instances of ClassHierarchy for TLC.                                     *)
EXTENDS ClassHierarchy, TLC

\* Classes are interchangeable, those that exist and those that do not yet.
KeySymmetry == Permutations(Keys \ Unborn) \cup Permutations(Unborn)

-----------------------------------------------------------------------------
(***************************************************************************)
(* What documents, comments and docstrings say where the code does         *)
(* something else.                                                         *)
(***************************************************************************)
(* api/ontology/mutations.py:350 "Atomically move a class to a new parent": *)
(* a move that is cut short leaves the class where it was.                  *)
InterruptedMoveKeepsParent ==
    [][\A t \in Threads :
          op[t].kind = "single" /\ op[t].pc # "idle" /\ aborts' # aborts
              => op[t].prev = <<>>]_vars

(* models/ontology.py:135 "a move never leaves the old parent edge behind": *)
(* a class has one parent edge beside those set by hand.                    *)
OneParentEdge == \A e, f \in links : e.child = f.child /\ ~e.manual /\ ~f.manual => e = f

(* api/ontology/mutations.py:407 "is already a descendant of": a move is    *)
(* refused for a cycle only when the new parent is below the class.         *)
RefusedOnlyForACycle ==
    \A t \in Threads :
        op[t].pc = "check" /\ op[t].batch # <<>> /\ NewParent(t) \notin {None, Class(t)}
            => (GuardRejects(NewParent(t), Class(t))
                    => Reaches(Parents, NewParent(t), Class(t)))

(* api/ontology/mutations.py:658 "Reverse a bulk reparent by restoring each *)
(* class's previous parent": an undo right after its bulk move leaves the   *)
(* hierarchy as it was before the move.                                     *)
UndoReverses ==
    [][\A t \in Threads :
          op[t].kind = "undo" /\ op[t].exact /\ FinishBatch(t) => Parents = op[t].before]_vars
=============================================================================
