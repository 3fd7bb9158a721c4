--------------------------- MODULE VersionHistory ---------------------------
(***************************************************************************)
(* What the temporal store promises about the history of each concept,     *)
(* whatever happens to its edges: at any time it is current or not, the    *)
(* past is only added to, and a successor carries on the numbering of the  *)
(* version retired last.  ADR 002 (docs/adr/002-temporal-pattern.md) and   *)
(* services/temporal.py; TemporalStore implements it when its operations   *)
(* run one at a time, interrupted or not.                                  *)
(***************************************************************************)
EXTENDS Naturals

CONSTANTS Concepts

VARIABLES
    current,   \* current[c]: version number of the current version, 0 if none
    since,     \* since[c]: when the current version became active, 0 if none
    past,      \* past[c]: the closed intervals of the earlier versions
    now

vars == <<current, since, past, now>>

Interval == [version : Nat \ {0}, created : Nat, expired : Nat]

Init ==
    /\ current \in [Concepts -> {0, 1}]
    /\ since = [c \in Concepts |-> 0]
    /\ past = [c \in Concepts |-> {}]
    /\ now \in Nat

TimePasses == now' \in Nat /\ now' >= now

Activate(c, v) ==
    /\ current[c] = 0
    /\ current' = [current EXCEPT ![c] = v]
    /\ since' = [since EXCEPT ![c] = now]
    /\ TimePasses
    /\ UNCHANGED past

Introduce(c) == Activate(c, 1)

\* The interval a successor continues is one that ended last.
Succeed(c) ==
    \E p \in past[c] :
        /\ \A q \in past[c] : q.expired <= p.expired
        /\ Activate(c, p.version + 1)

Retire(c) ==
    /\ current[c] # 0
    /\ past' = [past EXCEPT ![c] = @ \cup {[version |-> current[c],
                                           created |-> since[c], expired |-> now]}]
    /\ current' = [current EXCEPT ![c] = 0]
    /\ since' = [since EXCEPT ![c] = 0]
    /\ TimePasses

Wait == TimePasses /\ UNCHANGED <<current, since, past>>

Next == Wait \/ \E c \in Concepts : Introduce(c) \/ Succeed(c) \/ Retire(c)

Spec == Init /\ [][Next]_vars
=============================================================================
