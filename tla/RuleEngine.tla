------------------------------ MODULE RuleEngine ------------------------------
(***************************************************************************)
(* The consistency rules over one ontology (ontology_rule_engine.py): what *)
(* each rule reports of a graph of classes.  R3 is the dry run of the edge *)
(* repair and is taken from there.                                         *)
(***************************************************************************)
EXTENDS EdgeRepair, FiniteSets, Functions

CONSTANTS
    RuleClasses,    \* class ids, as numbers
    RuleInputs,     \* ontologies: [sub, equiv, disjoint, order, rows, count, labels]
    PluralsOf,      \* form -> the plurals _plural_candidates tries for it
    ShortForms      \* forms of fewer than four letters

VARIABLES
    ontology,     \* what was evaluated, if anything
    violations    \* violations[r]: what rule r reported, for the rules that ran

rules == <<ontology, violations>>

Violation(severity, ids) == [severity |-> severity, ids |-> ids]
Equivalents(pairs, b) == {c \in RuleClasses : <<b, c>> \in pairs \/ <<c, b>> \in pairs}

-----------------------------------------------------------------------------
\* _r1_synonym_triangle
SynonymTriangles(sub, equiv) ==
    {Violation("error", <<e[1], e[2]>>) : e \in {d \in sub : d[1] \in Equivalents(equiv, d[2])}}
    \cup UNION {{Violation("warning", <<e[1], e[2], c>>) :
                    c \in {d \in Equivalents(equiv, e[2]) \ {e[1]} : <<e[1], d>> \notin sub}}
                    : e \in {d \in sub : d[1] \notin Equivalents(equiv, d[2])}}

\* Tarjan: the state of _strongconnect after visiting v, and all it reaches first.
Unvisited(order) == [order |-> order, index |-> <<>>, low |-> <<>>, stack |-> <<>>, components |-> {}]
Seen(t, v) == v \in DOMAIN t.index
\* Mutant: a class that was seen counts as being on the stack.
OnceOnStack(t, v) == v \in DOMAIN t.index

OnStack(t, v) == v \in ToSet(t.stack)
Least(a, b) == IF a < b THEN a ELSE b

\* v is the root of what lies above it on the stack; one class is no cycle.
Popped(t, v) ==
    LET at == CHOOSE i \in 1..Len(t.stack) : t.stack[i] = v
        component == {t.stack[i] : i \in at..Len(t.stack)}
    IN [t EXCEPT !.stack = SubSeq(@, 1, at - 1),
                 !.components = IF Cardinality(component) > 1 THEN @ \cup {component} ELSE @]

RECURSIVE StrongConnect(_, _, _), Successors(_, _, _, _)
StrongConnect(t, sub, v) ==
    LET n == Cardinality(DOMAIN t.index)
        entered == [t EXCEPT !.index = (v :> n) @@ @, !.low = (v :> n) @@ @, !.stack = Append(@, v)]
        visited == Successors(entered, sub, v, SelectSeq(t.order, LAMBDA w : <<v, w>> \in sub))
    IN IF visited.low[v] = visited.index[v] THEN Popped(visited, v) ELSE visited

Successors(t, sub, v, succ) ==
    IF succ = <<>> THEN t
    ELSE LET w == Head(succ)
             deeper == StrongConnect(t, sub, w)
             next == IF ~Seen(t, w) THEN [deeper EXCEPT !.low[v] = Least(@, deeper.low[w])]
                     ELSE IF OnStack(t, w) THEN [t EXCEPT !.low[v] = Least(@, t.index[w])] ELSE t
         IN Successors(next, sub, v, Tail(succ))

\* _r2_subclass_cycle: loops of one class, then components of several.
SubclassCycles(sub, order) ==
    LET nodes == SelectSeq(order, LAMBDA v : \E e \in sub : v \in {e[1], e[2]})
        end == FoldLeft(LAMBDA t, v : IF Seen(t, v) THEN t ELSE StrongConnect(t, sub, v), Unvisited(order), nodes)
    IN {Violation("error", {v}) : v \in {w \in RuleClasses : <<w, w>> \in sub}}
       \cup {Violation("error", c) : c \in end.components}

\* _disjoint_violation
DisjointViolations(sub, disjoint) ==
    {Violation("error", <<p[1], {p[2], p[3]}>>) : p \in {q \in RuleClasses \X RuleClasses \X RuleClasses :
        /\ <<q[1], q[2]>> \in sub /\ <<q[1], q[3]>> \in sub /\ q[2] # q[3]
        /\ <<q[2], q[3]>> \in disjoint \/ <<q[3], q[2]>> \in disjoint}}

-----------------------------------------------------------------------------
\* The bounds of one property of one class: rows are read one after the other,
\* and a later row takes the place of an earlier one.
Bounds(rows) ==
    LET step(acc, row) ==
            CASE row.type \in {"minCardinality", "sh:minCount"} -> [acc EXCEPT !.min = row.value]
              [] row.type \in {"maxCardinality", "sh:maxCount"} -> [acc EXCEPT !.max = row.value]
              [] OTHER -> [min |-> row.value, max |-> row.value]
    IN FoldLeft(step, [min |-> 0, max |-> 99], rows)

\* _cardinality_violation: a row whose value is no number is skipped.
CardinalityViolations(rows, count) ==
    LET usable == SelectSeq(rows, LAMBDA r : r.value \in 0..98)
        slots == {<<usable[i].class, usable[i].property>> : i \in 1..Len(usable)}
        bounds(s) == Bounds(SelectSeq(usable, LAMBDA r : <<r.class, r.property>> = s))
    IN {Violation("error", s) : s \in {q \in slots : count[q] < bounds(q).min \/ count[q] > bounds(q).max}}

-----------------------------------------------------------------------------
(* R4: buckets of one form, joined where a form and its plural both occur.  *)

RECURSIVE Root(_, _)
Root(parent, form) == IF parent[form] = form THEN form ELSE Root(parent, parent[form])

\* Mutant: joins the forms and not the buckets they are already in.
JoinForms(parent, a, b) == IF a < b THEN [parent EXCEPT ![a] = b] ELSE [parent EXCEPT ![b] = a]

\* _union: the greater of the two roots becomes the root of both.
Join(parent, a, b) ==
    LET ra == Root(parent, a)
        rb == Root(parent, b)
    IN IF ra = rb THEN parent ELSE IF ra < rb THEN [parent EXCEPT ![ra] = rb] ELSE [parent EXCEPT ![rb] = ra]

\* _r4_redundant_class
RedundantClasses(formOf) ==
    LET forms == {formOf[c] : c \in DOMAIN formOf}
        order == SetToSortSeq(forms, LAMBDA a, b : a < b)
        plurals(f) == IF f \in ShortForms THEN {} ELSE PluralsOf[f] \cap forms
        step(parent, f) == FoldLeft(LAMBDA q, p : Join(q, f, p), parent, SetToSortSeq(plurals(f), LAMBDA a, b : a < b))
        parent == FoldLeft(step, [f \in forms |-> f], order)
        cluster(r) == {c \in DOMAIN formOf : Root(parent, formOf[c]) = r}
    IN {Violation("warning", cluster(r)) : r \in {q \in forms : Cardinality(cluster(q)) > 1}}

\* _r3_orphan_object_property_range: what a dry run of the repair would do.
OrphanRanges(g) ==
    LET found == RepairOrphans(g, {}, TRUE).report
    IN {Violation(IF found[p] = "no_domain" THEN "error" ELSE "warning", p) :
            p \in {q \in 1..Len(g.props) : found[q] # "ranged"}}

Results(o) == [
    R1 |-> SynonymTriangles(o.sub, o.equiv),
    R2 |-> SubclassCycles(o.sub, o.order),
    R3 |-> OrphanRanges(relations),
    R4 |-> RedundantClasses(o.labels),
    DISJOINT |-> DisjointViolations(o.sub, o.disjoint),
    CARDINALITY |-> CardinalityViolations(o.rows, o.count)]

\* evaluate_rules: a rule that raises is skipped, and the others still run.
EvaluateRules(inputs) ==
    /\ ontology = {}
    /\ \E o \in inputs :
       LET all == Results(o) IN
       \E raising \in SUBSET DOMAIN all :
           /\ ontology' = {o}
           /\ violations' = Restrict(all, DOMAIN all \ raising)

RulesInit == ontology = {} /\ violations = <<>>
RulesNext == EvaluateRules(RuleInputs) /\ UNCHANGED edgeRepair

-----------------------------------------------------------------------------
RECURSIVE ClosedUnder(_, _)
ClosedUnder(S, edges) ==
    LET more == S \cup {e[2] : e \in {d \in edges : d[1] \in S}}
    IN IF more = S THEN S ELSE ClosedUnder(more, edges)

Mutual(edges, a) == {b \in ClosedUnder({a}, edges) : a \in ClosedUnder({b}, edges)}

(* R2 reports exactly the sets of classes that lie on a common cycle, each  *)
(* once, and R4 the sets of classes whose labels are tied by chains of      *)
(* plurals, whatever order the rows are read in                             *)
(* (ontology_rule_engine.py:238 and :671).                                  *)
RulesExact ==
    \A o \in ontology :
        /\ "R2" \in DOMAIN violations =>
               {v.ids : v \in {w \in violations["R2"] : Cardinality(w.ids) > 1}}
               = {c \in {Mutual(o.sub, a) : a \in RuleClasses} : Cardinality(c) > 1}
        /\ "R4" \in DOMAIN violations =>
               LET forms == Range(o.labels)
                   tied == {e \in (forms \ ShortForms) \X forms : e[2] \in PluralsOf[e[1]]}
                   alike(c) == {d \in DOMAIN o.labels :
                       o.labels[d] \in ClosedUnder({o.labels[c]}, tied \cup {<<e[2], e[1]>> : e \in tied})}
               IN {v.ids : v \in violations["R4"]}
                  = {S \in {alike(c) : c \in DOMAIN o.labels} : Cardinality(S) > 1}
=============================================================================
