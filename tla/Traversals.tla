------------------------------ MODULE Traversals ------------------------------
(***************************************************************************)
(* How the database walks the imports collection for the AQL this program  *)
(* sends it: edges are records with from, to and live, and a removed edge  *)
(* stays in the collection with live = FALSE.                              *)
(***************************************************************************)
EXTENDS Naturals

\* Layers(o, edges, depth)[n]: what is n hops from o along the edges, and not fewer.
Layers(o, edges, depth) ==
    LET seen[n \in 0..depth] ==
            IF n = 0 THEN {o}
            ELSE LET last == seen[n-1] IN last \cup {e.to : e \in {d \in edges : d.from \in last}}
    IN [n \in 0..depth |-> IF n = 0 THEN {o} ELSE seen[n] \ seen[n-1]]

\* OUTBOUND with uniqueVertices 'global', breadth first, and a filter on the last
\* edge: a vertex is visited once, over any edge of a shortest path, expired ones
\* included, and reported if that edge is live.  lucky: a live one is taken first.
ReportedAt(o, edges, depth, lucky) ==
    LET layer == Layers(o, edges, depth)
        into(v, n) == {e \in edges : e.to = v /\ e.from \in layer[n-1]}
    IN UNION {{<<v, n>> : v \in {w \in layer[n] :
                  IF lucky THEN \E e \in into(w, n) : e.live ELSE \A e \in into(w, n) : e.live}} : n \in 1..depth}
=============================================================================
