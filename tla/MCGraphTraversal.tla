-------------------------- MODULE MCGraphTraversal --------------------------
(***************************************************************************)
(* Four nodes and every graph on them with at most MaxEdges edges and no   *)
(* self-loop (an ordering never holds a usage twice).                      *)
(***************************************************************************)
EXTENDS GraphTraversal

CONSTANT MaxEdges

Pairs == {p \in Nodes \X Nodes : p[1] # p[2]}

MCGraphs ==
  {[n \in Nodes |-> {m \in Nodes : <<n, m>> \in E}] :
     E \in {F \in SUBSET Pairs : Cardinality(F) <= MaxEdges}}

\* Nodes 1, 2 and 4 use routes of one exclusion set, 3 and 4 of another.
MCExclusions ==
  {{p \in Nodes \X Nodes : {p[1], p[2]} \subseteq {1, 2, 4} \/ {p[1], p[2]} \subseteq {3, 4}}}
=============================================================================
