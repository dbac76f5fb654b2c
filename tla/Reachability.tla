---------------------------- MODULE Reachability ----------------------------
(***************************************************************************)
(* Reachability in a directed graph that is given, like the out_ vectors   *)
(* of the ordering graph, as a function e from a node to the set of its    *)
(* successors.  It is defined without recursion so that theorems can be    *)
(* stated about it.                                                        *)
(***************************************************************************)
IsClosed(e, S) == \A x \in S : e[x] \subseteq S

(***************************************************************************)
(* m can be reached from n over at least one edge: it is in every set of   *)
(* nodes that holds the successors of n and is closed under e.             *)
(***************************************************************************)
Reaches(e, n, m) ==
  \A S \in SUBSET DOMAIN e : e[n] \subseteq S /\ IsClosed(e, S) => m \in S

ReachableFrom(e, n) == {m \in DOMAIN e : Reaches(e, n, m)}

\* Every non-empty set of nodes has a member without a predecessor in it.
IsAcyclic(e) ==
  \A S \in SUBSET DOMAIN e : S # {} => \E m \in S : \A n \in S : m \notin e[n]

(***************************************************************************)
(* The successors of start that are also the successor of a node reached   *)
(* from start.                                                             *)
(***************************************************************************)
TransitiveTargets(e, start) ==
  {to \in e[start] : \E via \in ReachableFrom(e, start) : to \in e[via]}
=============================================================================
