--------------------------- MODULE GraphTraversal ---------------------------
(***************************************************************************)
(* The graph algorithms the ordering graph is analysed with, step by step: *)
(*   - graph_traversal, instantiated with a queue (bfs) or a stack (dfs),  *)
(*     include/soro/utls/graph/traversal.h;                                *)
(*   - its clients get_transitive_edges (remove_transitive_edges.cc),      *)
(*     get_cycle (get_cycle.cc) and has_exclusion_paths                    *)
(*     (check_exclusion_paths.cc);                                         *)
(*   - has_cycle, include/soro/utls/graph/has_cycle.h.                     *)
(*                                                                         *)
(* The graph is the one of the ordering graph: nodes 1..N with a sorted    *)
(* out_ vector without duplicates, a set that is iterated in ascending     *)
(* order.  A traversal calls back its client with every node and edge; the *)
(* callbacks are the operators OnNode and OnEdge.                          *)
(***************************************************************************)
EXTENDS Integers, Sequences, FiniteSets, Reachability

CONSTANTS
  N,          \* number of nodes
  Graphs,     \* the graphs that are analysed
  Exclusions  \* the symmetric relations "routes in a common exclusion set"

Nodes == 1..N
None  == 0                 \* ordering_node::INVALID
Inf   == 2 * N             \* the depth of a node that was not reached

ASSUME NAssumption == N \in Nat \ {0}
ASSUME GraphsAssumption == Graphs \subseteq [Nodes -> SUBSET Nodes]
ASSUME ExclusionsAssumption ==
  \A E \in Exclusions :
    E \subseteq Nodes \X Nodes /\ \A p \in E : <<p[2], p[1]>> \in E

Clients == {"transitive", "cycle", "exclusion", "has_cycle"}

VARIABLES
  graph, exclusion,  \* the input
  client,            \* the function that runs
  pc,                \* where it is
  start,             \* the outer loop over the nodes
  target,            \* exclusion: the node has_path_impl is at
  source,            \* the start node of the current traversal
  todo,              \* q: pairs of a node and the node it was reached from
  seen,
  current, pending,  \* the node being expanded, its remaining neighbours
  depth, prev,       \* the state of the callbacks
  reachable,         \* exclusion: the nodes get_reachable_nodes marked
  edges, cycles,     \* the results of get_transitive_edges and get_cycles
  found,             \* the result of has_exclusion_paths, has_cycle
  visited, finished, \* has_cycle
  stack,             \* has_cycle: the call stack of cycle_detection_impl
  nodeVisits, edgeVisits  \* how often the callbacks were called (history)

vars == <<graph, exclusion, client, pc, start, target, source, todo, seen,
          current, pending, depth, prev, reachable, edges, cycles, found,
          visited, finished, stack, nodeVisits, edgeVisits>>

input   == <<graph, exclusion, client>>
results == <<edges, cycles, found>>
dfsVars == <<visited, finished, stack>>

Least(S) == CHOOSE x \in S : \A y \in S : x <= y
Larger(a, b) == IF a >= b THEN a ELSE b

-----------------------------------------------------------------------------
(***************************************************************************)
(* The start of a traversal: the callbacks' vectors are fresh, the queue   *)
(* holds the start node, which is not in seen.                             *)
(***************************************************************************)
FreshDepth(s) == IF client = "cycle" THEN [n \in Nodes |-> IF n = s THEN 0 ELSE Inf]
                                     ELSE [n \in Nodes |-> 0]

Begin(s) ==
  /\ source' = s
  /\ todo' = <<<<s, s>>>>
  /\ seen' = {}
  /\ current' = None
  /\ pending' = {}
  /\ depth' = FreshDepth(s)
  /\ prev' = [n \in Nodes |-> None]
  /\ nodeVisits' = [n \in Nodes |-> 0]
  /\ edgeVisits' = [n, m \in Nodes |-> 0]
  /\ pc' = "pop"

Init ==
  /\ graph \in Graphs
  /\ exclusion \in Exclusions
  /\ client \in Clients
  /\ pc = IF client = "has_cycle" THEN "call" ELSE "begin"
  /\ start = 1
  /\ target = None
  /\ source = None
  /\ todo = <<>>
  /\ seen = {}
  /\ current = None
  /\ pending = {}
  /\ depth = [n \in Nodes |-> 0]
  /\ prev = [n \in Nodes |-> None]
  /\ reachable = {}
  /\ edges = {}
  /\ cycles = <<>>
  /\ found = (client = "exclusion")
  /\ visited = {}
  /\ finished = {}
  /\ stack = <<>>
  /\ nodeVisits = [n \in Nodes |-> 0]
  /\ edgeVisits = [n, m \in Nodes |-> 0]

-----------------------------------------------------------------------------
(***************************************************************************)
(* The callbacks.  A traversal from target looks for start, path_exists;   *)
(* every other traversal of has_exclusion_paths is get_reachable_nodes.    *)
(***************************************************************************)
NodeDepth(to, from) ==
  CASE client = "transitive" ->
         [depth EXCEPT ![to] = Larger(@, depth[from] + 1)]
    [] client = "cycle" /\ depth[to] = Inf ->
         [depth EXCEPT ![to] = depth[from] + 1]
    [] OTHER -> depth

NodePrev(to, from) ==
  IF client = "cycle" /\ depth[to] = Inf THEN [prev EXCEPT ![to] = from] ELSE prev

NodeStops(to) == client = "exclusion" /\ target # None /\ to = start

\* A mutant of EdgeDepth: edges to nodes already seen no longer count.
EdgeDepthIgnored(from, to) == depth

EdgeDepth(from, to) ==
  IF client = "transitive"
  THEN [depth EXCEPT ![to] = Larger(@, depth[from] + 1)]
  ELSE depth

EdgeStops(to) == client = "cycle" /\ to = source

-----------------------------------------------------------------------------
(***************************************************************************)
(* The traversal.                                                          *)
(***************************************************************************)
IsStack == client = "transitive"

\* A mutant of Head1: front where top is meant.
FrontOf(q) == Head(q)

Head1(q) == IF IsStack THEN q[Len(q)] ELSE Head(q)
Rest1(q) == IF IsStack THEN SubSeq(q, 1, Len(q) - 1) ELSE Tail(q)

\* Take the next pair off the queue and call back with its node.
Pop ==
  /\ pc = "pop"
  /\ todo # <<>>
  /\ LET node == Head1(todo)[1]
         from == Head1(todo)[2]
     IN  /\ todo' = Rest1(todo)
         /\ current' = node
         /\ IF node = source
            THEN UNCHANGED <<depth, prev, reachable, nodeVisits>>
            ELSE /\ depth' = NodeDepth(node, from)
                 /\ prev' = NodePrev(node, from)
                 /\ reachable' = IF client = "exclusion" /\ target = None
                                 THEN reachable \cup {node} ELSE reachable
                 /\ nodeVisits' = [nodeVisits EXCEPT ![node] = @ + 1]
         /\ IF node # source /\ NodeStops(node)
            THEN pc' = "stopped" /\ pending' = {}
            ELSE pc' = "expand" /\ pending' = graph[node]
  /\ UNCHANGED <<input, results, dfsVars, start, target, source, seen, edgeVisits>>

\* Call back with the next edge and put its end on the queue.
Expand ==
  /\ pc = "expand"
  /\ pending # {}
  /\ LET to == Least(pending)
     IN  /\ edgeVisits' = [edgeVisits EXCEPT ![<<current, to>>] = @ + 1]
         /\ depth' = EdgeDepth(current, to)
         /\ IF EdgeStops(to)
            THEN /\ prev' = [prev EXCEPT ![to] = current]
                 /\ pc' = "stopped"
                 /\ UNCHANGED <<pending, seen, todo>>
            ELSE /\ pending' = pending \ {to}
                 /\ seen' = seen \cup {to}
                 /\ todo' = IF to \in seen THEN todo
                                           ELSE Append(todo, <<to, current>>)
                 /\ UNCHANGED <<pc, prev>>
  /\ UNCHANGED <<input, results, dfsVars, start, target, source, current,
                 reachable, nodeVisits>>

EndOfNode ==
  /\ pc = "expand"
  /\ pending = {}
  /\ pc' = "pop"
  /\ UNCHANGED <<input, results, dfsVars, start, target, source, todo, seen,
                 current, pending, depth, prev, reachable, nodeVisits, edgeVisits>>

\* The queue has run empty, or a callback has asked to stop.
Ended == pc = "stopped" \/ (pc = "pop" /\ todo = <<>>)

-----------------------------------------------------------------------------
(***************************************************************************)
(* The loops over the start nodes.                                         *)
(***************************************************************************)
NextStart ==
  /\ start' = start + 1
  /\ pc' = IF start = N THEN "done" ELSE "begin"

\* A mutant of BeginTraversal: the marks of the last start are kept.
BeginTraversalStale ==
  /\ pc = "begin"
  /\ Begin(start)
  /\ reachable' = reachable \cup {start}
  /\ UNCHANGED <<input, results, dfsVars, start, target>>

BeginTraversal ==
  /\ pc = "begin"
  /\ Begin(start)
  /\ reachable' = {start}
  /\ UNCHANGED <<input, results, dfsVars, start, target>>

\* The neighbours deeper than 1 are the ends of transitive edges.
CollectTransitive ==
  /\ client = "transitive"
  /\ Ended
  /\ edges' = edges \cup {<<start, to>> : to \in {m \in graph[start] : depth[m] > 1}}
  /\ NextStart
  /\ UNCHANGED <<input, dfsVars, cycles, found, target, source, todo, seen,
                 current, pending, depth, prev, reachable, nodeVisits, edgeVisits>>

\* The nodes from start back along prev, ending before start is met again.
\* A mutant of Walk: start is added before the loop notices it.
WalkTooFar ==
  LET step[k \in 0..N] == IF k = 0 THEN prev[start] ELSE
                            IF step[k - 1] = None THEN None ELSE prev[step[k - 1]]
      len == Least({k \in 0..N : step[k] = start} \cup {N})
  IN  [k \in 1..(len + 1) |-> step[len + 1 - k]]

Walk ==
  LET step[k \in 0..N] == IF k = 0 THEN prev[start] ELSE
                            IF step[k - 1] = None THEN None ELSE prev[step[k - 1]]
      len == Least({k \in 0..N : step[k] = start} \cup {N + 1})
  IN  [k \in 1..len |-> step[len - k]]

\* c = {start, prev[start], prev[prev[start]], ...}, reversed.
CollectCycle ==
  /\ client = "cycle"
  /\ Ended
  /\ cycles' = IF prev[start] = None THEN cycles
                                     ELSE Append(cycles, Append(Walk, start))
  /\ NextStart
  /\ UNCHANGED <<input, dfsVars, edges, found, target, source, todo, seen,
                 current, pending, depth, prev, reachable, nodeVisits, edgeVisits>>

\* has_path_impl for the targets one after the other: the targets that are
\* start, do not exclude it or are reachable from it need no search.
NeedsSearch(t) ==
  t # start /\ <<start, t>> \in exclusion /\ t \notin reachable

\* A mutant of NextTarget: the target is not advanced past.
NextTargetAgain(t) ==
  LET later == {m \in Nodes : m >= t /\ NeedsSearch(m)}
  IN  IF later = {}
      THEN /\ NextStart
           /\ target' = None
           /\ UNCHANGED <<source, todo, seen, current, pending, depth, prev,
                          nodeVisits, edgeVisits>>
      ELSE /\ target' = Least(later)
           /\ Begin(Least(later))
           /\ UNCHANGED start

NextTarget(t) ==
  LET later == {m \in Nodes : m > t /\ NeedsSearch(m)}
  IN  IF later = {}
      THEN /\ NextStart
           /\ target' = None
           /\ UNCHANGED <<source, todo, seen, current, pending, depth, prev,
                          nodeVisits, edgeVisits>>
      ELSE /\ target' = Least(later)
           /\ Begin(Least(later))
           /\ UNCHANGED start

CheckTargets ==
  /\ client = "exclusion"
  /\ Ended
  /\ \/ /\ target = None
        /\ NextTarget(0)
        /\ UNCHANGED found
     \/ /\ target # None
        /\ pc = "stopped"
        /\ NextTarget(target)
        /\ UNCHANGED found
     \/ /\ target # None
        /\ pc # "stopped"
        /\ found' = FALSE
        /\ pc' = "done"
        /\ UNCHANGED <<start, target, source, todo, seen, current, pending,
                       depth, prev, nodeVisits, edgeVisits>>
  /\ UNCHANGED <<input, dfsVars, edges, cycles, reachable>>

-----------------------------------------------------------------------------
(***************************************************************************)
(* has_cycle: cycle_detection_impl on an explicit stack of frames, a node  *)
(* and the neighbours that are still to be called with.                    *)
(***************************************************************************)
Enter(n) ==
  /\ visited' = visited \cup {n}
  /\ stack' = Append(stack, [node |-> n, left |-> graph[n]])
  /\ UNCHANGED <<found, finished, pc, start>>

CallOuter ==
  /\ pc = "call"
  /\ stack = <<>>
  /\ start <= N
  /\ \/ /\ start \in finished
        /\ start' = start + 1
        /\ UNCHANGED <<visited, finished, stack, found, pc>>
     \/ /\ start \notin finished
        /\ start \in visited
        /\ found' = TRUE
        /\ pc' = "done"
        /\ UNCHANGED <<visited, finished, stack, start>>
     \/ /\ start \notin visited
        /\ Enter(start)
  /\ UNCHANGED <<input, edges, cycles, target, source, todo, seen, current,
                 pending, depth, prev, reachable, nodeVisits, edgeVisits>>

Top == stack[Len(stack)]

CallInner ==
  /\ pc = "call"
  /\ stack # <<>>
  /\ Top.left # {}
  /\ LET n    == Least(Top.left)
         rest == [stack EXCEPT ![Len(stack)].left = @ \ {n}]
     IN  \/ /\ n \in finished
            /\ stack' = rest
            /\ UNCHANGED <<visited, finished, found, pc>>
         \/ /\ n \notin finished
            /\ n \in visited
            /\ found' = TRUE
            /\ pc' = "done"
            /\ UNCHANGED <<visited, finished, stack>>
         \/ /\ n \notin visited
            /\ visited' = visited \cup {n}
            /\ stack' = Append(rest, [node |-> n, left |-> graph[n]])
            /\ UNCHANGED <<finished, found, pc>>
  /\ UNCHANGED <<input, start, edges, cycles, target, source, todo, seen,
                 current, pending, depth, prev, reachable, nodeVisits, edgeVisits>>

\* A mutant of Return: the node is never marked as finished.
ReturnUnfinished ==
  /\ pc = "call"
  /\ stack # <<>>
  /\ Top.left = {}
  /\ stack' = SubSeq(stack, 1, Len(stack) - 1)
  /\ start' = IF Len(stack) = 1 THEN start + 1 ELSE start
  /\ UNCHANGED <<input, pc, results, visited, finished, target, source, todo,
                 seen, current, pending, depth, prev, reachable, nodeVisits,
                 edgeVisits>>

Return ==
  /\ pc = "call"
  /\ stack # <<>>
  /\ Top.left = {}
  /\ finished' = finished \cup {Top.node}
  /\ stack' = SubSeq(stack, 1, Len(stack) - 1)
  /\ start' = IF Len(stack) = 1 THEN start + 1 ELSE start
  /\ UNCHANGED <<input, pc, results, visited, target, source, todo, seen,
                 current, pending, depth, prev, reachable, nodeVisits, edgeVisits>>

NoCycle ==
  /\ pc = "call"
  /\ stack = <<>>
  /\ start > N
  /\ pc' = "done"
  /\ UNCHANGED <<input, results, dfsVars, start, target, source, todo, seen,
                 current, pending, depth, prev, reachable, nodeVisits, edgeVisits>>

-----------------------------------------------------------------------------
Next ==
  \/ BeginTraversal
  \/ Pop
  \/ Expand
  \/ EndOfNode
  \/ CollectTransitive
  \/ CollectCycle
  \/ CheckTargets
  \/ CallOuter
  \/ CallInner
  \/ Return
  \/ NoCycle

Spec == Init /\ [][Next]_vars

\* The functions run in one thread that takes its next step.
FairSpec == Spec /\ WF_vars(Next)

-----------------------------------------------------------------------------
(***************************************************************************)
(* A traversal that is not stopped calls back with exactly the nodes that  *)
(* can be reached from its start, each of them once, and never with the    *)
(* start itself.                                                           *)
(***************************************************************************)
VisitsReachable ==
  /\ \A n \in Nodes : nodeVisits[n] <= 1
  /\ pc = "pop" /\ todo = <<>> =>
       {n \in Nodes : nodeVisits[n] = 1} = ReachableFrom(graph, source) \ {source}

(***************************************************************************)
(* The depth first search finds the edges the ordering graph calls         *)
(* transitive, on graphs with cycles as well as without.                   *)
(***************************************************************************)
FindsTransitiveEdges ==
  client = "transitive" /\ pc = "done" =>
    edges = {e \in Nodes \X Nodes : e[2] \in TransitiveTargets(graph, e[1])}

\* c is a closed walk over edges of the graph that ends in its last member.
IsCycle(c) ==
  \A i \in DOMAIN c : c[i] \in graph[c[IF i = 1 THEN Len(c) ELSE i - 1]]

(***************************************************************************)
(* get_cycles finds a cycle through every node that lies on one, each of   *)
(* them a cycle of the graph without repeated nodes, and there is no       *)
(* shorter one: no chord skips a part of it.                               *)
(***************************************************************************)
FindsCycles ==
  client = "cycle" /\ pc = "done" =>
    /\ {c[Len(c)] : c \in {cycles[i] : i \in DOMAIN cycles}} =
         {n \in Nodes : Reaches(graph, n, n)}
    /\ \A k \in DOMAIN cycles :
         /\ IsCycle(cycles[k])
         /\ \A i, j \in DOMAIN cycles[k] :
              /\ i # j => cycles[k][i] # cycles[k][j]
              /\ i + 1 < j => cycles[k][j] \notin graph[cycles[k][i]]

(***************************************************************************)
(* has_exclusion_paths, with its mixture of one full search per node and   *)
(* early ending searches back, decides what it claims.                     *)
(***************************************************************************)
DecidesExclusionPaths ==
  client = "exclusion" /\ pc = "done" =>
    (found <=> \A p \in exclusion : p[1] # p[2] =>
                 Reaches(graph, p[1], p[2]) \/ Reaches(graph, p[2], p[1]))

(***************************************************************************)
(* has_cycle is true exactly for the graphs with a cycle, and satisfies    *)
(* its postcondition: all nodes visited and finished if there is none.     *)
(***************************************************************************)
DecidesCycle ==
  client = "has_cycle" /\ pc = "done" =>
    /\ found <=> ~IsAcyclic(graph)
    /\ found \/ (visited = Nodes /\ finished = Nodes)

\* Every function returns, cycles or not.
Terminates == <>(pc = "done")

(***************************************************************************)
(* "Every edge is visited exactly once", the comment on work_on_edge in    *)
(* traversal.h, for the edges from nodes the traversal has expanded.       *)
(***************************************************************************)
EveryEdgeOnce == \A n, m \in Nodes : edgeVisits[n, m] <= 1
=============================================================================
