------------------------ MODULE GraphTraversalProofs ------------------------
(***************************************************************************)
(* Theorems of GraphTraversal, for every graph, with cycles and self-loops *)
(* too.  Everything rests on one invariant of the traversal: what is in    *)
(* seen was reached from the source, what is in seen and not in the queue  *)
(* any more has been called back with once, and its edges lead to seen.    *)
(***************************************************************************)
EXTENDS GraphTraversal, BasicLemmas, FiniteSetTheorems

GraphOK == graph \in [Nodes -> SUBSET Nodes]

Reached(s) == ReachableFrom(graph, s)

-----------------------------------------------------------------------------
(***************************************************************************)
(* Least members, reachability, and the queue.                             *)
(***************************************************************************)
LEMMA LeastFacts ==
  ASSUME NEW S \in SUBSET Nodes, S # {}
  PROVE  Least(S) \in S /\ \A y \in S : Least(S) <= y
<1>1. S \in SUBSET Nat
  BY NAssumption DEF Nodes
<1>2. \E x \in S : \A y \in S : x <= y
  BY <1>1, LeastNat
<1> QED BY <1>2 DEF Least

\* The successors of the source and of what is reached are reached.
LEMMA ReachedGrows ==
  ASSUME GraphOK, NEW s \in Nodes, NEW x \in Reached(s) \cup {s}, NEW y \in graph[x]
  PROVE  y \in Reached(s)
<1>1. IsGraph(graph, Nodes)
  BY DEF GraphOK, IsGraph
<1>2. x \in Nodes /\ y \in Nodes /\ DOMAIN graph = Nodes
  BY DEF GraphOK, Reached, ReachableFrom
<1>3. Reaches(graph, x, y)
  BY <1>1, <1>2, EdgeReaches
<1>4. x = s \/ Reaches(graph, s, x)
  BY DEF Reached, ReachableFrom
<1>5. Reaches(graph, s, y)
  <2>1. CASE x = s
    BY <1>3, <2>1
  <2>2. CASE Reaches(graph, s, x)
    BY <1>1, <1>2, <1>3, <2>2, ReachesTransitive
  <2> QED BY <1>4, <2>1, <2>2
<1> QED BY <1>2, <1>5 DEF Reached, ReachableFrom

\* A closed set with the successors of the source holds all that is reached.
LEMMA ReachedLeast ==
  ASSUME GraphOK, NEW s \in Nodes, NEW S \in SUBSET Nodes,
         \A x \in S \cup {s} : graph[x] \subseteq S
  PROVE  Reached(s) \subseteq S
BY DEF GraphOK, Reached, ReachableFrom, Reaches, IsClosed

Entries(q) == {q[i] : i \in DOMAIN q}
Queued(q)  == {e[1] : e \in Entries(q)}

QueueOK(q) ==
  /\ q \in Seq(Nodes \X Nodes)
  /\ \A i, j \in DOMAIN q : q[i][1] = q[j][1] => i = j

\* Both a queue and a stack lose the entry they yield, and no other.
LEMMA PopQueue ==
  ASSUME NEW q, QueueOK(q), q # <<>>
  PROVE  /\ Head1(q) \in Entries(q) /\ Head1(q) \in Nodes \X Nodes
         /\ QueueOK(Rest1(q))
         /\ Entries(Rest1(q)) \subseteq Entries(q)
         /\ Queued(Rest1(q)) = Queued(q) \ {Head1(q)[1]}
<1> DEFINE r == Rest1(q)
           h == IF IsStack THEN Len(q) ELSE 1
           at(i) == IF IsStack THEN i ELSE i + 1
<1>1. q \in Seq(Nodes \X Nodes) /\ Len(q) \in Nat /\ Len(q) >= 1 /\ DOMAIN q = 1..Len(q)
  BY DEF QueueOK
<1>2. h \in DOMAIN q /\ Head1(q) = q[h]
  BY <1>1 DEF Head1
<1>3. r \in Seq(Nodes \X Nodes) /\ DOMAIN r = 1..(Len(q) - 1)
  <2>1. CASE IsStack
    BY <1>1, <2>1 DEF Rest1
  <2>2. CASE ~IsStack
    BY <1>1, <2>2 DEF Rest1
  <2> QED BY <2>1, <2>2
<1>4. \A i \in DOMAIN r : at(i) \in DOMAIN q /\ at(i) # h /\ r[i] = q[at(i)]
  <2>1. CASE IsStack
    BY <1>1, <1>3, <2>1 DEF Rest1
  <2>2. CASE ~IsStack
    BY <1>1, <1>3, <2>2 DEF Rest1
  <2> QED BY <2>1, <2>2
<1>5. \A j \in DOMAIN q : j # h => \E i \in DOMAIN r : at(i) = j
  <2>1. CASE IsStack
    BY <1>1, <1>3, <2>1
  <2>2. CASE ~IsStack
    <3> SUFFICES ASSUME NEW j \in DOMAIN q, j # h PROVE \E i \in DOMAIN r : at(i) = j
      OBVIOUS
    <3>1. j - 1 \in DOMAIN r /\ at(j - 1) = j
      BY <1>1, <1>3, <2>2
    <3> QED BY <3>1
  <2> QED BY <2>1, <2>2
<1>6. \A i, j \in DOMAIN r : at(i) = at(j) => i = j
  BY <1>3
<1> HIDE DEF h, at, r
<1>7. QueueOK(r)
  BY <1>3, <1>4, <1>6 DEF QueueOK
<1>8. Head1(q) \in Entries(q) /\ Head1(q) \in Nodes \X Nodes
  BY <1>1, <1>2 DEF Entries
<1>9. Entries(r) \subseteq Entries(q)
  BY <1>4 DEF Entries
<1>10. Queued(r) = Queued(q) \ {q[h][1]}
  <2>1. ASSUME NEW x \in Queued(r) PROVE x \in Queued(q) /\ x # q[h][1]
    <3>1. PICK i \in DOMAIN r : x = r[i][1]
      BY DEF Queued, Entries
    <3> QED BY <1>2, <1>4, <3>1 DEF QueueOK, Queued, Entries
  <2>2. ASSUME NEW x \in Queued(q), x # q[h][1] PROVE x \in Queued(r)
    <3>1. PICK j \in DOMAIN q : x = q[j][1]
      BY DEF Queued, Entries
    <3>2. PICK i \in DOMAIN r : at(i) = j
      BY <1>5, <2>2, <3>1
    <3> QED BY <1>4, <3>1, <3>2 DEF Queued, Entries
  <2> QED BY <2>1, <2>2
<1> QED BY <1>2, <1>7, <1>8, <1>9, <1>10 DEF r

LEMMA PushQueue ==
  ASSUME NEW q, QueueOK(q), NEW to \in Nodes, NEW c \in Nodes, to \notin Queued(q)
  PROVE  /\ QueueOK(Append(q, <<to, c>>))
         /\ Entries(Append(q, <<to, c>>)) = Entries(q) \cup {<<to, c>>}
         /\ Queued(Append(q, <<to, c>>)) = Queued(q) \cup {to}
<1> DEFINE r == Append(q, <<to, c>>)
           n == Len(q)
<1>1. q \in Seq(Nodes \X Nodes) /\ n \in Nat /\ DOMAIN q = 1..n
  BY DEF QueueOK
<1>2. /\ r \in Seq(Nodes \X Nodes) /\ DOMAIN r = 1..(n + 1)
      /\ r[n + 1] = <<to, c>> /\ \A i \in 1..n : r[i] = q[i]
  BY <1>1
<1>3. DOMAIN r = DOMAIN q \cup {n + 1}
  BY <1>1, <1>2
<1> HIDE DEF r, n
<1>4. Entries(r) = Entries(q) \cup {<<to, c>>}
  BY <1>1, <1>2, <1>3 DEF Entries
<1>5. Queued(r) = Queued(q) \cup {to}
  <2>1. \A x : x \in Queued(r) <=> \E e \in Entries(r) : x = e[1]
    BY DEF Queued
  <2>2. \A x : x \in Queued(q) <=> \E e \in Entries(q) : x = e[1]
    BY DEF Queued
  <2> DEFINE new == <<to, c>>
  <2>3. new[1] = to
    OBVIOUS
  <2>4. Entries(r) = Entries(q) \cup {new}
    BY <1>4
  <2> HIDE DEF new
  <2> QED BY <2>1, <2>2, <2>3, <2>4
<1>6. \A i \in DOMAIN q : q[i][1] # to
  BY DEF Queued, Entries
<1>7. QueueOK(r)
  BY <1>1, <1>2, <1>3, <1>6 DEF QueueOK
<1> QED BY <1>4, <1>5, <1>7 DEF r

\* The queue at the start of a traversal.
LEMMA StartQueue ==
  ASSUME NEW s \in Nodes
  PROVE  /\ QueueOK(<<<<s, s>>>>)
         /\ Entries(<<<<s, s>>>>) = {<<s, s>>}
         /\ Queued(<<<<s, s>>>>) = {s}
<1> DEFINE q == <<<<s, s>>>>
<1>1. q \in Seq(Nodes \X Nodes) /\ DOMAIN q = {1} /\ q[1] = <<s, s>>
  OBVIOUS
<1> HIDE DEF q
<1>2. QueueOK(q)
  BY <1>1 DEF QueueOK
<1>3. Entries(q) = {<<s, s>>}
  <2>1. \A x : x \in Entries(q) <=> \E i \in DOMAIN q : x = q[i]
    BY DEF Entries
  <2> QED BY <1>1, <2>1
<1>4. Queued(q) = {s}
  <2>1. \A x : x \in Queued(q) <=> \E e \in Entries(q) : x = e[1]
    BY DEF Queued
  <2> QED BY <1>3, <2>1
<1> QED BY <1>2, <1>3, <1>4 DEF q

-----------------------------------------------------------------------------
(***************************************************************************)
(* The traversal, whoever it runs for.                                     *)
(***************************************************************************)
Phases == {"begin", "pop", "expand", "stopped", "call", "done"}

TypeInv ==
  /\ GraphOK
  /\ exclusion \subseteq Nodes \X Nodes
  /\ client \in Clients
  /\ pc \in Phases
  /\ client = "has_cycle" => pc \in {"call", "done"}
  /\ client # "has_cycle" => pc # "call"
  /\ client # "has_cycle" => start \in 1..(N + 1)
  /\ client # "has_cycle" /\ pc # "done" => start \in Nodes
  /\ target \in Nodes \cup {None}
  /\ nodeVisits \in [Nodes -> {0, 1}]

Running == pc \in {"pop", "expand", "stopped"}

\* The source waits in the queue and nothing has happened yet.
Fresh == pc = "pop" /\ todo = <<<<source, source>>>> /\ seen = {}

\* What the traversal has done with.
Handled == seen \ Queued(todo)

\* The edges of the current node that are still to be called back with.
Left(x) == IF pc = "expand" /\ x = current THEN pending ELSE {}

QueueInv ==
  /\ source \in Nodes
  /\ QueueOK(todo)
  /\ Fresh \/ Queued(todo) \subseteq seen
  /\ Fresh \/ \A e \in Entries(todo) : e[1] \in graph[e[2]]

SeenInv ==
  /\ seen \subseteq Reached(source)
  /\ pc = "expand" => /\ current \in {source} \cup seen
                      /\ pending \subseteq graph[current]
  /\ pc # "stopped" =>
       \A x \in ({source} \cup seen) \ Queued(todo) : graph[x] \subseteq seen \cup Left(x)

VisitInv ==
  \A n \in Nodes :
    nodeVisits[n] = IF n \in Handled /\ n # source THEN 1 ELSE 0

TraversalInv == Running => QueueInv /\ SeenInv /\ VisitInv

Inv == TypeInv /\ TraversalInv

-----------------------------------------------------------------------------
LEMMA InitInv == Init => Inv
<1> SUFFICES ASSUME Init PROVE Inv
  OBVIOUS
<1>1. graph \in [Nodes -> SUBSET Nodes] /\ exclusion \subseteq Nodes \X Nodes
  BY GraphsAssumption, ExclusionsAssumption DEF Init
<1>2. 1 \in Nodes /\ 1 \in 1..(N + 1)
  BY NAssumption DEF Nodes
<1> QED BY <1>1, <1>2 DEF Init, Inv, TypeInv, GraphOK, TraversalInv, Running, Phases

\* The facts of the invariant that the start of a traversal establishes.
LEMMA BeginInv ==
  ASSUME GraphOK, NEW s \in Nodes, Begin(s), graph' = graph
  PROVE  TraversalInv' /\ nodeVisits' \in [Nodes -> {0, 1}] /\ pc' = "pop"
<1>1. /\ source' = s /\ todo' = <<<<s, s>>>> /\ seen' = {} /\ pc' = "pop"
      /\ nodeVisits' = [n \in Nodes |-> 0]
  BY DEF Begin
<1>2. QueueOK(todo') /\ Queued(todo') = {s}
  BY <1>1, StartQueue
<1>3. QueueInv'
  BY <1>1, <1>2 DEF QueueInv, Fresh
<1>4. SeenInv'
  BY <1>1, <1>2 DEF SeenInv
<1>5. VisitInv'
  BY <1>1 DEF VisitInv, Handled
<1> QED BY <1>1, <1>3, <1>4, <1>5 DEF TraversalInv

LEMMA PopInv ==
  ASSUME Inv, Pop
  PROVE  Inv'
<1> DEFINE node == Head1(todo)[1]
<1>1. /\ pc = "pop" /\ todo # <<>> /\ todo' = Rest1(todo) /\ current' = node
      /\ nodeVisits' = IF node = source THEN nodeVisits
                       ELSE [nodeVisits EXCEPT ![node] = @ + 1]
      /\ \/ pc' = "stopped"
         \/ pc' = "expand" /\ pending' = graph[node]
      /\ UNCHANGED <<graph, exclusion, client, start, target, source, seen>>
  BY DEF Pop, input
<1>2. /\ GraphOK /\ source \in Nodes /\ QueueOK(todo)
      /\ nodeVisits \in [Nodes -> {0, 1}]
      /\ Fresh \/ Queued(todo) \subseteq seen
      /\ Fresh \/ \A e \in Entries(todo) : e[1] \in graph[e[2]]
      /\ seen \subseteq Reached(source) /\ VisitInv
      /\ \A x \in ({source} \cup seen) \ Queued(todo) : graph[x] \subseteq seen
  BY <1>1 DEF Inv, TypeInv, TraversalInv, Running, QueueInv, SeenInv, Left
<1>3. /\ Head1(todo) \in Entries(todo) /\ Head1(todo) \in Nodes \X Nodes
      /\ QueueOK(todo') /\ Entries(todo') \subseteq Entries(todo)
      /\ Queued(todo') = Queued(todo) \ {node}
  BY <1>1, <1>2, PopQueue
<1>4. node \in Nodes /\ node \in Queued(todo)
  BY <1>3 DEF Queued
<1>5. Fresh => node = source /\ Entries(todo') = {}
  <2> SUFFICES ASSUME Fresh PROVE node = source /\ Entries(todo') = {}
    OBVIOUS
  <2>1. Queued(todo) = {source}
    BY <1>2, StartQueue DEF Fresh
  <2>2. Queued(todo') = {}
    BY <1>3, <1>4, <2>1
  <2> QED BY <1>4, <2>1, <2>2 DEF Queued
<1>6. node \in {source} \cup seen
  BY <1>2, <1>4, <1>5
<1> HIDE DEF node
<1>7. QueueInv'
  <2>1. Queued(todo') \subseteq seen
    BY <1>2, <1>3, <1>5 DEF Queued
  <2>2. \A e \in Entries(todo') : e[1] \in graph[e[2]]
    BY <1>2, <1>3, <1>5
  <2> QED BY <1>1, <1>2, <1>3, <2>1, <2>2 DEF QueueInv
<1>8. SeenInv'
  <2>1. Reached(source)' = Reached(source)
    BY <1>1 DEF Reached
  <2>2. ASSUME NEW x \in ({source} \cup seen) \ Queued(todo'), pc' = "expand"
        PROVE  graph[x] \subseteq seen \cup Left(x)'
    <3>1. CASE x = node
      <4>1. Left(x)' = graph[node]
        BY <1>1, <2>2, <3>1 DEF Left
      <4> QED BY <3>1, <4>1
    <3>2. CASE x # node
      BY <1>2, <1>3, <2>2, <3>2
    <3> QED BY <3>1, <3>2
  <2> QED BY <1>1, <1>2, <1>6, <2>1, <2>2 DEF SeenInv
<1>9. VisitInv' /\ nodeVisits' \in [Nodes -> {0, 1}]
  <2>1. nodeVisits[node] = 0
    BY <1>2, <1>4 DEF VisitInv, Handled
  <2>2. node # source => node \in seen
    BY <1>6
  <2>3. CASE node = source
    BY <1>1, <1>2, <1>3, <2>3 DEF VisitInv, Handled
  <2>4. CASE node # source
    <3>1. nodeVisits' = [nodeVisits EXCEPT ![node] = 1]
      BY <1>1, <1>2, <1>4, <2>1, <2>4
    <3>2. ASSUME NEW n \in Nodes
          PROVE  nodeVisits'[n] = IF n \in Handled' /\ n # source' THEN 1 ELSE 0
      <4>1. CASE n = node
        BY <1>1, <1>2, <1>3, <1>4, <2>2, <2>4, <3>1, <4>1 DEF Handled
      <4>2. CASE n # node
        <5>1. nodeVisits'[n] = nodeVisits[n]
          BY <1>2, <3>1, <4>2
        <5>2. n \in Handled' <=> n \in Handled
          BY <1>1, <1>3, <4>2 DEF Handled
        <5> QED BY <1>1, <1>2, <5>1, <5>2 DEF VisitInv
      <4> QED BY <4>1, <4>2
    <3> QED BY <1>2, <3>1, <3>2 DEF VisitInv
  <2> QED BY <2>3, <2>4
<1>10. TypeInv'
  BY <1>1, <1>9 DEF Inv, TypeInv, GraphOK, Phases
<1> QED BY <1>7, <1>8, <1>9, <1>10 DEF Inv, TraversalInv

LEMMA ExpandInv ==
  ASSUME Inv, Expand
  PROVE  Inv'
<1> DEFINE to == Least(pending)
<1>1. /\ pc = "expand" /\ pending # {}
      /\ \/ /\ pc' = "stopped" /\ UNCHANGED <<pending, seen, todo>>
         \/ /\ pending' = pending \ {to} /\ seen' = seen \cup {to} /\ pc' = pc
            /\ todo' = IF to \in seen THEN todo ELSE Append(todo, <<to, current>>)
      /\ UNCHANGED <<graph, exclusion, client, start, target, source, current, nodeVisits>>
  BY DEF Expand, input
<1>2. /\ GraphOK /\ source \in Nodes /\ QueueOK(todo)
      /\ nodeVisits \in [Nodes -> {0, 1}]
      /\ Queued(todo) \subseteq seen
      /\ \A e \in Entries(todo) : e[1] \in graph[e[2]]
      /\ seen \subseteq Reached(source) /\ VisitInv
      /\ current \in {source} \cup seen /\ pending \subseteq graph[current]
      /\ \A x \in ({source} \cup seen) \ Queued(todo) : graph[x] \subseteq seen \cup Left(x)
  BY <1>1 DEF Inv, TypeInv, TraversalInv, Running, QueueInv, SeenInv, Fresh
<1>3. TypeInv'
  BY <1>1 DEF Inv, TypeInv, GraphOK, Phases
<1>4. Reached(source)' = Reached(source)
  BY <1>1 DEF Reached
<1>5. seen \subseteq Nodes /\ current \in Nodes
  BY <1>2 DEF Reached, ReachableFrom, GraphOK
<1>6. CASE pc' = "stopped" /\ UNCHANGED <<pending, seen, todo>>
  <2>1. QueueInv'
    BY <1>1, <1>2, <1>6 DEF QueueInv
  <2>2. SeenInv'
    BY <1>1, <1>2, <1>4, <1>6 DEF SeenInv
  <2>3. VisitInv'
    BY <1>1, <1>2, <1>6 DEF VisitInv, Handled
  <2> QED BY <1>3, <2>1, <2>2, <2>3 DEF Inv, TraversalInv
<1>7. CASE /\ pending' = pending \ {to} /\ seen' = seen \cup {to} /\ pc' = pc
           /\ todo' = IF to \in seen THEN todo ELSE Append(todo, <<to, current>>)
  <2>1. to \in pending /\ to \in graph[current] /\ to \in Nodes
    <3>1. pending \in SUBSET Nodes
      BY <1>2, <1>5 DEF GraphOK
    <3>2. to \in pending
      BY <1>1, <3>1, LeastFacts
    <3> QED BY <1>2, <3>1, <3>2
  <2>2. to \in Reached(source)
    BY <1>2, <2>1, ReachedGrows
  <2> HIDE DEF to
  <2>3. /\ QueueOK(todo')
        /\ Queued(todo') = IF to \in seen THEN Queued(todo) ELSE Queued(todo) \cup {to}
        /\ Entries(todo') \subseteq Entries(todo) \cup {<<to, current>>}
    <3>1. CASE to \in seen
      BY <1>2, <1>7, <3>1
    <3>2. CASE to \notin seen
      <4>1. to \notin Queued(todo)
        BY <1>2, <3>2
      <4> QED BY <1>2, <1>5, <1>7, <2>1, <3>2, <4>1, PushQueue
    <3> QED BY <3>1, <3>2
  <2>4. QueueInv'
    <3>1. Queued(todo') \subseteq seen'
      BY <1>2, <1>7, <2>3
    <3>2. \A e \in Entries(todo') : e[1] \in graph'[e[2]]
      BY <1>1, <1>2, <2>1, <2>3
    <3> QED BY <1>1, <1>2, <2>3, <3>1, <3>2 DEF QueueInv
  <2>5. SeenInv'
    <3>1. seen' \subseteq Reached(source)'
      BY <1>2, <1>4, <1>7, <2>2
    <3>2. current' \in {source'} \cup seen' /\ pending' \subseteq graph'[current']
      BY <1>1, <1>2, <1>7
    <3>3. ASSUME NEW x \in ({source'} \cup seen') \ Queued(todo')
          PROVE  graph'[x] \subseteq seen' \cup Left(x)'
      <4>1. x \in ({source} \cup seen) \ Queued(todo)
        BY <1>1, <1>7, <2>3, <3>3
      <4>2. graph[x] \subseteq seen \cup Left(x)
        BY <1>2, <4>1
      <4>3. Left(x) \subseteq Left(x)' \cup {to}
        BY <1>1, <1>7 DEF Left
      <4> QED BY <1>1, <1>7, <4>2, <4>3
    <3> QED BY <3>1, <3>2, <3>3 DEF SeenInv
  <2>6. VisitInv'
    <3>1. Handled' = Handled
      BY <1>2, <1>7, <2>3 DEF Handled
    <3> QED BY <1>1, <1>2, <3>1 DEF VisitInv
  <2> QED BY <1>3, <2>4, <2>5, <2>6 DEF Inv, TraversalInv
<1> QED BY <1>1, <1>6, <1>7

LEMMA EndOfNodeInv ==
  ASSUME Inv, EndOfNode
  PROVE  Inv'
<1>1. /\ pc = "expand" /\ pending = {} /\ pc' = "pop"
      /\ UNCHANGED <<graph, exclusion, client, start, target, source, todo, seen, nodeVisits>>
  BY DEF EndOfNode, input
<1>2. QueueInv /\ SeenInv /\ VisitInv /\ Queued(todo) \subseteq seen
      /\ \A e \in Entries(todo) : e[1] \in graph[e[2]]
  BY <1>1 DEF Inv, TraversalInv, Running, QueueInv, Fresh
<1>3. TypeInv'
  BY <1>1 DEF Inv, TypeInv, GraphOK, Phases
<1>4. QueueInv'
  BY <1>1, <1>2 DEF QueueInv
<1>5. Reached(source)' = Reached(source) /\ \A x : Left(x) = {} /\ Left(x)' = {}
  BY <1>1 DEF Reached, Left
<1>6. SeenInv'
  BY <1>1, <1>2, <1>5 DEF SeenInv
<1>7. VisitInv'
  BY <1>1, <1>2 DEF VisitInv, Handled
<1> QED BY <1>3, <1>4, <1>6, <1>7 DEF Inv, TraversalInv

\* The loops over the start nodes, between two traversals.
LEMMA NextStartType ==
  ASSUME TypeInv, client # "has_cycle", pc # "done", NextStart,
         UNCHANGED <<graph, exclusion, client, nodeVisits>>,
         target' \in Nodes \cup {None}
  PROVE  TypeInv' /\ ~Running'
<1>1. start' = start + 1 /\ pc' = IF start = N THEN "done" ELSE "begin"
  BY DEF NextStart
<1>2. start \in Nodes /\ N \in Nat
  BY NAssumption DEF TypeInv
<1>3. start' \in 1..(N + 1) /\ (pc' # "done" => start' \in Nodes)
  BY <1>1, <1>2 DEF Nodes
<1> QED BY <1>1, <1>3 DEF TypeInv, GraphOK, Phases, Running

LEMMA OuterInv ==
  ASSUME Inv, BeginTraversal \/ CollectTransitive \/ CollectCycle \/ CheckTargets
  PROVE  Inv'
<1>0. TypeInv
  BY DEF Inv
<1>1. CASE BeginTraversal
  <2>1. /\ pc = "begin" /\ Begin(start)
        /\ UNCHANGED <<graph, exclusion, client, start, target>>
    BY <1>1 DEF BeginTraversal, input
  <2>2. GraphOK /\ start \in Nodes /\ client # "has_cycle"
    BY <1>0, <2>1 DEF TypeInv
  <2>3. TraversalInv' /\ nodeVisits' \in [Nodes -> {0, 1}] /\ pc' = "pop"
    BY <2>1, <2>2, BeginInv
  <2>4. TypeInv'
    BY <1>0, <2>1, <2>2, <2>3 DEF TypeInv, GraphOK, Phases
  <2> QED BY <2>3, <2>4 DEF Inv
<1>2. ASSUME CollectTransitive \/ CollectCycle PROVE Inv'
  <2>1. /\ client # "has_cycle" /\ pc # "done" /\ NextStart
        /\ UNCHANGED <<graph, exclusion, client, nodeVisits, target>>
    BY <1>2 DEF CollectTransitive, CollectCycle, Ended, input
  <2>2. target \in Nodes \cup {None}
    BY <1>0 DEF TypeInv
  <2>3. TypeInv' /\ ~Running'
    BY <1>0, <2>1, <2>2, NextStartType
  <2> QED BY <2>3 DEF Inv, TraversalInv
<1>3. CASE CheckTargets
  <2>1. client = "exclusion" /\ pc # "done" /\ UNCHANGED <<graph, exclusion, client>>
    BY <1>3 DEF CheckTargets, Ended, input
  <2>2. ASSUME NEW t, NextTarget(t) PROVE Inv'
    <3> DEFINE later == {m \in Nodes : m > t /\ NeedsSearch(m)}
    <3>1. CASE later = {}
      <4>1. NextStart /\ target' = None /\ UNCHANGED nodeVisits
        BY <2>2, <3>1 DEF NextTarget
      <4>2. TypeInv' /\ ~Running'
        BY <1>0, <2>1, <4>1, NextStartType
      <4> QED BY <4>2 DEF Inv, TraversalInv
    <3>2. CASE later # {}
      <4>1. target' = Least(later) /\ Begin(Least(later)) /\ UNCHANGED start
        BY <2>2, <3>2 DEF NextTarget
      <4>2. later \in SUBSET Nodes
        OBVIOUS
      <4>3. Least(later) \in Nodes
        <5> HIDE DEF later
        <5> QED BY <3>2, <4>2, LeastFacts
      <4>4. TraversalInv' /\ nodeVisits' \in [Nodes -> {0, 1}] /\ pc' = "pop"
        <5>1. GraphOK /\ graph' = graph
          BY <1>0, <2>1 DEF TypeInv
        <5> HIDE DEF later
        <5> QED BY <5>1, <4>1, <4>3, BeginInv
      <4> HIDE DEF later
      <4>5. TypeInv'
        BY <1>0, <2>1, <4>1, <4>3, <4>4 DEF TypeInv, GraphOK, Phases
      <4> QED BY <4>4, <4>5 DEF Inv
    <3> QED BY <3>1, <3>2
  <2>3. CASE pc' = "done" /\ UNCHANGED <<start, target, nodeVisits>>
    BY <1>0, <2>1, <2>3 DEF Inv, TypeInv, GraphOK, Phases, TraversalInv, Running
  <2>4. \/ NextTarget(0) \/ NextTarget(target)
        \/ pc' = "done" /\ UNCHANGED <<start, target, nodeVisits>>
    BY <1>3 DEF CheckTargets
  <2> QED BY <2>2, <2>3, <2>4
<1> QED BY <1>1, <1>2, <1>3

\* has_cycle does not traverse.
LEMMA RecursionInv ==
  ASSUME Inv, CallOuter \/ CallInner \/ Return \/ NoCycle
  PROVE  Inv'
<1>1. /\ pc = "call" /\ pc' \in {"call", "done"}
      /\ UNCHANGED <<graph, exclusion, client, target, nodeVisits>>
  <2>1. CASE CallOuter
    BY <2>1 DEF CallOuter, Enter, input
  <2>2. CASE CallInner
    BY <2>2 DEF CallInner, input
  <2>3. CASE Return
    BY <2>3 DEF Return, input
  <2>4. CASE NoCycle
    BY <2>4 DEF NoCycle, input
  <2> QED BY <2>1, <2>2, <2>3, <2>4
<1>2. client = "has_cycle"
  BY <1>1 DEF Inv, TypeInv
<1> QED BY <1>1, <1>2 DEF Inv, TypeInv, GraphOK, Phases, TraversalInv, Running

LEMMA StutterInv ==
  ASSUME Inv, UNCHANGED vars
  PROVE  Inv'
<1>1. UNCHANGED <<graph, exclusion, client, pc, start, target, source, todo, seen,
                  current, pending, nodeVisits>>
  BY DEF vars
<1>2. TypeInv'
  BY <1>1 DEF Inv, TypeInv, GraphOK
<1>3. TraversalInv'
  BY <1>1 DEF Inv, TraversalInv, Running, QueueInv, SeenInv, VisitInv, Fresh,
              Handled, Left, Reached
<1> QED BY <1>2, <1>3 DEF Inv

LEMMA StepInv == Inv /\ [Next]_vars => Inv'
<1> SUFFICES ASSUME Inv, [Next]_vars PROVE Inv'
  OBVIOUS
<1>1. CASE Next
  BY <1>1, PopInv, ExpandInv, EndOfNodeInv, OuterInv, RecursionInv DEF Next
<1>2. CASE UNCHANGED vars
  BY <1>2, StutterInv
<1> QED BY <1>1, <1>2

\* At any point of any traversal, what is in seen was reached from the source,
\* and what has left the queue has been called back with once, its edges leading
\* to seen (traversal.h:33).
THEOREM Invariant == Spec => []Inv
  BY InitInv, StepInv, PTL DEF Spec

\* A traversal that has run empty has called back with all that can be reached.
LEMMA EmptyQueue ==
  ASSUME Inv, pc = "pop", todo = <<>>
  PROVE  /\ seen = Reached(source) /\ Handled = seen /\ source \in Nodes
         /\ \A n \in Nodes : nodeVisits[n] = 1 <=> n \in Reached(source) \ {source}
<1>1. GraphOK /\ QueueInv /\ SeenInv /\ VisitInv
  BY DEF Inv, TypeInv, TraversalInv, Running
<1>2. Queued(todo) = {}
  BY DEF Queued, Entries
<1>3. seen \in SUBSET Nodes /\ seen \subseteq Reached(source) /\ source \in Nodes
  BY <1>1 DEF QueueInv, SeenInv, Reached, ReachableFrom, GraphOK
<1>4. \A x \in seen \cup {source} : graph[x] \subseteq seen
  BY <1>1, <1>2 DEF SeenInv, Left
<1>5. seen = Reached(source)
  BY <1>1, <1>3, <1>4, ReachedLeast
<1> QED BY <1>1, <1>2, <1>3, <1>5 DEF VisitInv, Handled

\* Every node that can be reached is called back with once, and no other
\* (traversal.h:49, the check of seen in the loop over the edges).
THEOREM CallsBackOnce == Spec => []VisitsReachable
<1>1. Inv => VisitsReachable
  <2> SUFFICES ASSUME Inv PROVE VisitsReachable
    OBVIOUS
  <2>1. \A n \in Nodes : nodeVisits[n] <= 1
    BY DEF Inv, TypeInv
  <2>2. ASSUME pc = "pop", todo = <<>>
        PROVE  {n \in Nodes : nodeVisits[n] = 1} = ReachableFrom(graph, source) \ {source}
    <3>1. \A n \in Nodes : nodeVisits[n] = 1 <=> n \in Reached(source) \ {source}
      BY <2>2, EmptyQueue
    <3>2. Reached(source) \subseteq Nodes
      BY DEF Inv, TypeInv, GraphOK, Reached, ReachableFrom
    <3> QED BY <3>1, <3>2 DEF Reached
  <2> QED BY <2>1, <2>2 DEF VisitsReachable
<1> QED BY <1>1, Invariant, PTL

-----------------------------------------------------------------------------
(***************************************************************************)
(* get_transitive_edges.  The depth of a node is at least 2 as soon as one *)
(* of its predecessors is done with that was itself reached over an edge.  *)
(***************************************************************************)
TransitiveBefore(s) ==
  {e \in Nodes \X Nodes : e[1] < s /\ e[2] \in TransitiveTargets(graph, e[1])}

DepthInv ==
  /\ depth \in [Nodes -> Nat]
  /\ \A n \in Nodes : depth[n] >= 1 <=> n \in seen
  /\ \A via \in Handled : \A m \in graph[via] \ Left(via) : depth[m] >= 2
  /\ \A m \in Nodes : depth[m] >= 2 => \E via \in Reached(source) : m \in graph[via]

TransitiveInv ==
  client = "transitive" =>
    /\ pc # "stopped"
    /\ edges = TransitiveBefore(start)
    /\ pc = "done" => start = N + 1
    /\ Running => source = start /\ DepthInv

\* The vector of depths after an edge.
Deeper(d, to, from) == [d EXCEPT ![to] = Larger(d[to], d[from] + 1)]

LEMMA DepthGrows ==
  ASSUME NEW d \in [Nodes -> Nat], NEW to \in Nodes, NEW from \in Nodes
  PROVE  /\ Deeper(d, to, from) \in [Nodes -> Nat]
         /\ \A n \in Nodes : /\ Deeper(d, to, from)[n] >= d[n]
                             /\ n # to => Deeper(d, to, from)[n] = d[n]
         /\ Deeper(d, to, from)[to] >= d[from] + 1
         /\ \/ Deeper(d, to, from)[to] = d[to]
            \/ Deeper(d, to, from)[to] = d[from] + 1
<1> DEFINE l == Larger(d[to], d[from] + 1)
<1>1. l \in Nat /\ l >= d[to] /\ l >= d[from] + 1 /\ (l = d[to] \/ l = d[from] + 1)
  BY DEF Larger
<1> HIDE DEF l
<1>2. Deeper(d, to, from) = [d EXCEPT ![to] = l]
  BY DEF l, Deeper
<1> QED BY <1>1, <1>2

LEMMA TransitivePop ==
  ASSUME Inv, Inv', TransitiveInv, client = "transitive", Pop
  PROVE  TransitiveInv'
<1> DEFINE node == Head1(todo)[1]
           from == Head1(todo)[2]
<1>1. /\ pc = "pop" /\ todo # <<>> /\ todo' = Rest1(todo) /\ current' = node
      /\ node = source => depth' = depth
      /\ node # source => depth' = NodeDepth(node, from)
      /\ pc' = "expand" /\ pending' = graph[node]
      /\ UNCHANGED <<graph, client, start, source, seen, edges>>
  BY DEF Pop, input, results, NodeStops
<1>2. /\ GraphOK /\ source \in Nodes /\ QueueOK(todo)
      /\ Fresh \/ Queued(todo) \subseteq seen
      /\ Fresh \/ \A e \in Entries(todo) : e[1] \in graph[e[2]]
      /\ seen \subseteq Reached(source)
  BY <1>1 DEF Inv, TypeInv, TraversalInv, Running, QueueInv, SeenInv
<1>3. source = start /\ DepthInv /\ edges = TransitiveBefore(start)
  BY <1>1 DEF TransitiveInv, Running
<1>4. /\ Head1(todo) \in Entries(todo) /\ node \in Nodes /\ from \in Nodes
      /\ node \in Queued(todo) /\ Queued(todo') = Queued(todo) \ {node}
  BY <1>1, <1>2, PopQueue DEF Queued
<1>5. node # source => ~Fresh
  BY <1>2, <1>4, StartQueue DEF Fresh
<1>6. node # source => node \in seen /\ node \in graph[from]
  BY <1>2, <1>4, <1>5
<1>7. Handled' \subseteq Handled \cup {node}
  BY <1>1, <1>4 DEF Handled
<1>8. Reached(source)' = Reached(source) /\ \A x : Left(x) = {}
  BY <1>1 DEF Reached, Left
<1>9. \A x : x = node => Left(x)' = graph[node]
  BY <1>1 DEF Left
<1> HIDE DEF node, from
<1>10. /\ depth' \in [Nodes -> Nat]
       /\ \A n \in Nodes : depth'[n] >= depth[n] /\ (n # node => depth'[n] = depth[n])
       /\ node # source => depth'[node] = depth[node] \/ depth'[node] = depth[from] + 1
       /\ node = source => depth' = depth
  <2>1. CASE node = source
    BY <1>1, <1>3, <2>1 DEF DepthInv
  <2>2. CASE node # source
    <3>1. depth' = Deeper(depth, node, from)
      BY <1>1, <2>2 DEF NodeDepth, Deeper
    <3>2. depth \in [Nodes -> Nat]
      BY <1>3 DEF DepthInv
    <3> QED BY <1>4, <2>2, <3>1, <3>2, DepthGrows
  <2> QED BY <2>1, <2>2
<1>11. \A n \in Nodes : depth'[n] >= 1 <=> n \in seen
  <2> SUFFICES ASSUME NEW n \in Nodes PROVE depth'[n] >= 1 <=> n \in seen
    OBVIOUS
  <2>1. (depth[n] >= 1 <=> n \in seen) /\ depth[n] \in Nat /\ depth'[n] \in Nat
    BY <1>3, <1>10 DEF DepthInv
  <2>2. CASE n = node /\ node # source
    BY <1>6, <1>10, <2>1, <2>2
  <2>3. CASE ~(n = node /\ node # source)
    BY <1>10, <2>1, <2>3
  <2> QED BY <2>2, <2>3
<1>12. ASSUME NEW via \in Handled', NEW m \in graph[via] \ Left(via)'
       PROVE  depth'[m] >= 2
  <2>1. via # node
    BY <1>9, <1>12
  <2>2. via \in Handled /\ m \in Nodes
    BY <1>1, <1>2, <1>7, <1>12, <2>1 DEF GraphOK, Handled, Reached, ReachableFrom
  <2>3. depth[m] >= 2 /\ depth[m] \in Nat /\ depth'[m] \in Nat
    BY <1>3, <1>8, <1>10, <1>12, <2>2 DEF DepthInv
  <2> QED BY <1>10, <2>2, <2>3
<1>13. ASSUME NEW m \in Nodes, depth'[m] >= 2
       PROVE  \E via \in Reached(source) : m \in graph[via]
  <2>1. CASE depth'[m] = depth[m]
    BY <1>3, <1>13, <2>1 DEF DepthInv
  <2>2. CASE depth'[m] # depth[m]
    <3>1. m = node /\ node # source /\ depth'[m] = depth[from] + 1
      BY <1>10, <2>2
    <3>2. depth[from] >= 1
      BY <1>3, <1>4, <1>13, <3>1 DEF DepthInv
    <3>3. from \in Reached(source)
      BY <1>2, <1>3, <1>4, <3>2 DEF DepthInv
    <3> QED BY <1>6, <3>1, <3>3
  <2> QED BY <2>1, <2>2
<1>14. DepthInv'
  BY <1>1, <1>8, <1>10, <1>11, <1>12, <1>13 DEF DepthInv
<1> QED BY <1>1, <1>3, <1>14 DEF TransitiveInv, TransitiveBefore

LEMMA TransitiveExpand ==
  ASSUME Inv, Inv', TransitiveInv, client = "transitive", Expand
  PROVE  TransitiveInv'
<1> DEFINE to == Least(pending)
<1>1. /\ pc = "expand" /\ pc' = "expand" /\ pending # {}
      /\ pending' = pending \ {to} /\ seen' = seen \cup {to}
      /\ todo' = IF to \in seen THEN todo ELSE Append(todo, <<to, current>>)
      /\ depth' = Deeper(depth, to, current)
      /\ UNCHANGED <<graph, client, start, source, current, edges>>
  BY DEF Expand, input, results, EdgeStops, EdgeDepth, Deeper
<1>2. /\ GraphOK /\ source \in Nodes /\ QueueOK(todo)
      /\ Queued(todo) \subseteq seen /\ seen \subseteq Reached(source)
      /\ current \in {source} \cup seen /\ pending \subseteq graph[current]
  BY <1>1 DEF Inv, TypeInv, TraversalInv, Running, QueueInv, SeenInv, Fresh
<1>3. source = start /\ DepthInv /\ edges = TransitiveBefore(start)
  BY <1>1 DEF TransitiveInv, Running
<1>4. seen \subseteq Nodes /\ current \in Nodes
  BY <1>2 DEF Reached, ReachableFrom, GraphOK
<1>5. to \in pending /\ to \in graph[current] /\ to \in Nodes
  <2>1. pending \in SUBSET Nodes
    BY <1>2, <1>4 DEF GraphOK
  <2>2. to \in pending
    BY <1>1, <2>1, LeastFacts
  <2> QED BY <1>2, <2>1, <2>2
<1> HIDE DEF to
<1>6. Handled' = Handled
  <2>1. CASE to \in seen
    BY <1>1, <2>1 DEF Handled
  <2>2. CASE to \notin seen
    <3>1. to \notin Queued(todo)
      BY <1>2, <2>2
    <3>2. Queued(todo') = Queued(todo) \cup {to}
      BY <1>1, <1>2, <1>4, <1>5, <2>2, <3>1, PushQueue
    <3> QED BY <1>1, <2>2, <3>2 DEF Handled
  <2> QED BY <2>1, <2>2
<1>7. depth \in [Nodes -> Nat]
  BY <1>3 DEF DepthInv
<1>8. /\ depth' \in [Nodes -> Nat]
      /\ \A n \in Nodes : depth'[n] >= depth[n] /\ (n # to => depth'[n] = depth[n])
      /\ depth'[to] >= depth[current] + 1
      /\ depth'[to] = depth[to] \/ depth'[to] = depth[current] + 1
  BY <1>1, <1>4, <1>5, <1>7, DepthGrows
<1>9. Reached(source)' = Reached(source)
  BY <1>1 DEF Reached
<1>10. \A n \in Nodes : depth'[n] >= 1 <=> n \in seen'
  <2> SUFFICES ASSUME NEW n \in Nodes PROVE depth'[n] >= 1 <=> n \in seen'
    OBVIOUS
  <2>1. (depth[n] >= 1 <=> n \in seen) /\ depth[n] \in Nat /\ depth'[n] \in Nat
    BY <1>3, <1>7, <1>8 DEF DepthInv
  <2>2. CASE n = to
    BY <1>1, <1>4, <1>7, <1>8, <2>1, <2>2
  <2>3. CASE n # to
    BY <1>1, <1>8, <2>1, <2>3
  <2> QED BY <2>2, <2>3
<1>11. ASSUME NEW via \in Handled', NEW m \in graph[via] \ Left(via)'
       PROVE  depth'[m] >= 2
  <2>1. via \in Handled /\ via \in seen /\ via \in Nodes /\ m \in Nodes
    BY <1>2, <1>4, <1>6, <1>11 DEF GraphOK, Handled
  <2>2. depth[m] \in Nat /\ depth'[m] \in Nat /\ depth[current] \in Nat
    BY <1>4, <1>7, <1>8, <2>1
  <2>3. CASE m \notin Left(via)
    <3>1. depth[m] >= 2
      BY <1>3, <1>11, <2>1, <2>3 DEF DepthInv
    <3> QED BY <1>8, <2>1, <2>2, <3>1
  <2>4. CASE m \in Left(via)
    <3>1. via = current /\ m = to
      BY <1>1, <1>11, <2>4 DEF Left
    <3>2. depth[current] >= 1
      BY <1>3, <2>1, <3>1 DEF DepthInv
    <3> QED BY <1>8, <2>2, <3>1, <3>2
  <2> QED BY <2>3, <2>4
<1>12. ASSUME NEW m \in Nodes, depth'[m] >= 2
       PROVE  \E via \in Reached(source) : m \in graph[via]
  <2>1. CASE depth'[m] = depth[m]
    BY <1>3, <1>12, <2>1 DEF DepthInv
  <2>2. CASE depth'[m] # depth[m]
    <3>1. m = to /\ depth'[m] = depth[current] + 1
      BY <1>8, <2>2
    <3>2. depth[current] >= 1
      BY <1>4, <1>7, <1>12, <3>1
    <3>3. current \in Reached(source)
      BY <1>2, <1>3, <1>4, <3>2 DEF DepthInv
    <3> QED BY <1>5, <3>1, <3>3
  <2> QED BY <2>1, <2>2
<1>13. DepthInv'
  BY <1>1, <1>8, <1>9, <1>10, <1>11, <1>12 DEF DepthInv
<1> QED BY <1>1, <1>3, <1>13 DEF TransitiveInv, TransitiveBefore

\* What the loop over the neighbours adds at the end of a traversal.
LEMMA TransitiveCollect ==
  ASSUME Inv, TransitiveInv, CollectTransitive
  PROVE  TransitiveInv'
<1>1. /\ client = "transitive" /\ Ended /\ NextStart
      /\ edges' = edges \cup {<<start, to>> : to \in {m \in graph[start] : depth[m] > 1}}
      /\ UNCHANGED <<graph, client>>
  BY DEF CollectTransitive, input
<1>2. pc = "pop" /\ todo = <<>> /\ source = start /\ DepthInv /\ edges = TransitiveBefore(start)
  BY <1>1 DEF TransitiveInv, Ended, Running
<1>3. seen = Reached(start) /\ Handled = seen /\ start \in Nodes /\ GraphOK
  BY <1>2, EmptyQueue DEF Inv, TypeInv
<1>4. \A x : Left(x) = {}
  BY <1>2 DEF Left
<1>5. graph[start] \subseteq Nodes /\ DOMAIN graph = Nodes
  BY <1>3 DEF GraphOK
<1>6. ASSUME NEW m \in graph[start]
      PROVE  depth[m] > 1 <=> m \in TransitiveTargets(graph, start)
  <2>1. depth[m] \in Nat /\ m \in Nodes
    BY <1>2, <1>5 DEF DepthInv
  <2>2. depth[m] >= 2 <=> \E via \in Reached(start) : m \in graph[via]
    BY <1>2, <1>3, <1>4, <2>1 DEF DepthInv
  <2> QED BY <2>1, <2>2 DEF TransitiveTargets, Reached
<1> DEFINE new == {m \in graph[start] : depth[m] > 1}
           targets(s) == TransitiveTargets(graph, s)
<1>7. new = targets(start) /\ new \subseteq Nodes
  BY <1>5, <1>6 DEF TransitiveTargets
<1>8. \A e \in edges' : e \in TransitiveBefore(start + 1)
  <2>0. \A s : s \in Nodes => s \in Nat
    BY NAssumption DEF Nodes
  <2> HIDE DEF new, targets
  <2>1. ASSUME NEW e \in edges PROVE e \in TransitiveBefore(start + 1)
    BY <1>2, <1>3, <2>0, <2>1 DEF TransitiveBefore
  <2>2. ASSUME NEW to \in new PROVE <<start, to>> \in TransitiveBefore(start + 1)
    BY <1>3, <1>7, <2>0, <2>2 DEF TransitiveBefore, targets
  <2>3. edges' = edges \cup {<<start, to>> : to \in new}
    BY <1>1 DEF new
  <2> QED BY <2>1, <2>2, <2>3
<1>9. \A e \in TransitiveBefore(start + 1) : e \in edges'
  <2>0. \A s : s \in Nodes => s \in Nat
    BY NAssumption DEF Nodes
  <2> HIDE DEF new, targets
  <2> SUFFICES ASSUME NEW e \in TransitiveBefore(start + 1) PROVE e \in edges'
    OBVIOUS
  <2>1. /\ e = <<e[1], e[2]>> /\ e[1] \in Nodes /\ e[2] \in Nodes
        /\ e[1] < start + 1 /\ e[2] \in targets(e[1])
    BY DEF TransitiveBefore, targets
  <2>2. edges' = edges \cup {<<start, to>> : to \in new}
    BY <1>1 DEF new
  <2>3. CASE e[1] = start
    BY <1>7, <2>1, <2>2, <2>3
  <2>4. CASE e[1] # start
    <3>1. e[1] < start
      BY <1>3, <2>0, <2>1, <2>4
    <3>2. e \in edges
      BY <1>2, <2>1, <3>1 DEF TransitiveBefore, targets
    <3> QED BY <2>2, <3>2
  <2> QED BY <2>3, <2>4
<1>10. edges' \subseteq Nodes \X Nodes /\ edges' = TransitiveBefore(start + 1)
  BY <1>8, <1>9 DEF TransitiveBefore
<1>11. start' = start + 1 /\ pc' \in {"begin", "done"} /\ (pc' = "done" => start = N)
  BY <1>1 DEF NextStart
<1> HIDE DEF new
<1> QED BY <1>1, <1>10, <1>11 DEF TransitiveInv, Running, TransitiveBefore

LEMMA TransitiveStep == Inv /\ Inv' /\ TransitiveInv /\ [Next]_vars => TransitiveInv'
<1> SUFFICES ASSUME Inv, Inv', TransitiveInv, [Next]_vars PROVE TransitiveInv'
  OBVIOUS
<1>0. client' = client
  BY DEF Next, vars, input, BeginTraversal, Pop, Expand, EndOfNode, CollectTransitive,
         CollectCycle, CheckTargets, CallOuter, CallInner, Return, NoCycle
<1> SUFFICES ASSUME client = "transitive" PROVE TransitiveInv'
  BY <1>0 DEF TransitiveInv
<1>1. CASE BeginTraversal
  <2>1. /\ pc = "begin" /\ Begin(start) /\ UNCHANGED <<graph, client, start, edges>>
    BY <1>1 DEF BeginTraversal, input, results
  <2>2. /\ source' = start /\ todo' = <<<<start, start>>>> /\ seen' = {} /\ pc' = "pop"
        /\ depth' = [n \in Nodes |-> 0]
    BY <2>1 DEF Begin, FreshDepth
  <2>3. DepthInv'
    BY <2>2 DEF DepthInv, Handled
  <2> QED BY <2>1, <2>2, <2>3 DEF TransitiveInv, TransitiveBefore
<1>2. CASE EndOfNode
  <2>1. /\ pc = "expand" /\ pending = {} /\ pc' = "pop"
        /\ UNCHANGED <<graph, client, start, source, todo, seen, depth, edges>>
    BY <1>2 DEF EndOfNode, input, results
  <2>2. \A x : Left(x) = {} /\ Left(x)' = {}
    BY <2>1 DEF Left
  <2>3. source = start /\ DepthInv /\ edges = TransitiveBefore(start)
    BY <2>1 DEF TransitiveInv, Running
  <2>4. DepthInv'
    BY <2>1, <2>2, <2>3 DEF DepthInv, Handled, Reached
  <2> QED BY <2>1, <2>3, <2>4 DEF TransitiveInv, TransitiveBefore
<1>3. CASE UNCHANGED vars
  <2>1. UNCHANGED <<graph, client, pc, start, source, todo, seen, current, pending,
                    depth, edges>>
    BY <1>3 DEF vars
  <2> QED BY <2>1 DEF TransitiveInv, TransitiveBefore, Running, DepthInv, Handled,
                      Left, Reached
<1>4. ~(CollectCycle \/ CheckTargets)
  BY DEF CollectCycle, CheckTargets
<1>5. ~(CallOuter \/ CallInner \/ Return \/ NoCycle)
  BY DEF Inv, TypeInv, CallOuter, CallInner, Return, NoCycle
<1> QED BY <1>1, <1>2, <1>3, <1>4, <1>5, TransitivePop, TransitiveExpand,
           TransitiveCollect DEF Next

\* get_transitive_edges finds the transitive edges and no other, although the
\* order of the neighbours decides which path to a node comes first
\* (remove_transitive_edges.cc:35).
THEOREM TransitiveEdgesFound == Spec => []FindsTransitiveEdges
<1>1. Init => TransitiveInv
  <2> SUFFICES ASSUME Init PROVE TransitiveInv
    OBVIOUS
  <2>1. TransitiveBefore(1) = {}
    BY NAssumption DEF TransitiveBefore, Nodes
  <2> QED BY <2>1 DEF Init, TransitiveInv, Running
<1>2. Inv /\ TransitiveInv => FindsTransitiveEdges
  <2> SUFFICES ASSUME Inv, TransitiveInv, client = "transitive", pc = "done"
               PROVE  edges = {e \in Nodes \X Nodes : e[2] \in TransitiveTargets(graph, e[1])}
    BY DEF FindsTransitiveEdges
  <2>1. edges = TransitiveBefore(N + 1)
    BY DEF TransitiveInv
  <2>2. \A e \in Nodes \X Nodes : e[1] < N + 1
    BY NAssumption DEF Nodes
  <2> QED BY <2>1, <2>2 DEF TransitiveBefore
<1> QED BY <1>1, <1>2, TransitiveStep, Invariant, PTL DEF Spec

-----------------------------------------------------------------------------
(***************************************************************************)
(* has_exclusion_paths.  The pairs of the nodes before start, and those of *)
(* start with the targets before the current one, have a path.             *)
(***************************************************************************)
Settled(s, t) ==
  s # t /\ <<s, t>> \in exclusion => Reaches(graph, s, t) \/ Reaches(graph, t, s)

Unsettled == \E s, t \in Nodes : ~Settled(s, t)

SettledBefore(s) == \A m, t \in Nodes : m < s => Settled(m, t)

\* get_reachable_nodes has marked what the traversal has called back with.
MarkInv ==
  /\ source = start
  /\ pc # "stopped"
  /\ reachable = {start} \cup Handled

\* path_exists, from target, has met start only if it stopped.
SearchInv ==
  /\ source = target
  /\ NeedsSearch(target)
  /\ reachable = {start} \cup Reached(start)
  /\ IF pc = "stopped" THEN start \in Reached(target) ELSE nodeVisits[start] = 0
  /\ \A t \in Nodes : t < target => Settled(start, t)

ExclusionInv ==
  client = "exclusion" =>
    /\ pc = "begin" => target = None
    /\ found => SettledBefore(start)
    /\ found /\ pc = "done" => start = N + 1
    /\ ~found => pc = "done" /\ Unsettled
    /\ Running => IF target = None THEN MarkInv ELSE SearchInv

LEMMA ExclusionBegin ==
  ASSUME Inv, ExclusionInv, client = "exclusion", BeginTraversal
  PROVE  ExclusionInv'
<1>1. /\ pc = "begin" /\ Begin(start) /\ reachable' = {start}
      /\ UNCHANGED <<graph, exclusion, client, start, target, found>>
  BY DEF BeginTraversal, input, results
<1>2. source' = start /\ seen' = {} /\ pc' = "pop"
  BY <1>1 DEF Begin
<1>3. target' = None /\ found /\ SettledBefore(start)
  BY <1>1 DEF ExclusionInv
<1>4. MarkInv'
  BY <1>1, <1>2 DEF MarkInv, Handled
<1>5. SettledBefore(start)'
  BY <1>1, <1>3 DEF SettledBefore, Settled
<1> QED BY <1>1, <1>2, <1>3, <1>4, <1>5 DEF ExclusionInv

LEMMA ExclusionPop ==
  ASSUME Inv, Inv', ExclusionInv, client = "exclusion", Pop
  PROVE  ExclusionInv'
<1> DEFINE node == Head1(todo)[1]
<1>1. /\ pc = "pop" /\ todo # <<>> /\ todo' = Rest1(todo)
      /\ IF node = source
         THEN reachable' = reachable /\ nodeVisits' = nodeVisits
         ELSE /\ reachable' = IF target = None THEN reachable \cup {node} ELSE reachable
              /\ nodeVisits' = [nodeVisits EXCEPT ![node] = @ + 1]
      /\ pc' = IF node # source /\ target # None /\ node = start THEN "stopped" ELSE "expand"
      /\ UNCHANGED <<graph, exclusion, client, start, target, source, seen, found>>
  BY DEF Pop, input, results, NodeStops
<1>2. /\ GraphOK /\ source \in Nodes /\ QueueOK(todo) /\ start \in Nodes
      /\ nodeVisits \in [Nodes -> {0, 1}]
      /\ Fresh \/ Queued(todo) \subseteq seen
      /\ seen \subseteq Reached(source)
  BY <1>1 DEF Inv, TypeInv, TraversalInv, Running, QueueInv, SeenInv
<1>3. found /\ SettledBefore(start) /\ IF target = None THEN MarkInv ELSE SearchInv
  BY <1>1 DEF ExclusionInv, Running
<1>4. node \in Nodes /\ node \in Queued(todo) /\ Queued(todo') = Queued(todo) \ {node}
  BY <1>1, <1>2, PopQueue DEF Queued
<1>5. Fresh => node = source /\ Queued(todo) = {source} /\ seen = {}
  BY <1>2, <1>4, StartQueue DEF Fresh
<1>6. node # source => node \in seen
  BY <1>2, <1>4, <1>5
<1> HIDE DEF node
<1>7. /\ SettledBefore(start)' /\ Reached(start)' = Reached(start)
      /\ Reached(target)' = Reached(target)
  BY <1>1, <1>3 DEF SettledBefore, Settled, Reached
<1>8. CASE target = None
  <2>1. source = start /\ reachable = {start} \cup Handled
    BY <1>3, <1>8 DEF MarkInv
  <2>2. {start} \cup Handled' = {start} \cup Handled \cup {node}
    BY <1>1, <1>4, <1>5, <1>6, <2>1 DEF Handled
  <2>3. reachable' = reachable \cup {node}
    BY <1>1, <1>8, <2>1
  <2>4. MarkInv'
    BY <1>1, <1>8, <2>1, <2>2, <2>3 DEF MarkInv
  <2> QED BY <1>1, <1>3, <1>7, <1>8, <2>4 DEF ExclusionInv
<1>9. CASE target # None
  <2>1. /\ source = target /\ NeedsSearch(target) /\ reachable = {start} \cup Reached(start)
        /\ nodeVisits[start] = 0
        /\ \A t \in Nodes : t < target => Settled(start, t)
    BY <1>1, <1>3, <1>9 DEF SearchInv
  <2>2. reachable' = reachable /\ NeedsSearch(target)'
    BY <1>1, <1>9, <2>1 DEF NeedsSearch
  <2>3. pc' = "stopped" => start \in Reached(target)
    BY <1>1, <1>2, <1>6, <2>1
  <2>4. pc' # "stopped" => nodeVisits'[start] = 0
    <3>1. CASE node = source
      BY <1>1, <2>1, <3>1
    <3>2. CASE node # source /\ node # start
      BY <1>1, <1>2, <2>1, <3>2
    <3> QED BY <1>1, <1>9, <3>1, <3>2
  <2>5. \A t \in Nodes : t < target' => Settled(start, t)'
    BY <1>1, <2>1 DEF Settled
  <2>6. SearchInv'
    BY <1>1, <1>7, <2>1, <2>2, <2>3, <2>4, <2>5 DEF SearchInv
  <2> QED BY <1>1, <1>3, <1>7, <1>9, <2>6 DEF ExclusionInv
<1> QED BY <1>8, <1>9

LEMMA ExclusionExpand ==
  ASSUME Inv, Inv', ExclusionInv, client = "exclusion", Expand \/ EndOfNode
  PROVE  ExclusionInv'
<1>1. /\ pc = "expand" /\ pc' \in {"pop", "expand"}
      /\ UNCHANGED <<graph, exclusion, client, start, target, source, reachable,
                     found, nodeVisits>>
  BY DEF Expand, EndOfNode, input, results, EdgeStops
<1>2. Handled' = Handled
  <2>1. CASE EndOfNode
    BY <2>1 DEF EndOfNode, Handled
  <2>2. CASE Expand
    <3> DEFINE to == Least(pending)
    <3>1. /\ pending # {} /\ seen' = seen \cup {to}
          /\ todo' = IF to \in seen THEN todo ELSE Append(todo, <<to, current>>)
      BY <2>2 DEF Expand, EdgeStops
    <3>2. /\ GraphOK /\ QueueOK(todo) /\ Queued(todo) \subseteq seen
          /\ seen \subseteq Reached(source) /\ source \in Nodes
          /\ current \in {source} \cup seen /\ pending \subseteq graph[current]
      BY <1>1 DEF Inv, TypeInv, TraversalInv, Running, QueueInv, SeenInv, Fresh
    <3>3. current \in Nodes
      BY <3>2 DEF Reached, ReachableFrom, GraphOK
    <3>4. pending \in SUBSET Nodes
      BY <3>2, <3>3 DEF GraphOK
    <3>5. to \in Nodes
      BY <3>1, <3>4, LeastFacts
    <3> HIDE DEF to
    <3>6. CASE to \in seen
      BY <3>1, <3>6 DEF Handled
    <3>7. CASE to \notin seen
      <4>1. to \notin Queued(todo)
        BY <3>2, <3>7
      <4>2. Queued(todo') = Queued(todo) \cup {to}
        BY <3>1, <3>2, <3>3, <3>5, <3>7, <4>1, PushQueue
      <4> QED BY <3>1, <3>7, <4>2 DEF Handled
    <3> QED BY <3>6, <3>7
  <2> QED BY <2>1, <2>2
<1>3. found /\ SettledBefore(start) /\ IF target = None THEN MarkInv ELSE SearchInv
  BY <1>1 DEF ExclusionInv, Running
<1>4. SettledBefore(start)' /\ \A s, t : Settled(s, t) => Settled(s, t)'
  BY <1>1, <1>3 DEF SettledBefore, Settled
<1>5. Reached(start)' = Reached(start) /\ Reached(target)' = Reached(target)
  BY <1>1 DEF Reached
<1>6. target = None => MarkInv'
  BY <1>1, <1>2, <1>3 DEF MarkInv
<1>7. target # None => SearchInv'
  BY <1>1, <1>3, <1>4, <1>5 DEF SearchInv, NeedsSearch
<1> QED BY <1>1, <1>3, <1>4, <1>6, <1>7 DEF ExclusionInv

\* The next target, when all up to t are settled.
LEMMA ExclusionNext ==
  ASSUME Inv, ExclusionInv, client = "exclusion", Running, NEW t \in Nat, NextTarget(t),
         reachable = {start} \cup Reached(start),
         \A m \in Nodes : m <= t => Settled(start, m),
         UNCHANGED <<graph, exclusion, client, found, reachable>>
  PROVE  ExclusionInv'
<1> DEFINE later == {m \in Nodes : m > t /\ NeedsSearch(m)}
<1>1. GraphOK /\ start \in Nodes /\ found /\ SettledBefore(start)
  BY DEF Inv, TypeInv, ExclusionInv, Running
<1>2. \A s, m : Settled(s, m)' <=> Settled(s, m)
  BY DEF Settled
<1>3. \A m \in Nodes : ~NeedsSearch(m) => Settled(start, m)
  BY <1>1 DEF NeedsSearch, Settled, Reached, ReachableFrom
<1>4. \A m \in Nodes : m \in Nat
  BY NAssumption DEF Nodes
<1>5. CASE later = {}
  <2>1. start' = start + 1 /\ pc' = (IF start = N THEN "done" ELSE "begin") /\ target' = None
    BY <1>5 DEF NextTarget, NextStart
  <2>2. \A m \in Nodes : Settled(start, m)
    <3> SUFFICES ASSUME NEW m \in Nodes PROVE Settled(start, m)
      OBVIOUS
    <3>1. CASE m <= t
      BY <3>1
    <3>2. CASE m > t
      BY <1>3, <1>5, <3>2
    <3> QED BY <1>4, <3>1, <3>2
  <2>3. SettledBefore(start')
    <3> SUFFICES ASSUME NEW m \in Nodes, NEW n \in Nodes, m < start + 1
                 PROVE  Settled(m, n)
      BY <2>1 DEF SettledBefore
    <3>1. m < start \/ m = start
      BY <1>1, <1>4
    <3> QED BY <1>1, <2>2, <3>1 DEF SettledBefore
  <2>4. SettledBefore(start)'
    BY <1>2, <2>3 DEF SettledBefore
  <2> QED BY <1>1, <2>1, <2>4 DEF ExclusionInv, Running
<1>6. CASE later # {}
  <2> DEFINE l == Least(later)
  <2>1. target' = l /\ Begin(l) /\ start' = start
    BY <1>6 DEF NextTarget
  <2>2. later \in SUBSET Nodes
    OBVIOUS
  <2>3. l \in later /\ \A m \in later : l <= m
    <3> HIDE DEF later
    <3> QED BY <1>6, <2>2, LeastFacts
  <2>4. l \in Nodes /\ NeedsSearch(l) /\ \A m \in Nodes : m < l /\ m > t => ~NeedsSearch(m)
    BY <1>4, <2>3
  <2> HIDE DEF later, l
  <2>5. source' = l /\ pc' = "pop" /\ nodeVisits' = [n \in Nodes |-> 0]
    BY <2>1 DEF Begin
  <2>6. \A m \in Nodes : m < l => Settled(start, m)
    BY <1>3, <1>4, <2>4
  <2>7. SettledBefore(start)' /\ Reached(start)' = Reached(start)
    BY <1>1, <1>2, <2>1 DEF SettledBefore, Reached
  <2>8. NeedsSearch(target)'
    BY <2>1, <2>4 DEF NeedsSearch
  <2>9. \A m \in Nodes : m < target' => Settled(start, m)'
    BY <1>2, <2>1, <2>6
  <2>10. SearchInv'
    BY <1>1, <2>1, <2>5, <2>7, <2>8, <2>9 DEF SearchInv
  <2>11. target' # None
    BY <2>1, <2>4, NAssumption DEF None, Nodes
  <2> QED BY <1>1, <2>5, <2>7, <2>10, <2>11 DEF ExclusionInv, Running
<1> QED BY <1>5, <1>6

LEMMA ExclusionCheck ==
  ASSUME Inv, ExclusionInv, CheckTargets
  PROVE  ExclusionInv'
<1>1. /\ client = "exclusion" /\ Ended /\ Running /\ pc # "done"
      /\ UNCHANGED <<graph, exclusion, client, reachable>>
  BY DEF CheckTargets, Ended, input, Running
<1>2. GraphOK /\ start \in Nodes /\ target \in Nodes \cup {None}
  BY <1>1 DEF Inv, TypeInv
<1>3. found /\ SettledBefore(start) /\ IF target = None THEN MarkInv ELSE SearchInv
  BY <1>1 DEF ExclusionInv
<1>4. CASE target = None
  <2>1. NextTarget(0) /\ UNCHANGED found
    BY <1>4 DEF CheckTargets
  <2>2. source = start /\ pc = "pop" /\ todo = <<>> /\ reachable = {start} \cup Handled
    BY <1>1, <1>3, <1>4 DEF MarkInv, Ended
  <2>3. reachable = {start} \cup Reached(start)
    BY <2>2, EmptyQueue
  <2>4. \A m \in Nodes : ~(m <= 0)
    BY NAssumption DEF Nodes
  <2> QED BY <1>1, <2>1, <2>3, <2>4, ExclusionNext
<1>5. CASE target # None /\ pc = "stopped"
  <2>1. NextTarget(target) /\ UNCHANGED found
    BY <1>5 DEF CheckTargets
  <2>2. /\ reachable = {start} \cup Reached(start) /\ start \in Reached(target)
        /\ \A t \in Nodes : t < target => Settled(start, t)
    BY <1>3, <1>5 DEF SearchInv
  <2>3. Settled(start, target)
    BY <2>2 DEF Settled, Reached, ReachableFrom
  <2>4. target \in Nat /\ \A m \in Nodes : m <= target => m < target \/ m = target
    BY <1>2, <1>5, NAssumption DEF Nodes
  <2>5. \A m \in Nodes : m <= target => Settled(start, m)
    BY <2>2, <2>3, <2>4
  <2> QED BY <1>1, <2>1, <2>2, <2>4, <2>5, ExclusionNext
<1>6. CASE target # None /\ pc # "stopped"
  <2>1. found' = FALSE /\ pc' = "done" /\ UNCHANGED <<start, target, nodeVisits>>
    BY <1>6 DEF CheckTargets
  <2>2. pc = "pop" /\ todo = <<>>
    BY <1>1, <1>6 DEF Ended
  <2>3. /\ source = target /\ NeedsSearch(target) /\ reachable = {start} \cup Reached(start)
        /\ nodeVisits[start] = 0
    BY <1>3, <1>6 DEF SearchInv
  <2>4. start \notin Reached(target) \ {target}
    BY <1>2, <2>2, <2>3, EmptyQueue
  <2>5. /\ start # target /\ <<start, target>> \in exclusion
        /\ start \notin Reached(target) /\ target \notin Reached(start)
    BY <2>3, <2>4 DEF NeedsSearch
  <2>6. DOMAIN graph = Nodes /\ target \in Nodes
    BY <1>2, <1>6 DEF GraphOK
  <2>7. ~Settled(start, target)
    BY <1>2, <2>5, <2>6 DEF Settled, Reached, ReachableFrom
  <2>8. Unsettled'
    BY <1>1, <1>2, <2>6, <2>7 DEF Unsettled, Settled
  <2> QED BY <1>1, <2>1, <2>8 DEF ExclusionInv, Running
<1> QED BY <1>4, <1>5, <1>6

LEMMA ExclusionStep == Inv /\ Inv' /\ ExclusionInv /\ [Next]_vars => ExclusionInv'
<1> SUFFICES ASSUME Inv, Inv', ExclusionInv, [Next]_vars PROVE ExclusionInv'
  OBVIOUS
<1>0. client' = client
  BY DEF Next, vars, input, BeginTraversal, Pop, Expand, EndOfNode, CollectTransitive,
         CollectCycle, CheckTargets, CallOuter, CallInner, Return, NoCycle
<1> SUFFICES ASSUME client = "exclusion" PROVE ExclusionInv'
  BY <1>0 DEF ExclusionInv
<1>1. CASE UNCHANGED vars
  <2>1. UNCHANGED <<graph, exclusion, client, pc, start, target, source, todo, seen,
                    reachable, found, nodeVisits>>
    BY <1>1 DEF vars
  <2> QED BY <2>1 DEF ExclusionInv, SettledBefore, Settled, Unsettled, Running, MarkInv,
                      SearchInv, NeedsSearch, Handled, Reached
<1>2. ~(CollectTransitive \/ CollectCycle)
  BY DEF CollectTransitive, CollectCycle
<1>3. ~(CallOuter \/ CallInner \/ Return \/ NoCycle)
  BY DEF Inv, TypeInv, CallOuter, CallInner, Return, NoCycle
<1> QED BY <1>1, <1>2, <1>3, ExclusionBegin, ExclusionPop, ExclusionExpand,
           ExclusionCheck DEF Next

\* has_exclusion_paths returns true exactly if of two excluding usages one is
\* always reachable from the other: get_reachable_nodes and the searches back that
\* end early decide it together (check_exclusion_paths.cc:84).
THEOREM ExclusionPathsDecided == Spec => []DecidesExclusionPaths
<1>1. Init => ExclusionInv
  <2> SUFFICES ASSUME Init PROVE ExclusionInv
    OBVIOUS
  <2>1. SettledBefore(1)
    BY NAssumption DEF SettledBefore, Nodes
  <2> QED BY <2>1 DEF Init, ExclusionInv, Running
<1>2. Inv /\ ExclusionInv => DecidesExclusionPaths
  <2> SUFFICES ASSUME Inv, ExclusionInv, client = "exclusion", pc = "done"
               PROVE  found <=> \A p \in exclusion : p[1] # p[2] =>
                        Reaches(graph, p[1], p[2]) \/ Reaches(graph, p[2], p[1])
    BY DEF DecidesExclusionPaths
  <2>1. exclusion \subseteq Nodes \X Nodes
    BY DEF Inv, TypeInv
  <2>2. \A m \in Nodes : m < N + 1
    BY NAssumption DEF Nodes
  <2>3. (\A s, t \in Nodes : Settled(s, t)) <=>
          \A p \in exclusion : p[1] # p[2] =>
            Reaches(graph, p[1], p[2]) \/ Reaches(graph, p[2], p[1])
    <3>1. ASSUME \A s, t \in Nodes : Settled(s, t), NEW p \in exclusion, p[1] # p[2]
          PROVE  Reaches(graph, p[1], p[2]) \/ Reaches(graph, p[2], p[1])
      <4>1. p = <<p[1], p[2]>> /\ p[1] \in Nodes /\ p[2] \in Nodes
        BY <2>1
      <4> QED BY <3>1, <4>1 DEF Settled
    <3>2. ASSUME \A p \in exclusion : p[1] # p[2] =>
                   Reaches(graph, p[1], p[2]) \/ Reaches(graph, p[2], p[1]),
                 NEW s \in Nodes, NEW t \in Nodes
          PROVE  Settled(s, t)
      BY <3>2 DEF Settled
    <3> QED BY <3>1, <3>2
  <2>4. CASE found
    BY <2>2, <2>3, <2>4 DEF ExclusionInv, SettledBefore
  <2>5. CASE ~found
    BY <2>3, <2>5 DEF ExclusionInv, Unsettled
  <2> QED BY <2>4, <2>5
<1> QED BY <1>1, <1>2, ExclusionStep, Invariant, PTL DEF Spec

-----------------------------------------------------------------------------
(***************************************************************************)
(* has_cycle.  The frames on the stack are a path; a neighbour that is not *)
(* left for the frame's loop is finished or is the next frame's node.      *)
(***************************************************************************)
Frames == [node : Nodes, left : SUBSET Nodes]

OnStack(s) == {s[i].node : i \in DOMAIN s}

FrameOK(s, fin, i) ==
  /\ s[i].node \notin fin
  /\ s[i].left \subseteq graph[s[i].node]
  /\ \A m \in graph[s[i].node] \ s[i].left :
       m \in fin \/ (i + 1 \in DOMAIN s /\ m = s[i + 1].node)
  /\ i + 1 \in DOMAIN s => s[i + 1].node \in graph[s[i].node]

StackOK(s, fin) ==
  /\ s \in Seq(Frames)
  /\ \A i, j \in DOMAIN s : s[i].node = s[j].node => i = j
  /\ \A i \in DOMAIN s : FrameOK(s, fin, i)

FinishedOK(fin) ==
  /\ fin \in SUBSET Nodes
  /\ IsClosed(graph, fin)
  /\ \A S \in SUBSET fin : S # {} => \E m \in S : \A n \in S : m \notin graph[n]

\* The nodes the outer loop is past, and where the recursion began.
LoopOK ==
  /\ start \in 1..(N + 1)
  /\ 1..(start - 1) \subseteq finished
  /\ stack # <<>> => start \in Nodes /\ stack[1].node = start

CycleInv ==
  client = "has_cycle" =>
    /\ visited = finished \cup OnStack(stack)
    /\ FinishedOK(finished)
    /\ StackOK(stack, finished)
    /\ LoopOK
    /\ found => pc = "done" /\ ~IsAcyclic(graph)
    /\ ~found /\ pc = "done" => stack = <<>> /\ start = N + 1

\* The top frame's loop is past the neighbour n.
Past(s, n) == [s EXCEPT ![Len(s)].left = @ \ {n}]

LEMMA PastFacts ==
  ASSUME NEW s \in Seq(Frames), s # <<>>, NEW n
  PROVE  /\ Past(s, n) \in Seq(Frames)
         /\ Len(s) \in Nat \ {0} /\ DOMAIN s = 1..Len(s)
         /\ DOMAIN Past(s, n) = DOMAIN s /\ Len(Past(s, n)) = Len(s)
         /\ \A i \in DOMAIN s : /\ Past(s, n)[i].node = s[i].node
                                /\ i # Len(s) => Past(s, n)[i] = s[i]
         /\ Past(s, n)[Len(s)].left = s[Len(s)].left \ {n}
<1> DEFINE k == Len(s)
           f == [s[k] EXCEPT !.left = s[k].left \ {n}]
<1>1. k \in Nat \ {0} /\ DOMAIN s = 1..k /\ k \in DOMAIN s /\ s[k] \in Frames
  OBVIOUS
<1>2. f \in Frames /\ f.node = s[k].node /\ f.left = s[k].left \ {n}
  BY <1>1 DEF Frames
<1>3. Past(s, n) = [s EXCEPT ![k] = f]
  BY <1>1 DEF Past
<1> HIDE DEF f
<1>4. Past(s, n) \in Seq(Frames) /\ Len(Past(s, n)) = k /\ DOMAIN Past(s, n) = DOMAIN s
  BY <1>1, <1>2, <1>3
<1>5. Past(s, n)[k] = f /\ \A i \in DOMAIN s : i # k => Past(s, n)[i] = s[i]
  BY <1>1, <1>3
<1> QED BY <1>1, <1>2, <1>4, <1>5

LEMMA SkipFrame ==
  ASSUME NEW s, NEW fin, StackOK(s, fin), s # <<>>, NEW n \in fin
  PROVE  StackOK(Past(s, n), fin) /\ OnStack(Past(s, n)) = OnStack(s)
<1> DEFINE r == Past(s, n)
           k == Len(s)
<1>1. /\ r \in Seq(Frames) /\ k \in Nat \ {0} /\ DOMAIN s = 1..k /\ DOMAIN r = DOMAIN s
      /\ \A i \in DOMAIN s : r[i].node = s[i].node /\ (i # k => r[i] = s[i])
      /\ r[k].left = s[k].left \ {n}
  BY PastFacts DEF StackOK
<1> HIDE DEF r, k
<1>2. ASSUME NEW i \in DOMAIN r PROVE FrameOK(r, fin, i)
  <2>1. FrameOK(s, fin, i)
    BY <1>1 DEF StackOK
  <2>2. CASE i = k
    BY <1>1, <2>1, <2>2 DEF FrameOK
  <2>3. CASE i # k
    BY <1>1, <2>1, <2>3 DEF FrameOK
  <2> QED BY <2>2, <2>3
<1>3. OnStack(r) = OnStack(s)
  BY <1>1 DEF OnStack
<1>4. \A i, j \in DOMAIN r : r[i].node = r[j].node => i = j
  BY <1>1 DEF StackOK
<1> QED BY <1>1, <1>2, <1>3, <1>4 DEF StackOK, r

LEMMA PushFrame ==
  ASSUME GraphOK, NEW s, NEW fin, StackOK(s, fin), NEW n \in Nodes,
         n \notin fin \cup OnStack(s),
         s # <<>> => n \in s[Len(s)].left
  PROVE  LET r == Append(IF s = <<>> THEN s ELSE Past(s, n), [node |-> n, left |-> graph[n]])
         IN  /\ StackOK(r, fin) /\ OnStack(r) = OnStack(s) \cup {n} /\ r # <<>>
             /\ r[1].node = IF s = <<>> THEN n ELSE s[1].node
<1> DEFINE p == IF s = <<>> THEN s ELSE Past(s, n)
           f == [node |-> n, left |-> graph[n]]
           r == Append(p, f)
           k == Len(s)
<1>1. /\ p \in Seq(Frames) /\ k \in Nat /\ DOMAIN s = 1..k /\ Len(p) = k /\ DOMAIN p = 1..k
      /\ k = 0 <=> s = <<>>
      /\ \A i \in 1..k : p[i].node = s[i].node /\ (i # k => p[i] = s[i])
      /\ k # 0 => p[k].left = s[k].left \ {n}
  <2>1. CASE s = <<>>
    BY <2>1
  <2>2. CASE s # <<>>
    BY <2>2, PastFacts DEF StackOK
  <2> QED BY <2>1, <2>2
<1>2. f \in Frames /\ f.node = n /\ f.left = graph[n]
  BY DEF Frames, GraphOK
<1> HIDE DEF p, f, k
<1>3. /\ r \in Seq(Frames) /\ Len(r) = k + 1 /\ DOMAIN r = 1..(k + 1) /\ r[k + 1] = f
      /\ \A i \in 1..k : r[i] = p[i]
  <2>1. r \in Seq(Frames) /\ Len(r) = Len(p) + 1 /\ r[Len(p) + 1] = f
        /\ \A i \in 1..Len(p) : r[i] = p[i]
    BY <1>1, <1>2
  <2> QED BY <1>1, <2>1
<1> HIDE DEF r
<1>4. \A i \in 1..k : s[i].node # n
  BY <1>1 DEF OnStack
<1>5. \A i, j \in DOMAIN r : r[i].node = r[j].node => i = j
  <2> SUFFICES ASSUME NEW i \in DOMAIN r, NEW j \in DOMAIN r, r[i].node = r[j].node
               PROVE  i = j
    OBVIOUS
  <2>1. CASE i \in 1..k /\ j \in 1..k
    BY <1>1, <1>3, <2>1 DEF StackOK
  <2>2. CASE i = k + 1 \/ j = k + 1
    <3>1. \A l \in 1..k : r[l].node # n
      BY <1>1, <1>3, <1>4
    <3>2. r[k + 1].node = n
      BY <1>2, <1>3
    <3>3. (i \in 1..k \/ i = k + 1) /\ (j \in 1..k \/ j = k + 1)
      BY <1>1, <1>3
    <3> QED BY <2>2, <3>1, <3>2, <3>3
  <2>3. (i \in 1..k \/ i = k + 1) /\ (j \in 1..k \/ j = k + 1)
    BY <1>1, <1>3
  <2> QED BY <2>1, <2>2, <2>3
<1>6. ASSUME NEW i \in DOMAIN r PROVE FrameOK(r, fin, i)
  <2>1. CASE i = k + 1
    <3>1. k + 2 \notin DOMAIN r /\ i + 1 = k + 2
      BY <1>1, <1>3, <2>1
    <3> QED BY <1>2, <1>3, <2>1, <3>1 DEF FrameOK
  <2>2. CASE i = k /\ k # 0
    <3>1. FrameOK(s, fin, k) /\ k + 1 \notin DOMAIN s /\ k \in 1..k /\ k + 1 \in DOMAIN r
      BY <1>1, <1>3, <2>2 DEF StackOK
    <3>2. /\ r[k].node = s[k].node /\ r[k].left = s[k].left \ {n} /\ r[k + 1].node = n
          /\ n \in s[k].left
      BY <1>1, <1>2, <1>3, <2>2, <3>1 DEF k
    <3>3. /\ s[k].node \notin fin /\ s[k].left \subseteq graph[s[k].node]
          /\ \A m \in graph[s[k].node] \ s[k].left : m \in fin
      BY <3>1 DEF FrameOK
    <3> QED BY <2>2, <3>1, <3>2, <3>3 DEF FrameOK
  <2>3. CASE i \in 1..k /\ i # k
    <3>1. FrameOK(s, fin, i) /\ i + 1 \in DOMAIN s /\ i + 1 \in DOMAIN r /\ i + 1 \in 1..k
      BY <1>1, <1>3, <2>3 DEF StackOK
    <3>2. r[i] = s[i] /\ r[i + 1].node = s[i + 1].node
      BY <1>1, <1>3, <2>3, <3>1
    <3> QED BY <3>1, <3>2 DEF FrameOK
  <2> QED BY <1>1, <1>3, <2>1, <2>2, <2>3
<1>7. OnStack(r) = OnStack(s) \cup {n}
  <2>1. \A x : x \in OnStack(r) <=> \E i \in DOMAIN r : x = r[i].node
    BY DEF OnStack
  <2>2. \A x : x \in OnStack(s) <=> \E i \in DOMAIN s : x = s[i].node
    BY DEF OnStack
  <2>3. DOMAIN r = DOMAIN s \cup {k + 1}
    BY <1>1, <1>3
  <2>4. \A i \in DOMAIN s : r[i].node = s[i].node
    BY <1>1, <1>3
  <2>5. r[k + 1].node = n
    BY <1>2, <1>3
  <2> QED BY <2>1, <2>2, <2>3, <2>4, <2>5
<1>8. r # <<>> /\ r[1].node = IF s = <<>> THEN n ELSE s[1].node
  <2>1. r # <<>>
    BY <1>1, <1>3
  <2>2. CASE s = <<>>
    <3>1. k = 0
      BY <1>1, <2>2
    <3> QED BY <1>2, <1>3, <2>1, <2>2, <3>1
  <2>3. CASE s # <<>>
    <3>1. 1 \in 1..k
      BY <1>1, <2>3
    <3> QED BY <1>1, <1>3, <2>1, <2>3, <3>1
  <2> QED BY <2>2, <2>3
<1> QED BY <1>3, <1>5, <1>6, <1>7, <1>8 DEF StackOK, r, p, f

\* The top frame's loop is through: its node is finished.
LEMMA PopFrame ==
  ASSUME GraphOK, NEW s, NEW fin, StackOK(s, fin), FinishedOK(fin), s # <<>>,
         s[Len(s)].left = {}
  PROVE  LET r == SubSeq(s, 1, Len(s) - 1)
             n == s[Len(s)].node
         IN  /\ StackOK(r, fin \cup {n}) /\ FinishedOK(fin \cup {n})
             /\ OnStack(r) \cup {n} = OnStack(s)
             /\ IF Len(s) = 1 THEN r = <<>> /\ n = s[1].node
                              ELSE r # <<>> /\ r[1] = s[1]
<1> DEFINE k == Len(s)
           r == SubSeq(s, 1, k - 1)
           n == s[k].node
<1>1. s \in Seq(Frames) /\ k \in Nat \ {0} /\ DOMAIN s = 1..k /\ k \in DOMAIN s
  BY DEF StackOK
<1>2. /\ r \in Seq(Frames) /\ DOMAIN r = 1..(k - 1) /\ Len(r) = k - 1
      /\ \A i \in 1..(k - 1) : r[i] = s[i]
  BY <1>1
<1>3. s[k] \in Frames /\ n \in Nodes
  <2>1. s[k] \in Frames
    BY <1>1
  <2> QED BY <2>1 DEF Frames
<1>4. FrameOK(s, fin, k) /\ k + 1 \notin DOMAIN s
  BY <1>1 DEF StackOK
<1>5. n \notin fin /\ graph[n] \subseteq fin
  BY <1>4 DEF FrameOK
<1> HIDE DEF r, n, k
<1>6. FinishedOK(fin \cup {n})
  <2>1. fin \cup {n} \in SUBSET Nodes /\ IsClosed(graph, fin \cup {n})
    BY <1>3, <1>5 DEF FinishedOK, IsClosed
  <2>2. ASSUME NEW S \in SUBSET (fin \cup {n}), S # {}
        PROVE  \E m \in S : \A x \in S : m \notin graph[x]
    <3>1. CASE n \in S
      <4>1. ASSUME NEW x \in S PROVE n \notin graph[x]
        BY <1>5, <2>2 DEF FinishedOK, IsClosed
      <4> QED BY <3>1, <4>1
    <3>2. CASE n \notin S
      <4>1. S \in SUBSET fin
        BY <3>2
      <4> QED BY <2>2, <4>1 DEF FinishedOK
    <3> QED BY <3>1, <3>2
  <2> QED BY <2>1, <2>2 DEF FinishedOK
<1>7. ASSUME NEW i \in DOMAIN r PROVE FrameOK(r, fin \cup {n}, i)
  <2>1. FrameOK(s, fin, i) /\ i \in DOMAIN s /\ i + 1 \in DOMAIN s /\ i # k
    BY <1>1, <1>2 DEF StackOK
  <2>2. r[i] = s[i] /\ s[i].node # n
    BY <1>1, <1>2, <2>1 DEF StackOK, n
  <2>3. CASE i + 1 = k
    <3>1. k \notin DOMAIN r /\ s[i + 1].node = n
      BY <1>1, <1>2, <2>3 DEF n
    <3> QED BY <2>1, <2>2, <2>3, <3>1 DEF FrameOK
  <2>4. CASE i + 1 # k
    <3>1. i + 1 \in DOMAIN r /\ r[i + 1] = s[i + 1]
      BY <1>1, <1>2, <2>1, <2>4
    <3> QED BY <2>1, <2>2, <3>1 DEF FrameOK
  <2> QED BY <2>3, <2>4
<1>8. \A i, j \in DOMAIN r : r[i].node = r[j].node => i = j
  BY <1>1, <1>2 DEF StackOK
<1>9. OnStack(r) \cup {n} = OnStack(s)
  <2>1. DOMAIN s = DOMAIN r \cup {k}
    BY <1>1, <1>2
  <2>2. \A x : x \in OnStack(r) <=> \E i \in DOMAIN r : x = r[i].node
    BY DEF OnStack
  <2>3. \A x : x \in OnStack(s) <=> \E i \in DOMAIN s : x = s[i].node
    BY DEF OnStack
  <2>4. n = s[k].node
    BY DEF n
  <2> QED BY <1>2, <2>1, <2>2, <2>3, <2>4
<1>10. IF k = 1 THEN r = <<>> /\ n = s[1].node ELSE r # <<>> /\ r[1] = s[1]
  BY <1>1, <1>2 DEF n
<1> QED BY <1>2, <1>6, <1>7, <1>8, <1>9, <1>10 DEF StackOK, r, n, k

\* A neighbour of the top frame that is on the stack closes a cycle.
LEMMA StackCycle ==
  ASSUME GraphOK, NEW s, NEW fin, StackOK(s, fin), s # <<>>,
         NEW n \in s[Len(s)].left, n \in OnStack(s)
  PROVE  ~IsAcyclic(graph)
<1>1. s \in Seq(Frames) /\ Len(s) \in Nat \ {0} /\ DOMAIN s = 1..Len(s)
  BY DEF StackOK
<1>2. PICK k \in DOMAIN s : n = s[k].node
  BY DEF OnStack
<1> DEFINE S == {s[i].node : i \in {j \in DOMAIN s : j >= k}}
<1>3. S \subseteq Nodes /\ n \in S
  <2>1. \A i \in DOMAIN s : s[i].node \in Nodes
    <3>1. \A f \in Frames : f.node \in Nodes
      BY DEF Frames
    <3>2. \A i \in DOMAIN s : s[i] \in Frames
      BY <1>1
    <3> QED BY <3>1, <3>2
  <2> QED BY <1>1, <1>2, <2>1
<1>4. ASSUME NEW m \in S PROVE \E x \in S : m \in graph[x]
  <2>1. PICK i \in DOMAIN s : i >= k /\ m = s[i].node
    OBVIOUS
  <2>2. CASE i = k
    <3>1. FrameOK(s, fin, Len(s)) /\ Len(s) \in DOMAIN s /\ Len(s) >= k
      BY <1>1, <1>2 DEF StackOK
    <3>2. m \in graph[s[Len(s)].node]
      BY <1>2, <2>1, <2>2, <3>1 DEF FrameOK
    <3>3. s[Len(s)].node \in S
      BY <3>1
    <3> QED BY <3>2, <3>3
  <2>3. CASE i # k
    <3>1. i - 1 \in DOMAIN s /\ i - 1 >= k /\ (i - 1) + 1 = i
      BY <1>1, <1>2, <2>1, <2>3
    <3>2. m \in graph[s[i - 1].node]
      BY <2>1, <3>1 DEF StackOK, FrameOK
    <3> QED BY <3>1, <3>2
  <2> QED BY <2>2, <2>3
<1> HIDE DEF S
<1>5. S \in SUBSET DOMAIN graph
  BY <1>3 DEF GraphOK
<1> QED BY <1>3, <1>4, <1>5 DEF IsAcyclic

-----------------------------------------------------------------------------
LEMMA CycleOuter ==
  ASSUME Inv, CycleInv, client = "has_cycle", CallOuter
  PROVE  CycleInv'
<1>1. pc = "call" /\ stack = <<>> /\ start <= N /\ UNCHANGED <<graph, client>>
  BY DEF CallOuter, input
<1>2. /\ visited = finished \cup OnStack(stack) /\ FinishedOK(finished)
      /\ StackOK(stack, finished) /\ LoopOK /\ ~found /\ GraphOK
  BY <1>1 DEF CycleInv, Inv, TypeInv
<1>3. start \in Nodes /\ OnStack(stack) = {}
  BY <1>1, <1>2, NAssumption DEF LoopOK, Nodes, OnStack
<1>4. CASE /\ start \in finished /\ start' = start + 1
           /\ UNCHANGED <<visited, finished, stack, found, pc>>
  <2>1. 1..(start' - 1) \subseteq finished /\ start' \in 1..(N + 1)
    BY <1>2, <1>3, <1>4, NAssumption DEF LoopOK, Nodes
  <2>2. LoopOK'
    BY <1>1, <1>4, <2>1 DEF LoopOK
  <2> QED BY <1>1, <1>2, <1>4, <2>2 DEF CycleInv, FinishedOK, StackOK, FrameOK
<1>5. CASE start \notin visited /\ Enter(start)
  <2>1. /\ visited' = visited \cup {start}
        /\ stack' = Append(stack, [node |-> start, left |-> graph[start]])
        /\ UNCHANGED <<found, finished, pc, start>>
    BY <1>5 DEF Enter
  <2>2. StackOK(stack', finished) /\ OnStack(stack') = OnStack(stack) \cup {start}
        /\ stack' # <<>> /\ stack'[1].node = start
    BY <1>1, <1>2, <1>3, <1>5, <2>1, PushFrame
  <2>3. LoopOK'
    BY <1>2, <1>3, <2>1, <2>2 DEF LoopOK
  <2>4. StackOK(stack, finished)' /\ FinishedOK(finished)'
    BY <1>1, <1>2, <2>1, <2>2 DEF StackOK, FrameOK, FinishedOK
  <2> QED BY <1>1, <1>2, <2>1, <2>2, <2>3, <2>4 DEF CycleInv
<1> QED BY <1>2, <1>3, <1>4, <1>5 DEF CallOuter

LEMMA CycleInner ==
  ASSUME Inv, CycleInv, client = "has_cycle", CallInner
  PROVE  CycleInv'
<1> DEFINE n == Least(Top.left)
<1>1. /\ pc = "call" /\ stack # <<>> /\ Top.left # {} /\ UNCHANGED <<graph, client, start>>
      /\ \/ /\ n \in finished /\ stack' = Past(stack, n)
            /\ UNCHANGED <<visited, finished, found, pc>>
         \/ /\ n \notin finished /\ n \in visited /\ found' = TRUE /\ pc' = "done"
            /\ UNCHANGED <<visited, finished, stack>>
         \/ /\ n \notin visited /\ visited' = visited \cup {n}
            /\ stack' = Append(Past(stack, n), [node |-> n, left |-> graph[n]])
            /\ UNCHANGED <<finished, found, pc>>
  BY DEF CallInner, input, Past
<1>2. /\ visited = finished \cup OnStack(stack) /\ FinishedOK(finished)
      /\ StackOK(stack, finished) /\ LoopOK /\ ~found /\ GraphOK
  BY <1>1 DEF CycleInv, Inv, TypeInv
<1>3. /\ stack \in Seq(Frames) /\ Len(stack) \in Nat \ {0} /\ DOMAIN stack = 1..Len(stack)
      /\ stack[Len(stack)] \in Frames /\ Top = stack[Len(stack)]
  BY <1>1, <1>2 DEF StackOK, Top
<1>4. n \in stack[Len(stack)].left /\ n \in Nodes
  <2>1. Top.left \in SUBSET Nodes
    BY <1>3 DEF Frames
  <2> QED BY <1>1, <1>3, <2>1, LeastFacts
<1> HIDE DEF n
<1>5. CASE /\ n \in finished /\ stack' = Past(stack, n)
           /\ UNCHANGED <<visited, finished, found, pc>>
  <2>1. StackOK(stack', finished) /\ OnStack(stack') = OnStack(stack)
    BY <1>1, <1>2, <1>5, SkipFrame
  <2>2. stack'[1].node = stack[1].node
    BY <1>1, <1>3, <1>5, PastFacts
  <2>3. LoopOK'
    BY <1>1, <1>2, <1>5, <2>2 DEF LoopOK
  <2>4. StackOK(stack, finished)' /\ FinishedOK(finished)'
    BY <1>1, <1>2, <1>5, <2>1 DEF StackOK, FrameOK, FinishedOK
  <2> QED BY <1>1, <1>2, <1>5, <2>1, <2>3, <2>4 DEF CycleInv
<1>6. CASE /\ n \notin finished /\ n \in visited /\ found' = TRUE /\ pc' = "done"
           /\ UNCHANGED <<visited, finished, stack>>
  <2>1. ~IsAcyclic(graph)
    BY <1>1, <1>2, <1>4, <1>6, StackCycle
  <2>2. LoopOK' /\ StackOK(stack, finished)' /\ FinishedOK(finished)'
    BY <1>1, <1>2, <1>6 DEF LoopOK, StackOK, FrameOK, FinishedOK
  <2> QED BY <1>1, <1>2, <1>6, <2>1, <2>2 DEF CycleInv
<1>7. CASE /\ n \notin visited /\ visited' = visited \cup {n}
           /\ stack' = Append(Past(stack, n), [node |-> n, left |-> graph[n]])
           /\ UNCHANGED <<finished, found, pc>>
  <2>1. /\ StackOK(stack', finished) /\ OnStack(stack') = OnStack(stack) \cup {n}
        /\ stack' # <<>> /\ stack'[1].node = stack[1].node
    BY <1>1, <1>2, <1>4, <1>7, PushFrame
  <2>2. LoopOK'
    BY <1>1, <1>2, <1>7, <2>1 DEF LoopOK
  <2>3. StackOK(stack, finished)' /\ FinishedOK(finished)'
    BY <1>1, <1>2, <1>7, <2>1 DEF StackOK, FrameOK, FinishedOK
  <2> QED BY <1>1, <1>2, <1>7, <2>1, <2>2, <2>3 DEF CycleInv
<1> QED BY <1>1, <1>5, <1>6, <1>7

LEMMA CycleReturn ==
  ASSUME Inv, CycleInv, client = "has_cycle", Return
  PROVE  CycleInv'
<1>1. /\ pc = "call" /\ stack # <<>> /\ stack[Len(stack)].left = {}
      /\ finished' = finished \cup {stack[Len(stack)].node}
      /\ stack' = SubSeq(stack, 1, Len(stack) - 1)
      /\ start' = IF Len(stack) = 1 THEN start + 1 ELSE start
      /\ UNCHANGED <<graph, client, pc, found, visited>>
  BY DEF Return, input, results, Top
<1>2. /\ visited = finished \cup OnStack(stack) /\ FinishedOK(finished)
      /\ StackOK(stack, finished) /\ LoopOK /\ ~found /\ GraphOK
  BY <1>1 DEF CycleInv, Inv, TypeInv
<1>3. /\ StackOK(stack', finished') /\ FinishedOK(finished')
      /\ OnStack(stack') \cup {stack[Len(stack)].node} = OnStack(stack)
      /\ IF Len(stack) = 1 THEN stack' = <<>> /\ stack[Len(stack)].node = stack[1].node
                           ELSE stack' # <<>> /\ stack'[1] = stack[1]
  BY <1>1, <1>2, PopFrame
<1>4. visited' = finished' \cup OnStack(stack')
  BY <1>1, <1>2, <1>3
<1>5. LoopOK'
  <2>1. start \in Nodes /\ stack[1].node = start /\ 1..(start - 1) \subseteq finished
    BY <1>1, <1>2 DEF LoopOK
  <2>2. CASE Len(stack) = 1
    <3>1. start' = start + 1 /\ start \in finished'
      BY <1>1, <1>3, <2>1, <2>2
    <3>2. 1..(start' - 1) \subseteq finished' /\ start' \in 1..(N + 1)
      BY <1>1, <2>1, <3>1, NAssumption DEF Nodes
    <3> QED BY <1>3, <2>2, <3>2 DEF LoopOK
  <2>3. CASE Len(stack) # 1
    BY <1>1, <1>2, <1>3, <2>1, <2>3 DEF LoopOK
  <2> QED BY <2>2, <2>3
<1>6. StackOK(stack, finished)' /\ FinishedOK(finished)'
  BY <1>1, <1>3 DEF StackOK, FrameOK, FinishedOK
<1> QED BY <1>1, <1>2, <1>4, <1>5, <1>6 DEF CycleInv

LEMMA CycleStep == Inv /\ CycleInv /\ [Next]_vars => CycleInv'
<1> SUFFICES ASSUME Inv, CycleInv, [Next]_vars PROVE CycleInv'
  OBVIOUS
<1>0. client' = client
  BY DEF Next, vars, input, BeginTraversal, Pop, Expand, EndOfNode, CollectTransitive,
         CollectCycle, CheckTargets, CallOuter, CallInner, Return, NoCycle
<1> SUFFICES ASSUME client = "has_cycle" PROVE CycleInv'
  BY <1>0 DEF CycleInv
<1>1. CASE NoCycle
  <2>1. /\ pc = "call" /\ stack = <<>> /\ start > N /\ pc' = "done"
        /\ UNCHANGED <<graph, client, found, visited, finished, stack, start>>
    BY <1>1 DEF NoCycle, input, results, dfsVars
  <2>2. /\ visited = finished \cup OnStack(stack) /\ FinishedOK(finished)
        /\ StackOK(stack, finished) /\ LoopOK /\ ~found
    BY <2>1 DEF CycleInv
  <2>3. start = N + 1
    BY <2>1, <2>2, NAssumption DEF LoopOK
  <2>4. LoopOK' /\ StackOK(stack, finished)' /\ FinishedOK(finished)'
    BY <2>1, <2>2 DEF LoopOK, StackOK, FrameOK, FinishedOK
  <2> QED BY <2>1, <2>2, <2>3, <2>4 DEF CycleInv
<1>2. CASE UNCHANGED vars
  <2>1. UNCHANGED <<graph, client, pc, found, visited, finished, stack, start>>
    BY <1>2 DEF vars
  <2> QED BY <2>1 DEF CycleInv, LoopOK, StackOK, FrameOK, FinishedOK
<1>3. pc \in {"call", "done"}
  BY DEF Inv, TypeInv
<1>4. ~(BeginTraversal \/ Pop \/ Expand \/ EndOfNode)
  BY <1>3 DEF BeginTraversal, Pop, Expand, EndOfNode
<1>5. ~(CollectTransitive \/ CollectCycle \/ CheckTargets)
  BY DEF CollectTransitive, CollectCycle, CheckTargets
<1> QED BY <1>1, <1>2, <1>4, <1>5, CycleOuter, CycleInner, CycleReturn DEF Next

\* has_cycle returns true exactly for the graphs with a cycle, and has visited and
\* finished every node if there is none, its postcondition (has_cycle.h:51).
THEOREM CycleDecided == Spec => []DecidesCycle
<1>1. Init => CycleInv
  <2> SUFFICES ASSUME Init, client = "has_cycle" PROVE CycleInv
    BY DEF CycleInv
  <2>1. stack = <<>> /\ finished = {} /\ visited = {} /\ start = 1 /\ ~found /\ pc = "call"
    BY DEF Init
  <2>2. OnStack(stack) = {}
    BY <2>1 DEF OnStack
  <2>3. LoopOK
    BY <2>1, NAssumption DEF LoopOK
  <2>4. FinishedOK(finished)
    BY <2>1 DEF FinishedOK, IsClosed
  <2>5. StackOK(stack, finished)
    BY <2>1 DEF StackOK
  <2> QED BY <2>1, <2>2, <2>3, <2>4, <2>5 DEF CycleInv
<1>2. Inv /\ CycleInv => DecidesCycle
  <2> SUFFICES ASSUME Inv, CycleInv, client = "has_cycle", pc = "done"
               PROVE  /\ found <=> ~IsAcyclic(graph)
                      /\ found \/ (visited = Nodes /\ finished = Nodes)
    BY DEF DecidesCycle
  <2>1. CASE found
    BY <2>1 DEF CycleInv
  <2>2. CASE ~found
    <3>1. /\ stack = <<>> /\ start = N + 1 /\ LoopOK /\ FinishedOK(finished)
          /\ visited = finished \cup OnStack(stack)
      BY <2>2 DEF CycleInv
    <3>2. Nodes \subseteq finished
      BY <3>1, NAssumption DEF LoopOK, Nodes
    <3>3. finished = Nodes /\ visited = Nodes
      <4>1. OnStack(stack) = {}
        BY <3>1 DEF OnStack
      <4> QED BY <3>1, <3>2, <4>1 DEF FinishedOK
    <3>4. DOMAIN graph = Nodes
      BY DEF Inv, TypeInv, GraphOK
    <3>5. IsAcyclic(graph)
      BY <3>1, <3>3, <3>4 DEF IsAcyclic, FinishedOK
    <3> QED BY <2>2, <3>3, <3>5
  <2> QED BY <2>1, <2>2
<1> QED BY <1>1, <1>2, CycleStep, Invariant, PTL DEF Spec

-----------------------------------------------------------------------------
(***************************************************************************)
(* get_cycles.  The callbacks of the breadth first search keep the tree of *)
(* shortest ways from the source: prev leads up by one level of depth, the *)
(* queue holds nodes of at most two levels, in order, and an edge that has *)
(* been followed leads at most one level down.  So following prev from the *)
(* node that met the source again gives a cycle without a chord.           *)
(***************************************************************************)
\* The nodes of the tree that prev describes: the source, and what the queue is
\* done with.
Tree == {source} \cup Handled

\* The edges of the current node that are not settled yet.
Unfollowed(x) == IF pc \in {"expand", "stopped"} /\ x = current THEN pending ELSE {}

DepthsOK ==
  /\ depth \in [Nodes -> Nat] /\ prev \in [Nodes -> Nodes \cup {None}]
  /\ source \notin seen /\ depth[source] = 0
  /\ \A n \in Nodes \ Tree : depth[n] = Inf /\ prev[n] = None
  /\ \A n \in Handled : /\ prev[n] \in Tree /\ n \in graph[prev[n]]
                        /\ depth[n] = depth[prev[n]] + 1
  /\ \A n \in Tree : depth[n] <= Cardinality(Handled)

QueueInOrder ==
  /\ current \in Tree
  /\ \A n \in Tree : depth[n] <= depth[current]
  /\ \A i \in DOMAIN todo :
       /\ todo[i][2] \in Tree
       /\ \A n \in Tree : depth[n] <= depth[todo[i][2]] + 1
       /\ \A j \in DOMAIN todo : i < j => depth[todo[i][2]] <= depth[todo[j][2]]

EdgesSettled ==
  \A x \in Tree : \A m \in graph[x] \ Unfollowed(x) :
    /\ m # source
    /\ m \in Handled => depth[m] <= depth[x] + 1
    /\ \A i \in DOMAIN todo : todo[i][1] = m => depth[todo[i][2]] <= depth[x]

BfsInv ==
  /\ DepthsOK
  /\ Fresh \/ (QueueInOrder /\ EdgesSettled)
  /\ pc # "stopped" => prev[source] = None
  /\ pc = "stopped" => prev[source] = current /\ source \in graph[current]

\* A cycle as get_cycles returns it.
RightCycle(c, n) ==
  /\ c \in Seq(Nodes) /\ c # <<>> /\ c[Len(c)] = n
  /\ IsCycle(c)
  /\ \A i, j \in DOMAIN c : /\ i # j => c[i] # c[j]
                            /\ i + 1 < j => c[j] \notin graph[c[i]]

\* The cycles of the starts before s, each with one through every such start.
CyclesBefore(s) ==
  /\ \A n \in Nodes : n < s /\ Reaches(graph, n, n) =>
       \E k \in DOMAIN cycles : RightCycle(cycles[k], n)
  /\ \A k \in DOMAIN cycles :
       \E n \in Nodes : n < s /\ Reaches(graph, n, n) /\ RightCycle(cycles[k], n)

CyclesInv ==
  client = "cycle" =>
    /\ cycles \in Seq(Seq(Nodes)) /\ CyclesBefore(start)
    /\ pc = "done" => start = N + 1
    /\ Running => source = start /\ BfsInv

\* The value of unset depths is a number, and there is a node.
LEMMA InfFacts == Inf \in Nat /\ N \in Nat /\ N >= 1
  BY NAssumption DEF Inf

\* The nodes taken from the queue are finitely many, all nodes at most.
LEMMA HandledFinite ==
  ASSUME Inv, Running
  PROVE  /\ Handled \in SUBSET Nodes /\ source \in Nodes /\ IsFiniteSet(Handled)
         /\ Cardinality(Handled) \in Nat
         /\ source \notin seen => Cardinality(Handled) <= N - 1
<1>1. Handled \subseteq Nodes /\ source \in Nodes
  BY DEF Inv, TypeInv, TraversalInv, QueueInv, SeenInv, GraphOK, Handled, Reached,
         ReachableFrom
<1>2. IsFiniteSet(Nodes) /\ Cardinality(Nodes) = N
  BY InfFacts, FS_Interval DEF Nodes
<1>3. IsFiniteSet(Handled) /\ Cardinality(Handled) \in Nat
  BY <1>1, <1>2, FS_Subset, FS_CardinalityType
<1>4. ASSUME source \notin seen PROVE Cardinality(Handled) <= N - 1
  <2>1. Handled \subseteq Nodes \ {source}
    BY <1>1, <1>4 DEF Handled
  <2>2. IsFiniteSet(Nodes \ {source}) /\ Cardinality(Nodes \ {source}) = N - 1
    BY <1>1, <1>2, FS_RemoveElement
  <2> QED BY <2>1, <2>2, FS_Subset
<1> QED BY <1>1, <1>3, <1>4

\* The start of a traversal.
LEMMA BfsBegin ==
  ASSUME client = "cycle", client' = client, NEW s \in Nodes, Begin(s)
  PROVE  BfsInv' /\ source' = s
<1>1. /\ source' = s /\ todo' = <<<<s, s>>>> /\ seen' = {} /\ pc' = "pop"
      /\ depth' = [n \in Nodes |-> IF n = s THEN 0 ELSE Inf]
      /\ prev' = [n \in Nodes |-> None]
  BY DEF Begin, FreshDepth
<1>2. Handled' = {} /\ Tree' = {s} /\ Cardinality(Handled') = 0
  BY <1>1, FS_EmptySet DEF Handled, Tree
<1>3. DepthsOK'
  BY <1>1, <1>2, InfFacts DEF DepthsOK
<1>4. Fresh'
  BY <1>1 DEF Fresh
<1> QED BY <1>1, <1>3, <1>4 DEF BfsInv

\* A queue yields its first entry, the others move up.
LEMMA PopFront ==
  ASSUME NEW q, QueueOK(q), q # <<>>, ~IsStack
  PROVE  /\ 1 \in DOMAIN q /\ Head1(q) = q[1]
         /\ \A i \in DOMAIN Rest1(q) : /\ i + 1 \in DOMAIN q /\ Rest1(q)[i] = q[i + 1]
                                       /\ i \in Nat
<1>1. q \in Seq(Nodes \X Nodes) /\ Len(q) \in Nat /\ Len(q) >= 1 /\ DOMAIN q = 1..Len(q)
  BY DEF QueueOK
<1> QED BY <1>1 DEF Head1, Rest1

\* Taking a node from the queue fixes its depth and its predecessor.
LEMMA BfsPop ==
  ASSUME Inv, Inv', client = "cycle", BfsInv, Pop
  PROVE  BfsInv'
<1> DEFINE node == Head1(todo)[1]
           from == Head1(todo)[2]
           h == Cardinality(Handled)
<1>1. /\ pc = "pop" /\ todo # <<>> /\ todo' = Rest1(todo) /\ current' = node
      /\ pc' = "expand" /\ pending' = graph[node]
      /\ node = source => depth' = depth /\ prev' = prev
      /\ node # source /\ depth[node] = Inf =>
           /\ depth' = [depth EXCEPT ![node] = depth[from] + 1]
           /\ prev' = [prev EXCEPT ![node] = from]
      /\ UNCHANGED <<graph, client, source, seen>>
  BY DEF Pop, input, NodeStops, NodeDepth, NodePrev
<1>2. /\ GraphOK /\ source \in Nodes /\ QueueOK(todo)
      /\ Fresh \/ Queued(todo) \subseteq seen
      /\ Fresh \/ \A e \in Entries(todo) : e[1] \in graph[e[2]]
  BY <1>1 DEF Inv, TypeInv, TraversalInv, Running, QueueInv
<1>3. ~IsStack /\ ~IsStack'
  BY <1>1 DEF IsStack
<1>4. /\ Head1(todo) \in Entries(todo) /\ node \in Nodes /\ from \in Nodes
      /\ node \in Queued(todo) /\ Queued(todo') = Queued(todo) \ {node}
  BY <1>1, <1>2, PopQueue DEF Queued
<1>5. /\ 1 \in DOMAIN todo /\ Head1(todo) = todo[1]
      /\ \A i \in DOMAIN todo' : /\ i + 1 \in DOMAIN todo /\ todo'[i] = todo[i + 1]
                                 /\ i \in Nat
  BY <1>1, <1>2, <1>3, PopFront
<1>6. Handled \in SUBSET Nodes /\ IsFiniteSet(Handled) /\ h \in Nat
  BY <1>1, HandledFinite DEF Running
<1>7. /\ DepthsOK /\ prev[source] = None
      /\ Fresh \/ (QueueInOrder /\ EdgesSettled)
  BY <1>1 DEF BfsInv
<1>8. ~Fresh'
  BY <1>1 DEF Fresh
<1> HIDE DEF node, from, h
<1>9. CASE Fresh
  <2>1. node = source /\ Queued(todo) = {source} /\ seen = {}
    <3>1. Queued(todo) = {source} /\ seen = {}
      BY <1>2, <1>9, StartQueue DEF Fresh
    <3> QED BY <1>4, <3>1
  <2>2. Queued(todo') = {} /\ Handled = {} /\ Handled' = {} /\ Tree = {source}
        /\ Tree' = {source}
    BY <1>1, <1>4, <2>1 DEF Handled, Tree
  <2>3. DOMAIN todo' = {}
    BY <2>2 DEF Queued, Entries
  <2>4. DepthsOK'
    BY <1>1, <1>7, <2>1, <2>2 DEF DepthsOK
  <2>5. QueueInOrder'
    BY <1>1, <1>2, <1>7, <2>1, <2>2, <2>3 DEF QueueInOrder, DepthsOK
  <2>6. EdgesSettled'
    BY <1>1, <2>1, <2>2 DEF EdgesSettled, Unfollowed
  <2> QED BY <1>1, <1>7, <2>1, <2>4, <2>5, <2>6 DEF BfsInv
<1>10. CASE ~Fresh
  <2>1. QueueInOrder /\ EdgesSettled /\ node \in seen /\ node \notin Handled /\ node # source
    BY <1>1, <1>2, <1>4, <1>7, <1>10 DEF Handled, DepthsOK
  <2>2. node \notin Tree /\ from \in Tree /\ node \in graph[from]
    <3>1. from \in Tree
      BY <1>5, <2>1 DEF QueueInOrder, from
    <3>2. node \in graph[from]
      BY <1>2, <1>4, <1>10 DEF node, from
    <3> QED BY <2>1, <3>1, <3>2 DEF Tree
  <2>3. depth[node] = Inf /\ depth \in [Nodes -> Nat] /\ prev \in [Nodes -> Nodes \cup {None}]
    BY <1>4, <1>7, <2>2 DEF DepthsOK
  <2>4. /\ depth' = [depth EXCEPT ![node] = depth[from] + 1]
        /\ prev' = [prev EXCEPT ![node] = from]
    BY <1>1, <2>1, <2>3
  <2>5. Handled' = Handled \cup {node} /\ Tree' = Tree \cup {node}
    BY <1>1, <1>4, <2>1 DEF Handled, Tree
  <2>6. Cardinality(Handled') = h + 1
    BY <1>6, <2>1, <2>5, FS_AddElement DEF h
  <2>7. Tree \subseteq Nodes
    BY <1>2, <1>6 DEF Tree
  <2>8. /\ depth' \in [Nodes -> Nat] /\ prev' \in [Nodes -> Nodes \cup {None}]
        /\ depth'[node] = depth[from] + 1 /\ prev'[node] = from
        /\ \A n \in Nodes : n # node => depth'[n] = depth[n] /\ prev'[n] = prev[n]
    BY <1>4, <2>3, <2>4
  <2>9. /\ depth[from] \in Nat /\ depth'[from] = depth[from] /\ depth[from] <= h
        /\ \A n \in Tree : depth[n] \in Nat /\ depth'[n] = depth[n] /\ depth[n] <= h
                           /\ depth[n] <= depth[from] + 1
    <3>1. \A n \in Tree : n \in Nodes /\ n # node
      BY <2>2, <2>7
    <3>2. \A n \in Tree : depth[n] <= h
      BY <1>7 DEF DepthsOK, h
    <3>3. \A n \in Tree : depth[n] <= depth[from] + 1
      BY <1>5, <2>1 DEF QueueInOrder, from
    <3> QED BY <2>2, <2>3, <2>8, <3>1, <3>2, <3>3
  <2>10. DepthsOK'
    <3>1. source' \notin seen' /\ depth'[source'] = 0
      BY <1>1, <1>2, <1>7, <2>1, <2>8 DEF DepthsOK
    <3>2. \A n \in Nodes \ Tree' : depth'[n] = Inf /\ prev'[n] = None
      BY <1>7, <2>5, <2>8 DEF DepthsOK
    <3>3. ASSUME NEW n \in Handled'
          PROVE  prev'[n] \in Tree' /\ n \in graph'[prev'[n]] /\ depth'[n] = depth'[prev'[n]] + 1
      <4>1. CASE n = node
        BY <1>1, <2>2, <2>5, <2>8, <2>9, <4>1
      <4>2. CASE n # node
        <5>1. n \in Handled /\ n \in Tree
          BY <2>5, <3>3, <4>2 DEF Tree
        <5>2. prev[n] \in Tree /\ n \in graph[prev[n]] /\ depth[n] = depth[prev[n]] + 1
          BY <1>7, <5>1 DEF DepthsOK
        <5>3. prev'[n] = prev[n]
          BY <2>7, <2>8, <4>2, <5>1
        <5> QED BY <1>1, <2>5, <2>9, <5>1, <5>2, <5>3
      <4> QED BY <4>1, <4>2
    <3>4. \A n \in Tree' : depth'[n] <= Cardinality(Handled')
      BY <1>6, <2>5, <2>6, <2>8, <2>9
    <3> QED BY <2>8, <3>1, <3>2, <3>3, <3>4 DEF DepthsOK
  <2>11. QueueInOrder'
    <3>1. current' \in Tree' /\ \A n \in Tree' : depth'[n] <= depth'[current']
      BY <1>1, <2>5, <2>8, <2>9
    <3>2. ASSUME NEW i \in DOMAIN todo'
          PROVE  /\ todo'[i][2] \in Tree /\ depth[todo'[i][2]] >= depth[from]
                 /\ \A n \in Tree' : depth'[n] <= depth'[todo'[i][2]] + 1
                 /\ \A j \in DOMAIN todo' : i < j =>
                      depth'[todo'[i][2]] <= depth'[todo'[j][2]]
      <4>1. i + 1 \in DOMAIN todo /\ todo'[i] = todo[i + 1] /\ i \in Nat
        BY <1>5
      <4>2. todo'[i][2] \in Tree /\ depth[from] <= depth[todo'[i][2]]
        <5>1. 1 \in DOMAIN todo /\ from = todo[1][2] /\ (1 < i + 1 \/ i = 0)
          BY <1>5, <4>1 DEF from
        <5>2. i # 0
          BY <1>1, <1>2, <1>3 DEF Inv, TraversalInv, Running, QueueInv, QueueOK
        <5> QED BY <2>1, <4>1, <5>1, <5>2 DEF QueueInOrder
      <4>3. depth'[node] <= depth'[todo'[i][2]] + 1
        BY <2>8, <2>9, <4>2
      <4>4. \A n \in Tree : depth'[n] <= depth'[todo'[i][2]] + 1
        BY <2>1, <2>9, <4>1, <4>2 DEF QueueInOrder
      <4>5. ASSUME NEW j \in DOMAIN todo', i < j
            PROVE  depth'[todo'[i][2]] <= depth'[todo'[j][2]]
        <5>1. j + 1 \in DOMAIN todo /\ todo'[j] = todo[j + 1] /\ j \in Nat /\ i + 1 < j + 1
          BY <1>5, <4>1, <4>5
        <5> QED BY <2>1, <2>9, <4>1, <5>1 DEF QueueInOrder
      <4> QED BY <2>5, <2>9, <4>2, <4>3, <4>4, <4>5
    <3> QED BY <2>5, <3>1, <3>2 DEF QueueInOrder
  <2>12. EdgesSettled'
    <3>1. ASSUME NEW x \in Tree', NEW m \in graph[x], m \notin Unfollowed(x)'
          PROVE  /\ m # source
                 /\ m \in Handled' => depth'[m] <= depth'[x] + 1
                 /\ \A i \in DOMAIN todo' : todo'[i][1] = m => depth'[todo'[i][2]] <= depth'[x]
      <4>1. x # node
        BY <1>1, <3>1 DEF Unfollowed
      <4>2. x \in Tree /\ m \in graph[x] \ Unfollowed(x)
        BY <1>1, <2>5, <3>1, <4>1 DEF Unfollowed
      <4>3. /\ m # source
            /\ m \in Handled => depth[m] <= depth[x] + 1
            /\ \A i \in DOMAIN todo : todo[i][1] = m => depth[todo[i][2]] <= depth[x]
        BY <2>1, <4>2 DEF EdgesSettled
      <4>4. m \in Handled' => depth'[m] <= depth'[x] + 1
        <5>1. CASE m = node
          <6>1. depth[from] <= depth[x]
            BY <1>5, <4>3, <5>1 DEF node, from
          <6> QED BY <2>8, <2>9, <4>2, <5>1, <6>1
        <5>2. CASE m # node
          BY <2>5, <2>9, <4>2, <4>3, <5>2 DEF Tree
        <5> QED BY <5>1, <5>2
      <4>5. ASSUME NEW i \in DOMAIN todo', todo'[i][1] = m
            PROVE  depth'[todo'[i][2]] <= depth'[x]
        <5>1. i + 1 \in DOMAIN todo /\ todo'[i] = todo[i + 1]
          BY <1>5
        <5>2. depth[todo'[i][2]] <= depth[x] /\ todo'[i][2] \in Tree
          BY <2>1, <4>3, <4>5, <5>1 DEF QueueInOrder
        <5> QED BY <2>9, <4>2, <5>2
      <4> QED BY <4>3, <4>4, <4>5
    <3> QED BY <1>1, <3>1 DEF EdgesSettled
  <2>13. prev'[source'] = None
    BY <1>1, <1>2, <1>7, <2>1, <2>8
  <2> QED BY <1>1, <2>10, <2>11, <2>12, <2>13 DEF BfsInv
<1> QED BY <1>9, <1>10

\* Looking at one edge queues its end, or finds the source again.
LEMMA BfsExpand ==
  ASSUME Inv, Inv', client = "cycle", BfsInv, Expand
  PROVE  BfsInv'
<1> DEFINE to == Least(pending)
<1>1. /\ pc = "expand" /\ pending # {} /\ depth' = depth
      /\ \/ /\ to = source /\ prev' = [prev EXCEPT ![to] = current]
            /\ pc' = "stopped" /\ UNCHANGED <<pending, seen, todo>>
         \/ /\ to # source /\ pending' = pending \ {to} /\ seen' = seen \cup {to}
            /\ todo' = IF to \in seen THEN todo ELSE Append(todo, <<to, current>>)
            /\ UNCHANGED <<pc, prev>>
      /\ UNCHANGED <<graph, client, source, current>>
  BY DEF Expand, input, EdgeStops, EdgeDepth
<1>2. /\ GraphOK /\ source \in Nodes /\ QueueOK(todo) /\ Queued(todo) \subseteq seen
      /\ current \in {source} \cup seen /\ pending \subseteq graph[current]
      /\ seen \subseteq Nodes
  BY <1>1 DEF Inv, TypeInv, TraversalInv, Running, QueueInv, SeenInv, Fresh, GraphOK,
              Reached, ReachableFrom
<1>3. to \in pending /\ to \in graph[current] /\ to \in Nodes /\ current \in Nodes
  <2>1. pending \in SUBSET Nodes
    BY <1>2 DEF GraphOK
  <2>2. to \in pending
    BY <1>1, <2>1, LeastFacts
  <2> QED BY <1>2, <2>1, <2>2
<1>4. /\ ~Fresh /\ ~Fresh' /\ DepthsOK /\ QueueInOrder /\ EdgesSettled
      /\ prev[source] = None
  BY <1>1 DEF Fresh, BfsInv
<1> HIDE DEF to
<1>5. CASE /\ to = source /\ prev' = [prev EXCEPT ![to] = current]
           /\ pc' = "stopped" /\ UNCHANGED <<pending, seen, todo>>
  <2>1. Handled' = Handled /\ Tree' = Tree /\ source \notin Handled
    BY <1>1, <1>4, <1>5 DEF Handled, Tree, DepthsOK
  <2>2. /\ prev' \in [Nodes -> Nodes \cup {None}] /\ prev'[source] = current
        /\ \A n \in Nodes : n # source => prev'[n] = prev[n]
    BY <1>2, <1>3, <1>4, <1>5 DEF DepthsOK
  <2>3. Handled \subseteq Nodes
    BY <1>2 DEF Handled
  <2>4. DepthsOK'
    <3>1. \A n \in Nodes \ Tree' : depth'[n] = Inf /\ prev'[n] = None
      BY <1>1, <1>4, <2>1, <2>2 DEF DepthsOK, Tree
    <3>2. \A n \in Handled' : /\ prev'[n] \in Tree' /\ n \in graph'[prev'[n]]
                              /\ depth'[n] = depth'[prev'[n]] + 1
      <4> SUFFICES ASSUME NEW n \in Handled
                   PROVE /\ prev'[n] \in Tree' /\ n \in graph'[prev'[n]]
                         /\ depth'[n] = depth'[prev'[n]] + 1
        BY <2>1
      <4>1. prev'[n] = prev[n]
        BY <2>1, <2>2, <2>3
      <4> QED BY <1>1, <1>4, <2>1, <4>1 DEF DepthsOK
    <3> QED BY <1>1, <1>4, <1>5, <2>1, <2>2, <3>1, <3>2 DEF DepthsOK
  <2>5. QueueInOrder'
    BY <1>1, <1>4, <1>5, <2>1 DEF QueueInOrder
  <2>6. EdgesSettled'
    <3>1. \A x : Unfollowed(x)' = Unfollowed(x)
      BY <1>1, <1>5 DEF Unfollowed
    <3> QED BY <1>1, <1>4, <1>5, <2>1, <3>1 DEF EdgesSettled
  <2> QED BY <1>1, <1>3, <1>5, <2>2, <2>4, <2>5, <2>6 DEF BfsInv
<1>6. CASE /\ to # source /\ pending' = pending \ {to} /\ seen' = seen \cup {to}
           /\ todo' = IF to \in seen THEN todo ELSE Append(todo, <<to, current>>)
           /\ UNCHANGED <<pc, prev>>
  <2> DEFINE n == Len(todo)
  <2>1. /\ todo \in Seq(Nodes \X Nodes) /\ n \in Nat /\ DOMAIN todo = 1..n
    BY <1>2 DEF QueueOK
  <2>2. \A i \in DOMAIN todo : /\ i \in DOMAIN todo' /\ todo'[i] = todo[i] /\ i \in Nat /\ i <= n
    BY <1>6, <2>1
  <2>3. \A i \in DOMAIN todo' :
          \/ i \in DOMAIN todo
          \/ i = n + 1 /\ to \notin seen /\ todo'[i][1] = to /\ todo'[i][2] = current
    <3> DEFINE e == <<to, current>>
    <3>1. e[1] = to /\ e[2] = current
      OBVIOUS
    <3>2. todo' = IF to \in seen THEN todo ELSE Append(todo, e)
      BY <1>6
    <3>3. CASE to \in seen
      BY <3>2, <3>3
    <3>4. CASE to \notin seen
      <4>1. e \in Nodes \X Nodes
        BY <1>3
      <4> HIDE DEF e
      <4>2. DOMAIN todo' = 1..(n + 1) /\ todo'[n + 1] = e
        BY <2>1, <3>2, <3>4, <4>1
      <4> QED BY <2>1, <3>1, <3>4, <4>2
    <3> QED BY <3>3, <3>4
  <2> HIDE DEF n
  <2>4. /\ Handled' = Handled /\ Tree' = Tree
        /\ \A x : Unfollowed(x)' = Unfollowed(x) \ {to}
    <3>1. Handled' = Handled
      <4>1. CASE to \in seen
        BY <1>6, <4>1 DEF Handled
      <4>2. CASE to \notin seen
        <5>1. to \notin Queued(todo)
          BY <1>2, <4>2
        <5>2. Queued(todo') = Queued(todo) \cup {to}
          BY <1>2, <1>3, <1>6, <4>2, <5>1, PushQueue
        <5> QED BY <1>6, <4>2, <5>2 DEF Handled
      <4> QED BY <4>1, <4>2
    <3>2. \A x : Unfollowed(x)' = Unfollowed(x) \ {to}
      BY <1>1, <1>6 DEF Unfollowed
    <3> QED BY <1>1, <3>1, <3>2 DEF Tree
  <2>5. DepthsOK'
    BY <1>1, <1>4, <1>6, <2>4 DEF DepthsOK
  <2>6. Tree \subseteq Nodes /\ depth \in [Nodes -> Nat]
    BY <1>2, <1>4 DEF Tree, Handled, DepthsOK
  <2>7. QueueInOrder'
    <3>1. ASSUME NEW i \in DOMAIN todo'
          PROVE  /\ todo'[i][2] \in Tree
                 /\ depth[todo'[i][2]] <= depth[current]
                 /\ \A m \in Tree : depth[m] <= depth[todo'[i][2]] + 1
      <4>1. CASE i \in DOMAIN todo
        BY <1>4, <2>2, <4>1 DEF QueueInOrder
      <4>2. CASE todo'[i][2] = current
        BY <1>4, <2>6, <4>2 DEF QueueInOrder
      <4> QED BY <2>3, <4>1, <4>2
    <3>2. ASSUME NEW i \in DOMAIN todo', NEW j \in DOMAIN todo', i < j
          PROVE  depth[todo'[i][2]] <= depth[todo'[j][2]]
      <4>1. CASE j \in DOMAIN todo
        <5>1. i \in DOMAIN todo
          BY <2>1, <2>2, <2>3, <3>2, <4>1
        <5> QED BY <1>4, <2>2, <3>2, <4>1, <5>1 DEF QueueInOrder
      <4>2. CASE todo'[j][2] = current
        BY <3>1, <4>2
      <4> QED BY <2>3, <4>1, <4>2
    <3> QED BY <1>1, <1>4, <2>4, <3>1, <3>2 DEF QueueInOrder
  <2>8. EdgesSettled'
    <3>1. ASSUME NEW x \in Tree, NEW m \in graph[x], m \notin Unfollowed(x)'
          PROVE  /\ m # source
                 /\ m \in Handled => depth[m] <= depth[x] + 1
                 /\ \A i \in DOMAIN todo' : todo'[i][1] = m => depth[todo'[i][2]] <= depth[x]
      <4>1. CASE m \notin Unfollowed(x)
        <5>1. /\ m # source
              /\ m \in Handled => depth[m] <= depth[x] + 1
              /\ \A i \in DOMAIN todo : todo[i][1] = m => depth[todo[i][2]] <= depth[x]
          BY <1>4, <4>1 DEF EdgesSettled
        <5>2. ASSUME NEW i \in DOMAIN todo', todo'[i][1] = m
              PROVE  depth[todo'[i][2]] <= depth[x]
          <6>1. CASE i \in DOMAIN todo
            BY <2>2, <5>1, <5>2, <6>1
          <6>2. CASE to \notin seen /\ todo'[i][1] = to
            <7>1. m = to
              BY <5>2, <6>2
            \* x has led to m before, so that m is in seen
            <7>2. x \in ({source} \cup seen) \ Queued(todo)
              <8>1. source \notin Queued(todo)
                BY <1>2, <1>4 DEF DepthsOK
              <8> QED BY <8>1 DEF Tree, Handled
            <7>3. graph[x] \subseteq seen \cup Left(x)
              BY <1>1, <7>2 DEF Inv, TraversalInv, Running, SeenInv
            <7>4. Left(x) = Unfollowed(x)
              BY <1>1 DEF Left, Unfollowed
            <7> QED BY <4>1, <6>2, <7>1, <7>3, <7>4
          <6> QED BY <2>3, <6>1, <6>2
        <5> QED BY <5>1, <5>2
      <4>2. CASE m \in Unfollowed(x)
        <5>1. m = to /\ x = current
          BY <2>4, <3>1, <4>2 DEF Unfollowed
        <5>2. m \in Handled => depth[m] <= depth[x]
          BY <1>4, <5>1 DEF QueueInOrder, Tree
        <5>3. \A i \in DOMAIN todo' : depth[todo'[i][2]] <= depth[x]
          <6> SUFFICES ASSUME NEW i \in DOMAIN todo' PROVE depth[todo'[i][2]] <= depth[x]
            OBVIOUS
          <6>1. CASE i \in DOMAIN todo
            BY <1>4, <2>2, <5>1, <6>1 DEF QueueInOrder
          <6>2. CASE todo'[i][2] = current
            BY <2>6, <3>1, <5>1, <6>2
          <6> QED BY <2>3, <6>1, <6>2
        <5>4. depth[x] \in Nat /\ (m \in Handled => depth[m] \in Nat)
          BY <2>6, <3>1 DEF Tree
        <5> QED BY <1>6, <5>1, <5>2, <5>3, <5>4
      <4> QED BY <4>1, <4>2
    <3> QED BY <1>1, <2>4, <3>1 DEF EdgesSettled
  <2> QED BY <1>1, <1>4, <1>6, <2>5, <2>7, <2>8 DEF BfsInv
<1> QED BY <1>1, <1>5, <1>6

\* A node all of whose edges have been looked at is settled.
LEMMA BfsEndOfNode ==
  ASSUME Inv, client = "cycle", BfsInv, EndOfNode
  PROVE  BfsInv'
<1>1. /\ pc = "expand" /\ pending = {} /\ pc' = "pop"
      /\ UNCHANGED <<graph, source, todo, seen, current, depth, prev>>
  BY DEF EndOfNode, input
<1>2. Handled' = Handled /\ Tree' = Tree /\ \A x : Unfollowed(x) = {} /\ Unfollowed(x)' = {}
  BY <1>1 DEF Handled, Tree, Unfollowed
<1>3. DepthsOK /\ QueueInOrder /\ EdgesSettled /\ prev[source] = None
  BY <1>1 DEF BfsInv, Fresh
<1>4. DepthsOK' /\ QueueInOrder'
  BY <1>1, <1>2, <1>3 DEF DepthsOK, QueueInOrder
<1>5. EdgesSettled'
  BY <1>1, <1>2, <1>3 DEF EdgesSettled
<1> QED BY <1>1, <1>3, <1>4, <1>5 DEF BfsInv

\* The nodes met by following prev from start, as Walk does.
IsChain(g, n) ==
  /\ DOMAIN g = 0..n
  /\ g[0] = prev[start]
  /\ \A k \in 1..n : g[k] = IF g[k - 1] = None THEN None ELSE prev[g[k - 1]]

\* The walk back along the predecessors can be taken for any number of steps.
LEMMA ChainExists ==
  ASSUME NEW n \in Nat
  PROVE  \E g : IsChain(g, n)
<1> DEFINE T == {m \in Nat : \E g : IsChain(g, m)}
<1>1. 0 \in T
  <2> DEFINE g == [k \in 0..0 |-> prev[start]]
  <2>1. IsChain(g, 0)
    BY DEF IsChain
  <2> QED BY <2>1
<1>2. ASSUME NEW m \in Nat, m \in T PROVE m + 1 \in T
  <2>1. PICK g : IsChain(g, m)
    BY <1>2
  <2> DEFINE h == [k \in 0..(m + 1) |->
                     IF k <= m THEN g[k] ELSE IF g[m] = None THEN None ELSE prev[g[m]]]
  <2>2. IsChain(h, m + 1)
    BY <2>1 DEF IsChain
  <2> HIDE DEF h
  <2> QED BY <2>2
<1>3. Nat \subseteq T
  <2> HIDE DEF T
  <2> QED BY <1>1, <1>2, AllNaturals
<1> QED BY <1>3

\* Walk is this chain, reversed, up to where it meets start.
LEMMA WalkIsChain ==
  \E g : /\ IsChain(g, N)
         /\ Walk = LET len == Least({k \in 0..N : g[k] = start} \cup {N + 1})
                   IN  [k \in 1..len |-> g[len - k]]
<1> DEFINE Follows(g) ==
             g = [k \in 0..N |-> IF k = 0 THEN prev[start]
                                 ELSE IF g[k - 1] = None THEN None ELSE prev[g[k - 1]]]
           g0 == CHOOSE g : Follows(g)
<1>1. N \in Nat
  BY InfFacts
<1>2. PICK h : IsChain(h, N)
  BY <1>1, ChainExists
<1> DEFINE h0 == [k \in 0..N |-> h[k]]
<1>3. Follows(h0)
  BY <1>1, <1>2 DEF IsChain
<1>4. Follows(g0)
  BY <1>3
<1>5. IsChain(g0, N)
  <2> HIDE DEF g0
  <2> SUFFICES ASSUME NEW g, Follows(g) PROVE IsChain(g, N)
    BY <1>4
  <2>1. DOMAIN g = 0..N
    OBVIOUS
  <2>2. g[0] = prev[start]
    BY <1>1
  <2>3. ASSUME NEW k \in 1..N
        PROVE  g[k] = IF g[k - 1] = None THEN None ELSE prev[g[k - 1]]
    <3>1. k \in 0..N /\ k # 0
      BY <1>1
    <3> QED BY <3>1
  <2> QED BY <2>1, <2>2, <2>3 DEF IsChain
<1>6. Walk = LET len == Least({k \in 0..N : g0[k] = start} \cup {N + 1})
             IN  [k \in 1..len |-> g0[len - k]]
  BY DEF Walk
<1> HIDE DEF g0
<1> QED BY <1>5, <1>6

\* Following prev from the last node leads up the tree, one level at a time.
LEMMA ChainClimbs ==
  ASSUME Inv, BfsInv, pc = "stopped", start = source, NEW g, IsChain(g, N)
  PROVE  \A k \in 0..depth[current] : g[k] \in Tree /\ depth[g[k]] = depth[current] - k
<1> DEFINE d == depth[current]
           T == {k \in Nat : k <= d => g[k] \in Tree /\ depth[g[k]] = d - k}
<1>1. /\ DepthsOK /\ QueueInOrder /\ prev[source] = current
      /\ Handled \in SUBSET Nodes /\ source \in Nodes
  BY HandledFinite DEF BfsInv, Fresh, Running
<1>2. current \in Tree /\ Tree \subseteq Nodes /\ depth \in [Nodes -> Nat] /\ N \in Nat
  BY <1>1, InfFacts DEF QueueInOrder, DepthsOK, Tree
<1>3. d \in Nat /\ d <= N - 1
  <2>1. d <= Cardinality(Handled) /\ Cardinality(Handled) <= N - 1
        /\ Cardinality(Handled) \in Nat
    BY <1>1, <1>2, HandledFinite DEF DepthsOK, Running
  <2> QED BY <1>2, <2>1
<1> HIDE DEF d
<1>4. 0 \in T
  BY <1>1, <1>2, <1>3 DEF IsChain, d
<1>5. ASSUME NEW k \in Nat, k \in T PROVE k + 1 \in T
  <2> SUFFICES ASSUME k + 1 <= d
               PROVE  g[k + 1] \in Tree /\ depth[g[k + 1]] = d - (k + 1)
    OBVIOUS
  <2>1. g[k] \in Tree /\ depth[g[k]] = d - k
    BY <1>3, <1>5
  <2>2. g[k] \in Handled
    BY <1>1, <1>3, <2>1 DEF Tree, DepthsOK
  <2>3. /\ prev[g[k]] \in Tree /\ depth[g[k]] = depth[prev[g[k]]] + 1
        /\ depth[prev[g[k]]] \in Nat
    BY <1>1, <1>2, <2>2 DEF DepthsOK
  <2>4. g[k + 1] = prev[g[k]]
    <3>1. k + 1 \in 1..N /\ (k + 1) - 1 = k
      BY <1>2, <1>3
    <3>2. g[k] # None
      BY <1>2, <2>1 DEF None, Nodes
    <3> QED BY <3>1, <3>2 DEF IsChain
  <2> QED BY <1>3, <2>1, <2>3, <2>4
<1>6. Nat \subseteq T
  <2> HIDE DEF T
  <2> QED BY <1>4, <1>5, AllNaturals
<1> QED BY <1>3, <1>6 DEF d

\* The cycle of a stopped search: down the tree to the current node, and back.
LEMMA WalkShape ==
  ASSUME Inv, BfsInv, pc = "stopped", start = source
  PROVE  \E d \in Nat :
           /\ d = depth[current] /\ Walk \in [1..d -> Tree] /\ Walk \in Seq(Nodes)
           /\ \A k \in 1..d : /\ depth[Walk[k]] = k /\ Walk[k] \in Handled
                              /\ prev[Walk[k]] = IF k = 1 THEN source ELSE Walk[k - 1]
           /\ d > 0 => Walk[d] = current
           /\ d = 0 => current = source
<1> DEFINE d == depth[current]
<1>1. PICK g : /\ IsChain(g, N)
               /\ Walk = LET len == Least({k \in 0..N : g[k] = start} \cup {N + 1})
                         IN  [k \in 1..len |-> g[len - k]]
  BY WalkIsChain
<1>2. /\ DepthsOK /\ QueueInOrder /\ prev[source] = current
      /\ Handled \in SUBSET Nodes /\ source \in Nodes
  BY HandledFinite DEF BfsInv, Fresh, Running
<1>3. current \in Tree /\ Tree \subseteq Nodes /\ depth \in [Nodes -> Nat] /\ N \in Nat
  BY <1>2, InfFacts DEF QueueInOrder, DepthsOK, Tree
<1>4. d \in Nat /\ d <= N - 1
  <2>1. d <= Cardinality(Handled) /\ Cardinality(Handled) <= N - 1
        /\ Cardinality(Handled) \in Nat
    BY <1>2, <1>3, HandledFinite DEF DepthsOK, Running
  <2> QED BY <1>3, <2>1
<1>5. \A k \in 0..d : g[k] \in Tree /\ depth[g[k]] = d - k
  BY <1>1, ChainClimbs
<1>6. g[0] = current /\ \A k \in 1..N : g[k - 1] # None => g[k] = prev[g[k - 1]]
  BY <1>1, <1>2 DEF IsChain
<1>7. \A x \in Tree : (depth[x] = 0 <=> x = source) /\ (x # source <=> x \in Handled)
  <2>1. depth[source] = 0 /\ source \notin Handled
    BY <1>2 DEF DepthsOK, Handled
  <2>2. \A x \in Handled : depth[x] # 0
    BY <1>2, <1>3 DEF DepthsOK
  <2> QED BY <2>1, <2>2 DEF Tree
<1> HIDE DEF d
<1>8. {k \in 0..N : g[k] = start} \cup {N + 1} \in SUBSET Nat
  BY <1>3
<1>9. Least({k \in 0..N : g[k] = start} \cup {N + 1}) = d
  <2> DEFINE S == {k \in 0..N : g[k] = start} \cup {N + 1}
  <2>1. d \in S
    <3>1. g[d] \in Tree /\ depth[g[d]] = 0
      BY <1>4, <1>5
    <3> QED BY <1>3, <1>4, <1>7, <3>1
  <2>2. \A k \in S : d <= k
    <3> SUFFICES ASSUME NEW k \in S, k < d PROVE FALSE
      BY <1>3, <1>4
    <3>1. k \in 0..d /\ g[k] = source
      BY <1>3, <1>4
    <3>2. depth[g[k]] = d - k /\ depth[source] = 0
      BY <1>2, <1>5, <3>1 DEF DepthsOK
    <3> QED BY <1>4, <3>1, <3>2
  <2>3. \A x \in S : (\A y \in S : x <= y) => x = d
    <3>1. \A x \in S : x \in Nat
      BY <1>8
    <3> HIDE DEF S
    <3> QED BY <2>1, <2>2, <3>1, <1>4
  <2> HIDE DEF S
  <2> QED BY <2>1, <2>2, <2>3 DEF Least, S
<1>10. Walk = [k \in 1..d |-> g[d - k]]
  BY <1>1, <1>9
<1>11. \A k \in 1..d : d - k \in 0..d /\ Walk[k] = g[d - k]
  BY <1>4, <1>10
<1>12. Walk \in [1..d -> Tree] /\ Walk \in Seq(Nodes)
  <2>1. Walk \in [1..d -> Tree]
    BY <1>5, <1>10, <1>11
  <2> QED BY <1>3, <1>4, <2>1
<1>13. ASSUME NEW k \in 1..d
       PROVE  /\ depth[Walk[k]] = k /\ Walk[k] \in Handled
              /\ prev[Walk[k]] = IF k = 1 THEN source ELSE Walk[k - 1]
  <2>1. d - k \in 0..d /\ Walk[k] = g[d - k] /\ depth[g[d - k]] = k /\ g[d - k] \in Tree
    BY <1>4, <1>5, <1>11
  <2>2. Walk[k] \in Handled
    BY <1>7, <2>1
  <2>3. prev[Walk[k]] = g[d - (k - 1)]
    <3>1. d - (k - 1) \in 1..N /\ (d - (k - 1)) - 1 = d - k
      BY <1>3, <1>4
    <3>2. g[d - k] # None
      BY <1>3, <2>1 DEF None, Nodes
    <3> QED BY <1>6, <2>1, <3>1, <3>2
  <2>4. k # 1 => Walk[k - 1] = g[d - (k - 1)]
    BY <1>4, <1>11
  <2>5. k = 1 => g[d - (k - 1)] = source
    <3>1. g[d] \in Tree /\ depth[g[d]] = 0
      BY <1>4, <1>5
    <3> QED BY <1>4, <1>7, <3>1
  <2> QED BY <2>1, <2>2, <2>3, <2>4, <2>5
<1>14. d > 0 => Walk[d] = current
  BY <1>4, <1>6, <1>11
<1>15. d = 0 => current = source
  BY <1>3, <1>7 DEF d
<1> QED BY <1>4, <1>12, <1>13, <1>14, <1>15 DEF d

\* The nodes on the way back from the last node, with the source behind them,
\* are a cycle without a short cut.
LEMMA StoppedCycle ==
  ASSUME Inv, BfsInv, pc = "stopped", start = source
  PROVE  RightCycle(Append(Walk, start), start) /\ Append(Walk, start) \in Seq(Nodes)
<1> DEFINE c == Append(Walk, start)
<1>1. PICK d \in Nat :
           /\ d = depth[current] /\ Walk \in [1..d -> Tree] /\ Walk \in Seq(Nodes)
           /\ \A k \in 1..d : /\ depth[Walk[k]] = k /\ Walk[k] \in Handled
                              /\ prev[Walk[k]] = IF k = 1 THEN source ELSE Walk[k - 1]
           /\ d > 0 => Walk[d] = current
           /\ d = 0 => current = source
  BY WalkShape
<1>2. /\ DepthsOK /\ QueueInOrder /\ EdgesSettled /\ source \in graph[current]
      /\ Handled \in SUBSET Nodes /\ source \in Nodes
  BY HandledFinite DEF BfsInv, Fresh, Running
<1>3. Len(Walk) = d
  BY <1>1
<1>4. /\ c \in Seq(Nodes) /\ Len(c) = d + 1 /\ DOMAIN c = 1..(d + 1) /\ c[d + 1] = source
      /\ \A k \in 1..d : c[k] = Walk[k]
  BY <1>1, <1>2, <1>3
<1> HIDE DEF c
<1>5. \A k \in 1..d : /\ depth[c[k]] = k /\ c[k] \in Handled /\ c[k] \in Tree
                      /\ prev[c[k]] = IF k = 1 THEN source ELSE c[k - 1]
                      /\ c[k] # source
  <2>1. source \notin Handled
    BY <1>2 DEF DepthsOK, Handled
  <2> SUFFICES ASSUME NEW k \in 1..d
               PROVE  /\ depth[c[k]] = k /\ c[k] \in Handled /\ c[k] \in Tree
                      /\ prev[c[k]] = IF k = 1 THEN source ELSE c[k - 1]
                      /\ c[k] # source
    OBVIOUS
  <2>2. k # 1 => k - 1 \in 1..d
    OBVIOUS
  <2> QED BY <1>1, <1>4, <2>1, <2>2 DEF Tree
<1>6. IsCycle(c)
  <2> SUFFICES ASSUME NEW i \in 1..(d + 1)
               PROVE  c[i] \in graph[c[IF i = 1 THEN Len(c) ELSE i - 1]]
    BY <1>4 DEF IsCycle
  <2>1. CASE i = d + 1
    <3>1. CASE d = 0
      BY <1>1, <1>2, <1>4, <2>1, <3>1
    <3>2. CASE d > 0
      <4>1. c[d] = current /\ i # 1 /\ i - 1 = d
        BY <1>1, <1>4, <2>1, <3>2
      <4> QED BY <1>2, <1>4, <2>1, <4>1
    <3> QED BY <3>1, <3>2
  <2>2. CASE i # d + 1
    <3>1. i \in 1..d
      BY <2>2
    <3>2. c[i] \in graph[prev[c[i]]]
      BY <1>2, <1>5, <3>1 DEF DepthsOK
    <3>3. prev[c[i]] = IF i = 1 THEN source ELSE c[i - 1]
      BY <1>5, <3>1
    <3> QED BY <1>4, <3>2, <3>3
  <2> QED BY <2>1, <2>2
<1>7. ASSUME NEW i \in DOMAIN c, NEW j \in DOMAIN c, i # j PROVE c[i] # c[j]
  <2>1. \A k \in 1..(d + 1) : k \in 1..d \/ k = d + 1
    OBVIOUS
  <2>2. CASE i \in 1..d /\ j \in 1..d
    BY <1>5, <1>7, <2>2
  <2>3. CASE i = d + 1 \/ j = d + 1
    BY <1>4, <1>5, <1>7, <2>1, <2>3
  <2> QED BY <1>4, <2>1, <2>2, <2>3
<1>8. ASSUME NEW i \in DOMAIN c, NEW j \in DOMAIN c, i + 1 < j
      PROVE  c[j] \notin graph[c[i]]
  <2>1. i \in 1..d /\ i < d /\ i \in Nat /\ j \in Nat /\ j <= d + 1
    BY <1>4, <1>8
  <2>2. c[i] # current /\ c[i] \in Tree /\ depth[c[i]] = i
    BY <1>1, <1>5, <2>1
  <2>3. Unfollowed(c[i]) = {}
    BY <2>2 DEF Unfollowed
  <2> SUFFICES ASSUME c[j] \in graph[c[i]] PROVE FALSE
    OBVIOUS
  <2>4. c[j] # source /\ (c[j] \in Handled => depth[c[j]] <= depth[c[i]] + 1)
    BY <1>2, <2>2, <2>3 DEF EdgesSettled
  <2>5. j \in 1..d
    BY <1>4, <1>8, <2>1, <2>4
  <2>6. depth[c[j]] = j /\ c[j] \in Handled
    BY <1>5, <2>5
  <2> QED BY <1>8, <2>1, <2>2, <2>4, <2>6
<1>9. c # <<>> /\ c[Len(c)] = start
  BY <1>4
<1> QED BY <1>4, <1>6, <1>7, <1>8, <1>9 DEF RightCycle, c

\* What get_cycle returns for a start, and when it returns nothing.
LEMMA CyclesCollect ==
  ASSUME Inv, CyclesInv, CollectCycle
  PROVE  CyclesInv'
<1>1. /\ client = "cycle" /\ Ended /\ NextStart /\ UNCHANGED <<graph, client>>
      /\ cycles' = IF prev[start] = None THEN cycles
                   ELSE Append(cycles, Append(Walk, start))
  BY DEF CollectCycle, input
<1>2. /\ Running /\ source = start /\ BfsInv /\ cycles \in Seq(Seq(Nodes))
      /\ CyclesBefore(start) /\ pc # "done"
  BY <1>1 DEF CyclesInv, Ended, Running
<1>3. start \in Nodes /\ GraphOK /\ Nodes \subseteq Nat
  BY <1>1, <1>2, NAssumption DEF Inv, TypeInv, Nodes
<1>4. start' = start + 1 /\ pc' \in {"begin", "done"} /\ (pc' = "done" => start = N)
  BY <1>1 DEF NextStart
<1>5. ~Running' /\ (pc' = "done" => start' = N + 1)
  BY <1>4 DEF Running
<1>6. \A c, n : RightCycle(c, n)' <=> RightCycle(c, n)
  BY <1>1 DEF RightCycle, IsCycle
<1>7. CASE prev[start] = None
  <2>1. pc = "pop" /\ todo = <<>> /\ cycles' = cycles
    <3>1. pc # "stopped"
      <4>1. pc = "stopped" => current \in Nodes
        BY <1>2, HandledFinite DEF BfsInv, QueueInOrder, Fresh, Tree
      <4> QED BY <1>2, <1>7, <4>1 DEF BfsInv, None, Nodes
    <3> QED BY <1>1, <1>7, <3>1 DEF Ended
  <2>2. seen = Reached(start) /\ source \notin seen
    BY <1>2, <2>1, EmptyQueue DEF BfsInv, DepthsOK
  <2>3. ~Reaches(graph, start, start)
    BY <1>2, <1>3, <2>2 DEF Reached, ReachableFrom, GraphOK
  <2>4. \A n \in Nodes : n < start + 1 /\ Reaches(graph, n, n) => n < start
    BY <1>3, <2>3
  <2>5. \A n \in Nodes : n < start => n < start + 1
    BY <1>3
  <2>6. CyclesBefore(start)'
    BY <1>1, <1>2, <1>4, <1>6, <2>1, <2>4, <2>5 DEF CyclesBefore
  <2> QED BY <1>2, <1>5, <2>1, <2>6 DEF CyclesInv
<1>8. CASE prev[start] # None
  <2> DEFINE c == Append(Walk, start)
             l == Len(cycles)
  <2>1. pc = "stopped"
    BY <1>1, <1>2, <1>8 DEF BfsInv, Ended
  <2>2. RightCycle(c, start) /\ c \in Seq(Nodes)
    BY <1>2, <2>1, StoppedCycle
  <2>3. Reaches(graph, start, start)
    <3>1. source \in graph[current] /\ current \in Tree
      BY <1>2, <2>1 DEF BfsInv, QueueInOrder, Fresh
    <3>2. current \in Reached(source) \cup {source}
      BY <1>2, <3>1 DEF Tree, Handled, Inv, TraversalInv, SeenInv
    <3>3. source \in Reached(source)
      BY <1>2, <1>3, <3>1, <3>2, ReachedGrows
    <3> QED BY <1>2, <3>3 DEF Reached, ReachableFrom
  <2>4. cycles' = Append(cycles, c)
    BY <1>1, <1>8
  <2> HIDE DEF c
  <2>5. /\ cycles' \in Seq(Seq(Nodes)) /\ DOMAIN cycles' = 1..(l + 1) /\ l \in Nat
        /\ DOMAIN cycles = 1..l /\ cycles'[l + 1] = c
        /\ \A k \in 1..l : cycles'[k] = cycles[k]
    BY <1>2, <2>2, <2>4
  <2> HIDE DEF l
  <2>6. ASSUME NEW n \in Nodes, n < start + 1, Reaches(graph, n, n)
        PROVE  \E k \in DOMAIN cycles' : RightCycle(cycles'[k], n)
    <3>1. CASE n = start
      BY <2>2, <2>5, <3>1
    <3>2. CASE n # start
      <4>1. n < start
        BY <1>3, <2>6, <3>2
      <4>2. PICK k \in DOMAIN cycles : RightCycle(cycles[k], n)
        BY <1>2, <2>6, <4>1 DEF CyclesBefore
      <4> QED BY <2>5, <4>2
    <3> QED BY <3>1, <3>2
  <2>7. ASSUME NEW k \in DOMAIN cycles'
        PROVE  \E n \in Nodes : /\ n < start + 1 /\ Reaches(graph, n, n)
                              /\ RightCycle(cycles'[k], n)
    <3>1. CASE k = l + 1
      BY <1>3, <2>2, <2>3, <2>5, <3>1
    <3>2. CASE k # l + 1
      <4>1. k \in DOMAIN cycles /\ cycles'[k] = cycles[k]
        BY <2>5, <3>2
      <4>2. PICK n \in Nodes : n < start /\ Reaches(graph, n, n) /\ RightCycle(cycles[k], n)
        BY <1>2, <4>1 DEF CyclesBefore
      <4> QED BY <1>3, <4>1, <4>2
    <3> QED BY <3>1, <3>2
  <2>8. CyclesBefore(start)'
    BY <1>1, <1>4, <1>6, <2>6, <2>7 DEF CyclesBefore
  <2> QED BY <1>5, <2>5, <2>8 DEF CyclesInv
<1> QED BY <1>7, <1>8

\* Every step keeps the invariant of the starts that are done.
LEMMA CyclesStep == Inv /\ Inv' /\ CyclesInv /\ [Next]_vars => CyclesInv'
<1> SUFFICES ASSUME Inv, Inv', CyclesInv, [Next]_vars PROVE CyclesInv'
  OBVIOUS
<1>0. client' = client
  BY DEF Next, vars, input, BeginTraversal, Pop, Expand, EndOfNode, CollectTransitive,
         CollectCycle, CheckTargets, CallOuter, CallInner, Return, NoCycle
<1> SUFFICES ASSUME client = "cycle" PROVE CyclesInv'
  BY <1>0 DEF CyclesInv
<1>1. ASSUME UNCHANGED <<graph, client, start, cycles>>, pc' # "done",
             Running' => source' = start' /\ BfsInv'
      PROVE  CyclesInv'
  <2>1. \A c, n : RightCycle(c, n)' <=> RightCycle(c, n)
    BY <1>1 DEF RightCycle, IsCycle
  <2>2. CyclesBefore(start)'
    BY <1>1, <2>1 DEF CyclesInv, CyclesBefore
  <2> QED BY <1>1, <2>2 DEF CyclesInv
<1>2. CASE BeginTraversal
  <2>1. /\ Begin(start) /\ UNCHANGED <<graph, client, start, cycles>> /\ pc = "begin"
    BY <1>2 DEF BeginTraversal, input, results
  <2>2. start \in Nodes /\ pc' = "pop"
    BY <2>1 DEF Inv, TypeInv, Begin
  <2>3. BfsInv' /\ source' = start
    BY <1>0, <2>1, <2>2, BfsBegin
  <2> QED BY <1>1, <2>1, <2>2, <2>3
<1>3. CASE Pop
  <2>1. /\ UNCHANGED <<graph, client, start, source, cycles>> /\ pc = "pop"
        /\ pc' \in {"expand", "stopped"}
    BY <1>3 DEF Pop, input, results
  <2>2. source = start /\ BfsInv
    BY <2>1 DEF CyclesInv, Running
  <2>3. BfsInv'
    BY <1>3, <2>2, BfsPop
  <2> QED BY <1>1, <2>1, <2>2, <2>3
<1>4. CASE Expand
  <2>1. /\ UNCHANGED <<graph, client, start, source, cycles>> /\ pc = "expand"
        /\ pc' \in {"expand", "stopped"}
    BY <1>4 DEF Expand, input, results
  <2>2. source = start /\ BfsInv
    BY <2>1 DEF CyclesInv, Running
  <2>3. BfsInv'
    BY <1>4, <2>2, BfsExpand
  <2> QED BY <1>1, <2>1, <2>2, <2>3
<1>5. CASE EndOfNode
  <2>1. /\ UNCHANGED <<graph, client, start, source, cycles>> /\ pc = "expand"
        /\ pc' = "pop"
    BY <1>5 DEF EndOfNode, input, results
  <2>2. source = start /\ BfsInv
    BY <2>1 DEF CyclesInv, Running
  <2>3. BfsInv'
    BY <1>5, <2>2, BfsEndOfNode
  <2> QED BY <1>1, <2>1, <2>2, <2>3
<1>6. CASE CollectCycle
  BY <1>6, CyclesCollect
<1>7. CASE UNCHANGED vars
  <2>1. UNCHANGED <<graph, client, pc, start, source, todo, seen, current, pending,
                    depth, prev, cycles>>
    BY <1>7 DEF vars
  <2>2. \A c, n : RightCycle(c, n)' <=> RightCycle(c, n)
    BY <2>1 DEF RightCycle, IsCycle
  <2>3. CyclesBefore(start)'
    BY <2>1, <2>2 DEF CyclesInv, CyclesBefore
  <2>4. Running' => Running /\ BfsInv'
    <3>1. /\ (Running' <=> Running) /\ (Fresh' <=> Fresh)
          /\ Handled' = Handled /\ Tree' = Tree
          /\ \A x : Unfollowed(x)' = Unfollowed(x)
      BY <2>1 DEF Running, Fresh, Handled, Tree, Unfollowed
    <3>2. DepthsOK' <=> DepthsOK
      BY <2>1, <3>1 DEF DepthsOK
    <3>3. QueueInOrder' <=> QueueInOrder
      BY <2>1, <3>1 DEF QueueInOrder
    <3>4. EdgesSettled' <=> EdgesSettled
      BY <2>1, <3>1 DEF EdgesSettled
    <3> QED BY <2>1, <3>1, <3>2, <3>3, <3>4 DEF CyclesInv, BfsInv
  <2> QED BY <2>1, <2>3, <2>4 DEF CyclesInv
<1>8. ~(CollectTransitive \/ CheckTargets)
  BY DEF CollectTransitive, CheckTargets
<1>9. ~(CallOuter \/ CallInner \/ Return \/ NoCycle)
  BY DEF Inv, TypeInv, CallOuter, CallInner, Return, NoCycle
<1> QED BY <1>2, <1>3, <1>4, <1>5, <1>6, <1>7, <1>8, <1>9 DEF Next

(***************************************************************************)
(* In any graph: when get_cycles is done, it has one list of nodes for     *)
(* every node that lies on a cycle and no other (get_cycle.cc:60); each    *)
(* list follows the edges and ends with its start, no node is in it twice, *)
(* and no edge leads from one of its nodes further ahead than to the next. *)
(***************************************************************************)
THEOREM CyclesFound == Spec => []FindsCycles
<1>1. Init => CyclesInv
  <2> SUFFICES ASSUME Init, client = "cycle" PROVE CyclesInv
    BY DEF CyclesInv
  <2>1. \A n \in Nodes : ~(n < 1)
    BY NAssumption DEF Nodes
  <2>2. cycles = <<>> /\ start = 1 /\ pc = "begin"
    BY DEF Init
  <2>3. CyclesBefore(start)
    BY <2>1, <2>2 DEF CyclesBefore
  <2> QED BY <2>2, <2>3 DEF CyclesInv, Running
<1>2. CyclesInv => FindsCycles
  <2> SUFFICES ASSUME CyclesInv, client = "cycle", pc = "done"
               PROVE  /\ {c[Len(c)] : c \in {cycles[i] : i \in DOMAIN cycles}} =
                           {n \in Nodes : Reaches(graph, n, n)}
                      /\ \A k \in DOMAIN cycles :
                           /\ IsCycle(cycles[k])
                           /\ \A i, j \in DOMAIN cycles[k] :
                                /\ i # j => cycles[k][i] # cycles[k][j]
                                /\ i + 1 < j => cycles[k][j] \notin graph[cycles[k][i]]
    BY DEF FindsCycles
  <2>1. CyclesBefore(N + 1) /\ \A n \in Nodes : n < N + 1
    BY NAssumption DEF CyclesInv, Nodes
  <2>2. \A n : n \in {c[Len(c)] : c \in {cycles[i] : i \in DOMAIN cycles}}
               <=> \E k \in DOMAIN cycles : n = cycles[k][Len(cycles[k])]
    OBVIOUS
  <2>3. \A k \in DOMAIN cycles : \E n \in Nodes :
          Reaches(graph, n, n) /\ RightCycle(cycles[k], n)
    BY <2>1 DEF CyclesBefore
  <2>4. \A n \in Nodes : Reaches(graph, n, n) =>
          \E k \in DOMAIN cycles : RightCycle(cycles[k], n)
    BY <2>1 DEF CyclesBefore
  <2>5. \A c, n : RightCycle(c, n) => n = c[Len(c)]
    BY DEF RightCycle
  <2>6. {c[Len(c)] : c \in {cycles[i] : i \in DOMAIN cycles}} =
          {n \in Nodes : Reaches(graph, n, n)}
    BY <2>2, <2>3, <2>4, <2>5
  <2>7. \A c, n : RightCycle(c, n) =>
          /\ IsCycle(c)
          /\ \A i, j \in DOMAIN c : /\ i # j => c[i] # c[j]
                                    /\ i + 1 < j => c[j] \notin graph[c[i]]
    BY DEF RightCycle
  <2> QED BY <2>3, <2>6, <2>7
<1> QED BY <1>1, <1>2, CyclesStep, Invariant, PTL DEF Spec

=============================================================================
